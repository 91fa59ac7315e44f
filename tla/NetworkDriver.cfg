CONSTANTS
    p1 = p1  p2 = p2  w1 = w1  w2 = w2  s1 = s1  f1 = f1
    None = None
    Canceler = canceler
    Poller <- TwoPollers
    Waiter <- TwoWaiters
    Socket <- OneSocket
    Fd <- OneFd
    HandleOf <- SameSocket
    Wants <- AllWants
    Programs <- FewThreads
    MaxOpens = 1
    ReopenBusy = FALSE
SPECIFICATION FairSpec
INVARIANTS ResumedOnce InterestExact
PROPERTIES WaitEnds CancelReaches
\* The program may stop calling, and the driver may be stopped.
CHECK_DEADLOCK FALSE
