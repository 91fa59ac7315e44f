CONSTANTS
    r1 = r1  k1 = k1  w1 = w1  w2 = w2
    None = None
    Components = {"task", "combinator"}
    Canceler = canceler
    Root <- OneRoot
    Child <- OneChild
    RootOf <- ChildOfFirst
    Worker <- TwoWorkers
    MaxYields = 1
    MayCancel = TRUE
    Uses <- WaitOrDetach
SPECIFICATION Async
INVARIANTS OneActivation SuccessIsGenuine CombinatorsExact
PROPERTIES SyncWaitReturns
\* The program ends when every root or the combinator is done.
CHECK_DEADLOCK FALSE
