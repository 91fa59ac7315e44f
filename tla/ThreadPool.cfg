CONSTANTS
    None = None
    NumWorkers = 2
    Client = {c1}
    Item = {i1, i2}
    MaxTime = 0
    MaxCancels = 0
SPECIFICATION UntimedFairSpec
INVARIANTS ExactlyOnce NoSleepOnWork CleanShutdown
PROPERTIES EventuallyHandled ShutdownTerminates
\* Clients may stop calling, and do once every item has been submitted.
CHECK_DEADLOCK FALSE
