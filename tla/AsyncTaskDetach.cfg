CONSTANTS
    r1 = r1  k1 = k1  w1 = w1  w2 = w2
    None = None
    Components = {"task"}
    Canceler = canceler
    Root <- OneRoot
    Child <- NoChild
    RootOf <- ChildOfFirst
    Worker <- TwoWorkers
    MaxYields = 0
    MayCancel = FALSE
    Uses <- DetachOnly
SPECIFICATION Async
PROPERTY DetachedFreed
\* The program ends when every root is done.
CHECK_DEADLOCK FALSE
