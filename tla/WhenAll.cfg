CONSTANTS
    r1 = r1  k1 = k1  w1 = w1  w2 = w2
    None = None
    Components = {"combinator"}
    Canceler = canceler
    Root <- OneRoot
    Child <- NoChild
    RootOf <- ChildOfFirst
    Worker <- TwoWorkers
    MaxYields = 0
    MayCancel = FALSE
    Uses <- DetachOnly
SPECIFICATION FairCombinator
PROPERTY WhenAllCompletes
\* The program ends when the combinator is done.
CHECK_DEADLOCK FALSE
