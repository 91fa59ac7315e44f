CONSTANTS
    None = None
    NumWorkers = 1
    Client = {c1}
    Item = {i1, i2}
    MaxTime = 1
    MaxCancels = 1
SPECIFICATION Spec
INVARIANT CancelAllDiscards
\* Clients may stop calling, and do once every item has been submitted.
CHECK_DEADLOCK FALSE
