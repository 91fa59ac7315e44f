CONSTANTS
    None = None
    Components = {"files"}
    Volumes = {"v"}
    Umask = {"g"}
    MaxHops = 3
    MaxOps = 3
    MaxHandles = 2
    MaxLength = 5
    MaxRequests = 3
    MaxTime = 3
SPECIFICATION Spec
INVARIANT MoveLosesNothing
\* Programs may stop.
CHECK_DEADLOCK FALSE
