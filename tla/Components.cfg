CONSTANTS
    None = None
    MaxJsonTokens = 7
    MaxXmlTokens = 5
    MaxNodes = 4
    MaxMembers = 2
    MaxArity = 2
    Names <- OneName
    Volumes = {"v"}
    Umask = {"g"}
    MaxHops = 3
    MaxOps = 3
    MaxHandles = 2
    MaxLength = 5
    MaxRequests = 3
    MaxTime = 2
    Client = {c1}
    Item = {i1, i2}
SPECIFICATION Behaviour
INVARIANTS Transactional ParsersAgree WrittenBack RoundTrip BuiltTree
    TransferSound ChangesConfined AtomicReplacement PathKeepsPlace DescriptorsSound ResumedOnce ProcessSound
    TimersExact
\* Callers and programs may stop.
CHECK_DEADLOCK FALSE
