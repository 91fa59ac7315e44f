CONSTANTS
    None = None
    Components = {"vector"}
    k1 = k1
    k2 = k2
    Key <- TwoKeys
    KeyHash <- Hashes
    MinBuckets = 1
    Reserved <- FirstCapacity
    Policies <- AllPolicies
    MaxOps = 3
    MaxObjects = 9
    Writer = {w1, w2}
    Reader = {r1}
    Thread = {t1, t2}
    Ctrl = {c1, c2}
SPECIFICATION Spec
SYMMETRY Symmetry
INVARIANT BasicGuarantee
\* Programs may stop.
CHECK_DEADLOCK FALSE
