CONSTANTS
    None = None
    t1 = t1  t2 = t2  t3 = t3
    s1 = s1  s2 = s2  r1 = r1  r2 = r2  r3 = r3  k1 = k1  k2 = k2
    Thread <- ThreeThreads
    Width = 4
    MaxTickets = 6
    Source <- TwoSources
    Reg <- ThreeObjects
    Fillable <- FirstTwo
    Sub <- TwoSubscriptions
    Link <- FirstLinks
    Resumes <- SecondResumes
    MaxUses = 1
    MaxMoves = 1
SPECIFICATION Concurrency
INVARIANTS MutualExclusion AtMostOnce NothingOverlooked
PROPERTIES ImplementsFifo NoStarvation CancelReaches CancelTerminates
\* Threads and owners may stop calling, and do when the tickets are used up.
CHECK_DEADLOCK FALSE
