-------------------------- MODULE MCNetworkDriver --------------------------
(* Model values for the network driver.                                     *)
EXTENDS NetworkDriver
CONSTANTS p1, p2, w1, w2, s1, f1
TwoPollers == {p1, p2}
TwoWaiters == {w1, w2}
OneSocket == {s1}
OneFd == {f1}
SameSocket == [w \in {w1, w2} |-> s1]
BothRead == [w \in {w1, w2} |-> "read"]
ReadAndWrite == [w \in {w1, w2} |-> IF w = w1 THEN "read" ELSE "write"]
\* Two waiters with a polling thread or with a cancelling one, and one waiter
\* for which two polling threads and the cancelling one race.
FewThreads == {{p1, w1, w2}, {w1, w2, Canceler}, {p1, p2, w1, Canceler}}
NoCancel == {{p1, w1, w2}}
AllWants == {BothRead, ReadAndWrite}
=============================================================================
