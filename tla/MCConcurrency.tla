---------------------------- MODULE MCConcurrency ----------------------------
(***************************************************************************)
(* The ticket lock and two linked cancellation sources, side by side: a    *)
(* behaviour is one of the two, and the other stays as it began.           *)
(*                                                                         *)
(* Three threads draw tickets from counters of four values: the counters   *)
(* wrap and every interleaving of Lock(), TryLock() and Unlock() is met on *)
(* both sides of the wrap.  A parent source s1 and a child s2: k1 cancels  *)
(* the child when the parent is cancelled, k2 has a handle.                *)
(***************************************************************************)
EXTENDS TicketLock, Cancellation
CONSTANTS t1, t2, t3, s1, s2, r1, r2, r3, k1, k2
VARIABLE component

ThreeThreads == {t1, t2, t3}
TwoSources == {s1, s2}
ThreeObjects == {r1, r2, r3}
FirstTwo == {r1, r2}
TwoSubscriptions == {k1, k2}
FirstLinks == [k \in TwoSubscriptions |-> IF k = k1 THEN s2 ELSE None]
SecondResumes == {k2}

Begin == component \in {"lock", "cancellation"} /\ Init /\ CancellationInit
LockSteps == component = "lock" /\ Next /\ UNCHANGED <<component, cancellation>>
CancellationSteps == component = "cancellation" /\ CancellationNext /\ UNCHANGED <<component, vars>>

Concurrency ==
    /\ Begin
    /\ [][LockSteps \/ CancellationSteps]_<<component, vars, cancellation>>
    /\ Fairness
    /\ CancellationFairness
=============================================================================
