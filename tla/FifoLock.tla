------------------------------ MODULE FifoLock ------------------------------
(***************************************************************************)
(* What a first-come-first-served lock promises, with no mention of        *)
(* tickets: the callers stand in one line, only the head of the line is    *)
(* let in, and a caller that does not want to wait joins an empty line or  *)
(* none.                                                                   *)
(***************************************************************************)
EXTENDS Sequences

CONSTANT Thread

VARIABLES
    line,       \* callers in order of arrival
    inside      \* callers that have been let in and have not left

FInit == line = <<>> /\ inside = {}

Arrive(t) == line' = Append(line, t) /\ UNCHANGED inside

Enter(t) ==
    /\ line # <<>>
    /\ Head(line) = t
    /\ inside' = inside \cup {t}
    /\ UNCHANGED line

TryEnter(t) == line = <<>> /\ line' = <<t>> /\ inside' = inside \cup {t}

Leave(t) ==
    /\ t \in inside
    /\ line # <<>>
    /\ Head(line) = t
    /\ line' = Tail(line)
    /\ inside' = inside \ {t}

FNext == \E t \in Thread : Arrive(t) \/ Enter(t) \/ TryEnter(t) \/ Leave(t)

FSpec == FInit /\ [][FNext]_<<line, inside>>
=============================================================================
