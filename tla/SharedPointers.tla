---------------------------- MODULE SharedPointers ----------------------------
(***************************************************************************)
(* NGIN::Memory::Shared and Ticket: owners and observers of an object that *)
(* share a control block with two atomic counts.  Threads copy, move,      *)
(* assign, lock and release their own handles at the same time; every      *)
(* atomic operation, the destruction of the object and the deallocation of *)
(* the block is a step of its own.  Handles of one thread on one block     *)
(* cannot be told apart: shared[t][c] and tickets[t][c] count them.        *)
(***************************************************************************)
EXTENDS Naturals, FiniteSets

CONSTANTS Thread, Ctrl,
          MaxHandles,   \* handles of a thread
          MaxMade       \* operations that bring a new handle

VARIABLES strong, weak,   \* the counts of a control block
          object,         \* "none", "alive" or "destroyed"
          block,          \* "none", "allocated" or "freed"
          shared, tickets,
          doing,          \* the step a thread is at
          made,
          fault           \* something was used after its life or freed twice

vars == <<strong, weak, object, block, shared, tickets, doing, made, fault>>

Idle == [at |-> "idle", c |-> CHOOSE c \in Ctrl : TRUE, next |-> CHOOSE c \in Ctrl : TRUE, s |-> 0, kind |-> "none"]
\* A step on a control block that is gone.
Touch(c) == fault' = (fault \/ block[c] # "allocated")

Handles(t) == Cardinality({<<c, i>> \in Ctrl \X (1..MaxHandles) : i <= shared[t][c]})
              + Cardinality({<<c, i>> \in Ctrl \X (1..MaxHandles) : i <= tickets[t][c]})
Room(t) == Handles(t) < MaxHandles /\ made < MaxMade

Init ==
    /\ strong = [c \in Ctrl |-> 0]
    /\ weak = [c \in Ctrl |-> 0]
    /\ object = [c \in Ctrl |-> "none"]
    /\ block = [c \in Ctrl |-> "none"]
    /\ shared = [t \in Thread |-> [c \in Ctrl |-> 0]]
    /\ tickets = [t \in Thread |-> [c \in Ctrl |-> 0]]
    /\ doing = [t \in Thread |-> Idle]
    /\ made = 0
    /\ fault = FALSE

(* MakeShared, MakeSharedAs: one allocation for the block and the object.  *)
(* A constructor that throws leaves the block behind, without an owner.    *)
MakeShared(t, c, throws) ==
    /\ doing[t] = Idle /\ Room(t) /\ block[c] = "none"
    /\ block' = [block EXCEPT ![c] = IF throws THEN "lost" ELSE "allocated"]
    /\ object' = [object EXCEPT ![c] = IF throws THEN "none" ELSE "alive"]
    /\ strong' = [strong EXCEPT ![c] = 1]
    /\ weak' = [weak EXCEPT ![c] = 1]
    /\ shared' = IF throws THEN shared ELSE [shared EXCEPT ![t][c] = 1]
    /\ made' = made + 1
    /\ UNCHANGED <<tickets, doing, fault>>

(* MakeSharedAlias: the object is the caller's; the block owns its owner.  *)
(* Without an object there is no block.                                    *)
MakeSharedAlias(t, c, outcome) ==
    /\ doing[t] = Idle /\ Room(t) /\ block[c] = "none"
    /\ made' = made + 1
    /\ IF outcome = "null"
       THEN UNCHANGED <<strong, weak, object, block, shared>>
       ELSE /\ block' = [block EXCEPT ![c] = IF outcome = "throws" THEN "lost" ELSE "allocated"]
            /\ object' = [object EXCEPT ![c] = IF outcome = "throws" THEN "none" ELSE "alive"]
            /\ strong' = [strong EXCEPT ![c] = 1]
            /\ weak' = [weak EXCEPT ![c] = 1]
            /\ shared' = IF outcome = "throws" THEN shared ELSE [shared EXCEPT ![t][c] = 1]
    /\ UNCHANGED <<tickets, doing, fault>>

\* Shared(const Shared&).
CopyShared(t, c) ==
    /\ doing[t] = Idle /\ Room(t) /\ shared[t][c] > 0
    /\ strong' = [strong EXCEPT ![c] = @ + 1]
    /\ shared' = [shared EXCEPT ![t][c] = @ + 1]
    /\ made' = made + 1
    /\ Touch(c)
    /\ UNCHANGED <<weak, object, block, tickets, doing>>

\* Shared(Shared&&) and Ticket(Ticket&&): the handle goes to another thread.
MoveShared(t, u, c) ==
    /\ t # u /\ doing[t] = Idle /\ shared[t][c] > 0 /\ Handles(u) < MaxHandles
    /\ shared' = [shared EXCEPT ![t][c] = @ - 1, ![u][c] = @ + 1]
    /\ UNCHANGED <<strong, weak, object, block, tickets, doing, made, fault>>
MoveTicket(t, u, c) ==
    /\ t # u /\ doing[t] = Idle /\ tickets[t][c] > 0 /\ Handles(u) < MaxHandles
    /\ tickets' = [tickets EXCEPT ![t][c] = @ - 1, ![u][c] = @ + 1]
    /\ UNCHANGED <<strong, weak, object, block, shared, doing, made, fault>>

\* MakeTicket, and Ticket(const Ticket&).
MakeTicket(t, c) ==
    /\ doing[t] = Idle /\ Room(t) /\ shared[t][c] > 0
    /\ weak' = [weak EXCEPT ![c] = @ + 1]
    /\ tickets' = [tickets EXCEPT ![t][c] = @ + 1]
    /\ made' = made + 1
    /\ Touch(c)
    /\ UNCHANGED <<strong, object, block, shared, doing>>
CopyTicket(t, c) ==
    /\ doing[t] = Idle /\ Room(t) /\ tickets[t][c] > 0
    /\ weak' = [weak EXCEPT ![c] = @ + 1]
    /\ tickets' = [tickets EXCEPT ![t][c] = @ + 1]
    /\ made' = made + 1
    /\ Touch(c)
    /\ UNCHANGED <<strong, object, block, shared, doing>>

Goto(t, at) == doing' = [doing EXCEPT ![t].at = at]
\* Shared::Release is over; an assignment goes on with the other handle.
Released(t) == doing' = [doing EXCEPT ![t] = IF @.kind = "assign" THEN [@ EXCEPT !.at = "adopt"] ELSE Idle]

(* Shared::Release.  It ends the life of a handle, or is the first half of *)
(* a copy assignment from another handle of the thread.                    *)
ReleaseShared(t, c) ==
    /\ doing[t] = Idle /\ shared[t][c] > 0
    /\ shared' = [shared EXCEPT ![t][c] = @ - 1]
    /\ \/ doing' = [doing EXCEPT ![t] = [Idle EXCEPT !.at = "release", !.c = c]]
       \/ \E d \in Ctrl : /\ shared'[t][d] > 0
                          /\ doing' = [doing EXCEPT ![t] = [Idle EXCEPT !.at = "release", !.c = c, !.next = d, !.kind = "assign"]]
    /\ UNCHANGED <<strong, weak, object, block, tickets, made, fault>>

\* Mutant: the object goes when one owner is left.
ReleaseStrongEarly(t) ==
    LET c == doing[t].c IN
    /\ doing[t].at = "release"
    /\ strong' = [strong EXCEPT ![c] = @ - 1]
    /\ IF strong[c] <= 2 THEN Goto(t, "destroy") ELSE Released(t)
    /\ Touch(c)
    /\ UNCHANGED <<weak, object, block, shared, tickets, made>>

ReleaseStrong(t) ==
    LET c == doing[t].c IN
    /\ doing[t].at = "release"
    /\ strong' = [strong EXCEPT ![c] = @ - 1]
    /\ IF strong[c] = 1 THEN Goto(t, "destroy") ELSE Released(t)
    /\ Touch(c)
    /\ UNCHANGED <<weak, object, block, shared, tickets, made>>

\* SharedControl::DestroyObject.
DestroyObject(t) ==
    LET c == doing[t].c IN
    /\ doing[t].at = "destroy"
    /\ object' = [object EXCEPT ![c] = "destroyed"]
    /\ fault' = (fault \/ block[c] # "allocated" \/ object[c] # "alive")
    /\ Goto(t, "drop")
    /\ UNCHANGED <<strong, weak, block, shared, tickets, made>>

ReleaseSelfWeak(t) ==
    LET c == doing[t].c IN
    /\ doing[t].at = "drop"
    /\ weak' = [weak EXCEPT ![c] = @ - 1]
    /\ IF weak[c] = 1 THEN Goto(t, "deallocate") ELSE Released(t)
    /\ Touch(c)
    /\ UNCHANGED <<strong, object, block, shared, tickets, made>>

\* SharedControl::DeallocateSelf.
DeallocateSelf(t) ==
    LET c == doing[t].c IN
    /\ doing[t].at = "deallocate"
    /\ block' = [block EXCEPT ![c] = "freed"]
    /\ Touch(c)
    /\ Released(t)
    /\ UNCHANGED <<strong, weak, object, shared, tickets, made>>

\* The second half of the assignment.
Adopt(t) ==
    LET d == doing[t].next IN
    /\ doing[t].at = "adopt"
    /\ strong' = [strong EXCEPT ![d] = @ + 1]
    /\ shared' = [shared EXCEPT ![t][d] = @ + 1]
    /\ doing' = [doing EXCEPT ![t] = Idle]
    /\ Touch(d)
    /\ UNCHANGED <<weak, object, block, tickets, made>>

\* Ticket::Release: the last observer frees the block if there is no owner.
ReleaseTicket(t, c) ==
    /\ doing[t] = Idle /\ tickets[t][c] > 0
    /\ tickets' = [tickets EXCEPT ![t][c] = @ - 1]
    /\ weak' = [weak EXCEPT ![c] = @ - 1]
    /\ doing' = [doing EXCEPT ![t] = IF weak[c] = 1 THEN [Idle EXCEPT !.at = "last", !.c = c] ELSE Idle]
    /\ Touch(c)
    /\ UNCHANGED <<strong, object, block, shared, made>>
ReleaseLastTicket(t) ==
    LET c == doing[t].c IN
    /\ doing[t].at = "last"
    /\ doing' = [doing EXCEPT ![t] = IF strong[c] = 0 THEN [@ EXCEPT !.at = "deallocate"] ELSE Idle]
    /\ Touch(c)
    /\ UNCHANGED <<strong, weak, object, block, shared, tickets, made>>

(* Ticket::Lock: increments strong unless it is zero.                      *)
Lock(t, c) ==
    /\ doing[t] = Idle /\ Room(t) /\ tickets[t][c] > 0
    /\ made' = made + 1
    /\ doing' = [doing EXCEPT ![t] = IF strong[c] = 0 THEN Idle ELSE [Idle EXCEPT !.at = "lock", !.c = c, !.s = strong[c]]]
    /\ Touch(c)
    /\ UNCHANGED <<strong, weak, object, block, shared, tickets>>
LockExchange(t) ==
    LET c == doing[t].c IN
    /\ doing[t].at = "lock"
    /\ Touch(c)
    /\ IF strong[c] = doing[t].s
       THEN /\ strong' = [strong EXCEPT ![c] = @ + 1]
            /\ shared' = [shared EXCEPT ![t][c] = @ + 1]
            /\ doing' = [doing EXCEPT ![t] = Idle]
       ELSE /\ doing' = [doing EXCEPT ![t] = IF strong[c] = 0 THEN Idle ELSE [@ EXCEPT !.s = strong[c]]]
            /\ UNCHANGED <<strong, shared>>
    /\ UNCHANGED <<weak, object, block, tickets, made>>

Next ==
    \E t \in Thread :
        \/ \E c \in Ctrl :
             \/ \E throws \in BOOLEAN : MakeShared(t, c, throws)
             \/ \E outcome \in {"null", "throws", "made"} : MakeSharedAlias(t, c, outcome)
             \/ CopyShared(t, c) \/ MakeTicket(t, c) \/ CopyTicket(t, c)
             \/ ReleaseShared(t, c) \/ ReleaseTicket(t, c) \/ Lock(t, c)
             \/ \E u \in Thread : MoveShared(t, u, c) \/ MoveTicket(t, u, c)
        \/ ReleaseStrong(t) \/ DestroyObject(t) \/ ReleaseSelfWeak(t) \/ DeallocateSelf(t)
        \/ Adopt(t) \/ ReleaseLastTicket(t) \/ LockExchange(t)

Spec == Init /\ [][Next]_vars

-----------------------------------------------------------------------------

\* The object of an owner is alive however the others copy, lock and release;
\* no step touches a block that was freed, none is freed twice; and once the
\* last handle is gone and nobody is at work, object and block are gone.
OwnersExact ==
    /\ ~fault
    /\ \A t \in Thread, c \in Ctrl : shared[t][c] > 0 => object[c] = "alive"
    /\ \A c \in Ctrl :
         (/\ block[c] \in {"allocated", "freed"}
          /\ \A t \in Thread : shared[t][c] = 0 /\ tickets[t][c] = 0 /\ doing[t] = Idle)
            => object[c] = "destroyed" /\ block[c] = "freed"
=============================================================================
