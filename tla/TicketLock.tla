----------------------------- MODULE TicketLock -----------------------------
(***************************************************************************)
(* NGIN::Sync::TicketLock (include/NGIN/Sync/TicketLock.hpp).              *)
(*                                                                         *)
(* Two UInt32 counters: Lock() draws a ticket with fetch_add and spins     *)
(* until m_nowServing equals it, Unlock() increments m_nowServing.         *)
(* TryLock() is three separate atomic accesses: load m_nowServing, load    *)
(* m_nextTicket, compare-exchange on m_nextTicket.  Every atomic access    *)
(* is one action.  Both counters wrap at Width (2^32 in the code).         *)
(*                                                                         *)
(* issued, served and mine are history variables: the same numbers without *)
(* the wrap.  No guard of the code reads them.  They state Unlapped, the   *)
(* assumption on the environment under which the compare-exchange cannot   *)
(* succeed on a counter that has gone all the way round: fewer than Width  *)
(* tickets are drawn while one TryLock() is between its accesses.          *)
(***************************************************************************)
EXTENDS Naturals, FiniteSets

CONSTANTS
    Thread,     \* threads that use the lock
    Width,      \* number of values of the counters' type
    MaxTickets  \* bound: tickets drawn in a behaviour

ASSUME ThreadAssumption == IsFiniteSet(Thread)
\* Fewer threads than counter values: one lap never hands a ticket out twice.
ASSUME WidthAssumption == Width \in Nat /\ Cardinality(Thread) < Width
ASSUME MaxTicketsAssumption == MaxTickets \in Nat

VARIABLES
    nextTicket, \* m_nextTicket
    nowServing, \* m_nowServing
    pc,         \* what each thread does next
    ticket,     \* Lock(): the local ticket; TryLock(): the local current
    issued,     \* history: tickets drawn
    served,     \* history: tickets released
    mine        \* history: ticket[t] without the wrap

vars == <<nextTicket, nowServing, pc, ticket, issued, served, mine>>

\* "spin": in Lock(); "loaded", "compared": in TryLock(), after its first and
\* its second access.
PC == {"idle", "spin", "loaded", "compared", "held"}

InLine == {t \in Thread : pc[t] \in {"spin", "held"}}

InTryLock == {t \in Thread : pc[t] \in {"loaded", "compared"}}

Init ==
    /\ nextTicket = 0
    /\ nowServing = 0
    /\ pc = [t \in Thread |-> "idle"]
    /\ ticket = [t \in Thread |-> 0]
    /\ issued = 0
    /\ served = 0
    /\ mine = [t \in Thread |-> 0]

\* No TryLock() other than t's own would be lapped by one more ticket.
Unlapped(t) == \A u \in InTryLock \ {t} : issued + 1 < mine[u] + Width

\* Mutant: the caller keeps the counter's new value for its ticket.
Draw_NewValue(t, next) ==
    /\ issued < MaxTickets
    /\ Unlapped(t)
    /\ nextTicket' = (nextTicket + 1) % Width
    /\ issued' = issued + 1
    /\ mine' = [mine EXCEPT ![t] = issued]
    /\ ticket' = [ticket EXCEPT ![t] = (nextTicket + 1) % Width]
    /\ pc' = [pc EXCEPT ![t] = next]
    /\ UNCHANGED <<nowServing, served>>

\* m_nextTicket advances by one, to the benefit of t.
Draw(t, next) ==
    /\ issued < MaxTickets
    /\ Unlapped(t)
    /\ nextTicket' = (nextTicket + 1) % Width
    /\ issued' = issued + 1
    /\ mine' = [mine EXCEPT ![t] = issued]
    /\ ticket' = [ticket EXCEPT ![t] = nextTicket]
    /\ pc' = [pc EXCEPT ![t] = next]
    /\ UNCHANGED <<nowServing, served>>

\* Lock(): fetch_add on m_nextTicket.
LockDraw(t) == pc[t] = "idle" /\ Draw(t, "spin")

\* Lock(): the load of m_nowServing that ends the loop.
LockEnter(t) ==
    /\ pc[t] = "spin"
    /\ nowServing = ticket[t]
    /\ pc' = [pc EXCEPT ![t] = "held"]
    /\ UNCHANGED <<nextTicket, nowServing, ticket, issued, served, mine>>

\* Mutant: the first load reads the wrong counter.
TryLoad_NextTicket(t) ==
    /\ pc[t] = "idle"
    /\ ticket' = [ticket EXCEPT ![t] = nextTicket]
    /\ mine' = [mine EXCEPT ![t] = issued]
    /\ pc' = [pc EXCEPT ![t] = "loaded"]
    /\ UNCHANGED <<nextTicket, nowServing, issued, served>>

\* TryLock(): load m_nowServing.
TryLoad(t) ==
    /\ pc[t] = "idle"
    /\ ticket' = [ticket EXCEPT ![t] = nowServing]
    /\ mine' = [mine EXCEPT ![t] = served]
    /\ pc' = [pc EXCEPT ![t] = "loaded"]
    /\ UNCHANGED <<nextTicket, nowServing, issued, served>>

\* TryLock(): load m_nextTicket and compare.
TryCompare(t) ==
    /\ pc[t] = "loaded"
    /\ pc' = [pc EXCEPT ![t] = IF nextTicket = ticket[t] THEN "compared" ELSE "idle"]
    /\ UNCHANGED <<nextTicket, nowServing, ticket, issued, served, mine>>

\* Mutant: a plain store after the comparison.
TryExchange_Store(t) == pc[t] = "compared" /\ Draw(t, "held")

\* TryLock(): the compare-exchange finds the expected value.
TryExchange(t) ==
    /\ pc[t] = "compared"
    /\ nextTicket = ticket[t]
    /\ Draw(t, "held")

\* TryLock(): the compare-exchange finds another value.
TryFail(t) ==
    /\ pc[t] = "compared"
    /\ nextTicket # ticket[t]
    /\ pc' = [pc EXCEPT ![t] = "idle"]
    /\ UNCHANGED <<nextTicket, nowServing, ticket, issued, served, mine>>

\* Unlock(): fetch_add on m_nowServing, by the thread that holds the lock.
Unlock(t) ==
    /\ pc[t] = "held"
    /\ nowServing' = (nowServing + 1) % Width
    /\ served' = served + 1
    /\ pc' = [pc EXCEPT ![t] = "idle"]
    /\ UNCHANGED <<nextTicket, ticket, issued, mine>>

Next == \E t \in Thread :
    \/ LockDraw(t) \/ LockEnter(t)
    \/ TryLoad(t) \/ TryCompare(t) \/ TryExchange(t) \/ TryFail(t)
    \/ Unlock(t)

\* A thread inside Lock(), TryLock() or its critical section keeps running.
Fairness == \A t \in Thread :
    WF_vars(LockEnter(t) \/ TryCompare(t) \/ TryExchange(t) \/ TryFail(t) \/ Unlock(t))

Spec == Init /\ [][Next]_vars

FairSpec == Spec /\ Fairness

-----------------------------------------------------------------------------
TypeOK ==
    /\ nextTicket \in 0..(Width - 1)
    /\ nowServing \in 0..(Width - 1)
    /\ pc \in [Thread -> PC]
    /\ ticket \in [Thread -> 0..(Width - 1)]
    /\ issued \in Nat
    /\ served \in Nat
    /\ mine \in [Thread -> Nat]

\* Two threads never own the lock at once, whether they came in by Lock() or
\* by TryLock(), and wherever the counters stand in their lap.
MutualExclusion ==
    \A t, u \in Thread : pc[t] = "held" /\ pc[u] = "held" => t = u

\* The callers in ticket order, the owner first.
Line == [i \in 1..(issued - served) |->
            CHOOSE t \in InLine : mine[t] = served + i - 1]

F == INSTANCE FifoLock WITH
        line <- Line, inside <- {t \in Thread : pc[t] = "held"}

\* The counters implement a first-come-first-served line: every step of the
\* code adds its caller to the end of the line, lets the head of the line in,
\* takes the owner off the front, or changes nothing.
ImplementsFifo == F!FSpec

\* A thread that drew a ticket gets the lock: FIFO admission is free of
\* starvation as long as owners release.
NoStarvation == \A t \in Thread : pc[t] = "spin" ~> pc[t] = "held"

=============================================================================
