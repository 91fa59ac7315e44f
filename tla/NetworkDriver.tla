--------------------------- MODULE NetworkDriver ---------------------------
(***************************************************************************)
(* NGIN::Net::NetworkDriver on Linux (src/NGIN/Net/NetworkDriver.cpp): the *)
(* list of waiters, the epoll interest that is counted for each descriptor,*)
(* the poll cycle run by several threads, and WaitUntilReadable() and      *)
(* WaitUntilWritable() with their cancellation.                            *)
(*                                                                         *)
(* Every section under m_mutex, every atomic access and epoll_wait() is    *)
(* one action.  A waiter is used for one co_await.  Its memory belongs to  *)
(* the awaiting coroutine and may be destroyed as soon as that has been    *)
(* resumed; stale records that a thread reached for a destroyed waiter,    *)
(* and nothing is modelled after that.                                     *)
(*                                                                         *)
(* Readiness is a set of directions: "read" stands for EPOLLIN, EPOLLRDHUP,*)
(* EPOLLHUP and EPOLLERR, "write" for EPOLLOUT and EPOLLERR.  A poll cycle *)
(* visits its snapshot in any order (the vector is permuted by removals).  *)
(* epoll_ctl() fails only where the descriptor's registration makes it     *)
(* fail, not for want of kernel memory, and the 64 entries of one          *)
(* epoll_wait() are never exceeded.                                        *)
(***************************************************************************)
EXTENDS Naturals, FiniteSets

CONSTANTS
    Poller,         \* threads that call PollOnce() in a loop (Run())
    Waiter,         \* the co_awaits of the program
    Socket,         \* SocketHandle objects
    Fd,             \* native descriptors
    MaxOpens,       \* bound: sockets opened after the start
    HandleOf,       \* the socket each co_await waits for
    Wants,          \* what the co_awaits wait for: functions to Direction
    Programs,       \* the sets of threads and co_awaits that may be in use
    ReopenBusy,     \* whether a descriptor closed under a waiter is used again
    Canceler,       \* the thread that calls CancellationSource::Cancel()
    None            \* no descriptor, no waiter

ASSUME OpensAssumption == MaxOpens \in Nat
ASSUME FlagAssumption == ReopenBusy \in BOOLEAN
ASSUME ActorAssumption ==
    /\ Poller \cap Waiter = {}
    /\ Canceler \notin Poller \cup Waiter
ASSUME NoneAssumption == None \notin Fd \cup Waiter

Direction == {"read", "write"}
Actor == Poller \cup Waiter \cup {Canceler}

ASSUME ProgramAssumption ==
    /\ HandleOf \in [Waiter -> Socket]
    /\ Wants \subseteq [Waiter -> Direction]
    /\ Programs \subseteq SUBSET Actor

VARIABLES
    native,         \* ToNative() of each SocketHandle, None when closed
    ready,          \* kernel: the directions in which a descriptor is ready
    interest,       \* kernel: the events of a descriptor in the epoll set
    watch,          \* m_epollWatches: readers and writers counted
    waiters,        \* m_waiters
    stop,           \* m_stop
    want,           \* Waiter::wantRead, Waiter::wantWrite
    done,           \* Waiter::done
    registration,   \* waiters whose Waiter::cancellation is registered
    canceled,       \* the token's source has been cancelled
    pc,             \* what each thread does next
    current,        \* the waiter a thread completes
    todo,           \* waiters a loop has still to visit
    kept,           \* PollOnce(): waiters with a valid handle
    events,         \* PollOnce(): readyEvents, None before epoll_wait()
    resumed,        \* history: how often a waiter's continuation was executed
    gone,           \* waiters whose coroutine frame was destroyed
    orphaned,       \* history: descriptors closed while a waiter was registered
    opens,          \* history: sockets opened after the start
    stale           \* a destroyed waiter was accessed

kernel == <<native, ready, interest>>
list == <<watch, waiters>>
objects == <<want, done, registration, resumed, gone>>
pollState == <<todo, kept, events>>
rest == <<orphaned, opens, stale>>
vars == <<kernel, list, objects, stop, canceled, pc, current, pollState, rest>>

At(a, l) == ~stale /\ pc[a] = l
Goto(a, l) == pc' = [pc EXCEPT ![a] = l]

Start(a) == IF a \in Poller THEN "check" ELSE "idle"

\* Every socket that has a descriptor at the start is open.
Init ==
    /\ native \in {n \in [Socket -> Fd] : \A s, t \in Socket : n[s] = n[t] => s = t}
    /\ ready = [f \in Fd |-> {}]
    /\ interest = [f \in Fd |-> {}]
    /\ watch = [f \in Fd |-> [d \in Direction |-> 0]]
    /\ waiters = {}
    /\ stop = FALSE
    /\ want \in Wants
    /\ done = {}
    /\ registration = {}
    /\ canceled = FALSE
    /\ \E used \in Programs :
         pc = [a \in Actor |-> IF a \in used THEN Start(a) ELSE "unused"]
    /\ current = [a \in Actor |-> None]
    /\ todo = [a \in Actor |-> {}]
    /\ kept = [p \in Poller |-> {}]
    /\ events = [p \in Poller |-> None]
    /\ resumed = [w \in Waiter |-> 0]
    /\ gone = {}
    /\ orphaned = {}
    /\ opens = 0
    /\ stale = FALSE

-----------------------------------------------------------------------------
(* The epoll interest of a descriptor, changed under m_mutex.               *)

\* The events for which some waiter is counted; none: the watch is erased.
Counted(counts) == {d \in Direction : counts[d] > 0}

\* epoll_ctl(): ADD fails when the descriptor is in the set, MOD when it is
\* not.  A failed ADD erases the watch, a failed MOD is ignored.
AddWatch(f, counts) ==
    IF interest[f] = {}
    THEN /\ interest' = [interest EXCEPT ![f] = Counted(counts)]
         /\ watch' = [watch EXCEPT ![f] = counts]
    ELSE /\ watch' = [watch EXCEPT ![f] = [d \in Direction |-> 0]]
         /\ UNCHANGED interest

ModifyWatch(f, counts) ==
    /\ watch' = [watch EXCEPT ![f] = counts]
    /\ interest' = IF interest[f] = {} THEN interest
                   ELSE [interest EXCEPT ![f] = Counted(counts)]

\* Mutant: an existing watch keeps its old events.
UpdateEpollOnRegisterLocked_AddOnly(f, d) ==
    LET counts == [watch[f] EXCEPT ![d] = @ + 1] IN
    IF Counted(watch[f]) = {} THEN AddWatch(f, counts)
    ELSE watch' = [watch EXCEPT ![f] = counts] /\ UNCHANGED interest

\* UpdateEpollOnRegisterLocked(waiter) for a valid descriptor.
UpdateEpollOnRegisterLocked(f, d) ==
    LET counts == [watch[f] EXCEPT ![d] = @ + 1] IN
    IF Counted(watch[f]) = {} THEN AddWatch(f, counts) ELSE ModifyWatch(f, counts)

\* Mutant: the last waiter of one direction removes the whole descriptor.
UpdateEpollOnUnregisterLocked_Delete(f, d) ==
    LET counts == [watch[f] EXCEPT ![d] = IF @ > 0 THEN @ - 1 ELSE 0] IN
    /\ watch' = [watch EXCEPT ![f] = counts]
    /\ interest' = [interest EXCEPT ![f] = IF counts[d] = 0 THEN {} ELSE @]

\* UpdateEpollOnUnregisterLocked(waiter) for a valid descriptor: without a
\* watch nothing happens, DEL when nobody is left, else MOD.
UpdateEpollOnUnregisterLocked(f, d) ==
    LET counts == [watch[f] EXCEPT ![d] = IF @ > 0 THEN @ - 1 ELSE 0] IN
    /\ watch' = [watch EXCEPT ![f] = counts]
    /\ interest' = IF Counted(watch[f]) = {} \/ interest[f] = {} THEN interest
                   ELSE [interest EXCEPT ![f] = Counted(counts)]

-----------------------------------------------------------------------------
(* WaitUntilReadable() and WaitUntilWritable(): the WaiterAwaiter.          *)

\* await_ready(): a cancelled token or a closed socket does not suspend.
AwaitReady(w) ==
    /\ At(w, "idle")
    /\ Goto(w, IF canceled \/ native[HandleOf[w]] = None THEN "returned" ELSE "checked")
    /\ UNCHANGED <<kernel, list, objects, stop, canceled, current, pollState, rest>>

\* await_suspend(): RegisterWaiter(), under m_mutex.
RegisterWaiter(w) ==
    /\ At(w, "checked")
    /\ waiters' = waiters \cup {w}
    /\ IF native[HandleOf[w]] = None THEN UNCHANGED <<watch, interest>>
       ELSE UpdateEpollOnRegisterLocked(native[HandleOf[w]], want[w])
    /\ Goto(w, "registered")
    /\ UNCHANGED <<native, ready, objects, stop, canceled, current, pollState, rest>>

\* Mutant: a token that is already cancelled is registered with all the same.
RegisterToken_Unchecked(w) ==
    /\ At(w, "registered")
    /\ w \notin gone
    /\ Goto(w, "suspended")
    /\ registration' = registration \cup {w}
    /\ UNCHANGED <<kernel, list, want, done, resumed, gone, stop, canceled, current,
                   pollState, rest>>

\* await_suspend(): token.Register().  On a cancelled token the callback runs
\* here.
RegisterToken(w) ==
    /\ At(w, "registered")
    /\ w \notin gone
    /\ IF canceled
       THEN Goto(w, "claim") /\ current' = [current EXCEPT ![w] = w] /\ UNCHANGED registration
       ELSE /\ Goto(w, "suspended")
            /\ registration' = registration \cup {w}
            /\ UNCHANGED current
    /\ UNCHANGED <<kernel, list, want, done, resumed, gone, stop, canceled,
                   pollState, rest>>

\* The coroutine goes on, on its executor, and its frame is destroyed.
DestroyFrame(w) ==
    /\ ~stale
    /\ resumed[w] > 0
    /\ w \notin gone
    /\ gone' = gone \cup {w}
    /\ registration' = registration \ {w}
    /\ UNCHANGED <<kernel, list, want, done, resumed, stop, canceled, pc, current,
                   pollState, rest>>

-----------------------------------------------------------------------------
(* Completion of a waiter: CompleteWaiter() by a poller, or the cancellation*)
(* callback, by the cancelling thread or inside token.Register().           *)

\* Where a thread goes on when it is through with a waiter.
Return(a) ==
    CASE a \in Poller -> IF events[a] = None THEN "sift" ELSE "match"
      [] a \in Waiter -> "suspended"
      [] OTHER -> "fire"

\* Mutant: done is tested but not set.
Claim_Unset(a) ==
    /\ At(a, "claim")
    /\ current[a] \notin gone
    /\ IF current[a] \in done
       THEN Goto(a, Return(a)) /\ current' = [current EXCEPT ![a] = None]
       ELSE Goto(a, "unregister") /\ UNCHANGED current
    /\ UNCHANGED <<kernel, list, objects, stop, canceled, pollState, rest>>

\* The compare-exchange on Waiter::done.
Claim(a) ==
    /\ At(a, "claim")
    /\ current[a] \notin gone
    /\ done' = done \cup {current[a]}
    /\ IF current[a] \in done
       THEN Goto(a, Return(a)) /\ current' = [current EXCEPT ![a] = None]
       ELSE Goto(a, "unregister") /\ UNCHANGED current
    /\ UNCHANGED <<kernel, list, want, registration, resumed, gone, stop, canceled,
                   pollState, rest>>

\* UnregisterWaiter(), under m_mutex: a closed socket's watch is left alone.
UnregisterWaiter(a) ==
    /\ At(a, "unregister")
    /\ LET w == current[a] IN
       /\ waiters' = waiters \ {w}
       /\ IF native[HandleOf[w]] = None THEN UNCHANGED <<watch, interest>>
          ELSE UpdateEpollOnUnregisterLocked(native[HandleOf[w]], want[w])
    /\ Goto(a, "resume")
    /\ UNCHANGED <<native, ready, objects, stop, canceled, current, pollState, rest>>

\* The registration ends (CompleteWaiter(): cancellation.Reset(); Fire(): the
\* compare-exchange on its armed flag), then exec.Execute(continuation).
Resume(a) ==
    /\ At(a, "resume")
    /\ registration' = registration \ {current[a]}
    /\ resumed' = [resumed EXCEPT ![current[a]] = @ + 1]
    /\ current' = [current EXCEPT ![a] = None]
    /\ Goto(a, Return(a))
    /\ UNCHANGED <<kernel, list, want, done, gone, stop, canceled, pollState, rest>>

-----------------------------------------------------------------------------
(* PollOnce(), in the loop of Run() or of a worker.                         *)

\* The loop condition.
PollCheck(p) ==
    /\ At(p, "check")
    /\ Goto(p, IF stop THEN "exited" ELSE "snapshot")
    /\ UNCHANGED <<kernel, list, objects, stop, canceled, current, pollState, rest>>

\* The snapshot of m_waiters, under m_mutex.
PollSnapshot(p) ==
    /\ At(p, "snapshot")
    /\ todo' = [todo EXCEPT ![p] = waiters]
    /\ Goto(p, "sift")
    /\ UNCHANGED <<kernel, list, objects, stop, canceled, current, kept, events, rest>>

\* A waiter whose socket was closed is completed, any other is kept.
PollSift(p, w) ==
    /\ At(p, "sift")
    /\ w \in todo[p] \ gone
    /\ todo' = [todo EXCEPT ![p] = @ \ {w}]
    /\ IF native[HandleOf[w]] = None
       THEN Goto(p, "claim") /\ current' = [current EXCEPT ![p] = w] /\ UNCHANGED kept
       ELSE kept' = [kept EXCEPT ![p] = @ \cup {w}] /\ UNCHANGED <<pc, current>>
    /\ UNCHANGED <<kernel, list, objects, stop, canceled, events, rest>>

\* Without a waiter the thread sleeps for the poll interval.
PollIdle(p) ==
    /\ At(p, "sift")
    /\ todo[p] = {} /\ kept[p] = {}
    /\ Goto(p, "check")
    /\ UNCHANGED <<kernel, list, objects, stop, canceled, current, pollState, rest>>

\* What epoll_wait() reports: level-triggered, for what is in the epoll set.
Reported == [f \in Fd |-> ready[f] \cap interest[f]]

\* epoll_wait(), with its timeout when nothing is ready.
EpollWait(p) ==
    /\ At(p, "sift")
    /\ todo[p] = {} /\ kept[p] # {}
    /\ IF \A f \in Fd : Reported[f] = {}
       THEN Goto(p, "check") /\ kept' = [kept EXCEPT ![p] = {}] /\ UNCHANGED <<todo, events>>
       ELSE /\ events' = [events EXCEPT ![p] = Reported]
            /\ todo' = [todo EXCEPT ![p] = kept[p]]
            /\ kept' = [kept EXCEPT ![p] = {}]
            /\ Goto(p, "match")
    /\ UNCHANGED <<kernel, list, objects, stop, canceled, current, rest>>

\* The waiter w is completed if its socket is closed or has an event for it.
Visit(p, w, hit) ==
    /\ At(p, "match")
    /\ w \in todo[p] \ gone
    /\ todo' = [todo EXCEPT ![p] = @ \ {w}]
    /\ IF hit THEN Goto(p, "claim") /\ current' = [current EXCEPT ![p] = w]
       ELSE UNCHANGED <<pc, current>>
    /\ UNCHANGED <<kernel, list, objects, stop, canceled, kept, events, rest>>

\* After epoll_wait(): the next waiter of the snapshot.
PollMatch(p, w) ==
    Visit(p, w, native[HandleOf[w]] = None \/ want[w] \in events[p][native[HandleOf[w]]])

PollDone(p) ==
    /\ At(p, "match")
    /\ todo[p] = {}
    /\ events' = [events EXCEPT ![p] = None]
    /\ Goto(p, "check")
    /\ UNCHANGED <<kernel, list, objects, stop, canceled, current, todo, kept, rest>>

\* Stop().
Stop ==
    /\ ~stale /\ ~stop
    /\ stop' = TRUE
    /\ UNCHANGED <<kernel, list, objects, canceled, pc, current, pollState, rest>>

-----------------------------------------------------------------------------
(* CancellationSource::Cancel() on the source of the waiters' token; the    *)
(* module Cancellation has its steps in full.                               *)

Cancel ==
    /\ At(Canceler, "idle")
    /\ canceled' = TRUE
    /\ todo' = [todo EXCEPT ![Canceler] = registration]
    /\ Goto(Canceler, "fire")
    /\ UNCHANGED <<kernel, list, objects, stop, current, kept, events, rest>>

\* Fire() of the next registration; one that was reset meanwhile is skipped.
CancelFire(w) ==
    /\ At(Canceler, "fire")
    /\ w \in todo[Canceler] \ gone
    /\ todo' = [todo EXCEPT ![Canceler] = @ \ {w}]
    /\ IF w \in registration
       THEN Goto(Canceler, "claim") /\ current' = [current EXCEPT ![Canceler] = w]
       ELSE UNCHANGED <<pc, current>>
    /\ UNCHANGED <<kernel, list, objects, stop, canceled, kept, events, rest>>

-----------------------------------------------------------------------------
(* The program's use of its sockets and the network's.                      *)

\* Data, a connection or an error arrives; or another operation consumed it.
Readiness(f, d) ==
    /\ ~stale
    /\ \E s \in Socket : native[s] = f
    /\ ready' = [ready EXCEPT ![f] = IF d \in @ THEN @ \ {d} ELSE @ \cup {d}]
    /\ UNCHANGED <<native, interest, list, objects, stop, canceled, pc, current, pollState, rest>>

Awaited(s) == \E w \in Waiter : HandleOf[w] = s /\ (w \in waiters \/ pc[w] = "checked")

\* SocketHandle::Close(): the kernel drops the descriptor from the epoll set.
Close(s) ==
    /\ ~stale
    /\ native[s] # None
    /\ native' = [native EXCEPT ![s] = None]
    /\ ready' = [ready EXCEPT ![native[s]] = {}]
    /\ interest' = [interest EXCEPT ![native[s]] = {}]
    /\ orphaned' = IF Awaited(s) THEN orphaned \cup {native[s]} ELSE orphaned
    /\ UNCHANGED <<list, objects, stop, canceled, pc, current, pollState, opens, stale>>

\* TcpSocket::Open() and the like, when no co_await uses the object: the kernel
\* hands out a free descriptor.
Open(s, f) ==
    /\ ~stale
    /\ opens < MaxOpens
    /\ native[s] = None
    /\ \A t \in Socket : native[t] # f
    /\ ~Awaited(s)
    /\ f \in orphaned => ReopenBusy
    /\ native' = [native EXCEPT ![s] = f]
    /\ opens' = opens + 1
    /\ UNCHANGED <<ready, interest, list, objects, stop, canceled, pc, current, pollState,
                   orphaned, stale>>

\* The waiters whose memory a thread's next step reads.
Touches(a) ==
    CASE pc[a] \in {"sift", "match", "fire"} -> todo[a]
      [] pc[a] = "claim" -> {current[a]}
      [] pc[a] = "registered" -> {a}
      [] OTHER -> {}

\* A thread reaches for a waiter that was destroyed.
Dangle(a) ==
    /\ ~stale
    /\ Touches(a) \cap gone # {}
    /\ stale' = TRUE
    /\ UNCHANGED <<kernel, list, objects, stop, canceled, pc, current, pollState,
                   orphaned, opens>>

-----------------------------------------------------------------------------
Completion(a) == Claim(a) \/ UnregisterWaiter(a) \/ Resume(a)

PollStep(p) ==
    \/ PollCheck(p) \/ PollSnapshot(p) \/ PollIdle(p) \/ EpollWait(p) \/ PollDone(p)
    \/ \E w \in Waiter : PollSift(p, w) \/ PollMatch(p, w)

AwaitStep(w) == RegisterWaiter(w) \/ RegisterToken(w)

Next ==
    \/ \E p \in Poller : PollStep(p)
    \/ \E w \in Waiter :
         AwaitReady(w) \/ AwaitStep(w) \/ DestroyFrame(w) \/ CancelFire(w)
    \/ \E a \in Actor : Completion(a) \/ Dangle(a)
    \/ Stop \/ Cancel
    \/ \E s \in Socket : Close(s) \/ \E f \in Fd : Open(s, f)
    \/ \E f \in Fd, d \in Direction : Readiness(f, d)

Spec == Init /\ [][Next]_vars

\* The operating system runs every thread, and a thread that cancels goes
\* through its list.  Nobody is obliged to wait, close, cancel or stop.
Fairness ==
    /\ \A p \in Poller : WF_vars(PollStep(p) \/ Completion(p) \/ Dangle(p))
    /\ \A w \in Waiter : WF_vars(AwaitStep(w) \/ Completion(w) \/ Dangle(w))
    /\ WF_vars(Completion(Canceler) \/ Dangle(Canceler) \/ \E w \in Waiter : CancelFire(w))

FairSpec == Spec /\ Fairness

-----------------------------------------------------------------------------
Label == {"unused", "idle", "checked", "registered", "suspended", "returned", "claim", "unregister",
          "resume", "check", "snapshot", "sift", "match", "exited", "fire"}

TypeOK ==
    /\ native \in [Socket -> Fd \cup {None}]
    /\ ready \in [Fd -> SUBSET Direction]
    /\ interest \in [Fd -> SUBSET Direction]
    /\ watch \in [Fd -> [Direction -> 0..Cardinality(Waiter)]]
    /\ waiters \in SUBSET Waiter
    /\ stop \in BOOLEAN /\ canceled \in BOOLEAN /\ stale \in BOOLEAN
    /\ want \in [Waiter -> Direction]
    /\ done \in SUBSET Waiter /\ registration \in SUBSET Waiter /\ gone \in SUBSET Waiter
    /\ pc \in [Actor -> Label]
    /\ current \in [Actor -> Waiter \cup {None}]
    /\ todo \in [Actor -> SUBSET Waiter]
    /\ kept \in [Poller -> SUBSET Waiter]
    /\ events \in [Poller -> [Fd -> SUBSET Direction] \cup {None}]
    /\ resumed \in [Waiter -> Nat]
    /\ orphaned \in SUBSET Fd
    /\ opens \in 0..MaxOpens

\* A waiter is resumed at most once, however pollers, the cancelling thread
\* and token.Register() race for it, and nobody can find it any more then.
ResumedOnce ==
    \A w \in Waiter : resumed[w] > 0 => resumed[w] = 1 /\ w \notin waiters

\* The waiters of an open socket and no others are counted, and the kernel
\* watches exactly the directions that are counted, through registrations,
\* completions and cancellations in any order.
InterestExact ==
    \A s \in Socket : native[s] # None =>
        LET f == native[s]
            Of(d) == {w \in waiters : HandleOf[w] = s /\ want[w] = d}
        IN  /\ \A d \in Direction : watch[f][d] = Cardinality(Of(d))
            /\ interest[f] = {d \in Direction : Of(d) # {}}

Suspended(w) == w \in waiters /\ pc[w] = "suspended"

Unpolled == \A p \in Poller : pc[p] \in {"unused", "exited"}

\* WaitUntilReadable() waits until the socket can be read: a waiter does not
\* stay suspended for ever on a socket that stays ready for it or closed, as
\* long as somebody polls.
WaitEnds ==
    \A w \in Waiter : []<>( \/ stale \/ Unpolled \/ ~Suspended(w)
                            \/ native[HandleOf[w]] # None /\ want[w] \notin ready[native[HandleOf[w]]])

\* ... or cancellation occurs: then every suspended waiter is resumed, even
\* when no thread polls.
CancelReaches ==
    \A w \in Waiter : (canceled /\ Suspended(w)) ~> (stale \/ resumed[w] > 0)
=============================================================================
