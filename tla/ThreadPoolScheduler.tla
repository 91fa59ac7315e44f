------------------------ MODULE ThreadPoolScheduler ------------------------
(***************************************************************************)
(* NGIN::Execution::ThreadPoolScheduler                                    *)
(* (include/NGIN/Execution/ThreadPoolScheduler.hpp) together with the      *)
(* AtomicCondition it sleeps on (include/NGIN/Sync/AtomicCondition.hpp,    *)
(* src/NGIN/Execution/AtomicCondition.linux.cpp).                          *)
(*                                                                         *)
(* Every critical section of the code (a spin lock around one queue, the   *)
(* timer mutex), every atomic access and every futex call is one action.   *)
(* A queue is the live part items[head..] of its vector.  Of a generation  *)
(* counter only its comparison with an observed value matters: current is  *)
(* the set of threads whose observed generation is still the present one.  *)
(* (The UInt32 of the code wraps after 2^32 notifications between one      *)
(* Load() and its Wait(); that is left out.)                               *)
(*                                                                         *)
(* A work item is opaque; while it runs it may submit further items to the *)
(* same pool.  Each item is submitted at most once, so an item's identity  *)
(* follows one submission.                                                 *)
(***************************************************************************)
EXTENDS Naturals, Sequences, FiniteSets

CONSTANTS
    NumWorkers,     \* m_workers.size(), after the constructor replaced 0 by 1
    Client,         \* threads outside the pool
    Item,           \* work items
    MaxTime,        \* bound: the last tick of the monotonic clock
    MaxCancels,     \* bound: calls of CancelAll()
    None            \* no item, no time

ASSUME NumWorkersAssumption == NumWorkers \in Nat \ {0}
ASSUME BoundsAssumption == MaxTime \in Nat /\ MaxCancels \in Nat
ASSUME NoneAssumption == None \notin Item /\ None \notin Nat

Worker == 1..NumWorkers
Timer == 0                          \* m_timerThread
Thread == Worker \cup Client \cup {Timer}

ASSUME ThreadAssumption == Client \cap (Worker \cup {Timer}) = {}

VARIABLES
    local,          \* m_workers[w].items from head on
    injection,      \* m_injection.items from head on
    timers,         \* m_timerHeap: the items in it
    clock,          \* MonotonicClock::Now()
    stop,           \* m_stop
    current,        \* threads whose observedWakeGeneration is not outdated
    pc,             \* what each thread does next
    hand,           \* the WorkItem a thread dequeued, or None
    scan,           \* progress of TryDequeueAny() and of ClearAllWork()
    ready,          \* TimerLoop(): the local vector of due items
    nextWake,       \* TimerLoop(): nextWakeAt, or None
    status,         \* history: what became of each item
    deadline,       \* history: resumeAt of an item given to ExecuteAt()
    cancels,        \* history: calls of CancelAll()
    doomed          \* history: items queued or timed when CancelAll() began

queues == <<local, injection, timers>>
shared == <<queues, clock, stop>>           \* apart from the conditions
locals == <<hand, scan, ready, nextWake>>   \* apart from the program counter
history == <<status, deadline, cancels, doomed>>
vars == <<shared, current, pc, locals, history>>

Elements(s) == {s[k] : k \in 1..Len(s)}

Queued == Elements(injection) \cup UNION {Elements(local[w]) : w \in Worker}

Fresh == {i \in Item : status[i] = "fresh"}

Goto(t, l) == pc' = [pc EXCEPT ![t] = l]

Drop(S) == [i \in Item |-> IF i \in S THEN "dropped" ELSE status[i]]

Init ==
    /\ local = [w \in Worker |-> <<>>]
    /\ injection = <<>>
    /\ timers = {}
    /\ clock = 0
    /\ stop = FALSE
    /\ current = {}
    /\ pc = [t \in Thread |-> IF t \in Client THEN "idle" ELSE "check"]
    /\ hand = [t \in Thread |-> None]
    /\ scan = [t \in Thread |-> [call |-> 1, offset |-> 1]]
    /\ ready = <<>>
    /\ nextWake = None
    /\ status = [i \in Item |-> "fresh"]
    /\ deadline = [i \in Item |-> None]
    /\ cancels = 0
    /\ doomed = {}

-----------------------------------------------------------------------------
(* AtomicCondition: a notification is a fetch_add followed by FUTEX_WAKE.   *)

Parked == {w \in Worker : pc[w] = "parked"}

\* Where a thread goes on when the notification it makes is done.
Return(t) ==
    IF t = Timer THEN "execute"
    ELSE IF hand[t] # None THEN "run" ELSE IF stop THEN "join" ELSE "idle"

\* The futex call of t takes the sleepers S off the queue; t goes on at l.
Wake(t, S, l) ==
    pc' = [u \in Thread |-> IF u = t THEN l ELSE IF u \in S THEN "check" ELSE pc[u]]

\* NotifyOne() and NotifyAll() on m_workWake: the generation.
NotifyWork(t) ==
    /\ pc[t] \in {"notifyOne", "notifyAll"}
    /\ current' = current \ Worker
    /\ Goto(t, IF pc[t] = "notifyOne" THEN "wakeOne" ELSE "wakeAll")
    /\ UNCHANGED <<shared, locals, history>>

\* NotifyOne(): FUTEX_WAKE of one waiter, if there is one.
WakeOne(t) ==
    /\ pc[t] = "wakeOne"
    /\ IF Parked = {} THEN Goto(t, Return(t)) ELSE \E w \in Parked : Wake(t, {w}, Return(t))
    /\ UNCHANGED <<shared, current, locals, history>>

\* NotifyAll(): FUTEX_WAKE of every waiter; its callers notify the timer next.
WakeAll(t) ==
    /\ pc[t] = "wakeAll"
    /\ Wake(t, Parked, "notifyTimer")
    /\ UNCHANGED <<shared, current, locals, history>>

\* NotifyOne() or NotifyAll() on m_timerWake, which has one sleeper at most.
NotifyTimer(t) ==
    /\ pc[t] = "notifyTimer"
    /\ current' = current \ {Timer}
    /\ Goto(t, "wakeTimer")
    /\ UNCHANGED <<shared, locals, history>>

WakeTimer(t) ==
    /\ pc[t] = "wakeTimer"
    /\ Wake(t, {u \in {Timer} : pc[u] = "parked"}, Return(t))
    /\ UNCHANGED <<shared, current, locals, history>>

\* Wait(observedGeneration): FUTEX_WAIT compares and sleeps in one step.
Sleep(t) ==
    /\ Goto(t, IF t \in current THEN "parked" ELSE "check")
    /\ UNCHANGED <<shared, current, locals, history>>

-----------------------------------------------------------------------------
(* Execute() and the callers outside the pool.  They use the scheduler      *)
(* until the destructor starts.                                             *)

\* Execute(item): to the thread's own queue when it is a worker of this pool,
\* else to the injection queue; then NotifyOne().
Push(t, i) ==
    /\ IF t \in Worker
       THEN local' = [local EXCEPT ![t] = Append(@, i)] /\ UNCHANGED injection
       ELSE injection' = Append(injection, i) /\ UNCHANGED local
    /\ Goto(t, "notifyOne")

CanCall(c) == c \in Client /\ pc[c] = "idle" /\ ~stop

\* Execute(item) by a client, or ExecuteAt() with a time point that has come.
Submit(c, i) ==
    /\ CanCall(c)
    /\ i \in Fresh
    /\ Push(c, i)
    /\ status' = [status EXCEPT ![i] = "pending"]
    /\ UNCHANGED <<timers, clock, stop, current, locals,
                   deadline, cancels, doomed>>

\* A timed item enters the heap, under m_timersMutex; the caller goes on at l.
Schedule(c, i, at, l) ==
    /\ CanCall(c)
    /\ i \in Fresh
    /\ at > clock
    /\ timers' = timers \cup {i}
    /\ Goto(c, l)
    /\ status' = [status EXCEPT ![i] = "pending"]
    /\ deadline' = [deadline EXCEPT ![i] = at]
    /\ UNCHANGED <<local, injection, clock, stop, current, locals, cancels, doomed>>

\* Mutant: the timer thread is not notified.
SubmitAt_Silent(c, i, at) == Schedule(c, i, at, "idle")

\* ExecuteAt(item, at) in the future, then m_timerWake.NotifyOne().
SubmitAt(c, i, at) == Schedule(c, i, at, "notifyTimer")

\* RunOne() by a client, alone or as one turn of RunUntilIdle(): a thread
\* outside the pool dequeues from the injection queue only.
RunOne(c) ==
    /\ CanCall(c)
    /\ injection # <<>>
    /\ hand' = [hand EXCEPT ![c] = Head(injection)]
    /\ injection' = Tail(injection)
    /\ Goto(c, "run")
    /\ UNCHANGED <<local, timers, clock, stop, current, scan, ready, nextWake, history>>

\* CancelAll(): ClearAllWork() starts with the injection queue.
CancelAll(c) ==
    /\ CanCall(c)
    /\ cancels < MaxCancels
    /\ cancels' = cancels + 1
    /\ doomed' = doomed \cup Queued \cup timers
    /\ injection' = <<>>
    /\ status' = Drop(Elements(injection))
    /\ scan' = [scan EXCEPT ![c].offset = 1]
    /\ Goto(c, "clearLocal")
    /\ UNCHANGED <<local, timers, clock, stop, current, hand, ready, nextWake, deadline>>

\* CancelAll(): ClearAllWork() goes on, one worker queue at a time.
ClearLocal(c) ==
    /\ pc[c] = "clearLocal"
    /\ LET w == scan[c].offset IN
         /\ local' = [local EXCEPT ![w] = <<>>]
         /\ status' = Drop(Elements(local[w]))
         /\ scan' = [scan EXCEPT ![c].offset = w + 1]
         /\ Goto(c, IF w < NumWorkers THEN "clearLocal" ELSE "clearTimers")
    /\ UNCHANGED <<injection, timers, clock, stop, current, hand, ready, nextWake,
                   deadline, cancels, doomed>>

\* CancelAll(): the heap, under m_timersMutex; both conditions are notified.
ClearTimers(c) ==
    /\ pc[c] = "clearTimers"
    /\ timers' = {}
    /\ status' = Drop(timers)
    /\ Goto(c, "notifyAll")
    /\ UNCHANGED <<local, injection, clock, stop, current, locals,
                   deadline, cancels, doomed>>

\* ~ThreadPoolScheduler(): m_stop, then NotifyAll() on both conditions.  No
\* other client is inside a call.
Destroy(c) ==
    /\ CanCall(c)
    /\ \A d \in Client : pc[d] = "idle"
    /\ stop' = TRUE
    /\ Goto(c, "notifyAll")
    /\ UNCHANGED <<queues, clock, current, locals, history>>

\* ClearAllWork() and the clearing of the heap when no thread is left.
ClearAll(c) ==
    /\ pc[c] = "join"
    /\ local' = [w \in Worker |-> <<>>]
    /\ injection' = <<>>
    /\ timers' = {}
    /\ status' = Drop(Queued \cup timers)
    /\ Goto(c, "destroyed")
    /\ UNCHANGED <<clock, stop, current, locals, deadline, cancels, doomed>>

\* Mutant: what is queued is cleared without waiting for the threads.
Join_NoWait(c) == ClearAll(c)

\* ~ThreadPoolScheduler(): joins every thread, then clears what is left.
Join(c) == (\A t \in Worker \cup {Timer} : pc[t] = "exited") /\ ClearAll(c)

-----------------------------------------------------------------------------
(* A running work item (work.Invoke()), on a worker or on a client.         *)

\* The item calls Execute() on the pool it runs on.
InvokeSubmits(t, i) ==
    /\ pc[t] = "run"
    /\ i \in Fresh
    /\ Push(t, i)
    /\ status' = [status EXCEPT ![i] = "pending"]
    /\ UNCHANGED <<timers, clock, stop, current, locals,
                   deadline, cancels, doomed>>

\* The item returns.
InvokeReturns(t) ==
    /\ pc[t] = "run"
    /\ status' = [status EXCEPT ![hand[t]] = "done"]
    /\ hand' = [hand EXCEPT ![t] = None]
    /\ Goto(t, IF t \in Worker THEN "check" ELSE "idle")
    /\ UNCHANGED <<shared, current, scan, ready, nextWake,
                   deadline, cancels, doomed>>

-----------------------------------------------------------------------------
(* WorkerLoop()                                                             *)

\* The top of the loop: the first test of m_stop.
WorkerCheck(w) ==
    /\ pc[w] = "check"
    /\ scan' = [scan EXCEPT ![w] = [call |-> 1, offset |-> 1]]
    /\ current' = current \ {w}
    /\ Goto(w, IF stop THEN "exited" ELSE "pop")
    /\ UNCHANGED <<shared, hand, ready, nextWake, history>>

\* A dequeue that found i: WorkerLoop() invokes it.
Take(w, i) == hand' = [hand EXCEPT ![w] = i] /\ Goto(w, "run")

\* TryDequeueAny(): TryPop() from the back of the worker's own queue.
WorkerPop(w) ==
    /\ pc[w] = "pop"
    /\ IF local[w] # <<>>
       THEN LET n == Len(local[w]) IN
            /\ Take(w, local[w][n])
            /\ local' = [local EXCEPT ![w] = SubSeq(@, 1, n - 1)]
       ELSE Goto(w, "inject") /\ UNCHANGED <<local, hand>>
    /\ UNCHANGED <<injection, timers, clock, stop, current, scan, ready, nextWake, history>>

\* TryDequeueAny(): TryDequeueInjection().
WorkerInject(w) ==
    /\ pc[w] = "inject"
    /\ IF injection # <<>>
       THEN Take(w, Head(injection)) /\ injection' = Tail(injection)
       ELSE Goto(w, "steal") /\ UNCHANGED <<injection, hand>>
    /\ UNCHANGED <<local, timers, clock, stop, current, scan, ready, nextWake, history>>

\* TrySteal() from the k-th next worker; rest is what it leaves there.
Victim(w) == ((w - 1 + scan[w].offset) % NumWorkers) + 1

StealLeaving(w, rest) ==
    /\ pc[w] = "steal"
    /\ scan[w].offset < NumWorkers
    /\ local[Victim(w)] # <<>>
    /\ Take(w, Head(local[Victim(w)]))
    /\ local' = [local EXCEPT ![Victim(w)] = rest]
    /\ UNCHANGED <<injection, timers, clock, stop, current, scan, ready, nextWake, history>>

\* Mutant: the stolen item is left in the victim's queue.
WorkerSteal_Keep(w) == StealLeaving(w, local[Victim(w)])

\* TryDequeueAny(): TrySteal() from the head of the next victim's queue.
WorkerSteal(w) == StealLeaving(w, Tail(local[Victim(w)]))

\* TryDequeueAny(): the victim has nothing; after the last one the call
\* returns nothing.
WorkerNoSteal(w) ==
    /\ pc[w] = "steal"
    /\ scan[w].offset < NumWorkers => local[Victim(w)] = <<>>
    /\ scan' = [scan EXCEPT ![w].offset = @ + 1]
    /\ Goto(w, IF scan[w].offset + 1 < NumWorkers THEN "steal"
               ELSE IF scan[w].call = 1 THEN "load" ELSE "recheck")
    /\ UNCHANGED <<shared, current, hand, ready, nextWake, history>>

\* m_workWake.Load(); the worker goes on at l.
Load(w, l) ==
    /\ pc[w] = "load"
    /\ current' = current \cup {w}
    /\ scan' = [scan EXCEPT ![w] = [call |-> 2, offset |-> 1]]
    /\ Goto(w, l)
    /\ UNCHANGED <<shared, hand, ready, nextWake, history>>

\* Mutant: the queues are not searched again before the wait.
WorkerLoad_NoSearch(w) == Load(w, "recheck")

\* The generation is captured before the second TryDequeueAny().
WorkerLoad(w) == Load(w, "pop")

\* Mutant: m_stop is not tested between the capture and the wait.
WorkerRecheck_NoStop(w) ==
    /\ pc[w] = "recheck"
    /\ Goto(w, "wait")
    /\ UNCHANGED <<shared, current, locals, history>>

\* The second test of m_stop.
WorkerRecheck(w) ==
    /\ pc[w] = "recheck"
    /\ Goto(w, IF stop THEN "exited" ELSE "wait")
    /\ UNCHANGED <<shared, current, locals, history>>

\* m_workWake.Wait(observedWakeGeneration).
WorkerWait(w) == pc[w] = "wait" /\ Sleep(w)

-----------------------------------------------------------------------------
(* TimerLoop()                                                              *)

\* The loop condition.
TimerCheck ==
    /\ pc[Timer] = "check"
    /\ Goto(Timer, IF stop THEN "exited" ELSE "load")
    /\ UNCHANGED <<shared, current, locals, history>>

TimerLoad ==
    /\ pc[Timer] = "load"
    /\ current' = current \cup {Timer}
    /\ Goto(Timer, "scan")
    /\ UNCHANGED <<shared, locals, history>>

\* The items of S in an order in which the heap can deliver them.
InDeadlineOrder(S, s) ==
    /\ Len(s) = Cardinality(S) /\ Elements(s) = S
    /\ \A j, k \in 1..Len(s) : j < k => deadline[s[j]] <= deadline[s[k]]

Earliest(S) == CHOOSE d \in {deadline[i] : i \in S} : \A i \in S : d <= deadline[i]

\* Under m_timersMutex: the entries in due leave the heap, earliest first,
\* and the next deadline is noted.
TakeFromHeap(due) ==
    /\ pc[Timer] = "scan"
    /\ \E s \in [1..Cardinality(due) -> due] : InDeadlineOrder(due, s) /\ ready' = s
    /\ timers' = timers \ due
    /\ nextWake' = IF timers = due THEN None ELSE Earliest(timers \ due)
    /\ Goto(Timer, "execute")
    /\ UNCHANGED <<local, injection, clock, stop, current, hand, scan, history>>

\* Mutant: the whole heap is taken once one entry is due.
TimerScan_All == TakeFromHeap(IF \E i \in timers : deadline[i] <= clock THEN timers ELSE {})

\* The entries whose time point has come are taken.
TimerScan == TakeFromHeap({i \in timers : deadline[i] <= clock})

\* Execute() of the next due item, by a thread that is not a worker.
TimerExecute ==
    /\ pc[Timer] = "execute"
    /\ ready # <<>>
    /\ Push(Timer, Head(ready))
    /\ ready' = Tail(ready)
    /\ UNCHANGED <<timers, clock, stop, current, hand, scan, nextWake, history>>

\* After the due items: the second test of m_stop.
TimerRecheck ==
    /\ pc[Timer] = "execute"
    /\ ready = <<>>
    /\ Goto(Timer, IF stop THEN "exited"
                   ELSE IF nextWake # None /\ nextWake <= clock THEN "check" ELSE "wait")
    /\ UNCHANGED <<shared, current, locals, history>>

\* Wait() when the heap is empty, else WaitFor() until the next deadline.
TimerWait == pc[Timer] = "wait" /\ Sleep(Timer)

\* WaitFor() returns because the next deadline has come.
TimerTimeout ==
    /\ pc[Timer] = "parked"
    /\ nextWake # None /\ nextWake <= clock
    /\ Goto(Timer, "check")
    /\ UNCHANGED <<shared, current, locals, history>>

\* Time passes.
Tick ==
    /\ clock < MaxTime
    /\ clock' = clock + 1
    /\ UNCHANGED <<queues, stop, current, pc, locals, history>>

-----------------------------------------------------------------------------
WorkerStep(w) ==
    \/ WorkerCheck(w) \/ WorkerPop(w) \/ WorkerInject(w) \/ WorkerSteal(w) \/ WorkerNoSteal(w)
    \/ WorkerLoad(w) \/ WorkerRecheck(w) \/ WorkerWait(w)

TimerStep ==
    \/ TimerCheck \/ TimerLoad \/ TimerScan \/ TimerExecute
    \/ TimerRecheck \/ TimerWait \/ TimerTimeout

NotifyStep(t) ==
    NotifyWork(t) \/ WakeOne(t) \/ WakeAll(t) \/ NotifyTimer(t) \/ WakeTimer(t)

\* The rest of a call that a client has begun.
ClientStep(c) == ClearLocal(c) \/ ClearTimers(c) \/ Join(c)

ClientCall(c) ==
    \/ \E i \in Item : Submit(c, i) \/ \E at \in 0..MaxTime : SubmitAt(c, i, at)
    \/ RunOne(c) \/ CancelAll(c) \/ Destroy(c)

Next ==
    \/ \E w \in Worker : WorkerStep(w)
    \/ TimerStep
    \/ \E t \in Thread : NotifyStep(t)
    \/ \E t \in Worker \cup Client : InvokeReturns(t) \/ \E i \in Item : InvokeSubmits(t, i)
    \/ \E c \in Client : ClientCall(c) \/ ClientStep(c)
    \/ Tick

Spec == Init /\ [][Next]_vars

\* The operating system runs every thread, work items return, and time
\* passes.  Nobody is obliged to call the scheduler.
Fairness ==
    /\ \A w \in Worker : WF_vars(WorkerStep(w))
    /\ WF_vars(TimerStep)
    /\ \A t \in Thread : WF_vars(NotifyStep(t))
    /\ \A t \in Worker \cup Client : WF_vars(InvokeReturns(t))
    /\ \A c \in Client : WF_vars(ClientStep(c))
    /\ WF_vars(Tick)

\* The scheduler as it is used without time points ahead and without CancelAll():
\* the actions of Next that MaxTime = 0 and MaxCancels = 0 leave enabled.
UntimedNext ==
    \/ \E w \in Worker : WorkerStep(w)
    \/ TimerCheck \/ TimerLoad \/ TimerScan \/ TimerRecheck \/ TimerWait
    \/ \E t \in Thread : NotifyStep(t)
    \/ \E t \in Worker \cup Client : InvokeReturns(t) \/ \E i \in Item : InvokeSubmits(t, i)
    \/ \E c \in Client : RunOne(c) \/ Destroy(c) \/ Join(c) \/ \E i \in Item : Submit(c, i)

UntimedFairSpec == Init /\ [][UntimedNext]_vars /\ Fairness

-----------------------------------------------------------------------------
Label == {"idle", "check", "pop", "inject", "steal", "load", "recheck", "wait", "parked",
          "exited", "run", "scan", "execute", "notifyOne", "wakeOne", "notifyAll", "wakeAll",
          "notifyTimer", "wakeTimer", "clearLocal", "clearTimers", "join", "destroyed"}

TypeOK ==
    /\ local \in [Worker -> Seq(Item)]
    /\ injection \in Seq(Item)
    /\ timers \in SUBSET Item
    /\ clock \in 0..MaxTime
    /\ stop \in BOOLEAN
    /\ current \in SUBSET (Worker \cup {Timer})
    /\ pc \in [Thread -> Label]
    /\ hand \in [Thread -> Item \cup {None}]
    /\ scan \in [Thread -> [call : {1, 2}, offset : 1..(NumWorkers + 1)]]
    /\ ready \in Seq(Item)
    /\ nextWake \in (0..MaxTime) \cup {None}
    /\ status \in [Item -> {"fresh", "pending", "done", "dropped"}]
    /\ deadline \in [Item -> (0..MaxTime) \cup {None}]
    /\ cancels \in 0..MaxCancels
    /\ doomed \in SUBSET Item

\* How often an item occurs in a sequence, and in all of the scheduler.
Count(s, i) == Cardinality({k \in 1..Len(s) : s[k] = i})

Occurrences(i) ==
    Count(injection, i) + Count(ready, i) + Cardinality({i} \cap timers)
    + Cardinality({t \in Thread : hand[t] = i})
    + Cardinality(UNION {{<<w, k>> : k \in {j \in 1..Len(local[w]) : local[w][j] = i}}
                         : w \in Worker})

\* Work is neither lost nor duplicated: through pushing, popping, stealing,
\* the timer thread and CancelAll(), an accepted item is in exactly one place
\* until it has run or was dropped, and in none afterwards.
ExactlyOnce ==
    \A i \in Item : Occurrences(i) = IF status[i] = "pending" THEN 1 ELSE 0

\* No lost wake-up: while work is queued, not every worker sleeps unless the
\* notification for it is still on its way.
NoSleepOnWork ==
    Queued # {} /\ ~stop =>
        \/ \E w \in Worker : pc[w] # "parked"
        \/ \E t \in Thread : pc[t] \in {"notifyOne", "wakeOne", "notifyAll", "wakeAll"}

\* ExecuteAt(): no item leaves the timer heap before its time point.
NotEarly ==
    \A i \in Item : deadline[i] # None /\ deadline[i] > clock
                       => i \in timers \/ status[i] = "dropped"

\* No timer is overslept: while TimerLoop() sleeps, it is to wake no later than
\* the earliest entry of the heap, unless the notification of the ExecuteAt()
\* that added an earlier one is still on its way.
NoOversleep ==
    timers # {} /\ pc[Timer] = "parked" /\ ~stop =>
        \/ nextWake # None /\ nextWake <= Earliest(timers)
        \/ \E t \in Thread : pc[t] \in {"notifyTimer", "wakeTimer"}

\* Timers are exact: what ExecuteAt() submitted runs neither before its time nor
\* later than it must because TimerLoop() slept past a new, earlier entry.
TimersExact == NotEarly /\ NoOversleep

\* When the destructor returns, every thread of the pool has ended and no
\* accepted item is left behind, whatever running items submitted meanwhile.
CleanShutdown ==
    (\E c \in Client : pc[c] = "destroyed") =>
        /\ \A i \in Item : status[i] # "pending"
        /\ \A t \in Worker \cup {Timer} : pc[t] = "exited"

\* CancelAll() discards queued and timed work: once a call has returned, an
\* item that was queued or timed when it began is not still waiting to run.
CancelAllDiscards ==
    (\A c \in Client : pc[c] = "idle") =>
        \A i \in doomed : i \notin Queued \cup timers \cup Elements(ready)

\* Accepted work runs, unless CancelAll() or the destructor drops it: no item
\* waits for ever while workers sleep, not even behind a busy worker.
EventuallyHandled ==
    \A i \in Item : status[i] = "pending" ~> status[i] \in {"done", "dropped"}

\* The destructor returns: every worker and the timer thread sees m_stop,
\* however its last wait raced with the notifications.
ShutdownTerminates == stop ~> \E c \in Client : pc[c] = "destroyed"
=============================================================================
