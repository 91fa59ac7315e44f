----------------------------- MODULE AsyncTask -----------------------------
(***************************************************************************)
(* Task, Operation, Spawn(), SyncWait(), Detach() and the awaiters of      *)
(* TaskContext (include/NGIN/Async/Task.hpp, TaskContext.hpp) on an        *)
(* executor with several threads.                                          *)
(*                                                                         *)
(* A coroutine frame is a root, started by a client, or a child that a     *)
(* root awaits as an rvalue.  The frame's promise is modelled field by     *)
(* field; a coroutine body may yield, await a child or return, with any    *)
(* outcome.  One action is one atomic access of the promise together with  *)
(* the accesses around it that nobody else can observe, so that finishing, *)
(* cancelling, waiting, detaching and destroying interleave as they can    *)
(* between the clients, the executor's threads and the thread that calls   *)
(* CancellationSource::Cancel().                                           *)
(*                                                                         *)
(* What a thread does with a frame that was destroyed is undefined.  Such  *)
(* an access sets stale, and the model says nothing about what follows.    *)
(* Contexts have a valid executor; awaiting a running Operation from       *)
(* another coroutine is modelled in Combinators.                           *)
(***************************************************************************)
EXTENDS Naturals, FiniteSets

CONSTANTS
    Root, Child,    \* frames
    RootOf,         \* [Child -> Root]: who awaits a child
    Worker,         \* threads of the executor
    Canceler,       \* the thread that cancels the context's token
    MaxYields,      \* bound: YieldNow() or Delay() calls of one frame
    MayCancel,      \* bound: whether Cancel() is called
    Uses,           \* bound: the ways a client uses a root, of "wait", "detach"
    None

Frame == Root \cup Child
Thread == Worker \cup Root \cup {Canceler}      \* a root stands for its client

\* "error" is a domain error or a fault.
Outcome == {"success", "error", "canceled"}

ASSUME RootOfAssumption == RootOf \in [Child -> Root]
ASSUME DistinctThreads == Worker \cap Root = {} /\ Canceler \notin Worker \cup Root
ASSUME DistinctFrames == Root \cap Child = {} /\ None \notin Frame \cup Outcome
ASSUME UsesAssumption == Uses \subseteq {"wait", "detach"} /\ MaxYields \in Nat

VARIABLES
    finished,       \* m_finished
    outcome,        \* m_completion, or None
    cont,           \* m_continuation, or None
    detached,       \* m_detached
    alive,          \* the frame has been created and not destroyed
    place,          \* where the coroutine is: "cold", "run", "yield", "await", "end"
    yields,         \* bound: yields so far
    queued,         \* executions of the handle waiting in the executor
    lambdas,        \* resumption lambdas of Yield and Delay waiting there
    canceled,       \* the token
    reg,            \* registration of the frame's awaiter: "none", "listed", "taken"
    todo,           \* Cancel(): frames whose registration it has still to fire
    pc,             \* what a thread does next
    base,           \* the frame whose code the thread runs
    on,             \* the frame that MarkFinishedAndResume() runs for
    return,         \* where the thread goes on after that
    destroyAtEnd,   \* FinalAwaiter: destroyOnCompletion
    current,        \* clients whose observed generation is not outdated
    use,            \* how each client uses its root
    result,         \* what SyncWait() returned, or None
    stale           \* a destroyed frame was accessed

promise == <<finished, outcome, cont, detached, alive>>
coroutine == <<place, yields>>
executor == <<queued, lambdas>>
token == <<canceled, reg, todo>>
threads == <<base, on, return, destroyAtEnd>>
clients == <<current, use, result>>
vars == <<promise, coroutine, executor, token, pc, threads, clients, stale>>

Init ==
    /\ finished = [f \in Frame |-> FALSE]
    /\ outcome = [f \in Frame |-> None]
    /\ cont = [f \in Frame |-> None]
    /\ detached = [f \in Frame |-> FALSE]
    /\ alive = [f \in Frame |-> TRUE]
    /\ place = [f \in Frame |-> "cold"]
    /\ yields = [f \in Frame |-> 0]
    /\ queued = [f \in Frame |-> 0]
    /\ lambdas = [f \in Frame |-> 0]
    /\ canceled = FALSE
    /\ reg = [f \in Frame |-> "none"]
    /\ todo = {}
    /\ pc = [t \in Thread |-> IF t \in Root THEN "spawn" ELSE "idle"]
    /\ base = [t \in Thread |-> None]
    /\ on = [t \in Thread |-> None]
    /\ return = [t \in Thread |-> "idle"]
    /\ destroyAtEnd = [t \in Thread |-> FALSE]
    /\ current = {}
    /\ use \in [Root -> Uses]
    /\ result = [r \in Root |-> None]
    /\ stale = FALSE

\* Thread t takes a step to l: nothing is said of what follows a stale access.
Goto(t, l) == ~stale /\ pc' = [pc EXCEPT ![t] = l]
Add(f, x) == [f EXCEPT ![x] = @ + 1]
Take(f, x) == [f EXCEPT ![x] = @ - 1]
Touch(S) == stale' = (\E f \in S : ~alive[f])

\* SetCompletion(): the first outcome stays.
SetCompletion(f, o) == [outcome EXCEPT ![f] = IF @ = None THEN o ELSE @]

\* ReleaseHandle() of the Task of child c inside the frame of its root.
Released(c) == finished[c] \/ place[c] = "cold"

\* handle.destroy() of root r; its coroutine may own the Task of a child.
DestroyRoot(r) ==
    LET own == {c \in Child : RootOf[c] = r /\ alive[c]} IN
    /\ alive' = [f \in Frame |-> alive[f] /\ f # r /\ ~(f \in own /\ Released(f))]
    /\ detached' = [f \in Frame |-> detached[f] \/ (f \in own /\ ~Released(f))]

-----------------------------------------------------------------------------
(* Clients: Spawn(), then SyncWait() or Detach()                            *)

\* Spawn(): the root is handed to the executor.
Spawn(r) ==
    /\ pc[r] = "spawn"
    /\ queued' = Add(queued, r)
    /\ Goto(r, use[r])
    /\ UNCHANGED <<promise, coroutine, lambdas, token, threads, clients, stale>>

\* WaitUntilComplete(): the loop condition.
WaitCheck(r) ==
    /\ pc[r] = "wait"
    /\ Goto(r, IF finished[r] THEN "take" ELSE "load")
    /\ Touch({r})
    /\ UNCHANGED <<promise, coroutine, executor, token, threads, clients>>

\* Mutant: m_finished is not read again after the generation.
WaitLoad_NoRecheck(r) ==
    /\ pc[r] = "load"
    /\ current' = current \cup {r}
    /\ Goto(r, "sleep")
    /\ Touch({r})
    /\ UNCHANGED <<promise, coroutine, executor, token, threads, use, result>>

\* WaitUntilComplete(): the generation, then m_finished again.
WaitLoad(r) ==
    /\ pc[r] = "load"
    /\ current' = current \cup {r}
    /\ Goto(r, "recheck")
    /\ Touch({r})
    /\ UNCHANGED <<promise, coroutine, executor, token, threads, use, result>>

WaitRecheck(r) ==
    /\ pc[r] = "recheck"
    /\ Goto(r, IF finished[r] THEN "take" ELSE "sleep")
    /\ Touch({r})
    /\ UNCHANGED <<promise, coroutine, executor, token, threads, clients>>

\* m_finishedCondition.Wait(): sleeps while the generation is the one seen.
WaitSleep(r) ==
    /\ pc[r] = "sleep"
    /\ Goto(r, IF r \in current THEN "parked" ELSE "wait")
    /\ Touch({r})
    /\ UNCHANGED <<promise, coroutine, executor, token, threads, clients>>

\* TakeResult(), and ~Operation(): the frame is finished and is destroyed.
TakeResult(r) ==
    /\ pc[r] = "take"
    /\ result' = [result EXCEPT ![r] = outcome[r]]
    /\ DestroyRoot(r)
    /\ Goto(r, "done")
    /\ Touch({r})
    /\ UNCHANGED <<finished, outcome, cont, coroutine, executor, token, threads, current, use>>

\* Detach(), or ~Operation() of running work: m_finished is read first.
DetachCheck(r) ==
    /\ pc[r] = "detach"
    /\ Goto(r, IF finished[r] THEN "destroy" ELSE "store")
    /\ Touch({r})
    /\ UNCHANGED <<promise, coroutine, executor, token, threads, clients>>

\* Detach(): the work was unfinished, so the frame is told to destroy itself.
DetachStore(r) ==
    /\ pc[r] = "store"
    /\ detached' = [detached EXCEPT ![r] = TRUE]
    /\ Goto(r, "done")
    /\ Touch({r})
    /\ UNCHANGED <<finished, outcome, cont, alive, coroutine, executor, token, threads, clients>>

\* Detach(): the work was finished; ~Operation() destroys the frame.
DetachDestroy(r) ==
    /\ pc[r] = "destroy"
    /\ DestroyRoot(r)
    /\ Goto(r, "done")
    /\ Touch({r})
    /\ UNCHANGED <<finished, outcome, cont, coroutine, executor, token, threads, clients>>

-----------------------------------------------------------------------------
(* The executor's threads                                                   *)

\* A queued handle is resumed.  A root that resumes from an await destroys
\* the child's Task and the awaiter with its registration.
Execute(w, f) ==
    /\ pc[w] = "idle" /\ queued[f] > 0
    /\ queued' = Take(queued, f)
    /\ place' = [place EXCEPT ![f] = "run"]
    /\ reg' = [reg EXCEPT ![f] = "none"]
    /\ alive' = [c \in Frame |-> alive[c] /\ ~(cont[c] = f /\ finished[c])]
    /\ base' = [base EXCEPT ![w] = f]
    /\ Goto(w, "body")
    /\ Touch({f})
    /\ UNCHANGED <<finished, outcome, cont, detached, yields, lambdas, canceled, todo, on, return,
                   destroyAtEnd, clients>>

\* The lambda of Yield and Delay: nothing to do for a completed promise.
Lambda(w, f) ==
    /\ pc[w] = "idle" /\ lambdas[f] > 0
    /\ lambdas' = Take(lambdas, f)
    /\ base' = [base EXCEPT ![w] = f]
    /\ Goto(w, IF finished[f] THEN "idle" ELSE "resume")
    /\ Touch({f})
    /\ UNCHANGED <<promise, coroutine, queued, token, on, return, destroyAtEnd, clients>>

\* ... else the coroutine resumes and its awaiter is destroyed.
Resume(w) ==
    /\ pc[w] = "resume"
    /\ place' = [place EXCEPT ![base[w]] = "run"]
    /\ reg' = [reg EXCEPT ![base[w]] = "none"]
    /\ Goto(w, "body")
    /\ Touch({base[w]})
    /\ UNCHANGED <<promise, yields, executor, canceled, todo, threads, clients>>

\* co_await ctx.YieldNow() or ctx.Delay(): the coroutine is suspended.
Yield(w) ==
    /\ pc[w] = "body"
    /\ yields[base[w]] < MaxYields
    /\ yields' = Add(yields, base[w])
    /\ place' = [place EXCEPT ![base[w]] = "yield"]
    /\ Goto(w, "check")
    /\ UNCHANGED <<promise, executor, token, threads, clients, stale>>

\* co_await of a child, plain or through WithCancellation().
Await(w) ==
    /\ pc[w] = "body"
    /\ \E c \in Child : RootOf[c] = base[w] /\ place[c] = "cold"
    /\ place' = [place EXCEPT ![base[w]] = "await"]
    /\ Goto(w, "check") \/ Goto(w, "go")
    /\ UNCHANGED <<promise, yields, executor, token, threads, clients, stale>>

\* MarkFinishedAndResume() for frame f; the thread goes on at l.
Complete(t, f, l) ==
    /\ on' = [on EXCEPT ![t] = f]
    /\ return' = [return EXCEPT ![t] = l]
    /\ Goto(t, "mark")

\* await_suspend(): a cancelled token ends the coroutine here.
SuspendCheck(w) ==
    /\ pc[w] = "check"
    /\ IF canceled
       THEN Complete(w, base[w], "idle") /\ outcome' = SetCompletion(base[w], "canceled")
       ELSE Goto(w, "register") /\ UNCHANGED <<outcome, on, return>>
    /\ UNCHANGED <<finished, cont, detached, alive, coroutine, executor, token, base,
                   destroyAtEnd, clients, stale>>

\* await_suspend(): the callback is registered; a token cancelled meanwhile
\* runs it at once, and await_suspend() goes on all the same.
SuspendRegister(w) ==
    /\ pc[w] = "register"
    /\ IF canceled
       THEN /\ Complete(w, base[w], "go")
            /\ outcome' = SetCompletion(base[w], "canceled")
            /\ UNCHANGED reg
       ELSE /\ reg' = [reg EXCEPT ![base[w]] = "listed"]
            /\ Goto(w, "go")
            /\ UNCHANGED <<outcome, on, return>>
    /\ Touch({base[w]})
    /\ UNCHANGED <<finished, cont, detached, alive, coroutine, executor, canceled, todo, base,
                   destroyAtEnd, clients>>

\* await_suspend(): a yield queues its lambda.
SuspendYield(w) ==
    /\ pc[w] = "go" /\ place[base[w]] = "yield"
    /\ lambdas' = Add(lambdas, base[w])
    /\ Goto(w, "idle")
    /\ Touch({base[w]})
    /\ UNCHANGED <<promise, coroutine, queued, token, threads, clients>>

\* AwaitSuspend(): becomes the continuation of a cold child and starts it.
SuspendAwait(w) ==
    /\ pc[w] = "go" /\ place[base[w]] = "await"
    /\ \E c \in Child :
         /\ RootOf[c] = base[w] /\ place[c] = "cold"
         /\ cont' = [cont EXCEPT ![c] = base[w]]
         /\ place' = [place EXCEPT ![c] = "run"]
         /\ queued' = Add(queued, c)
         /\ Touch({base[w], c})
    /\ Goto(w, "idle")
    /\ UNCHANGED <<finished, outcome, detached, alive, yields, lambdas, token, threads, clients>>

\* co_return, DomainFailure(), Canceled(), Faulted() or an exception.
Return(w, o) ==
    /\ pc[w] = "body"
    /\ outcome' = SetCompletion(base[w], o)
    /\ place' = [place EXCEPT ![base[w]] = "end"]
    /\ Goto(w, "final")
    /\ Touch({base[w]})
    /\ UNCHANGED <<finished, cont, detached, alive, yields, executor, token, threads, clients>>

\* FinalAwaiter: whether to destroy the frame is decided before it is marked.
Final(w) ==
    /\ pc[w] = "final"
    /\ destroyAtEnd' = [destroyAtEnd EXCEPT ![w] = detached[base[w]] /\ cont[base[w]] = None]
    /\ Complete(w, base[w], "end")
    /\ Touch({base[w]})
    /\ UNCHANGED <<promise, coroutine, executor, token, base, clients>>

\* FinalAwaiter: the frame of detached work is destroyed.
End(w) ==
    /\ pc[w] = "end"
    /\ IF destroyAtEnd[w]
       THEN IF base[w] \in Root THEN DestroyRoot(base[w])
            ELSE alive' = [alive EXCEPT ![base[w]] = FALSE] /\ UNCHANGED detached
       ELSE UNCHANGED <<alive, detached>>
    /\ destroyAtEnd' = [destroyAtEnd EXCEPT ![w] = FALSE]
    /\ stale' = (destroyAtEnd[w] /\ ~alive[base[w]])
    /\ Goto(w, "idle")
    /\ UNCHANGED <<finished, outcome, cont, coroutine, executor, token, base, on, return, clients>>

-----------------------------------------------------------------------------
(* MarkFinishedAndResume() and PropagateChildCompletion()                   *)

\* Mutant: m_finished is stored without a comparison.
Mark_Store(t) ==
    /\ pc[t] = "mark"
    /\ finished' = [finished EXCEPT ![on[t]] = TRUE]
    /\ Goto(t, "notify")
    /\ Touch({on[t]})
    /\ UNCHANGED <<outcome, cont, detached, alive, coroutine, executor, token, threads, clients>>

\* compare_exchange on m_finished: the first one does the rest.
Mark(t) ==
    /\ pc[t] = "mark"
    /\ finished' = [finished EXCEPT ![on[t]] = TRUE]
    /\ Goto(t, IF finished[on[t]] THEN return[t] ELSE "notify")
    /\ Touch({on[t]})
    /\ UNCHANGED <<outcome, cont, detached, alive, coroutine, executor, token, threads, clients>>

\* m_finishedCondition.NotifyAll().
Notify(t) ==
    /\ pc[t] = "notify" /\ ~stale
    /\ current' = current \ {on[t]}
    /\ pc' = [u \in Thread |-> IF u = t THEN "continue"
                               ELSE IF u = on[t] /\ pc[u] = "parked" THEN "wait" ELSE pc[u]]
    /\ Touch({on[t]})
    /\ UNCHANGED <<promise, coroutine, executor, token, threads, use, result>>

\* Where the completion of the frame of t takes its continuation.
NextStep(f, l) ==
    IF cont[f] = None \/ finished[cont[f]] THEN l
    ELSE IF outcome[f] = "success" THEN "resumeParent" ELSE "propagate"

\* Mutant: the continuation is resumed whatever the child's outcome.
Continue_AnyOutcome(t) ==
    /\ pc[t] = "continue"
    /\ Goto(t, IF cont[on[t]] = None \/ finished[cont[on[t]]] THEN return[t] ELSE "resumeParent")
    /\ Touch({on[t]} \cup ({cont[on[t]]} \cap Frame))
    /\ UNCHANGED <<promise, coroutine, executor, token, threads, clients>>

\* m_continuation and its m_finished are read.
Continue(t) ==
    /\ pc[t] = "continue"
    /\ Goto(t, NextStep(on[t], return[t]))
    /\ Touch({on[t]} \cup ({cont[on[t]]} \cap Frame))
    /\ UNCHANGED <<promise, coroutine, executor, token, threads, clients>>

\* The child succeeded: its continuation goes to the executor.
ResumeParent(t) ==
    /\ pc[t] = "resumeParent"
    /\ queued' = Add(queued, cont[on[t]])
    /\ Goto(t, return[t])
    /\ Touch({on[t]})
    /\ UNCHANGED <<promise, coroutine, lambdas, token, threads, clients>>

\* The child failed: its outcome becomes the parent's, who finishes too.
Propagate(t) ==
    /\ pc[t] = "propagate"
    /\ outcome' = SetCompletion(cont[on[t]], outcome[on[t]])
    /\ on' = [on EXCEPT ![t] = cont[on[t]]]
    /\ Goto(t, "mark")
    /\ Touch({on[t], cont[on[t]]})
    /\ UNCHANGED <<finished, cont, detached, alive, coroutine, executor, token, base, return,
                   destroyAtEnd, clients>>

-----------------------------------------------------------------------------
(* CancellationSource::Cancel(), as module Cancellation has it              *)

\* The token is cancelled and the list of registrations taken.
Cancel ==
    /\ MayCancel /\ ~canceled /\ ~stale
    /\ canceled' = TRUE
    /\ todo' = {f \in Frame : reg[f] = "listed"}
    /\ reg' = [f \in Frame |-> IF reg[f] = "listed" THEN "taken" ELSE reg[f]]
    /\ UNCHANGED <<promise, coroutine, executor, pc, threads, clients, stale>>

\* Fire(): the callback is loaded, unless the registration was reset.
FireLoad(f) ==
    /\ pc[Canceler] = "idle" /\ f \in todo
    /\ todo' = todo \ {f}
    /\ base' = [base EXCEPT ![Canceler] = f]
    /\ Goto(Canceler, IF reg[f] = "taken" THEN "call" ELSE "idle")
    /\ Touch({f})
    /\ UNCHANGED <<promise, coroutine, executor, canceled, reg, on, return, destroyAtEnd, clients>>

\* The callback: SetCanceled() and MarkFinishedAndResume().
FireCall ==
    /\ pc[Canceler] = "call"
    /\ outcome' = SetCompletion(base[Canceler], "canceled")
    /\ Complete(Canceler, base[Canceler], "idle")
    /\ Touch({base[Canceler]})
    /\ UNCHANGED <<finished, cont, detached, alive, coroutine, executor, token, base,
                   destroyAtEnd, clients>>

-----------------------------------------------------------------------------
ClientStep(r) ==
    \/ Spawn(r)
    \/ WaitCheck(r) \/ WaitLoad(r) \/ WaitRecheck(r) \/ WaitSleep(r) \/ TakeResult(r)
    \/ DetachCheck(r) \/ DetachStore(r) \/ DetachDestroy(r)

CompletionStep(t) ==
    Mark(t) \/ Notify(t) \/ Continue(t) \/ ResumeParent(t) \/ Propagate(t)

WorkerStep(w) ==
    \/ \E f \in Frame : Execute(w, f) \/ Lambda(w, f)
    \/ Resume(w) \/ Yield(w) \/ Await(w) \/ (\E o \in Outcome : Return(w, o))
    \/ SuspendCheck(w) \/ SuspendRegister(w) \/ SuspendYield(w) \/ SuspendAwait(w)
    \/ Final(w) \/ End(w)

CancelStep == FireCall \/ \E f \in Frame : FireLoad(f)

Next ==
    \/ \E r \in Root : ClientStep(r)
    \/ \E w \in Worker : WorkerStep(w)
    \/ \E t \in Thread : CompletionStep(t)
    \/ Cancel \/ CancelStep

Spec == Init /\ [][Next]_vars

-----------------------------------------------------------------------------
TypeOK ==
    /\ finished \in [Frame -> BOOLEAN]
    /\ outcome \in [Frame -> Outcome \cup {None}]
    /\ cont \in [Frame -> Root \cup {None}]
    /\ detached \in [Frame -> BOOLEAN] /\ alive \in [Frame -> BOOLEAN]
    /\ place \in [Frame -> {"cold", "run", "yield", "await", "end"}]
    /\ yields \in [Frame -> 0..MaxYields]
    /\ queued \in [Frame -> 0..1] /\ lambdas \in [Frame -> 0..1]
    /\ canceled \in BOOLEAN
    /\ reg \in [Frame -> {"none", "listed", "taken"}]
    /\ todo \in SUBSET Frame
    /\ pc \in [Thread -> {"spawn", "wait", "load", "recheck", "sleep", "parked", "take", "detach",
                          "store", "destroy", "done", "idle", "resume", "body", "check", "register",
                          "go", "final", "end", "mark", "notify", "continue", "resumeParent",
                          "propagate", "call"}]
    /\ base \in [Thread -> Frame \cup {None}] /\ on \in [Thread -> Frame \cup {None}]
    /\ return \in [Thread -> {"idle", "go", "end"}]
    /\ destroyAtEnd \in [Thread -> BOOLEAN]
    /\ current \in SUBSET Root
    /\ use \in [Root -> Uses]
    /\ result \in [Root -> Outcome \cup {None}]
    /\ stale \in BOOLEAN

\* A coroutine is never resumed twice for one suspension: at any time at most
\* one resumption of it is queued or under way, however its completion, its
\* children and a cancellation race.
OneActivation ==
    \A f \in Frame :
        queued[f] + lambdas[f]
            + Cardinality({w \in Worker : base[w] = f /\ pc[w] \in {"resume", "body", "check",
                                                                    "register", "go", "final"}}) <= 1

\* Failures propagate: a root that succeeded had no failed child before it.
SuccessIsGenuine ==
    \A c \in Child : outcome[RootOf[c]] = "success" /\ finished[c] => outcome[c] = "success"

\* The outcome is published before m_finished: nobody sees a finished frame
\* without a completion, and what SyncWait() returned stays the outcome.
FinishedHasOutcome ==
    /\ \A f \in Frame : finished[f] => outcome[f] # None
    /\ \A r \in Root : result[r] # None => result[r] = outcome[r]

\* SyncWait() returns: no completion path, of the root, of a child or of the
\* cancelling thread, and no ordering with the sleep loses the wake-up.
SyncWaitReturns ==
    \A r \in Root : use[r] = "wait" ~> result[r] # None \/ stale

\* A detached coroutine destroys its own frame after completion.
DetachedFreed ==
    \A r \in Root : use[r] = "detach" /\ finished[r] ~> ~alive[r] \/ stale
=============================================================================
