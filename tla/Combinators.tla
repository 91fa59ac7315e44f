---------------------------- MODULE Combinators ----------------------------
(***************************************************************************)
(* WhenAll(), WhenAny() and co_await of a running Operation                *)
(* (include/NGIN/Async/WhenAll.hpp, WhenAny.hpp, Task.hpp, Completion.hpp) *)
(* on an executor with as many threads as there are coroutines; fewer      *)
(* threads take fewer interleavings.                                       *)
(*                                                                         *)
(* Coroutine 0 is the combinator; in WhenAny() coroutine i is Watch<i-1>.  *)
(* Operation i is the i-th argument; an empty Task makes an Operation      *)
(* without a handle.  An Operation finishes in three steps (completion,    *)
(* m_finished, continuation), and co_await of it takes three (test, test,  *)
(* store).  Each Operation has one awaiter, as it has here, so that        *)
(* await_suspend() never finds another continuation.                       *)
(*                                                                         *)
(* Like in AsyncTask, an access of a destroyed frame sets stale, and the   *)
(* model says nothing about what follows.                                  *)
(***************************************************************************)
EXTENDS Naturals, Sequences, FiniteSets, FiniteSetsExt

CONSTANTS
    N,          \* number of arguments
    Uses,       \* bound: of "all" and "void" (WhenAll() of Tasks with and without a value), "any",
                \* and "twice", a coroutine that awaits an Operation again
    None

Op == 1..N
Coroutine == 0..N
Parent == 0

VARIABLES
    use,            \* what coroutine 0 is
    canceled,       \* the context's token when it starts
    empty,          \* arguments that are moved-from Tasks
    run,            \* Operation: "cold", "body", "mark", "continue", "done"
    completion,     \* m_completion, or None
    finished,       \* m_finished
    cont,           \* m_continuation, or None
    writing,        \* await_suspend() has stored the continuation, not yet the handler
    freed,          \* the frame is destroyed
    taken,          \* m_resultTaken
    pc,             \* what a coroutine does next
    at,             \* position in the list of Operations that it awaits
    got,            \* completions it has received
    shared,         \* WhenAny: SharedState {completed, index, continuation}
    toResume,       \* Complete(): watchers that took the continuation
    result,         \* the completion of coroutine 0, or None
    order,          \* history: Complete() calls
    misused,        \* history: a coroutine was resumed that did not wait
    stale           \* a destroyed frame was accessed

operations == <<run, completion, finished, cont, writing, freed, taken>>
vars == <<use, canceled, empty, operations, pc, at, got, shared, toResume, result, order, misused, stale>>

-----------------------------------------------------------------------------
(* Completion<T, E>: a kind and what comes with it                          *)

Kinds == {"success", "domain", "canceled", "fault"}
Success(v) == [kind |-> "success", value |-> v]
DomainFailure(e) == [kind |-> "domain", value |-> e]
Canceled == [kind |-> "canceled", value |-> None]
Faulted(code) == [kind |-> "fault", value |-> code]
VoidSuccess == [kind |-> "success", value |-> None]
Succeeded(c) == c.kind = "success"
Value(c) == c.value

\* The completions of operation i; the value, error or fault names it.
CompletionsOf(i) ==
    [k \in Kinds |-> CASE k = "success" -> IF use = "void" THEN VoidSuccess ELSE Success(i)
                       [] k = "domain" -> DomainFailure(i)
                       [] k = "canceled" -> Canceled
                       [] k = "fault" -> Faulted(i)]
InvalidUsage == Faulted("InvalidTaskUsage")

Init ==
    /\ use \in Uses
    /\ canceled \in BOOLEAN
    /\ empty \in SUBSET Op
    /\ run = [i \in Op |-> "cold"]
    /\ completion = [i \in Op |-> None]
    /\ finished = [i \in Op |-> FALSE]
    /\ cont = [i \in Op |-> None]
    /\ writing = {}
    /\ freed = {}
    /\ taken = {}
    /\ pc = [c \in Coroutine |-> IF c = Parent THEN "start" ELSE "none"]
    /\ at = [c \in Coroutine |-> 1]
    /\ got = <<>>
    /\ shared = [completed |-> FALSE, index |-> 0, continuation |-> FALSE]
    /\ toResume = {}
    /\ result = None
    /\ order = <<>>
    /\ misused = FALSE
    /\ stale = FALSE

\* The Operations that coroutine c awaits, in order.
Awaits(c) ==
    IF use \in {"all", "void"} THEN [i \in Op |-> i]
    ELSE IF use = "any" THEN <<c>>
    ELSE <<1, 1>>
Awaited(c) == Awaits(c)[at[c]]

Goto(c, l) == ~stale /\ pc' = [pc EXCEPT ![c] = l]
\* A thread accesses the frame of operation i.
Touch(i) == stale' = (i \in freed)

\* Execute(): the executor resumes coroutine c, which must wait for it.
Resume(c) ==
    /\ pc' = [pc EXCEPT ![c] = "resumed"]
    /\ misused' = (misused \/ pc[c] # "suspended")

\* Destruction of Operations whose results were taken: ~Operation() frees a finished frame.
Release(S) == freed' = freed \cup {i \in S \ empty : finished[i]}

-----------------------------------------------------------------------------
(* The combinators' first steps                                             *)

\* WhenAll(), WhenAny(): nothing starts on a cancelled context; otherwise every
\* argument is spawned, and WhenAny() detaches one watcher for each.
Start ==
    /\ pc[Parent] = "start" /\ ~stale
    /\ IF canceled
         THEN /\ pc' = [pc EXCEPT ![Parent] = "done"]
              /\ result' = Canceled
              /\ UNCHANGED run
         ELSE /\ run' = [i \in Op |-> IF i \in empty THEN "done" ELSE "body"]
              /\ pc' = [c \in Coroutine |->
                          IF use # "any" THEN (IF c = Parent THEN "ready" ELSE "none")
                          ELSE IF c = Parent THEN "first" ELSE "ready"]
              /\ UNCHANGED result
    /\ UNCHANGED <<use, canceled, empty, completion, finished, cont, writing, freed, taken, at, got, shared, toResume,
                   order, misused, stale>>

-----------------------------------------------------------------------------
(* A spawned task                                                           *)

\* The body ends: return_value(), a domain error, cancellation or an exception.
Body(i) ==
    /\ run[i] = "body" /\ ~stale
    /\ \E k \in Kinds : completion' = [completion EXCEPT ![i] = CompletionsOf(i)[k]]
    /\ run' = [run EXCEPT ![i] = "mark"]
    /\ UNCHANGED <<use, canceled, empty, finished, cont, writing, freed, taken, pc, at, got, shared, toResume, result,
                   order, misused, stale>>

\* MarkFinishedAndResume(): m_finished is set.
Mark(i) ==
    /\ run[i] = "mark" /\ ~stale
    /\ finished' = [finished EXCEPT ![i] = TRUE]
    /\ run' = [run EXCEPT ![i] = "continue"]
    /\ UNCHANGED <<use, canceled, empty, completion, cont, writing, freed, taken, pc, at, got, shared, toResume, result,
                   order, misused, stale>>

\* MarkFinishedAndResume(): m_continuation is read, and resumed on the executor.
Continue(i) ==
    /\ run[i] = "continue" /\ ~stale
    /\ run' = [run EXCEPT ![i] = "done"]
    /\ Touch(i)
    /\ IF cont[i] = None THEN UNCHANGED <<pc, misused>> ELSE Resume(cont[i])
    /\ UNCHANGED <<use, canceled, empty, completion, finished, cont, writing, freed, taken, at, got, shared, toResume,
                   result, order>>

-----------------------------------------------------------------------------
(* co_await operation                                                       *)

\* await_ready(), then the second test in await_suspend().
Test(c) ==
    /\ pc[c] \in {"ready", "suspend"}
    /\ LET i == Awaited(c) IN
       Goto(c, IF i \in empty \/ finished[i] THEN "resumed"
               ELSE IF pc[c] = "ready" THEN "suspend" ELSE "store")
    /\ UNCHANGED <<use, canceled, empty, operations, at, got, shared, toResume, result, order, misused, stale>>

\* await_suspend(): child.m_continuation = awaiting; the coroutine is suspended from here on.
Store(c) ==
    /\ pc[c] = "store"
    /\ cont' = [cont EXCEPT ![Awaited(c)] = c]
    /\ writing' = writing \cup {Awaited(c)}
    /\ Goto(c, "suspended")
    /\ UNCHANGED <<use, canceled, empty, run, completion, finished, freed, taken, at, got, shared, toResume, result,
                   order, misused, stale>>

\* await_suspend(): child.m_completionHandler = nullptr, on the thread that stored the continuation.
StoreHandler(i) ==
    /\ i \in writing /\ ~stale
    /\ writing' = writing \ {i}
    /\ Touch(i)
    /\ UNCHANGED <<use, canceled, empty, run, completion, finished, cont, freed, taken, pc, at, got, shared, toResume,
                   result, order, misused>>

\* TakeResult(): the completion, once.
TakeResult(i) == IF i \in empty \/ ~finished[i] \/ i \in taken THEN InvalidUsage ELSE completion[i]

\* AwaitVoidOperations(), AwaitValueOperations(): the completion of one argument is kept; the nested
\* coroutine for the next one is awaited as a child Task, which always succeeds.
Collect ==
    /\ use # "any" /\ pc[Parent] = "resumed"
    /\ got' = Append(got, TakeResult(Awaited(Parent)))
    /\ taken' = taken \cup ({Awaited(Parent)} \ empty)
    /\ at' = [at EXCEPT ![Parent] = @ + 1]
    /\ Goto(Parent, IF at[Parent] = Len(Awaits(Parent)) THEN "return" ELSE "ready")
    /\ UNCHANGED <<use, canceled, empty, run, completion, finished, cont, writing, freed, shared, toResume, result,
                   order, misused, stale>>

\* Mutant: CaptureFailure() replaces an earlier failure.
CaptureFailure_Last(cs) == cs[Max({k \in DOMAIN cs : ~Succeeded(cs[k])})]

\* CaptureFailure() over the arguments: the first failure stays.
CaptureFailure(cs) == cs[Min({k \in DOMAIN cs : ~Succeeded(cs[k])})]
Failed(cs) == \E k \in DOMAIN cs : ~Succeeded(cs[k])

\* ConvertFailure(): the failure as a completion of the tuple's type.
ConvertFailure(c) ==
    CASE c.kind = "domain" -> DomainFailure(Value(c))
      [] c.kind = "canceled" -> Canceled
      [] OTHER -> Faulted(Value(c))

\* TakeValues(): the values in argument order.
TakeValues(cs) == [k \in DOMAIN cs |-> Value(cs[k])]

\* Mutant: a completion replaces an earlier one.
SetCompletion_Last(old, new) == new

\* The promise's SetCompletion(): the first completion stays.
SetCompletion(old, new) == IF old = None THEN new ELSE old

\* co_await DomainFailure(), Canceled() or Faulted() stores the failure and goes on to the co_return.
VoidResult(cs) == SetCompletion(IF Failed(cs) THEN SetCompletion(None, CaptureFailure(cs)) ELSE None, VoidSuccess)
ValueResult(cs) == IF Failed(cs) THEN ConvertFailure(CaptureFailure(cs)) ELSE Success(TakeValues(cs))

\* WhenAll() returns the failure, or else the values; its Operations are destroyed.
ReturnAll ==
    /\ use # "any" /\ pc[Parent] = "return"
    /\ result' = IF use = "void" THEN VoidResult(got) ELSE ValueResult(got)
    /\ Release(Op)
    /\ Goto(Parent, "done")
    /\ UNCHANGED <<use, canceled, empty, run, completion, finished, cont, writing, taken, at, got, shared, toResume,
                   order, misused, stale>>

-----------------------------------------------------------------------------
(* WhenAny(): SharedState, under its mutex                                  *)

\* Mutant: Complete() does not look at completed.
Complete_Always(c) ==
    /\ use = "any" /\ pc[c] = "resumed" /\ c # Parent
    /\ taken' = taken \cup ({c} \ empty)
    /\ order' = Append(order, c)
    /\ shared' = [shared EXCEPT !.completed = TRUE, !.index = c - 1]
    /\ toResume' = IF shared.continuation THEN toResume \cup {c} ELSE toResume
    /\ Goto(c, "wake")
    /\ UNCHANGED <<use, canceled, empty, run, completion, finished, cont, writing, freed, at, got, result, misused,
                   stale>>

\* Watch(): the completion is discarded; Complete(): the first caller decides.
Complete(c) ==
    /\ use = "any" /\ pc[c] = "resumed" /\ c # Parent
    /\ taken' = taken \cup ({c} \ empty)
    /\ order' = Append(order, c)
    /\ IF shared.completed
         THEN UNCHANGED <<shared, toResume>>
         ELSE /\ shared' = [shared EXCEPT !.completed = TRUE, !.index = c - 1]
              /\ toResume' = IF shared.continuation THEN toResume \cup {c} ELSE toResume
    /\ Goto(c, "wake")
    /\ UNCHANGED <<use, canceled, empty, run, completion, finished, cont, writing, freed, at, got, result, misused,
                   stale>>

\* Complete(): exec.Execute(toResume).
Wake(c) ==
    /\ pc[c] = "wake" /\ c \in toResume /\ ~stale
    /\ toResume' = toResume \ {c}
    /\ Resume(Parent)
    /\ UNCHANGED <<use, canceled, empty, operations, at, got, shared, result, order, stale>>

\* Watch() ends: its frame goes, and the Operation in it.
EndWatch(c) ==
    /\ pc[c] = "wake" /\ c \notin toResume
    /\ Release({c})
    /\ Goto(c, "done")
    /\ UNCHANGED <<use, canceled, empty, run, completion, finished, cont, writing, taken, at, got, shared, toResume,
                   result, order, misused, stale>>

\* AwaitFirst: await_ready().
FirstReady ==
    /\ pc[Parent] = "first"
    /\ Goto(Parent, IF shared.completed THEN "resumed" ELSE "firstsuspend")
    /\ UNCHANGED <<use, canceled, empty, operations, at, got, shared, toResume, result, order, misused, stale>>

\* AwaitFirst: await_suspend(), SetContinuation().
SetContinuation ==
    /\ pc[Parent] = "firstsuspend"
    /\ shared' = IF shared.completed THEN shared ELSE [shared EXCEPT !.continuation = TRUE]
    /\ Goto(Parent, IF shared.completed THEN "resumed" ELSE "suspended")
    /\ UNCHANGED <<use, canceled, empty, operations, at, got, toResume, result, order, misused, stale>>

\* AwaitFirst: await_resume(); WhenAny() returns the index.
ReturnAny ==
    /\ use = "any" /\ pc[Parent] = "resumed"
    /\ result' = Success(shared.index)
    /\ Goto(Parent, "done")
    /\ UNCHANGED <<use, canceled, empty, operations, at, got, shared, toResume, order, misused, stale>>

-----------------------------------------------------------------------------
OperationStep(i) == Body(i) \/ Mark(i) \/ Continue(i) \/ StoreHandler(i)
CoroutineStep(c) == Test(c) \/ Store(c) \/ Complete(c) \/ Wake(c) \/ EndWatch(c)
ParentStep == Start \/ Collect \/ ReturnAll \/ FirstReady \/ SetContinuation \/ ReturnAny

Next ==
    \/ \E i \in Op : OperationStep(i)
    \/ \E c \in Coroutine : CoroutineStep(c)
    \/ ParentStep

-----------------------------------------------------------------------------
(* Properties                                                               *)

\* What awaiting argument i gives: its completion, or a fault for an empty Task.
Answer(i) == IF i \in empty THEN InvalidUsage ELSE completion[i]
Failures == {i \in Op : ~Succeeded(Answer(i))}

\* WhenAll() ends when every argument has ended, with the values in argument order or
\* with the failure of the first argument that failed, whichever ended first.
AllExact ==
    use \in {"all", "void"} /\ ~canceled /\ result # None =>
        /\ \A i \in Op \ empty : finished[i]
        /\ result = IF Failures # {} THEN Answer(Min(Failures))
                    ELSE IF use = "void" THEN VoidSuccess ELSE Success([i \in Op |-> i])

\* WhenAny() ends with an argument that has ended, the one that was reported first, and its
\* index is a success whatever became of that argument: "The first completed child may have
\* succeeded, domain-failed, been canceled, or faulted" (docs/Async.md:204-205), as the test
\* "WhenAny returns index when a task faults" (tests/Async/When.cpp:258) has it.  The comment
\* of the function says otherwise, "A failure from the winning task is propagated through the
\* returned task" (WhenAny.hpp:118), and the code does not: Watch() drops the winner's
\* completion (:105).
AnyExact ==
    use = "any" /\ ~canceled /\ result # None =>
        \E i \in Op : /\ result = Success(i - 1)
                      /\ i \in empty \/ finished[i]
                      /\ order[1] = i

\* Of two co_awaits of one Operation the first one gets the completion.
TwiceExact ==
    use = "twice" /\ Len(got) = 2 => got = <<Answer(1), InvalidUsage>>

\* On a cancelled context nothing is started and the result is Canceled.
NothingStarted ==
    canceled /\ result # None => result = Canceled /\ \A i \in Op : run[i] = "cold"

\* The combinators' results are exact, and nobody resumes a coroutine that does not
\* wait for it, however the Operations, the watchers and the combinator interleave.
CombinatorsExact == AllExact /\ AnyExact /\ TwiceExact /\ NothingStarted /\ ~misused

\* WhenAll.hpp: a combinator "completes when all owned child tasks complete".
WhenAllCompletes ==
    (use \in {"all", "void"} /\ \A i \in Op : run[i] = "done") ~> (result # None \/ stale)
=============================================================================
