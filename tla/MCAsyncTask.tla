---------------------------- MODULE MCAsyncTask ----------------------------
(***************************************************************************)
(* One root and one child on an executor with two threads, and, side by    *)
(* side with it, a combinator of two arguments: a behaviour is one of the  *)
(* two, and the other stays as it began.  Two arguments tell the order of  *)
(* the arguments from the order in which they end.                         *)
(***************************************************************************)
EXTENDS AsyncTask, Sequences
CONSTANTS r1, k1, w1, w2,
          Components        \* of "task", "combinator"
VARIABLES component,
          kind, canceledAtStart, empty, run, completion, done, continuation, writing, freed, taken,
          cpc, at, got, shared, toResume, combined, order, misused, gone
combinator == <<kind, canceledAtStart, empty, run, completion, done, continuation, writing, freed, taken,
                cpc, at, got, shared, toResume, combined, order, misused, gone>>

OneRoot == {r1}
OneChild == {k1}
NoChild == {}
ChildOfFirst == [c \in Child |-> r1]
TwoWorkers == {w1, w2}
WaitOrDetach == {"wait", "detach"}
DetachOnly == {"detach"}

K == INSTANCE Combinators WITH
        N <- 2, Uses <- {"all", "void", "any", "twice"}, use <- kind, canceled <- canceledAtStart, finished <- done,
        cont <- continuation, pc <- cpc, result <- combined, stale <- gone

Begin ==
    /\ component \in Components
    /\ Init /\ K!Init
    /\ component = "task" => kind = "all" /\ ~canceledAtStart /\ empty = {}
    /\ component = "combinator" => \A r \in Root : use[r] = "detach"
TaskNext == component = "task" /\ Next /\ UNCHANGED <<component, combinator>>
CombinatorNext == component = "combinator" /\ K!Next /\ UNCHANGED <<component, vars>>

Async ==
    /\ Begin
    /\ [][TaskNext \/ CombinatorNext]_<<component, vars, combinator>>
    \* The operating system runs every thread, and coroutine bodies go on; nobody has to cancel.
    /\ \A r \in Root : WF_vars(component = "task" /\ ClientStep(r))
    /\ \A w \in Worker : WF_vars(component = "task" /\ (WorkerStep(w) \/ CompletionStep(w)))
    /\ WF_vars(component = "task" /\ (CancelStep \/ CompletionStep(Canceler)))

\* The executor's threads run what is queued.
FairCombinator ==
    /\ Async
    /\ \A i \in 1..2 : WF_combinator(component = "combinator" /\ K!OperationStep(i))
    /\ \A c \in 0..2 : WF_combinator(component = "combinator" /\ K!CoroutineStep(c))
    /\ WF_combinator(component = "combinator" /\ K!ParentStep)

\* The results of WhenAll() and WhenAny() are exact, and nobody resumes a coroutine
\* that does not wait (Combinators.tla).  WhenAny() succeeds with the index of a first
\* argument that failed, as docs/Async.md:204 says and WhenAny.hpp:118 denies.
CombinatorsExact == K!CombinatorsExact
\* WhenAll() completes when its arguments have completed (Combinators.tla).
WhenAllCompletes == K!WhenAllCompletes
=============================================================================
