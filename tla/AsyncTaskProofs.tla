-------------------------- MODULE AsyncTaskProofs --------------------------
(***************************************************************************)
(* OneActivation, SuccessIsGenuine and FinishedHasOutcome for every set of *)
(* roots, children and threads, with and without cancellation.             *)
(*                                                                         *)
(* None of them is inductive.  What carries them is a right to resume a    *)
(* coroutine that is handed on and never copied: it lies in the executor's *)
(* queue, with the thread that runs the coroutine, or with the one child   *)
(* the coroutine awaits, until the thread that won the compare-exchange on *)
(* the child's m_finished has dealt with the continuation (Exclusive,      *)
(* OneCarrier).  A frame that was not started is known to nobody           *)
(* (Unstarted), and a root whose child failed has an outcome before the    *)
(* child's right is gone (Genuine).                                        *)
(***************************************************************************)
EXTENDS AsyncTask, FiniteSetTheorems, TLAPS

\* The places of a thread that runs a coroutine's body or its await_suspend().
Active == {"resume", "body", "check", "register", "go", "final"}

\* Inside MarkFinishedAndResume(), and after its compare-exchange.
Carrying == {"notify", "continue", "resumeParent", "propagate"}
Completing == Carrying \cup {"mark"}

\* Worker w runs frame f; a completion inside token.Register() returns to it.
Runs(w, f) ==
    base[w] = f /\ (pc[w] \in Active \/ (pc[w] \in Completing /\ return[w] = "go"))

\* Thread t won the compare-exchange on the frame's m_finished.
Carries(t, f) == on[t] = f /\ pc[t] \in Carrying

\* A child that was started and whose outcome has not reached its root.
Pending(c) == cont[c] # None /\ (~finished[c] \/ \E t \in Thread : Carries(t, c))

Shape ==
    /\ finished \in [Frame -> BOOLEAN]
    /\ outcome \in [Frame -> Outcome \cup {None}]
    /\ cont \in [Frame -> Root \cup {None}]
    /\ place \in [Frame -> {"cold", "run", "yield", "await", "end"}]
    /\ queued \in [Frame -> Nat] /\ lambdas \in [Frame -> Nat]
    /\ reg \in [Frame -> {"none", "listed", "taken"}]
    /\ todo \in SUBSET Frame
    /\ pc \in [Thread -> {"spawn", "wait", "load", "recheck", "sleep", "parked", "take", "detach",
                          "store", "destroy", "done", "idle", "resume", "body", "check", "register",
                          "go", "final", "end", "mark", "notify", "continue", "resumeParent",
                          "propagate", "call"}]
    /\ base \in [Thread -> Frame \cup {None}] /\ on \in [Thread -> Frame \cup {None}]
    /\ return \in [Thread -> {"idle", "go", "end"}]
    /\ use \in [Root -> {"wait", "detach"}]
    /\ result \in [Root -> Outcome \cup {None}]

\* A thread that works on a frame names it, and only a root awaits its children.
Named ==
    /\ \A w \in Worker : pc[w] \in Active \cup {"end"} \cup Completing => base[w] \in Frame
    /\ \A t \in Thread : pc[t] \in Completing => on[t] \in Frame
    /\ pc[Canceler] = "call" => base[Canceler] \in Frame
    /\ \A c \in Child : cont[c] \in {RootOf[c], None}
    /\ \A r \in Root : cont[r] = None

\* Nobody knows of a frame that was not started.
Untouched(f) ==
    /\ queued[f] = 0 /\ lambdas[f] = 0 /\ reg[f] = "none" /\ f \notin todo
    /\ outcome[f] = None
    /\ \A w \in Worker : ~Runs(w, f)
    /\ \A t \in Thread : ~(pc[t] \in Completing /\ on[t] = f)
    /\ ~(pc[Canceler] = "call" /\ base[Canceler] = f)
    /\ \A c \in Child : cont[c] # f

\* A root is started by Spawn(), a child by the root that awaits it.
Unstarted ==
    /\ \A r \in Root : pc[r] = "spawn" => Untouched(r)
    /\ \A c \in Child : cont[c] = None => Untouched(c)
    /\ \A c \in Child : place[c] = "cold" => cont[c] = None

\* The compare-exchange on m_finished has one winner, and the way it takes is
\* the one the outcome calls for.
OneCarrier ==
    /\ \A t \in Thread, f \in Frame : Carries(t, f) => finished[f]
    /\ \A t, u \in Thread, f \in Frame : Carries(t, f) /\ Carries(u, f) => t = u
    /\ \A t \in Thread : pc[t] \in {"resumeParent", "propagate"} => cont[on[t]] # None
    /\ \A t \in Thread : pc[t] = "resumeParent" => outcome[on[t]] = "success"
    /\ \A t \in Thread : pc[t] = "propagate" => outcome[on[t]] # "success"

\* At most one of these can resume the frame f: the executor, through its queue
\* or a lambda, a worker that runs f, and a pending child of f.
Exclusive ==
    \A f \in Frame :
        /\ queued[f] + lambdas[f] <= 1
        /\ \A w \in Worker : Runs(w, f) =>
             /\ queued[f] = 0 /\ lambdas[f] = 0
             /\ \A v \in Worker : Runs(v, f) => v = w
        /\ \A c \in Child : cont[c] = f /\ Pending(c) =>
             /\ queued[f] = 0 /\ lambdas[f] = 0
             /\ \A w \in Worker : ~Runs(w, f)
             /\ \A d \in Child : cont[d] = f /\ Pending(d) => d = c

\* The outcome is there before m_finished, and it is what SyncWait() returns.
Published ==
    /\ \A f \in Frame : finished[f] => outcome[f] # None
    /\ \A t \in Thread : pc[t] = "mark" => outcome[on[t]] # None
    /\ \A w \in Worker : pc[w] = "final" => outcome[base[w]] # None
    /\ \A r \in Root : pc[r] = "take" => finished[r]
    /\ \A r \in Root : result[r] # None => result[r] = outcome[r]

\* A root that succeeded is not resumed any more and has only succeeded
\* children; a child that failed and is dealt with has ended its root.
Genuine ==
    /\ \A r \in Root : outcome[r] = "success" =>
         /\ queued[r] = 0 /\ lambdas[r] = 0
         /\ \A w \in Worker : Runs(w, r) => pc[w] = "final"
         /\ \A c \in Child : cont[c] = r => ~Pending(c) /\ outcome[c] = "success"
    /\ \A c \in Child : cont[c] # None /\ ~Pending(c) /\ outcome[c] # "success"
                        => outcome[cont[c]] # None

Inv == Shape /\ Named /\ Unstarted /\ OneCarrier /\ Exclusive /\ Published /\ Genuine

-----------------------------------------------------------------------------
\* Initially nothing is queued and every frame but a root's is unknown.
LEMMA InitInv == Init => Inv
<1> SUFFICES ASSUME Init PROVE Inv
  OBVIOUS
<1>1. \A t \in Thread : pc[t] \in {"spawn", "idle"} /\ base[t] = None /\ on[t] = None
  BY DEF Init
<1>2. Shape /\ Named
  BY <1>1, UsesAssumption, DistinctThreads, DistinctFrames, RootOfAssumption
     DEF Init, Shape, Named, Frame, Thread, Active, Completing, Carrying
<1>3. \A f \in Frame : Untouched(f)
  BY <1>1, DistinctThreads, DistinctFrames
     DEF Init, Untouched, Frame, Thread, Active, Completing, Carrying, Runs
<1>4. \A c \in Child : ~Pending(c)
  BY DEF Init, Pending, Frame
<1>5. Unstarted
  BY <1>3 DEF Unstarted, Init, Frame
<1>6. OneCarrier /\ Published
  BY <1>1, DistinctThreads, DistinctFrames
     DEF Init, OneCarrier, Published, Carries, Carrying, Thread, Frame
<1>7. Exclusive /\ Genuine
  BY <1>3, <1>4, DistinctFrames DEF Init, Exclusive, Genuine, Untouched, Frame
<1> QED
  BY <1>2, <1>5, <1>6, <1>7 DEF Inv

-----------------------------------------------------------------------------
(* What most steps have in common: no right to resume a coroutine is new.   *)

SameRuns == \A w \in Worker, f \in Frame : Runs(w, f)' <=> Runs(w, f)
SameCarriers == \A t \in Thread, f \in Frame : Carries(t, f)' <=> Carries(t, f)

Calm ==
    /\ cont' = cont
    /\ \A f \in Frame : queued'[f] <= queued[f] /\ lambdas'[f] <= lambdas[f]
    /\ \A w \in Worker, f \in Frame : Runs(w, f)' => Runs(w, f)
    /\ \A c \in Child : Pending(c)' => Pending(c)

\* An outcome is written once, no root succeeds, and a child that is no longer
\* pending succeeded or has left its root with an outcome.
Settled ==
    /\ \A f \in Frame : \/ outcome'[f] = outcome[f]
                        \/ outcome[f] = None /\ outcome'[f] # None
    /\ \A r \in Root : outcome'[r] = "success" => outcome[r] = "success"
    /\ \A w \in Worker : pc[w] = "final" => pc'[w] = "final" \/ \A f \in Frame : ~Runs(w, f)'
    /\ \A c \in Child : Pending(c) /\ ~Pending(c)' =>
         outcome'[c] = "success" \/ outcome'[cont[c]] # None

\* Fewer rights to resume are still exclusive.
LEMMA CalmExclusive == ASSUME Inv, Shape', Calm PROVE Exclusive'
<1>1. ASSUME NEW f \in Frame PROVE queued'[f] + lambdas'[f] <= 1
  <2>1. queued[f] + lambdas[f] <= 1 /\ queued'[f] <= queued[f] /\ lambdas'[f] <= lambdas[f]
    BY DEF Inv, Exclusive, Calm
  <2>2. queued[f] \in Nat /\ lambdas[f] \in Nat /\ queued'[f] \in Nat /\ lambdas'[f] \in Nat
    BY DEF Inv, Shape
  <2> QED
    BY <2>1, <2>2
<1>2. ASSUME NEW f \in Frame, queued[f] = 0, lambdas[f] = 0 PROVE queued'[f] = 0 /\ lambdas'[f] = 0
  BY <1>2 DEF Inv, Shape, Calm
<1>3. ASSUME NEW f \in Frame, NEW w \in Worker, Runs(w, f)'
      PROVE  /\ queued'[f] = 0 /\ lambdas'[f] = 0
             /\ \A v \in Worker : Runs(v, f)' => v = w
  BY <1>2, <1>3 DEF Inv, Exclusive, Calm
<1>4. ASSUME NEW f \in Frame, NEW c \in Child, cont'[c] = f, Pending(c)'
      PROVE  /\ queued'[f] = 0 /\ lambdas'[f] = 0
             /\ \A w \in Worker : ~Runs(w, f)'
             /\ \A d \in Child : cont'[d] = f /\ Pending(d)' => d = c
  BY <1>2, <1>4 DEF Inv, Exclusive, Calm
<1> QED
  BY <1>1, <1>3, <1>4 DEF Exclusive

\* The success of a root stays genuine.
LEMMA SettledGenuine == ASSUME Inv, Shape', Calm, Settled PROVE Genuine'
<1>1. ASSUME NEW r \in Root, outcome'[r] = "success"
      PROVE  /\ queued'[r] = 0 /\ lambdas'[r] = 0
             /\ \A w \in Worker : Runs(w, r)' => pc'[w] = "final"
             /\ \A c \in Child : cont'[c] = r => ~Pending(c)' /\ outcome'[c] = "success"
  <2>1. outcome[r] = "success" /\ r \in Frame
    BY <1>1 DEF Settled, Frame
  <2>2. queued'[r] = 0 /\ lambdas'[r] = 0
    BY <2>1 DEF Inv, Shape, Genuine, Calm
  <2>3. ASSUME NEW w \in Worker, Runs(w, r)' PROVE pc'[w] = "final"
    BY <2>1, <2>3 DEF Inv, Genuine, Calm, Settled
  <2>4. ASSUME NEW c \in Child, cont'[c] = r PROVE ~Pending(c)' /\ outcome'[c] = "success"
    BY <2>1, <2>4, DistinctFrames DEF Inv, Genuine, Calm, Settled, Frame, Outcome
  <2> QED
    BY <2>2, <2>3, <2>4
<1>2. ASSUME NEW c \in Child, cont'[c] # None, ~Pending(c)', outcome'[c] # "success"
      PROVE  outcome'[cont'[c]] # None
  <2>1. cont'[c] = cont[c] /\ cont[c] \in Frame /\ c \in Frame
    BY <1>2 DEF Calm, Inv, Shape, Frame
  <2>2. CASE Pending(c)
    BY <1>2, <2>1, <2>2 DEF Settled
  <2>3. CASE ~Pending(c)
    <3>1. outcome[c] # "success"
      BY <1>2, <2>1, DistinctFrames DEF Settled, Outcome
    <3>2. outcome[cont[c]] # None
      BY <1>2, <2>1, <2>3, <3>1 DEF Inv, Genuine
    <3> QED
      BY <2>1, <3>2 DEF Settled
  <2> QED
    BY <2>2, <2>3
<1> QED
  BY <1>1, <1>2 DEF Genuine

\* With m_finished, m_continuation and the winners the pending children stay.
LEMMA SamePending ==
  ASSUME UNCHANGED <<cont, finished>>, SameCarriers
  PROVE  \A c \in Child : Pending(c)' <=> Pending(c)
  BY DEF SameCarriers, Pending, Frame

-----------------------------------------------------------------------------
ClientPlace == {"wait", "load", "recheck", "sleep", "parked", "take", "detach", "store", "destroy",
                "done"}

\* SyncWait() and Detach() read the promise and destroy the frame.
LEMMA ClientInv ==
  ASSUME Inv, NEW r \in Root, ClientStep(r), ~Spawn(r)
  PROVE  Inv'
<1>1. /\ UNCHANGED <<finished, outcome, cont, place, queued, lambdas, reg, todo, base, on, return, use>>
      /\ pc[r] \in ClientPlace
      /\ \E l \in ClientPlace : pc' = [pc EXCEPT ![r] = l] /\ (l = "take" => finished[r])
      /\ \/ result' = result
         \/ pc[r] = "take" /\ result' = [result EXCEPT ![r] = outcome[r]]
  BY DEF ClientStep, WaitCheck, WaitLoad, WaitRecheck, WaitSleep, TakeResult, DetachCheck,
         DetachStore, DetachDestroy, Goto, ClientPlace, promise, coroutine, executor, token, threads,
         clients
<1>2. r \in Thread /\ r \notin Worker /\ r # Canceler /\ r \in Frame
  BY DistinctThreads DEF Thread, Frame
<1>3. Shape'
  BY <1>1, <1>2 DEF Inv, Shape, ClientPlace
<1>4. \A t \in Thread : t # r => pc'[t] = pc[t]
  BY <1>1 DEF Inv, Shape
<1>5. pc'[r] \in ClientPlace /\ (pc'[r] = "take" => finished[r])
  BY <1>1, <1>2 DEF Inv, Shape
<1>6. SameRuns
  BY <1>1, <1>2, <1>4 DEF SameRuns, Runs, Thread
<1>7. SameCarriers
  BY <1>1, <1>4, <1>5 DEF SameCarriers, Carries, Carrying, ClientPlace
<1>8. Named'
  BY <1>1, <1>2, <1>4, <1>5
     DEF Inv, Named, ClientPlace, Active, Completing, Carrying, Thread
<1>9. Unstarted'
  <2>1. \A f \in Frame : Untouched(f) => Untouched(f)'
    BY <1>1, <1>2, <1>4, <1>5, <1>6
       DEF Untouched, SameRuns, ClientPlace, Completing, Carrying, Thread
  <2> QED
    BY <1>1, <1>2, <1>4, <1>5, <2>1 DEF Inv, Unstarted, ClientPlace, Thread, Frame
<1>10. OneCarrier'
  BY <1>1, <1>4, <1>5, <1>7 DEF Inv, OneCarrier, SameCarriers, ClientPlace
<1>11. Published'
  <2>1. \A q \in Root : result'[q] # None => result'[q] = outcome'[q]
    BY <1>1 DEF Inv, Shape, Published
  <2>2. \A q \in Root : pc'[q] = "take" => finished'[q]
    BY <1>1, <1>4, <1>5 DEF Inv, Published, Thread
  <2> QED
    BY <1>1, <1>2, <1>4, <1>5, <2>1, <2>2 DEF Inv, Published, ClientPlace, Thread
<1>12. \A c \in Child : Pending(c)' <=> Pending(c)
  BY <1>1, <1>7, SamePending
<1>13. Calm
  BY <1>1, <1>6, <1>12 DEF Calm, SameRuns, Inv, Shape
<1>14. Settled
  BY <1>1, <1>2, <1>4, <1>12 DEF Settled, Thread
<1> QED
  BY <1>3, <1>8, <1>9, <1>10, <1>11, <1>13, <1>14, CalmExclusive, SettledGenuine DEF Inv

\* Spawn(): the right to start the root goes to the executor.
LEMMA SpawnInv ==
  ASSUME Inv, NEW r \in Root, Spawn(r)
  PROVE  Inv'
<1>1. /\ UNCHANGED <<finished, outcome, cont, place, lambdas, reg, todo, base, on, return, use, result>>
      /\ pc[r] = "spawn" /\ pc' = [pc EXCEPT ![r] = use[r]]
      /\ queued' = [queued EXCEPT ![r] = @ + 1]
  BY DEF Spawn, Goto, Add, promise, coroutine, token, threads, clients
<1>2. r \in Thread /\ r \notin Worker /\ r # Canceler /\ r \in Frame
  BY DistinctThreads DEF Thread, Frame
<1>3. use[r] \in {"wait", "detach"} /\ pc'[r] = use[r] /\ \A t \in Thread : t # r => pc'[t] = pc[t]
  BY <1>1, <1>2 DEF Inv, Shape
<1>4. queued'[r] = 1 /\ \A f \in Frame : f # r => queued'[f] = queued[f]
  BY <1>1, <1>2 DEF Inv, Shape, Unstarted, Untouched
<1>5. Untouched(r)
  BY <1>1 DEF Inv, Unstarted
<1>6. Shape'
  BY <1>1, <1>2, <1>3 DEF Inv, Shape
<1>7. SameRuns /\ SameCarriers
  BY <1>1, <1>2, <1>3 DEF SameRuns, Runs, SameCarriers, Carries, Carrying, Thread
<1>8. Named'
  BY <1>1, <1>2, <1>3 DEF Inv, Named, Active, Completing, Carrying, Thread
<1>9. Unstarted'
  <2>1. \A f \in Frame : f # r /\ Untouched(f) => Untouched(f)'
    BY <1>1, <1>2, <1>3, <1>4, <1>7
       DEF Untouched, SameRuns, Completing, Carrying, Thread
  <2> QED
    BY <1>1, <1>2, <1>3, <2>1, DistinctFrames DEF Inv, Unstarted, Thread, Frame
<1>10. OneCarrier' /\ Published'
  BY <1>1, <1>2, <1>3, <1>7 DEF Inv, OneCarrier, Published, SameCarriers, Thread
<1>11. \A c \in Child : Pending(c)' <=> Pending(c)
  BY <1>1, <1>7, SamePending
<1>12. Exclusive'
  <2>1. \A f \in Frame : queued'[f] + lambdas'[f] <= 1
    BY <1>1, <1>4, <1>5 DEF Inv, Exclusive, Untouched
  <2>2. ASSUME NEW f \in Frame, NEW w \in Worker, Runs(w, f)'
        PROVE  /\ queued'[f] = 0 /\ lambdas'[f] = 0
               /\ \A v \in Worker : Runs(v, f)' => v = w
    BY <1>1, <1>4, <1>5, <1>7, <2>2 DEF Inv, Exclusive, Untouched, SameRuns
  <2>3. ASSUME NEW f \in Frame, NEW c \in Child, cont'[c] = f, Pending(c)'
        PROVE  /\ queued'[f] = 0 /\ lambdas'[f] = 0
               /\ \A w \in Worker : ~Runs(w, f)'
               /\ \A d \in Child : cont'[d] = f /\ Pending(d)' => d = c
    BY <1>1, <1>4, <1>5, <1>7, <1>11, <2>3 DEF Inv, Exclusive, Untouched, SameRuns
  <2> QED
    BY <2>1, <2>2, <2>3 DEF Exclusive
<1>13. Genuine'
  <2>1. outcome[r] # "success"
    BY <1>5, DistinctFrames DEF Untouched, Outcome
  <2>2. ASSUME NEW q \in Root, outcome'[q] = "success"
        PROVE  /\ queued'[q] = 0 /\ lambdas'[q] = 0
               /\ \A w \in Worker : Runs(w, q)' => pc'[w] = "final"
               /\ \A c \in Child : cont'[c] = q => ~Pending(c)' /\ outcome'[c] = "success"
    <3>1. q # r /\ q \in Frame /\ outcome[q] = "success"
      BY <1>1, <2>1, <2>2 DEF Frame
    <3> QED
      BY <1>1, <1>2, <1>3, <1>4, <1>7, <1>11, <3>1 DEF Inv, Genuine, SameRuns, Thread
  <2> QED
    BY <1>1, <1>11, <2>2 DEF Inv, Genuine
<1> QED
  BY <1>6, <1>8, <1>9, <1>10, <1>12, <1>13 DEF Inv

\* A worker takes a frame's right out of the executor: what both resumptions
\* have in common.
Taken(w, f) ==
    /\ UNCHANGED <<finished, outcome, cont, todo, on, return, use, result>>
    /\ pc[w] = "idle" /\ base' = [base EXCEPT ![w] = f]
    /\ pc' = [pc EXCEPT ![w] = pc'[w]]
    /\ pc'[w] \in {"idle", "body", "resume"}
    /\ place' = [place EXCEPT ![f] = place'[f]] /\ place'[f] \in {place[f], "run"}
    /\ reg' = [reg EXCEPT ![f] = reg'[f]] /\ reg'[f] \in {reg[f], "none"}
    /\ \/ queued[f] > 0 /\ queued' = [queued EXCEPT ![f] = @ - 1] /\ lambdas' = lambdas
       \/ lambdas[f] > 0 /\ lambdas' = [lambdas EXCEPT ![f] = @ - 1] /\ queued' = queued

\* Execution of a queued handle, and the lambda of Yield and Delay.
LEMMA TakenInv ==
  ASSUME Inv, NEW w \in Worker, NEW f \in Frame, Taken(w, f)
  PROVE  Inv'
<1>0. w \in Thread /\ w \notin Root /\ w # Canceler
  BY DistinctThreads DEF Thread
<1>1. /\ UNCHANGED <<finished, outcome, cont, todo, on, return, use, result>>
      /\ pc[w] = "idle" /\ base'[w] = f /\ pc'[w] \in {"idle", "body", "resume"}
      /\ \A t \in Thread : t # w => pc'[t] = pc[t] /\ base'[t] = base[t]
      /\ \A g \in Frame : g # f => /\ place'[g] = place[g] /\ reg'[g] = reg[g]
                                   /\ queued'[g] = queued[g] /\ lambdas'[g] = lambdas[g]
  BY <1>0 DEF Taken, Inv, Shape
<1>2. /\ place'[f] \in {place[f], "run"} /\ reg'[f] \in {reg[f], "none"}
      /\ queued[f] + lambdas[f] = 1 /\ queued'[f] = 0 /\ lambdas'[f] = 0
  <2>1. queued[f] \in Nat /\ lambdas[f] \in Nat /\ queued[f] + lambdas[f] <= 1
    BY DEF Inv, Shape, Exclusive
  <2> QED
    BY <2>1 DEF Taken, Inv, Shape
<1>3. Shape'
  BY <1>0, <1>2 DEF Taken, Inv, Shape
<1>4. /\ \A v \in Worker, g \in Frame : v # w => (Runs(v, g)' <=> Runs(v, g))
      /\ \A g \in Frame : Runs(w, g)' => g = f
      /\ \A g \in Frame : ~Runs(w, g)
  BY <1>0, <1>1 DEF Runs, Active, Completing, Carrying, Thread
<1>5. SameCarriers
  BY <1>0, <1>1 DEF SameCarriers, Carries, Carrying
<1>6. \A c \in Child : Pending(c)' <=> Pending(c)
  BY <1>1, <1>5, SamePending
<1>7. Named'
  BY <1>0, <1>1 DEF Inv, Named, Active, Completing, Carrying, Thread
<1>8. /\ \A v \in Worker : ~Runs(v, f)
      /\ \A c \in Child : cont[c] = f => ~Pending(c)
      /\ f \in Root => outcome[f] # "success"
  BY <1>2 DEF Inv, Exclusive, Genuine
<1>9. Unstarted'
  <2>1. ~Untouched(f)
    BY <1>2 DEF Untouched
  <2>2. \A g \in Frame : Untouched(g) => Untouched(g)'
    BY <1>0, <1>1, <1>4, <2>1 DEF Untouched, Completing, Carrying, Thread
  <2> QED
    BY <1>0, <1>1, <1>2, <2>2 DEF Inv, Unstarted, Thread, Frame
<1>10. OneCarrier' /\ Published'
  BY <1>0, <1>1, <1>5 DEF Inv, OneCarrier, Published, SameCarriers, Thread
<1>11. Exclusive'
  <2>1. \A g \in Frame : queued'[g] + lambdas'[g] <= 1
    BY <1>1, <1>2 DEF Inv, Exclusive
  <2>2. ASSUME NEW g \in Frame, NEW v \in Worker, Runs(v, g)'
        PROVE  /\ queued'[g] = 0 /\ lambdas'[g] = 0
               /\ \A u \in Worker : Runs(u, g)' => u = v
    <3>1. CASE g = f
      BY <1>2, <1>4, <1>8, <2>2, <3>1
    <3>2. CASE g # f
      BY <1>1, <1>4, <2>2, <3>2 DEF Inv, Exclusive
    <3> QED
      BY <3>1, <3>2
  <2>3. ASSUME NEW g \in Frame, NEW c \in Child, cont'[c] = g, Pending(c)'
        PROVE  /\ queued'[g] = 0 /\ lambdas'[g] = 0
               /\ \A v \in Worker : ~Runs(v, g)'
               /\ \A d \in Child : cont'[d] = g /\ Pending(d)' => d = c
    <3>1. g # f /\ Pending(c) /\ cont[c] = g
      BY <1>1, <1>6, <1>8, <2>3
    <3> QED
      BY <1>1, <1>4, <1>6, <3>1 DEF Inv, Exclusive
  <2> QED
    BY <2>1, <2>2, <2>3 DEF Exclusive
<1>12. Genuine'
  <2>1. ASSUME NEW q \in Root, outcome'[q] = "success"
        PROVE  /\ queued'[q] = 0 /\ lambdas'[q] = 0
               /\ \A v \in Worker : Runs(v, q)' => pc'[v] = "final"
               /\ \A c \in Child : cont'[c] = q => ~Pending(c)' /\ outcome'[c] = "success"
    <3>1. q # f /\ q \in Frame /\ outcome[q] = "success"
      BY <1>1, <1>8, <2>1 DEF Frame
    <3> QED
      BY <1>0, <1>1, <1>4, <1>6, <3>1 DEF Inv, Genuine, Thread
  <2> QED
    BY <1>1, <1>6, <2>1 DEF Inv, Genuine
<1> QED
  BY <1>3, <1>7, <1>9, <1>10, <1>11, <1>12 DEF Inv

\* Both of a worker's ways to resume a coroutine are such steps.
LEMMA ExecuteInv ==
  ASSUME Inv, NEW w \in Worker, NEW f \in Frame, Execute(w, f) \/ Lambda(w, f)
  PROVE  Inv'
<1>0. w \in Thread
  BY DEF Thread
<1>1. CASE Execute(w, f)
  <2>1. Taken(w, f)
    BY <1>0, <1>1 DEF Execute, Taken, Goto, Take, Inv, Shape, clients
  <2> QED
    BY <2>1, TakenInv
<1>2. CASE Lambda(w, f)
  <2>1. Taken(w, f)
    BY <1>0, <1>2 DEF Lambda, Taken, Goto, Take, Inv, Shape, promise, coroutine, token, clients
  <2> QED
    BY <2>1, TakenInv
<1> QED
  BY <1>1, <1>2

\* A worker goes on with the coroutine it runs.
Moved(w) ==
    /\ UNCHANGED <<finished, outcome, cont, queued, lambdas, todo, base, on, return, use, result>>
    /\ pc[w] \in Active \ {"final"}
    /\ \E l \in Active \ {"final"} : pc' = [pc EXCEPT ![w] = l]
    /\ \E l \in {place[base[w]], "run", "yield", "await"} : place' = [place EXCEPT ![base[w]] = l]
    /\ \E l \in {"none", "listed", "taken"} : reg' = [reg EXCEPT ![base[w]] = l]

\* The steps of a running coroutine that keep the right to it.
LEMMA MovedInv ==
  ASSUME Inv, NEW w \in Worker, Moved(w)
  PROVE  Inv'
<1>0. w \in Thread /\ w \notin Root /\ w # Canceler /\ base[w] \in Frame
  BY DistinctThreads DEF Thread, Moved, Inv, Named
<1>1. /\ UNCHANGED <<finished, outcome, cont, queued, lambdas, todo, base, on, return, use, result>>
      /\ pc[w] \in Active \ {"final"} /\ pc'[w] \in Active \ {"final"}
      /\ \A t \in Thread : t # w => pc'[t] = pc[t]
      /\ \A g \in Frame : g # base[w] => place'[g] = place[g] /\ reg'[g] = reg[g]
      /\ place'[base[w]] \in {place[base[w]], "run", "yield", "await"}
  BY <1>0 DEF Moved, Inv, Shape
<1>2. Shape'
  BY <1>0 DEF Moved, Inv, Shape, Active
<1>3. SameRuns /\ Runs(w, base[w])
  BY <1>0, <1>1 DEF SameRuns, Runs, Thread
<1>4. SameCarriers
  BY <1>1 DEF SameCarriers, Carries, Carrying, Active
<1>5. \A c \in Child : Pending(c)' <=> Pending(c)
  BY <1>1, <1>4, SamePending
<1>6. Named'
  BY <1>0, <1>1 DEF Inv, Named, Active, Completing, Carrying, Thread
<1>7. Unstarted'
  <2>1. ~Untouched(base[w])
    BY <1>3 DEF Untouched
  <2>2. \A f \in Frame : Untouched(f) => Untouched(f)'
    BY <1>0, <1>1, <1>3, <2>1
       DEF Untouched, SameRuns, Active, Completing, Carrying, Thread
  <2> QED
    BY <1>0, <1>1, <2>2 DEF Inv, Unstarted, Thread, Frame
<1>8. OneCarrier' /\ Published'
  BY <1>0, <1>1, <1>4 DEF Inv, OneCarrier, Published, SameCarriers, Active, Thread
<1>9. Calm
  BY <1>1, <1>3, <1>5 DEF Calm, SameRuns, Inv, Shape
<1>10. Settled
  BY <1>0, <1>1, <1>5 DEF Settled, Thread
<1> QED
  BY <1>2, <1>6, <1>7, <1>8, <1>9, <1>10, CalmExclusive, SettledGenuine DEF Inv

\* A thread begins MarkFinishedAndResume() for frame f, whose outcome is set.
Completes(t, f) ==
    /\ UNCHANGED <<finished, cont, place, queued, lambdas, reg, todo, base, use, result>>
    /\ \/ t \in Worker /\ pc[t] \in {"check", "register", "final"}
       \/ t = Canceler /\ pc[t] = "call"
    /\ f = base[t]
    /\ pc' = [pc EXCEPT ![t] = "mark"] /\ on' = [on EXCEPT ![t] = f]
    /\ \E l \in {"idle", "go", "end"} :
         return' = [return EXCEPT ![t] = l] /\ (pc[t] = "final" => l # "go")
    /\ \/ outcome' = outcome /\ pc[t] = "final"
       \/ outcome' = SetCompletion(f, "canceled")

\* The outcome is published before the frame is marked as finished.
LEMMA CompletesInv ==
  ASSUME Inv, NEW t \in Thread, NEW f, Completes(t, f)
  PROVE  Inv'
<1>0. t \notin Root /\ f \in Frame /\ f = base[t] /\ (t \in Worker => t # Canceler)
  BY DistinctThreads DEF Completes, Inv, Named, Active
<1>1. /\ UNCHANGED <<finished, cont, place, queued, lambdas, reg, todo, base, use, result>>
      /\ pc[t] \in {"check", "register", "final", "call"}
      /\ t \in Worker => pc[t] \in Active
      /\ t \notin Worker => t = Canceler /\ pc[t] = "call"
      /\ pc'[t] = "mark" /\ on'[t] = f
      /\ \A u \in Thread : u # t => pc'[u] = pc[u] /\ on'[u] = on[u] /\ return'[u] = return[u]
      /\ pc[t] = "final" => return'[t] # "go"
  BY DistinctThreads DEF Completes, Inv, Shape, Active
<1>2. /\ \A g \in Frame : g # f => outcome'[g] = outcome[g]
      /\ outcome'[f] = IF outcome[f] = None THEN "canceled" ELSE outcome[f]
      /\ outcome'[f] # None
  BY <1>0, DistinctFrames DEF Completes, SetCompletion, Inv, Shape, Published, Outcome
<1>3. Shape'
  BY <1>0 DEF Completes, SetCompletion, Inv, Shape, Outcome
<1>4. \A g \in Frame : outcome[g] # None => outcome'[g] = outcome[g]
  BY <1>2
<1>5. \A w \in Worker, g \in Frame : Runs(w, g)' => Runs(w, g)
  BY <1>0, <1>1 DEF Runs, Thread
<1>6. SameCarriers
  BY <1>1 DEF SameCarriers, Carries, Carrying
<1>7. \A c \in Child : Pending(c)' <=> Pending(c)
  BY <1>1, <1>6, SamePending
<1>8. Named'
  BY <1>0, <1>1, DistinctThreads DEF Inv, Named, Active, Completing, Carrying, Thread
<1>9. Unstarted'
  <2>1. ~Untouched(f)
    BY <1>0, <1>1 DEF Untouched, Runs
  <2>2. ASSUME NEW g \in Frame, Untouched(g) PROVE Untouched(g)'
    <3>1. g # f
      BY <2>1, <2>2
    <3>2. /\ \A w \in Worker : ~Runs(w, g)'
          /\ outcome'[g] = None
      BY <1>2, <1>5, <2>2, <3>1 DEF Untouched
    <3>3. \A u \in Thread : ~(pc'[u] \in Completing /\ on'[u] = g)
      BY <1>1, <2>2, <3>1 DEF Untouched
    <3>4. ~(pc'[Canceler] = "call" /\ base'[Canceler] = g)
      BY <1>1, <2>2 DEF Untouched, Thread
    <3> QED
      BY <1>1, <2>2, <3>2, <3>3, <3>4 DEF Untouched
  <2> QED
    BY <1>0, <1>1, <2>2 DEF Inv, Unstarted, Thread, Frame
<1>10. OneCarrier'
  <2>1. \A u \in Thread : pc'[u] \in {"resumeParent", "propagate"} =>
          /\ pc[u] = pc'[u] /\ on'[u] = on[u]
          /\ on[u] \in Frame /\ outcome'[on[u]] = outcome[on[u]]
    <3>1. ASSUME NEW u \in Thread, pc'[u] \in {"resumeParent", "propagate"}
          PROVE  /\ pc[u] = pc'[u] /\ on'[u] = on[u]
                 /\ on[u] \in Frame /\ outcome'[on[u]] = outcome[on[u]]
      <4>1. u # t /\ pc[u] = pc'[u] /\ on'[u] = on[u]
        BY <1>1, <3>1
      <4>2. on[u] \in Frame /\ finished[on[u]]
        BY <3>1, <4>1 DEF Inv, Named, OneCarrier, Carries, Completing, Carrying
      <4> QED
        BY <1>4, <4>1, <4>2 DEF Inv, Published
    <3> QED
      BY <3>1
  <2> QED
    BY <1>1, <1>6, <2>1 DEF Inv, OneCarrier, SameCarriers
<1>11. Published'
  <2>1. \A g \in Frame : finished'[g] => outcome'[g] # None
    BY <1>1, <1>4 DEF Inv, Published
  <2>2. \A u \in Thread : pc'[u] = "mark" => outcome'[on'[u]] # None
    BY <1>1, <1>2, <1>4 DEF Inv, Published, Named, Completing
  <2>3. \A w \in Worker : pc'[w] = "final" => outcome'[base'[w]] # None
    BY <1>1, <1>4 DEF Inv, Published, Named, Active, Thread
  <2>4. \A r \in Root : pc'[r] = "take" => finished'[r]
    BY <1>0, <1>1 DEF Inv, Published, Thread
  <2>5. \A r \in Root : result'[r] # None => result'[r] = outcome'[r]
    BY <1>1, <1>4 DEF Inv, Published, Frame
  <2> QED
    BY <2>1, <2>2, <2>3, <2>4, <2>5 DEF Published
<1>12. Calm
  BY <1>1, <1>5, <1>7 DEF Calm, Inv, Shape
<1>13. Settled
  <2>1. \A r \in Root : outcome'[r] = "success" => outcome[r] = "success"
    BY <1>2 DEF Frame
  <2>2. \A w \in Worker : pc[w] = "final" => pc'[w] = "final" \/ \A g \in Frame : ~Runs(w, g)'
    BY <1>1 DEF Runs, Active, Thread
  <2> QED
    BY <1>2, <1>4, <1>7, <2>1, <2>2 DEF Settled
<1> QED
  BY <1>3, <1>8, <1>9, <1>10, <1>11, <1>12, <1>13, CalmExclusive, SettledGenuine DEF Inv

\* co_return and its like: a root that succeeds here has no pending child, and
\* every child it started has succeeded.
LEMMA ReturnInv ==
  ASSUME Inv, NEW w \in Worker, NEW o \in Outcome, Return(w, o)
  PROVE  Inv'
<1> DEFINE b == base[w]
<1>0. w \in Thread /\ w \notin Root /\ w # Canceler /\ b \in Frame /\ pc[w] = "body"
  BY DistinctThreads DEF Thread, Return, Inv, Named, Active
<1>1. /\ UNCHANGED <<finished, cont, queued, lambdas, reg, todo, base, on, return, use, result>>
      /\ pc' = [pc EXCEPT ![w] = "final"]
      /\ outcome' = [outcome EXCEPT ![b] = IF @ = None THEN o ELSE @]
      /\ place' = [place EXCEPT ![b] = "end"]
  BY DEF Return, Goto, SetCompletion, executor, token, threads, clients
<1>2. /\ pc'[w] = "final" /\ \A t \in Thread : t # w => pc'[t] = pc[t]
      /\ \A g \in Frame : g # b => outcome'[g] = outcome[g] /\ place'[g] = place[g]
      /\ outcome'[b] = (IF outcome[b] = None THEN o ELSE outcome[b]) /\ place'[b] = "end"
      /\ outcome'[b] # None
  BY <1>0, <1>1, DistinctFrames DEF Inv, Shape
<1>3. Shape'
  BY <1>0, <1>1 DEF Inv, Shape
<1>4. \A g \in Frame : outcome[g] # None => outcome'[g] = outcome[g]
  BY <1>2
<1>5. SameRuns /\ Runs(w, b)
  BY <1>0, <1>1, <1>2 DEF SameRuns, Runs, Active, Thread
<1>6. SameCarriers
  BY <1>0, <1>1, <1>2 DEF SameCarriers, Carries, Carrying
<1>7. \A c \in Child : Pending(c)' <=> Pending(c)
  BY <1>1, <1>6, SamePending
<1>8. Named'
  BY <1>0, <1>1, <1>2 DEF Inv, Named, Active, Completing, Carrying, Thread
<1>9. Unstarted'
  <2>1. ~Untouched(b)
    BY <1>5 DEF Untouched
  <2>2. \A g \in Frame : Untouched(g) => Untouched(g)'
    BY <1>0, <1>1, <1>2, <1>5, <2>1
       DEF Untouched, SameRuns, Completing, Carrying, Thread
  <2> QED
    BY <1>0, <1>1, <1>2, <2>2 DEF Inv, Unstarted, Thread, Frame
<1>10. OneCarrier'
  <2>1. ASSUME NEW u \in Thread, pc'[u] \in {"resumeParent", "propagate"}
        PROVE  /\ pc[u] = pc'[u] /\ on[u] \in Frame /\ outcome'[on[u]] = outcome[on[u]]
    <3>1. pc[u] = pc'[u]
      BY <1>0, <1>2, <2>1
    <3>2. on[u] \in Frame /\ finished[on[u]]
      BY <2>1, <3>1 DEF Inv, Named, OneCarrier, Carries, Completing, Carrying
    <3> QED
      BY <1>4, <3>1, <3>2 DEF Inv, Published
  <2> QED
    BY <1>1, <1>6, <2>1 DEF Inv, OneCarrier, SameCarriers
<1>11. Published'
  <2>1. \A g \in Frame : finished'[g] => outcome'[g] # None
    BY <1>1, <1>4 DEF Inv, Published
  <2>2. \A u \in Thread : pc'[u] = "mark" => outcome'[on'[u]] # None
    BY <1>1, <1>2, <1>4 DEF Inv, Published, Named, Completing
  <2>3. \A v \in Worker : pc'[v] = "final" => outcome'[base'[v]] # None
    BY <1>1, <1>2, <1>4 DEF Inv, Published, Named, Active, Thread
  <2>4. \A r \in Root : pc'[r] = "take" => finished'[r]
    BY <1>0, <1>1, <1>2 DEF Inv, Published, Thread
  <2>5. \A r \in Root : result'[r] # None => result'[r] = outcome'[r]
    BY <1>1, <1>4 DEF Inv, Published, Frame
  <2> QED
    BY <2>1, <2>2, <2>3, <2>4, <2>5 DEF Published
<1>12. Exclusive'
  <2>1. Calm
    BY <1>1, <1>5, <1>7 DEF Calm, SameRuns, Inv, Shape
  <2> QED
    BY <1>3, <2>1, CalmExclusive
<1>13. Genuine'
  <2>1. ASSUME NEW c \in Child, cont[c] # None, ~Pending(c), outcome'[c] # "success"
        PROVE  outcome[cont[c]] # None /\ outcome'[cont[c]] = outcome[cont[c]]
    <3>1. finished[c] /\ c \in Frame /\ cont[c] \in Frame
      BY <2>1 DEF Pending, Inv, Shape, Frame
    <3>2. outcome[c] # "success"
      BY <1>4, <2>1, <3>1 DEF Inv, Published
    <3>3. outcome[cont[c]] # None
      BY <2>1, <3>2 DEF Inv, Genuine
    <3> QED
      BY <1>4, <3>1, <3>3
  <2>2. ASSUME NEW r \in Root, outcome'[r] = "success"
        PROVE  /\ queued[r] = 0 /\ lambdas[r] = 0
               /\ \A v \in Worker : Runs(v, r)' => pc'[v] = "final"
               /\ \A c \in Child : cont[c] = r => ~Pending(c) /\ outcome'[c] = "success"
    <3>0. r \in Frame
      BY DEF Frame
    <3>1. CASE r = b /\ outcome[r] = None         \* this worker has let it succeed
      <4>1. queued[r] = 0 /\ lambdas[r] = 0 /\ \A v \in Worker : Runs(v, r) => v = w
        BY <1>5, <3>0, <3>1 DEF Inv, Exclusive
      <4>2. \A v \in Worker : Runs(v, r)' => pc'[v] = "final"
        BY <1>2, <1>5, <3>0, <4>1 DEF SameRuns
      <4>3. \A c \in Child : cont[c] = r => ~Pending(c)
        BY <1>5, <3>0, <3>1 DEF Inv, Exclusive
      <4>4. \A c \in Child : cont[c] = r => outcome'[c] = "success"
        BY <2>1, <3>0, <3>1, <4>3, DistinctFrames
      <4> QED
        BY <4>1, <4>2, <4>3, <4>4
    <3>2. CASE ~(r = b /\ outcome[r] = None)      \* it has succeeded before
      <4>1. outcome[r] = "success"
        BY <1>2, <2>2, <3>0, <3>2
      <4>2. r # b
        BY <1>0, <1>5, <4>1 DEF Inv, Genuine
      <4>3. \A v \in Worker : Runs(v, r)' => pc'[v] = "final"
        BY <1>2, <1>5, <3>0, <4>1 DEF Inv, Genuine, SameRuns, Thread
      <4>4. \A c \in Child : cont[c] = r => ~Pending(c) /\ outcome'[c] = "success"
        BY <1>4, <4>1, DistinctFrames DEF Inv, Genuine, Frame, Outcome
      <4> QED
        BY <4>1, <4>3, <4>4 DEF Inv, Genuine
    <3> QED
      BY <3>1, <3>2
  <2> QED
    BY <1>1, <1>7, <2>1, <2>2 DEF Genuine
<1> QED
  BY <1>3, <1>8, <1>9, <1>10, <1>11, <1>12, <1>13 DEF Inv

\* FinalAwaiter after the frame was marked: the worker is free again.
LEMMA EndInv ==
  ASSUME Inv, NEW w \in Worker, End(w)
  PROVE  Inv'
<1>0. w \in Thread /\ w \notin Root /\ w # Canceler
  BY DistinctThreads DEF Thread
<1>1. /\ UNCHANGED <<finished, outcome, cont, place, queued, lambdas, reg, todo, base, on, return,
                     use, result>>
      /\ pc[w] = "end" /\ pc' = [pc EXCEPT ![w] = "idle"]
  BY DEF End, Goto, coroutine, executor, token, clients
<1>2. pc'[w] = "idle" /\ \A t \in Thread : t # w => pc'[t] = pc[t]
  BY <1>0, <1>1 DEF Inv, Shape
<1>3. Shape'
  BY <1>0, <1>1 DEF Inv, Shape
<1>4. SameRuns /\ SameCarriers
  BY <1>0, <1>1, <1>2
     DEF SameRuns, Runs, SameCarriers, Carries, Active, Completing, Carrying, Thread
<1>5. \A c \in Child : Pending(c)' <=> Pending(c)
  BY <1>1, <1>4, SamePending
<1>6. Named'
  BY <1>0, <1>1, <1>2 DEF Inv, Named, Active, Completing, Carrying, Thread
<1>7. Unstarted'
  <2>1. \A f \in Frame : Untouched(f) => Untouched(f)'
    BY <1>0, <1>1, <1>2, <1>4 DEF Untouched, SameRuns, Completing, Carrying, Thread
  <2> QED
    BY <1>0, <1>1, <1>2, <2>1 DEF Inv, Unstarted, Thread, Frame
<1>8. OneCarrier' /\ Published'
  BY <1>0, <1>1, <1>2, <1>4 DEF Inv, OneCarrier, Published, SameCarriers, Thread
<1>9. Calm
  BY <1>1, <1>4, <1>5 DEF Calm, SameRuns, Inv, Shape
<1>10. Settled
  BY <1>0, <1>1, <1>2, <1>5 DEF Settled, Thread
<1> QED
  BY <1>3, <1>6, <1>7, <1>8, <1>9, <1>10, CalmExclusive, SettledGenuine DEF Inv

\* Yield and Delay: the right to resume goes into the executor's lambda.
LEMMA SuspendYieldInv ==
  ASSUME Inv, NEW w \in Worker, SuspendYield(w)
  PROVE  Inv'
<1>b. PICK b \in Frame : b = base[w]
  BY DEF SuspendYield, Inv, Named, Active
<1>0. w \in Thread /\ w \notin Root /\ w # Canceler /\ pc[w] = "go"
  BY DistinctThreads DEF Thread, SuspendYield
<1>1. /\ UNCHANGED <<finished, outcome, cont, place, queued, reg, todo, base, on, return, use, result>>
      /\ pc' = [pc EXCEPT ![w] = "idle"]
      /\ lambdas' = [lambdas EXCEPT ![b] = @ + 1]
  BY <1>b DEF SuspendYield, Goto, Add, promise, coroutine, token, threads, clients
<1>2. Runs(w, b)
  BY <1>0, <1>b DEF Runs, Active
<1>3. /\ pc'[w] = "idle" /\ \A t \in Thread : t # w => pc'[t] = pc[t]
      /\ \A g \in Frame : g # b => lambdas'[g] = lambdas[g]
      /\ queued'[b] = 0 /\ lambdas[b] = 0 /\ lambdas'[b] = 1
  BY <1>0, <1>1, <1>2 DEF Inv, Shape, Exclusive
<1>4. Shape'
  BY <1>0, <1>1 DEF Inv, Shape
<1>5. /\ \A v \in Worker, g \in Frame : Runs(v, g)' <=> v # w /\ Runs(v, g)
      /\ \A v \in Worker : ~Runs(v, b)'
  <2>1. \A v \in Worker, g \in Frame : Runs(v, g)' <=> v # w /\ Runs(v, g)
    BY <1>0, <1>1, <1>3 DEF Runs, Active, Completing, Carrying, Thread
  <2> QED
    BY <1>0, <1>2, <2>1 DEF Inv, Exclusive
<1>6. SameCarriers
  BY <1>0, <1>1, <1>3 DEF SameCarriers, Carries, Carrying
<1>7. \A c \in Child : Pending(c)' <=> Pending(c)
  BY <1>1, <1>6, SamePending
<1>8. Named'
  BY <1>0, <1>1, <1>3 DEF Inv, Named, Active, Completing, Carrying, Thread
<1>9. Unstarted'
  <2>1. ~Untouched(b)
    BY <1>2 DEF Untouched
  <2>2. \A f \in Frame : Untouched(f) => Untouched(f)'
    BY <1>0, <1>1, <1>3, <1>5, <2>1 DEF Untouched, Completing, Carrying, Thread
  <2> QED
    BY <1>0, <1>1, <1>3, <2>2 DEF Inv, Unstarted, Thread, Frame
<1>10. OneCarrier' /\ Published'
  BY <1>0, <1>1, <1>3, <1>6 DEF Inv, OneCarrier, Published, SameCarriers, Thread
<1>11. Exclusive'
  <2>1. \A f \in Frame : queued'[f] + lambdas'[f] <= 1
    BY <1>1, <1>3 DEF Inv, Exclusive
  <2>2. ASSUME NEW f \in Frame, NEW v \in Worker, Runs(v, f)'
        PROVE  /\ queued'[f] = 0 /\ lambdas'[f] = 0
               /\ \A u \in Worker : Runs(u, f)' => u = v
    BY <1>1, <1>3, <1>5, <2>2 DEF Inv, Exclusive
  <2>3. ASSUME NEW f \in Frame, NEW c \in Child, cont'[c] = f, Pending(c)'
        PROVE  /\ queued'[f] = 0 /\ lambdas'[f] = 0
               /\ \A v \in Worker : ~Runs(v, f)'
               /\ \A d \in Child : cont'[d] = f /\ Pending(d)' => d = c
    <3>1. f # b
      BY <1>1, <1>2, <1>7, <2>3 DEF Inv, Exclusive
    <3> QED
      BY <1>1, <1>3, <1>5, <1>7, <2>3, <3>1 DEF Inv, Exclusive
  <2> QED
    BY <2>1, <2>2, <2>3 DEF Exclusive
<1>12. Genuine'
  <2>1. ASSUME NEW q \in Root, outcome'[q] = "success"
        PROVE  /\ queued'[q] = 0 /\ lambdas'[q] = 0
               /\ \A v \in Worker : Runs(v, q)' => pc'[v] = "final"
               /\ \A c \in Child : cont'[c] = q => ~Pending(c)' /\ outcome'[c] = "success"
    <3>1. q # b /\ q \in Frame /\ outcome[q] = "success"
      BY <1>0, <1>1, <1>2, <2>1 DEF Inv, Genuine, Frame
    <3> QED
      BY <1>0, <1>1, <1>3, <1>5, <1>7, <3>1 DEF Inv, Genuine, Thread
  <2> QED
    BY <1>1, <1>7, <2>1 DEF Inv, Genuine
<1> QED
  BY <1>4, <1>8, <1>9, <1>10, <1>11, <1>12 DEF Inv

\* AwaitSuspend(): the right to resume the root goes to the child it starts.
LEMMA SuspendAwaitInv ==
  ASSUME Inv, NEW w \in Worker, SuspendAwait(w)
  PROVE  Inv'
<1>b. PICK b \in Frame : b = base[w]
  BY DEF SuspendAwait, Inv, Named, Active
<1>0. w \in Thread /\ w \notin Root /\ w # Canceler /\ pc[w] = "go"
  BY DistinctThreads DEF Thread, SuspendAwait
<1>1. PICK k \in Child : /\ RootOf[k] = b /\ place[k] = "cold"
                         /\ cont' = [cont EXCEPT ![k] = b]
                         /\ place' = [place EXCEPT ![k] = "run"]
                         /\ queued' = [queued EXCEPT ![k] = @ + 1]
  BY <1>b DEF SuspendAwait, Add
<1>2. /\ UNCHANGED <<finished, outcome, lambdas, reg, todo, base, on, return, use, result>>
      /\ pc' = [pc EXCEPT ![w] = "idle"]
  BY DEF SuspendAwait, Goto, token, threads, clients
<1>3. /\ k \in Frame /\ b \in Root /\ k # b /\ k \notin Root
      /\ cont[k] = None /\ Untouched(k)
  BY <1>1, RootOfAssumption, DistinctFrames DEF Frame, Inv, Unstarted
<1>4. Runs(w, b)
  BY <1>0, <1>b DEF Runs, Active
<1>5. /\ pc'[w] = "idle" /\ \A t \in Thread : t # w => pc'[t] = pc[t]
      /\ cont'[k] = b /\ place'[k] = "run" /\ queued'[k] = 1
      /\ \A g \in Frame : g # k =>
           cont'[g] = cont[g] /\ place'[g] = place[g] /\ queued'[g] = queued[g]
  BY <1>0, <1>1, <1>2, <1>3 DEF Inv, Shape, Untouched
<1>6. Shape'
  BY <1>0, <1>1, <1>2, <1>3 DEF Inv, Shape
<1>7. \A v \in Worker, g \in Frame : Runs(v, g)' <=> v # w /\ Runs(v, g)
  BY <1>0, <1>2, <1>5 DEF Runs, Active, Completing, Carrying, Thread
<1>8. \A v \in Worker : ~Runs(v, b)' /\ ~Runs(v, k)'
  BY <1>0, <1>3, <1>4, <1>7 DEF Inv, Exclusive, Untouched
<1>9. SameCarriers
  BY <1>0, <1>2, <1>5 DEF SameCarriers, Carries, Carrying
<1>10. \A c \in Child : c # k => (Pending(c)' <=> Pending(c)) /\ cont'[c] = cont[c]
  BY <1>2, <1>5, <1>9 DEF SameCarriers, Pending, Frame
<1>11. Named'
  BY <1>0, <1>1, <1>2, <1>3, <1>5 DEF Inv, Named, Active, Completing, Carrying, Thread, Frame
<1>12. Unstarted'
  <2>1. ~Untouched(b)
    BY <1>4 DEF Untouched
  <2>2. ASSUME NEW g \in Frame, g # k, Untouched(g) PROVE Untouched(g)'
    <3>1. g # b
      BY <2>1, <2>2
    <3>2. \A c \in Child : cont'[c] # g
      BY <1>5, <2>2, <3>1 DEF Untouched, Frame
    <3> QED
      BY <1>0, <1>2, <1>5, <1>7, <2>2, <3>2 DEF Untouched, Completing, Carrying, Thread
  <2>3. ASSUME NEW r \in Root, pc'[r] = "spawn" PROVE Untouched(r)'
    BY <1>0, <1>3, <1>5, <2>2, <2>3 DEF Inv, Unstarted, Thread, Frame
  <2>4. ASSUME NEW c \in Child, cont'[c] = None PROVE Untouched(c)'
    <3>1. c # k /\ c \in Frame
      BY <1>0, <1>5, <2>4, DistinctFrames DEF Frame
    <3> QED
      BY <1>5, <2>2, <2>4, <3>1 DEF Inv, Unstarted
  <2>5. ASSUME NEW c \in Child, place'[c] = "cold" PROVE cont'[c] = None
    BY <1>5, <2>5 DEF Inv, Unstarted, Frame
  <2> QED
    BY <2>3, <2>4, <2>5 DEF Unstarted
<1>13. OneCarrier'
  <2>1. \A t \in Thread : pc'[t] \in {"resumeParent", "propagate"} => pc[t] = pc'[t] /\ on[t] # k
    BY <1>0, <1>3, <1>5 DEF Untouched, Completing, Carrying
  <2>2. \A t \in Thread : pc'[t] \in {"resumeParent", "propagate"} => cont'[on'[t]] # None
    BY <1>2, <1>5, <2>1 DEF Inv, OneCarrier, Named, Completing, Carrying
  <2> QED
    BY <1>2, <1>9, <2>1, <2>2 DEF Inv, OneCarrier, SameCarriers
<1>14. Published'
  BY <1>0, <1>2, <1>5 DEF Inv, Published, Thread
<1>15. \A c \in Child : cont[c] = b => ~Pending(c)
  BY <1>0, <1>4 DEF Inv, Exclusive
<1>16. Exclusive'
  <2>1. \A f \in Frame : queued'[f] + lambdas'[f] <= 1
    BY <1>2, <1>3, <1>5 DEF Inv, Exclusive, Untouched
  <2>2. ASSUME NEW f \in Frame, NEW v \in Worker, Runs(v, f)'
        PROVE  /\ queued'[f] = 0 /\ lambdas'[f] = 0
               /\ \A u \in Worker : Runs(u, f)' => u = v
    BY <1>2, <1>5, <1>7, <1>8, <2>2 DEF Inv, Exclusive
  <2>3. ASSUME NEW f \in Frame, NEW c \in Child, cont'[c] = f, Pending(c)'
        PROVE  /\ queued'[f] = 0 /\ lambdas'[f] = 0
               /\ \A v \in Worker : ~Runs(v, f)'
               /\ \A d \in Child : cont'[d] = f /\ Pending(d)' => d = c
    <3>1. CASE f = b
      <4>1. queued'[b] = 0 /\ lambdas'[b] = 0
        BY <1>0, <1>2, <1>3, <1>4, <1>5 DEF Inv, Exclusive
      <4>2. \A d \in Child : cont'[d] = b /\ Pending(d)' => d = k
        BY <1>10, <1>15
      <4> QED
        BY <1>8, <2>3, <3>1, <4>1, <4>2
    <3>2. CASE f # b
      <4>1. c # k /\ cont[c] = f /\ Pending(c) /\ f # k
        BY <1>3, <1>5, <1>10, <2>3, <3>2 DEF Untouched
      <4>2. \A d \in Child : cont'[d] = f => d # k
        BY <1>5, <3>2
      <4> QED
        BY <1>2, <1>5, <1>7, <1>10, <2>3, <4>1, <4>2 DEF Inv, Exclusive
    <3> QED
      BY <3>1, <3>2
  <2> QED
    BY <2>1, <2>2, <2>3 DEF Exclusive
<1>17. Genuine'
  <2>1. ASSUME NEW q \in Root, outcome'[q] = "success"
        PROVE  /\ queued'[q] = 0 /\ lambdas'[q] = 0
               /\ \A v \in Worker : Runs(v, q)' => pc'[v] = "final"
               /\ \A c \in Child : cont'[c] = q => ~Pending(c)' /\ outcome'[c] = "success"
    <3>1. q # b /\ q # k /\ q \in Frame /\ outcome[q] = "success"
      BY <1>0, <1>2, <1>3, <1>4, <2>1 DEF Inv, Genuine, Frame
    <3>2. \A c \in Child : cont'[c] = q => c # k
      BY <1>5, <3>1
    <3> QED
      BY <1>0, <1>2, <1>5, <1>7, <1>10, <3>1, <3>2 DEF Inv, Genuine, Thread
  <2>2. ASSUME NEW c \in Child, cont'[c] # None, ~Pending(c)', outcome'[c] # "success"
        PROVE  outcome'[cont'[c]] # None
    <3>1. ~finished[k]
      BY <1>3 DEF Untouched, Inv, Published
    <3>2. c # k
      BY <1>2, <2>2, <3>1 DEF Pending
    <3> QED
      BY <1>2, <1>10, <2>2, <3>2 DEF Inv, Genuine
  <2> QED
    BY <2>1, <2>2 DEF Genuine
<1> QED
  BY <1>6, <1>11, <1>12, <1>13, <1>14, <1>16, <1>17 DEF Inv

\* A worker's steps.
LEMMA WorkerInv ==
  ASSUME Inv, NEW w \in Worker, WorkerStep(w)
  PROVE  Inv'
<1>0. w \in Thread /\ (pc[w] \in Active => base[w] \in Frame)
  BY DEF Thread, Inv, Named
<1>1. CASE Resume(w) \/ Yield(w) \/ Await(w)
  <2>1. Moved(w)
    BY <1>0, <1>1 DEF Resume, Yield, Await, Moved, Active, Goto, Inv, Shape, promise, executor, token,
                      threads, clients
  <2> QED
    BY <2>1, MovedInv
<1>2. CASE SuspendCheck(w)
  <2>1. CASE canceled
    <3>1. Completes(w, base[w])
      BY <1>2, <2>1 DEF SuspendCheck, Completes, Complete, Goto, coroutine, executor, token, clients
    <3> QED
      BY <1>0, <3>1, CompletesInv
  <2>2. CASE ~canceled
    <3>1. Moved(w)
      BY <1>0, <1>2, <2>2
         DEF SuspendCheck, Moved, Active, Goto, Inv, Shape, coroutine, executor, token, clients
    <3> QED
      BY <3>1, MovedInv
  <2> QED
    BY <2>1, <2>2
<1>3. CASE SuspendRegister(w)
  <2>1. CASE canceled
    <3>1. Completes(w, base[w])
      BY <1>3, <2>1 DEF SuspendRegister, Completes, Complete, Goto, coroutine, executor, clients
    <3> QED
      BY <1>0, <3>1, CompletesInv
  <2>2. CASE ~canceled
    <3>1. Moved(w)
      BY <1>0, <1>3, <2>2
         DEF SuspendRegister, Moved, Active, Goto, Inv, Shape, coroutine, executor, clients
    <3> QED
      BY <3>1, MovedInv
  <2> QED
    BY <2>1, <2>2
<1>4. CASE Final(w)
  <2>1. Completes(w, base[w])
    BY <1>4 DEF Final, Completes, Complete, Goto, promise, coroutine, executor, token, clients
  <2> QED
    BY <1>0, <2>1, CompletesInv
<1> QED
  BY <1>1, <1>2, <1>3, <1>4, ExecuteInv, ReturnInv, EndInv, SuspendYieldInv, SuspendAwaitInv
     DEF WorkerStep

-----------------------------------------------------------------------------
(* MarkFinishedAndResume() and PropagateChildCompletion()                   *)

\* The compare-exchange on m_finished: its winner carries the frame's outcome.
LEMMA MarkInv ==
  ASSUME Inv, NEW t \in Thread, Mark(t)
  PROVE  Inv'
<1>1. PICK f \in Frame : f = on[t]
  BY DEF Mark, Inv, Named, Completing
<1>2. /\ UNCHANGED <<outcome, cont, place, queued, lambdas, reg, todo, base, on, return, use, result>>
      /\ pc[t] = "mark" /\ finished' = [finished EXCEPT ![f] = TRUE]
      /\ pc' = [pc EXCEPT ![t] = IF finished[f] THEN return[t] ELSE "notify"]
  BY <1>1 DEF Mark, Goto, coroutine, executor, token, threads, clients
<1>3. /\ finished'[f] /\ \A g \in Frame : g # f => finished'[g] = finished[g]
      /\ \A u \in Thread : u # t => pc'[u] = pc[u]
      /\ pc'[t] = IF finished[f] THEN return[t] ELSE "notify"
      /\ return[t] \in {"idle", "go", "end"}
  BY <1>2 DEF Inv, Shape
<1>4. Shape'
  BY <1>2, <1>3 DEF Inv, Shape
<1>5. SameRuns
  BY <1>2, <1>3 DEF SameRuns, Runs, Active, Completing, Carrying, Thread
<1>6. \A u \in Thread, g \in Frame :
        Carries(u, g)' <=> Carries(u, g) \/ (u = t /\ g = f /\ ~finished[f])
  BY <1>1, <1>2, <1>3 DEF Carries, Carrying
<1>7. ASSUME NEW c \in Child PROVE Pending(c)' <=> Pending(c)
  <2>1. c \in Frame
    BY DEF Frame
  <2>2. CASE c # f \/ finished[f]
    <3>1. finished'[c] = finished[c] /\ \A u \in Thread : Carries(u, c)' <=> Carries(u, c)
      BY <1>3, <1>6, <2>1, <2>2 DEF Inv, Shape
    <3> QED
      BY <1>2, <3>1 DEF Pending
  <2>3. CASE c = f /\ ~finished[f]
    BY <1>2, <1>6, <2>3 DEF Pending
  <2> QED
    BY <2>2, <2>3
<1>8. Named'
  BY <1>1, <1>2, <1>3 DEF Inv, Named, Active, Completing, Carrying, Thread
<1>9. Unstarted'
  <2>1. \A g \in Frame : Untouched(g) => Untouched(g)'
    BY <1>1, <1>2, <1>3, <1>5 DEF Untouched, SameRuns, Completing, Carrying, Thread
  <2> QED
    BY <1>2, <1>3, <2>1 DEF Inv, Unstarted, Thread, Frame
<1>10. OneCarrier'
  <2>1. \A u \in Thread, g \in Frame : Carries(u, g)' => finished'[g]
    BY <1>3, <1>6 DEF Inv, OneCarrier
  <2>2. ASSUME NEW u \in Thread, NEW v \in Thread, NEW g \in Frame, Carries(u, g)', Carries(v, g)'
        PROVE  u = v
    BY <1>6, <2>2 DEF Inv, OneCarrier
  <2>3. \A u \in Thread : pc'[u] \in {"resumeParent", "propagate"} => pc[u] = pc'[u]
    BY <1>3
  <2> QED
    BY <1>2, <2>1, <2>2, <2>3 DEF Inv, OneCarrier
<1>11. Published'
  <2>1. outcome[f] # None
    BY <1>1, <1>2 DEF Inv, Published
  <2>2. \A g \in Frame : finished'[g] => outcome'[g] # None
    BY <1>2, <1>3, <2>1 DEF Inv, Published
  <2>3. \A r \in Root : pc'[r] = "take" => finished'[r]
    BY <1>3 DEF Inv, Published, Frame, Thread
  <2> QED
    BY <1>2, <1>3, <2>2, <2>3 DEF Inv, Published, Thread
<1>12. Calm
  BY <1>2, <1>5, <1>7 DEF Calm, SameRuns, Inv, Shape
<1>13. Settled
  BY <1>2, <1>3, <1>7 DEF Settled, Thread
<1> QED
  BY <1>4, <1>8, <1>9, <1>10, <1>11, <1>12, <1>13, CalmExclusive, SettledGenuine DEF Inv

\* NotifyAll(): a parked client looks again.
LEMMA NotifyInv ==
  ASSUME Inv, NEW t \in Thread, Notify(t)
  PROVE  Inv'
<1>1. /\ UNCHANGED <<finished, outcome, cont, place, queued, lambdas, reg, todo, base, on, return,
                     use, result>>
      /\ pc[t] = "notify"
      /\ pc' = [u \in Thread |-> IF u = t THEN "continue"
                                 ELSE IF u = on[t] /\ pc[u] = "parked" THEN "wait" ELSE pc[u]]
  BY DEF Notify, promise, coroutine, executor, token, threads
<1>2. /\ pc'[t] = "continue"
      /\ \A u \in Thread : u # t => pc'[u] = pc[u] \/ (pc[u] = "parked" /\ pc'[u] = "wait")
  BY <1>1
<1>3. Shape'
  BY <1>1 DEF Inv, Shape
<1>4. SameRuns /\ SameCarriers
  BY <1>1, <1>2
     DEF SameRuns, Runs, SameCarriers, Carries, Active, Completing, Carrying, Thread
<1>5. \A c \in Child : Pending(c)' <=> Pending(c)
  BY <1>1, <1>4, SamePending
<1>6. Named'
  BY <1>1, <1>2 DEF Inv, Named, Active, Completing, Carrying, Thread
<1>7. Unstarted'
  <2>1. \A f \in Frame : Untouched(f) => Untouched(f)'
    BY <1>1, <1>2, <1>4 DEF Untouched, SameRuns, Completing, Carrying, Thread
  <2> QED
    BY <1>1, <1>2, <2>1 DEF Inv, Unstarted, Thread, Frame
<1>8. OneCarrier' /\ Published'
  BY <1>1, <1>2, <1>4 DEF Inv, OneCarrier, Published, SameCarriers, Thread
<1>9. Calm
  BY <1>1, <1>4, <1>5 DEF Calm, SameRuns, Inv, Shape
<1>10. Settled
  BY <1>1, <1>2, <1>5 DEF Settled, Thread
<1> QED
  BY <1>3, <1>6, <1>7, <1>8, <1>9, <1>10, CalmExclusive, SettledGenuine DEF Inv

\* The continuation is looked at: a child whose root is finished is dropped.
LEMMA ContinueInv ==
  ASSUME Inv, NEW t \in Thread, Continue(t)
  PROVE  Inv'
<1>1. PICK f \in Frame : f = on[t]
  BY DEF Continue, Inv, Named, Completing, Carrying
<1>2. /\ UNCHANGED <<finished, outcome, cont, place, queued, lambdas, reg, todo, base, on, return,
                     use, result>>
      /\ pc[t] = "continue" /\ pc' = [pc EXCEPT ![t] = NextStep(f, return[t])]
  BY <1>1 DEF Continue, Goto, promise, coroutine, executor, token, threads, clients
<1>3. /\ pc'[t] = NextStep(f, return[t]) /\ \A u \in Thread : u # t => pc'[u] = pc[u]
      /\ return[t] \in {"idle", "go", "end"}
      /\ NextStep(f, return[t]) \in {return[t], "resumeParent", "propagate"}
  BY <1>2 DEF Inv, Shape, NextStep
<1>4. Shape'
  BY <1>2, <1>3 DEF Inv, Shape
<1>5. SameRuns
  BY <1>2, <1>3 DEF SameRuns, Runs, Active, Completing, Carrying, Thread
<1>6. /\ \A u \in Thread, g \in Frame : Carries(u, g)' => Carries(u, g)
      /\ \A u \in Thread, g \in Frame : Carries(u, g) => Carries(u, g)' \/ (u = t /\ g = f)
  BY <1>1, <1>2, <1>3 DEF Carries, Carrying
<1>7. \A c \in Child : Pending(c)' => Pending(c)
  BY <1>2, <1>6 DEF Pending, Frame
<1>8. Named'
  BY <1>1, <1>2, <1>3 DEF Inv, Named, Active, Completing, Carrying, Thread
<1>9. Unstarted'
  <2>1. \A g \in Frame : Untouched(g) => Untouched(g)'
    BY <1>1, <1>2, <1>3, <1>5 DEF Untouched, SameRuns, Completing, Carrying, Thread
  <2> QED
    BY <1>2, <1>3, <2>1 DEF Inv, Unstarted, Thread, Frame
<1>10. OneCarrier'
  <2>1. \A u, v \in Thread, g \in Frame : Carries(u, g)' /\ Carries(v, g)' => u = v
    BY <1>6 DEF Inv, OneCarrier
  <2>2. /\ pc'[t] \in {"resumeParent", "propagate"} => cont[f] # None
        /\ pc'[t] = "resumeParent" => outcome[f] = "success"
        /\ pc'[t] = "propagate" => outcome[f] # "success"
    BY <1>3 DEF NextStep
  <2> QED
    BY <1>1, <1>2, <1>3, <1>6, <2>1, <2>2 DEF Inv, OneCarrier
<1>11. Published'
  BY <1>2, <1>3 DEF Inv, Published, Thread
<1>12. Calm
  BY <1>2, <1>5, <1>7 DEF Calm, SameRuns, Inv, Shape
<1>13. Settled
  <2>1. ASSUME NEW c \in Child, Pending(c), ~Pending(c)' PROVE outcome'[cont[c]] # None
    <3>1. c = f /\ ~Carries(t, f)' /\ cont[c] # None /\ c \in Frame
      BY <1>2, <1>6, <2>1 DEF Pending, Frame
    <3>2. pc'[t] = return[t]
      BY <1>1, <1>2, <1>3, <3>1 DEF Carries, Carrying
    <3>3. finished[cont[c]] /\ cont[c] \in Frame
      BY <1>3, <3>1, <3>2 DEF NextStep, Inv, Shape, Frame
    <3> QED
      BY <1>2, <3>3 DEF Inv, Published
  <2> QED
    BY <1>2, <1>3, <2>1 DEF Settled, Thread
<1> QED
  BY <1>4, <1>8, <1>9, <1>10, <1>11, <1>12, <1>13, CalmExclusive, SettledGenuine DEF Inv

\* The child succeeded: its right to resume the root goes to the executor.
LEMMA ResumeParentInv ==
  ASSUME Inv, NEW t \in Thread, ResumeParent(t)
  PROVE  Inv'
<1>1. PICK f \in Frame : f = on[t]
  BY DEF ResumeParent, Inv, Named, Completing, Carrying
<1>2. PICK p \in Root : p = cont[f]
  BY <1>1 DEF ResumeParent, Inv, Shape, OneCarrier
<1>3. f \in Child /\ p \in Frame /\ p # f
  BY <1>2, DistinctFrames DEF Inv, Named, Frame
<1>4. /\ UNCHANGED <<finished, outcome, cont, place, lambdas, reg, todo, base, on, return, use, result>>
      /\ pc[t] = "resumeParent" /\ pc' = [pc EXCEPT ![t] = return[t]]
      /\ queued' = [queued EXCEPT ![p] = @ + 1]
  BY <1>1, <1>2 DEF ResumeParent, Goto, Add, promise, coroutine, token, threads, clients
<1>5. Carries(t, f) /\ Pending(f) /\ outcome[f] = "success"
  BY <1>1, <1>2, <1>3, <1>4, DistinctFrames DEF Carries, Carrying, Pending, Inv, OneCarrier, Frame
<1>6. /\ queued[p] = 0 /\ lambdas[p] = 0 /\ \A w \in Worker : ~Runs(w, p)
      /\ \A d \in Child : cont[d] = p /\ Pending(d) => d = f
      /\ outcome[p] # "success"
  BY <1>2, <1>3, <1>5 DEF Inv, Exclusive, Genuine
<1>7. /\ queued'[p] = 1 /\ \A g \in Frame : g # p => queued'[g] = queued[g]
      /\ pc'[t] = return[t] /\ return[t] \in {"idle", "go", "end"}
      /\ \A u \in Thread : u # t => pc'[u] = pc[u]
  BY <1>3, <1>4, <1>6 DEF Inv, Shape
<1>8. Shape'
  BY <1>3, <1>4, <1>7 DEF Inv, Shape
<1>9. SameRuns
  BY <1>4, <1>7 DEF SameRuns, Runs, Active, Completing, Carrying, Thread
<1>10. \A u \in Thread, g \in Frame : Carries(u, g)' <=> Carries(u, g) /\ u # t
  BY <1>4, <1>7 DEF Carries, Carrying
<1>11. ~Pending(f)' /\ \A c \in Child : c # f => (Pending(c)' <=> Pending(c))
  <2>1. finished[f] /\ \A u \in Thread : ~Carries(u, f)'
    BY <1>5, <1>10 DEF Inv, OneCarrier
  <2>2. \A c \in Child : c # f => \A u \in Thread : Carries(u, c)' <=> Carries(u, c)
    BY <1>1, <1>10 DEF Carries, Frame
  <2> QED
    BY <1>4, <2>1, <2>2 DEF Pending
<1>12. Named'
  BY <1>4, <1>7 DEF Inv, Named, Active, Completing, Carrying, Thread
<1>13. Unstarted'
  <2>1. ~Untouched(p)
    BY <1>2, <1>3 DEF Untouched
  <2>2. \A g \in Frame : Untouched(g) => Untouched(g)'
    BY <1>4, <1>7, <1>9, <2>1 DEF Untouched, SameRuns, Completing, Carrying, Thread
  <2> QED
    BY <1>4, <1>7, <2>2 DEF Inv, Unstarted, Thread, Frame
<1>14. OneCarrier'
  BY <1>4, <1>7, <1>10 DEF Inv, OneCarrier
<1>15. Published'
  BY <1>4, <1>7 DEF Inv, Published, Thread
<1>16. Exclusive'
  <2>1. \A g \in Frame : queued'[g] + lambdas'[g] <= 1
    BY <1>4, <1>6, <1>7 DEF Inv, Exclusive
  <2>2. ASSUME NEW g \in Frame, NEW v \in Worker, Runs(v, g)'
        PROVE  /\ queued'[g] = 0 /\ lambdas'[g] = 0
               /\ \A u \in Worker : Runs(u, g)' => u = v
    BY <1>4, <1>6, <1>7, <1>9, <2>2 DEF Inv, Exclusive, SameRuns
  <2>3. ASSUME NEW g \in Frame, NEW c \in Child, cont'[c] = g, Pending(c)'
        PROVE  /\ queued'[g] = 0 /\ lambdas'[g] = 0
               /\ \A v \in Worker : ~Runs(v, g)'
               /\ \A d \in Child : cont'[d] = g /\ Pending(d)' => d = c
    <3>1. c # f /\ Pending(c) /\ cont[c] = g /\ g # p
      BY <1>4, <1>6, <1>11, <2>3
    <3> QED
      BY <1>4, <1>7, <1>9, <1>11, <3>1 DEF Inv, Exclusive, SameRuns
  <2> QED
    BY <2>1, <2>2, <2>3 DEF Exclusive
<1>17. Genuine'
  <2>1. ASSUME NEW q \in Root, outcome'[q] = "success"
        PROVE  /\ queued'[q] = 0 /\ lambdas'[q] = 0
               /\ \A v \in Worker : Runs(v, q)' => pc'[v] = "final"
               /\ \A c \in Child : cont'[c] = q => ~Pending(c)' /\ outcome'[c] = "success"
    <3>1. q # p /\ q \in Frame /\ outcome[q] = "success"
      BY <1>4, <1>6, <2>1 DEF Frame
    <3>2. \A v \in Worker : Runs(v, q)' => pc'[v] = "final"
      BY <1>4, <1>7, <1>9, <3>1 DEF Inv, Genuine, SameRuns, Thread
    <3> QED
      BY <1>4, <1>7, <1>11, <3>1, <3>2 DEF Inv, Genuine
  <2>2. ASSUME NEW c \in Child, cont'[c] # None, ~Pending(c)', outcome'[c] # "success"
        PROVE  outcome'[cont'[c]] # None
    BY <1>4, <1>5, <1>11, <2>2 DEF Inv, Genuine
  <2> QED
    BY <2>1, <2>2 DEF Genuine
<1> QED
  BY <1>8, <1>12, <1>13, <1>14, <1>15, <1>16, <1>17 DEF Inv

\* The child failed: its outcome is the root's unless that has one already.
LEMMA PropagateInv ==
  ASSUME Inv, NEW t \in Thread, Propagate(t)
  PROVE  Inv'
<1>1. PICK f \in Frame : f = on[t]
  BY DEF Propagate, Inv, Named, Completing, Carrying
<1>2. PICK p \in Root : p = cont[f]
  BY <1>1 DEF Propagate, Inv, Shape, OneCarrier
<1>3. f \in Child /\ p \in Frame /\ p # f
  BY <1>2, DistinctFrames DEF Inv, Named, Frame
<1>4. /\ UNCHANGED <<finished, cont, place, queued, lambdas, reg, todo, base, return, use, result>>
      /\ pc[t] = "propagate" /\ pc' = [pc EXCEPT ![t] = "mark"]
      /\ on' = [on EXCEPT ![t] = p]
      /\ outcome' = [outcome EXCEPT ![p] = IF @ = None THEN outcome[f] ELSE @]
  BY <1>1, <1>2 DEF Propagate, Goto, SetCompletion, coroutine, executor, token, clients
<1>5. Carries(t, f) /\ finished[f] /\ outcome[f] # "success" /\ outcome[f] # None
  BY <1>1, <1>4 DEF Carries, Carrying, Inv, OneCarrier, Published
<1>6. /\ pc'[t] = "mark" /\ on'[t] = p
      /\ \A u \in Thread : u # t => pc'[u] = pc[u] /\ on'[u] = on[u]
      /\ \A g \in Frame : g # p => outcome'[g] = outcome[g]
      /\ outcome'[p] = (IF outcome[p] = None THEN outcome[f] ELSE outcome[p]) /\ outcome'[p] # None
  BY <1>3, <1>4, <1>5 DEF Inv, Shape
<1>7. Shape'
  BY <1>3, <1>4 DEF Inv, Shape
<1>8. SameRuns
  BY <1>4, <1>6 DEF SameRuns, Runs, Active, Completing, Carrying, Thread
<1>9. \A u \in Thread, g \in Frame : Carries(u, g)' <=> Carries(u, g) /\ u # t
  BY <1>4, <1>6 DEF Carries, Carrying
<1>10. \A c \in Child : Pending(c)' => Pending(c)
  BY <1>4, <1>9 DEF Pending, Frame
<1>11. \A g \in Frame : outcome[g] # None => outcome'[g] = outcome[g]
  BY <1>6
<1>12. Named'
  BY <1>3, <1>4, <1>6 DEF Inv, Named, Active, Completing, Carrying, Thread
<1>13. Unstarted'
  <2>1. ~Untouched(p)
    BY <1>2, <1>3 DEF Untouched
  <2>2. ASSUME NEW g \in Frame, Untouched(g) PROVE Untouched(g)'
    <3>1. g # p
      BY <2>1, <2>2
    <3>2. \A u \in Thread : ~(pc'[u] \in Completing /\ on'[u] = g)
      BY <1>6, <2>2, <3>1 DEF Untouched
    <3>3. ~(pc'[Canceler] = "call" /\ base'[Canceler] = g)
      BY <1>4, <1>6, <2>2 DEF Untouched, Thread
    <3> QED
      BY <1>4, <1>6, <1>8, <2>2, <3>1, <3>2, <3>3 DEF Untouched, SameRuns
  <2> QED
    BY <1>4, <1>6, <2>2 DEF Inv, Unstarted, Thread, Frame
<1>14. OneCarrier'
  <2>1. ASSUME NEW u \in Thread, pc'[u] \in {"resumeParent", "propagate"}
        PROVE  /\ pc[u] = pc'[u] /\ on'[u] = on[u]
               /\ on[u] \in Frame /\ outcome'[on[u]] = outcome[on[u]]
    <3>1. u # t /\ pc[u] = pc'[u] /\ on'[u] = on[u]
      BY <1>6, <2>1
    <3>2. on[u] \in Frame /\ finished[on[u]]
      BY <2>1, <3>1 DEF Inv, Named, OneCarrier, Carries, Completing, Carrying
    <3> QED
      BY <1>11, <3>1, <3>2 DEF Inv, Published
  <2> QED
    BY <1>4, <1>9, <2>1 DEF Inv, OneCarrier
<1>15. Published'
  <2>1. \A g \in Frame : finished'[g] => outcome'[g] # None
    BY <1>4, <1>11 DEF Inv, Published
  <2>2. \A u \in Thread : pc'[u] = "mark" => outcome'[on'[u]] # None
    BY <1>6, <1>11 DEF Inv, Published, Named, Completing
  <2>3. \A w \in Worker : pc'[w] = "final" => outcome'[base'[w]] # None
    BY <1>4, <1>6, <1>11 DEF Inv, Published, Named, Active, Thread
  <2>4. \A r \in Root : pc'[r] = "take" => finished'[r]
    BY <1>4, <1>6 DEF Inv, Published, Thread
  <2>5. \A r \in Root : result'[r] # None => result'[r] = outcome'[r]
    BY <1>4, <1>11 DEF Inv, Published, Frame
  <2> QED
    BY <2>1, <2>2, <2>3, <2>4, <2>5 DEF Published
<1>16. Calm
  BY <1>4, <1>8, <1>10 DEF Calm, SameRuns, Inv, Shape
<1>17. Settled
  <2>1. ASSUME NEW c \in Child, Pending(c), ~Pending(c)' PROVE outcome'[cont[c]] # None
    <3>1. c = f
      BY <1>1, <1>4, <1>9, <2>1 DEF Pending, Carries, Frame
    <3> QED
      BY <1>2, <1>6, <3>1
  <2>2. \A r \in Root : outcome'[r] = "success" => outcome[r] = "success"
    BY <1>5, <1>6 DEF Frame
  <2> QED
    BY <1>4, <1>6, <1>11, <2>1, <2>2 DEF Settled, Thread
<1> QED
  BY <1>7, <1>12, <1>13, <1>14, <1>15, <1>16, <1>17, CalmExclusive, SettledGenuine DEF Inv

-----------------------------------------------------------------------------
\* The cancelling thread takes the list and goes through it.
Fires ==
    /\ UNCHANGED <<finished, outcome, cont, place, queued, lambdas, on, return, use, result>>
    /\ \A t \in Thread : t # Canceler => pc'[t] = pc[t] /\ base'[t] = base[t]
    /\ \/ pc'[Canceler] = pc[Canceler] /\ base' = base
       \/ pc[Canceler] = "idle" /\ pc'[Canceler] \in {"idle", "call"} /\ base'[Canceler] \in todo
    /\ \A f \in Frame : reg'[f] = "none" <=> reg[f] = "none"
    /\ \A f \in Frame : f \in todo' => f \in todo \/ reg[f] # "none"

\* CancellationSource::Cancel() and the callbacks it fires.
LEMMA CancelInv ==
  ASSUME Inv, Cancel \/ CancelStep
  PROVE  Inv'
<1>0. Canceler \in Thread /\ Canceler \notin Worker /\ Canceler \notin Root
  BY DistinctThreads DEF Thread
<1>1. CASE FireCall
  <2>1. Completes(Canceler, base[Canceler])
    BY <1>1 DEF FireCall, Completes, Complete, Goto, coroutine, executor, token, clients
  <2> QED
    BY <1>0, <2>1, CompletesInv
<1>2. CASE Cancel \/ \E f \in Frame : FireLoad(f)
  <2>1. Fires
    <3>1. CASE Cancel
      BY <3>1 DEF Fires, Cancel, promise, coroutine, executor, threads, clients, Inv, Shape
    <3>2. ASSUME NEW f \in Frame, FireLoad(f) PROVE Fires
      BY <1>0, <3>2 DEF Fires, FireLoad, Goto, promise, coroutine, executor, clients, Inv, Shape
    <3> QED
      BY <1>2, <3>1, <3>2
  <2>2. Shape'
    <3>1. CASE Cancel
      BY <3>1 DEF Cancel, promise, coroutine, executor, threads, clients, Inv, Shape
    <3>2. ASSUME NEW f \in Frame, FireLoad(f) PROVE Shape'
      BY <1>0, <3>2 DEF FireLoad, Goto, promise, coroutine, executor, clients, Inv, Shape
    <3> QED
      BY <1>2, <3>1, <3>2
  <2>3. SameRuns /\ SameCarriers
    BY <1>0, <2>1 DEF Fires, SameRuns, Runs, SameCarriers, Carries, Carrying, Thread
  <2>4. \A c \in Child : Pending(c)' <=> Pending(c)
    BY <2>1, <2>3, SamePending DEF Fires
  <2>5. Named'
    BY <1>0, <2>1 DEF Fires, Inv, Shape, Named, Completing, Carrying, Thread
  <2>6. Unstarted'
    <3>1. ASSUME NEW f \in Frame, Untouched(f) PROVE Untouched(f)'
      <4>1. reg'[f] = "none" /\ f \notin todo'
        BY <2>1, <3>1 DEF Fires, Untouched
      <4>2. ~(pc'[Canceler] = "call" /\ base'[Canceler] = f)
        BY <2>1, <3>1 DEF Fires, Untouched
      <4>3. \A t \in Thread : ~(pc'[t] \in Completing /\ on'[t] = f)
        BY <2>1, <3>1 DEF Fires, Untouched, Completing, Carrying
      <4> QED
        BY <2>1, <2>3, <3>1, <4>1, <4>2, <4>3 DEF Fires, Untouched, SameRuns
    <3> QED
      BY <1>0, <2>1, <3>1 DEF Fires, Inv, Unstarted, Thread, Frame
  <2>7. OneCarrier' /\ Published'
    BY <1>0, <2>1, <2>3 DEF Fires, Inv, OneCarrier, Published, SameCarriers, Thread
  <2>8. Calm
    BY <2>1, <2>3, <2>4 DEF Fires, Calm, SameRuns, Inv, Shape
  <2>9. Settled
    BY <1>0, <2>1, <2>4 DEF Fires, Settled, Thread
  <2> QED
    BY <2>2, <2>5, <2>6, <2>7, <2>8, <2>9, CalmExclusive, SettledGenuine DEF Inv
<1> QED
  BY <1>1, <1>2 DEF CancelStep

\* Every step keeps the invariant.
LEMMA StepInv == Inv /\ [Next]_vars => Inv'
<1> SUFFICES ASSUME Inv, [Next]_vars PROVE Inv'
  OBVIOUS
<1>1. ASSUME NEW r \in Root, ClientStep(r) PROVE Inv'
  BY <1>1, ClientInv, SpawnInv
<1>2. ASSUME NEW t \in Thread, CompletionStep(t) PROVE Inv'
  BY <1>2, MarkInv, NotifyInv, ContinueInv, ResumeParentInv, PropagateInv DEF CompletionStep
<1>3. CASE UNCHANGED vars
  <2>1. UNCHANGED <<finished, outcome, cont, place, queued, lambdas, reg, todo, pc, base, on, return,
                    use, result>>
    BY <1>3 DEF vars, promise, coroutine, executor, token, threads, clients
  <2>2. /\ \A w, f : Runs(w, f)' <=> Runs(w, f)
        /\ \A t, f : Carries(t, f)' <=> Carries(t, f)
    BY <2>1 DEF Runs, Carries
  <2>3. \A c : Pending(c)' <=> Pending(c)
    BY <2>1, <2>2 DEF Pending
  <2>4. \A f : Untouched(f)' <=> Untouched(f)
    BY <2>1, <2>2 DEF Untouched
  <2>5. Shape' /\ Named' /\ Unstarted'
    BY <2>1, <2>4 DEF Inv, Shape, Named, Unstarted
  <2>6. OneCarrier' /\ Published'
    BY <2>1, <2>2 DEF Inv, OneCarrier, Published
  <2>7. Exclusive' /\ Genuine'
    BY <2>1, <2>2, <2>3 DEF Inv, Exclusive, Genuine
  <2> QED
    BY <2>5, <2>6, <2>7 DEF Inv
<1> QED
  BY <1>1, <1>2, <1>3, WorkerInv, CancelInv DEF Next

\* The rights to resume a coroutine are exclusive in every reachable state.
THEOREM ExclusiveRights == Spec => []Inv
  BY InitInv, StepInv, PTL DEF Spec

\* However completions, children and a cancellation race, at most one resumption
\* of a coroutine is queued in the executor or under way.
THEOREM SingleActivation == Spec => []OneActivation
<1>1. Inv => OneActivation
  <2> SUFFICES ASSUME Inv, NEW f \in Frame
               PROVE  queued[f] + lambdas[f]
                        + Cardinality({w \in Worker : base[w] = f /\ pc[w] \in Active}) <= 1
    BY DEF OneActivation, Active
  <2> DEFINE S == {w \in Worker : base[w] = f /\ pc[w] \in Active}
  <2>1. \A w \in S : Runs(w, f)
    BY DEF Runs
  <2>2. queued[f] \in Nat /\ lambdas[f] \in Nat /\ queued[f] + lambdas[f] <= 1
    BY DEF Inv, Shape, Exclusive
  <2>3. CASE S = {}
    <3>1. Cardinality(S) = 0
      BY <2>3, FS_EmptySet
    <3> QED
      BY <2>2, <3>1
  <2>4. CASE S # {}
    <3>1. PICK w \in S : S = {w}
      BY <2>1, <2>4 DEF Inv, Exclusive
    <3>2. Cardinality(S) = 1
      BY <3>1, FS_Singleton
    <3>3. queued[f] = 0 /\ lambdas[f] = 0
      BY <2>1 DEF Inv, Exclusive
    <3> QED
      BY <3>2, <3>3
  <2> QED
    BY <2>3, <2>4
<1> QED
  BY <1>1, ExclusiveRights, PTL

\* A root succeeds only if every child it awaited and that has finished by then,
\* or finishes later, succeeded: PropagateChildCompletion() loses no failure.
THEOREM GenuineSuccess == Spec => []SuccessIsGenuine
<1>1. Inv => SuccessIsGenuine
  <2> SUFFICES ASSUME Inv, NEW c \in Child, outcome[RootOf[c]] = "success", finished[c]
               PROVE  outcome[c] = "success"
    BY DEF SuccessIsGenuine
  <2>1. cont[c] # None
    BY DEF Inv, Unstarted, Untouched, Published, Frame
  <2> QED
    BY <2>1, RootOfAssumption DEF Inv, Named, Genuine
<1> QED
  BY <1>1, ExclusiveRights, PTL

\* Nobody sees m_finished without an outcome, and what SyncWait() returned is
\* the outcome for good.
THEOREM PublishedOutcome == Spec => []FinishedHasOutcome
<1>1. Inv => FinishedHasOutcome
  BY DEF Inv, Published, FinishedHasOutcome
<1> QED
  BY <1>1, ExclusiveRights, PTL

=============================================================================
