-------------------------- MODULE ThreadPoolProofs --------------------------
(***************************************************************************)
(* The thread pool for every number of workers, clients and items.         *)
(*                                                                         *)
(* The invariant comes in layers, each proved from the ones before it:     *)
(* Shape (types, and which program points go with which locals), Ending    *)
(* (the destructor runs alone), Placement (every pending item is in one    *)
(* place), Searched (what a worker that is about to sleep has seen) and    *)
(* Timed (what TimerLoop() knows of the heap when it sleeps).              *)
(***************************************************************************)
EXTENDS ThreadPoolScheduler, FiniteSetTheorems, SequenceTheorems, WellFoundedInduction, TLAPS

\* The program points of each kind of thread.
WorkerLabel == {"check", "pop", "inject", "steal", "load", "recheck", "wait", "parked",
                "exited", "run", "notifyOne", "wakeOne"}
TimerLabel == {"check", "load", "scan", "execute", "wait", "parked", "exited",
               "notifyOne", "wakeOne"}
Notifying == {"notifyAll", "wakeAll", "notifyTimer", "wakeTimer"}
ClientLabel == {"idle", "run", "notifyOne", "wakeOne", "clearLocal", "clearTimers",
                "join", "destroyed"} \cup Notifying

LabelOf(t) ==
    IF t \in Worker THEN WorkerLabel ELSE IF t \in Client THEN ClientLabel ELSE TimerLabel

\* A thread holds an item while it invokes it, and for as long as a call of
\* Execute() that the item makes lasts.
Calling == {"run", "notifyOne", "wakeOne"}

HandFits(t, p, h) ==
    /\ t \in Worker => (h # None <=> p \in Calling)
    /\ t \in Client => (p = "run" => h # None) /\ (h # None => p \in Calling)
    /\ t = Timer => h = None

\* TryDequeueAny() and ClearAllWork() stay among the workers.
OffsetFits(t, p, o) ==
    /\ t \in Worker => /\ p \in {"pop", "inject"} => o = 1
                       /\ p = "steal" => o \in 1..NumWorkers
    /\ t \in Client /\ p = "clearLocal" => o \in Worker

Fits(t, p, h, o) == p \in LabelOf(t) /\ HandFits(t, p, h) /\ OffsetFits(t, p, o)

AllFit == \A t \in Thread : Fits(t, pc[t], hand[t], scan[t].offset)

\* The heap is finite and its entries have deadlines.
HeapFits == IsFiniteSet(timers) /\ \A i \in timers : deadline[i] # None

Shape == TypeOK /\ AllFit /\ HeapFits

-----------------------------------------------------------------------------
(* Types and program points.                                                *)

\* The three kinds of threads are apart.
LEMMA Kinds ==
    /\ NumWorkers \in Nat \ {0} /\ Worker \subseteq Nat \ {0} /\ Worker = 1..NumWorkers
    /\ Timer \in Thread /\ Worker \subseteq Thread /\ Client \subseteq Thread
    /\ Timer \notin Worker /\ Timer \notin Client /\ \A w \in Worker : w \notin Client
    /\ \A t \in Thread : t = Timer \/ t \in Worker \/ t \in Client
BY NumWorkersAssumption, ThreadAssumption DEF Worker, Timer, Thread

\* Every program point of a kind is one of the specification.
LEMMA LabelsOfKinds == ASSUME NEW t \in Thread PROVE LabelOf(t) \subseteq Label
BY DEF LabelOf, WorkerLabel, TimerLabel, ClientLabel, Notifying, Label

\* A step of one thread to l keeps the other threads as they are.
LEMMA OneThread ==
    ASSUME Shape, NEW t \in Thread, NEW l, Goto(t, l),
           \A u \in Thread : u # t => hand'[u] = hand[u] /\ scan'[u] = scan[u],
           Fits(t, l, hand'[t], scan'[t].offset)
    PROVE  /\ AllFit' /\ pc' \in [Thread -> Label] /\ pc'[t] = l
           /\ \A u \in Thread : u # t => pc'[u] = pc[u]
<1>1. l \in Label BY LabelsOfKinds DEF Fits
<1>2. pc' \in [Thread -> Label] /\ pc'[t] = l /\ \A u \in Thread : u # t => pc'[u] = pc[u]
  BY <1>1 DEF Shape, TypeOK, Goto
<1>3. ASSUME NEW u \in Thread PROVE Fits(u, pc'[u], hand'[u], scan'[u].offset)
  BY <1>2 DEF Shape, AllFit
<1> QED BY <1>2, <1>3 DEF AllFit

\* A futex call of t that wakes the sleepers in S.
LEMMA WakingThread ==
    ASSUME Shape, NEW t \in Thread, NEW l, NEW S, Wake(t, S, l),
           \A u \in S : u \in Worker \cup {Timer} /\ pc[u] = "parked",
           hand' = hand, scan' = scan,
           Fits(t, l, hand[t], scan[t].offset)
    PROVE  /\ AllFit' /\ pc' \in [Thread -> Label] /\ pc'[t] = l
           /\ \A u \in Thread : u # t => pc'[u] = IF u \in S THEN "check" ELSE pc[u]
<1>1. l \in Label BY LabelsOfKinds DEF Fits
<1>2. /\ pc' \in [Thread -> Label] /\ pc'[t] = l
      /\ \A u \in Thread : u # t => pc'[u] = IF u \in S THEN "check" ELSE pc[u]
  BY <1>1 DEF Shape, TypeOK, Wake, Label
<1>3. ASSUME NEW u \in Thread PROVE Fits(u, pc'[u], hand'[u], scan'[u].offset)
  <2>1. CASE u = t BY <1>2, <2>1
  <2>2. CASE u # t /\ u \notin S BY <1>2, <2>2 DEF Shape, AllFit
  <2>3. CASE u # t /\ u \in S
    <3>1. pc'[u] = "check" /\ pc[u] = "parked" /\ u \in Worker \cup {Timer} BY <1>2, <2>3
    <3>2. Fits(u, "parked", hand[u], scan[u].offset) BY <3>1 DEF Shape, AllFit
    <3>3. Fits(u, "check", hand[u], scan[u].offset)
      BY <3>1, <3>2, Kinds
      DEF Fits, LabelOf, HandFits, OffsetFits, WorkerLabel, TimerLabel, Calling
    <3> QED BY <3>1, <3>3
  <2> QED BY <2>1, <2>2, <2>3
<1> QED BY <1>2, <1>3 DEF AllFit

\* A worker that is not invoking an item holds none.
LEMMA FitsFacts ==
    ASSUME Shape, NEW t \in Thread
    PROVE  /\ pc[t] \in LabelOf(t) /\ HandFits(t, pc[t], hand[t])
           /\ OffsetFits(t, pc[t], scan[t].offset)
           /\ scan[t] \in [call : {1, 2}, offset : 1..(NumWorkers + 1)]
           /\ hand[t] \in Item \cup {None}
BY DEF Shape, AllFit, Fits, TypeOK

\* A step that only changes where a thread is.
LEMMA GotoShape ==
    ASSUME Shape, NEW t \in Thread, NEW l, Goto(t, l), Fits(t, l, hand[t], scan[t].offset),
           UNCHANGED <<shared, locals, history>>, current' \in SUBSET (Worker \cup {Timer})
    PROVE  Shape'
<1>1. AllFit' /\ pc' \in [Thread -> Label] BY OneThread DEF locals
<1> QED BY <1>1 DEF Shape, HeapFits, TypeOK, shared, queues, locals, history

\* The remainder of a division by the number of workers names a worker.
LEMMA Remainder ==
    ASSUME NEW n \in Nat, NEW m \in Nat \ {0}
    PROVE  n % m \in 0..(m - 1)
OBVIOUS

\* TrySteal() looks at the queue of a worker.
LEMMA VictimIsWorker ==
    ASSUME NEW w \in Worker, scan[w].offset \in Nat
    PROVE  Victim(w) \in Worker
<1>1. w - 1 + scan[w].offset \in Nat /\ NumWorkers \in Nat \ {0} BY Kinds
<1>2. (w - 1 + scan[w].offset) % NumWorkers \in 0..(NumWorkers - 1) BY <1>1, Remainder
<1> QED BY <1>1, <1>2 DEF Victim, Worker

\* A worker's step.
LEMMA WorkerShape ==
    ASSUME Shape, NEW w \in Worker, WorkerStep(w)
    PROVE  Shape'
<1>0. w \in Thread /\ w \notin Client /\ w # Timer /\ NumWorkers \in Nat \ {0} BY Kinds
<1>f. /\ HandFits(w, pc[w], hand[w]) /\ OffsetFits(w, pc[w], scan[w].offset)
      /\ scan[w] \in [call : {1, 2}, offset : 1..(NumWorkers + 1)]
      /\ hand[w] \in Item \cup {None}
  BY <1>0, FitsFacts
<1>u. scan \in [Thread -> [call : {1, 2}, offset : 1..(NumWorkers + 1)]]
      /\ hand \in [Thread -> Item \cup {None}]
      /\ local \in [Worker -> Seq(Item)] /\ injection \in Seq(Item)
  BY DEF Shape, TypeOK
<1>1. CASE WorkerCheck(w)
  <2>1. scan' \in [Thread -> [call : {1, 2}, offset : 1..(NumWorkers + 1)]]
    BY <1>0, <1>1, <1>u DEF WorkerCheck
  <2>2. \A u \in Thread : u # w => hand'[u] = hand[u] /\ scan'[u] = scan[u]
    BY <1>1, <1>u DEF WorkerCheck
  <2>3. ASSUME NEW l \in {"exited", "pop"} PROVE Fits(w, l, hand'[w], scan'[w].offset)
    <3>1. hand'[w] = hand[w] /\ pc[w] = "check" /\ scan'[w].offset = 1
      BY <1>0, <1>1, <1>u DEF WorkerCheck
    <3> QED BY <1>0, <1>f, <3>1 DEF Fits, LabelOf, HandFits, OffsetFits, WorkerLabel, Calling
  <2>4. AllFit' /\ pc' \in [Thread -> Label]
    BY <1>0, <1>1, <2>2, <2>3, OneThread DEF WorkerCheck
  <2> QED BY <1>1, <2>1, <2>4 DEF WorkerCheck, Shape, HeapFits, TypeOK, shared, queues, history
<1>2. ASSUME NEW i \in Item, Take(w, i), pc[w] \in {"pop", "inject", "steal"}, scan' = scan
      PROVE  AllFit' /\ pc' \in [Thread -> Label] /\ hand' \in [Thread -> Item \cup {None}]
  <2>1. hand' \in [Thread -> Item \cup {None}] /\ hand'[w] = i
    BY <1>0, <1>2, <1>u DEF Take
  <2>2. \A u \in Thread : u # w => hand'[u] = hand[u] /\ scan'[u] = scan[u] BY <1>2, <1>u DEF Take
  <2>3. Fits(w, "run", hand'[w], scan'[w].offset)
    BY <1>0, <1>2, <2>1, NoneAssumption DEF Fits, LabelOf, HandFits, OffsetFits, WorkerLabel, Calling
  <2> QED BY <1>0, <1>2, <2>1, <2>2, <2>3, OneThread DEF Take
<1>3. CASE WorkerPop(w)
  <2>1. CASE local[w] # <<>>
    <3>1. local[w][Len(local[w])] \in Item /\ SubSeq(local[w], 1, Len(local[w]) - 1) \in Seq(Item)
      BY <1>u, <2>1
    <3>2. local' \in [Worker -> Seq(Item)] BY <1>3, <1>u, <2>1, <3>1 DEF WorkerPop
    <3>3. AllFit' /\ pc' \in [Thread -> Label] /\ hand' \in [Thread -> Item \cup {None}]
      BY <1>2, <1>3, <2>1, <3>1 DEF WorkerPop
    <3> QED BY <1>3, <3>2, <3>3 DEF WorkerPop, Shape, HeapFits, TypeOK, history
  <2>2. CASE local[w] = <<>>
    <3>1. Fits(w, "inject", hand[w], scan[w].offset)
      BY <1>0, <1>3, <1>f DEF WorkerPop, Fits, LabelOf, HandFits, OffsetFits, WorkerLabel, Calling
    <3>2. AllFit' /\ pc' \in [Thread -> Label] BY <1>0, <1>3, <2>2, <3>1, OneThread DEF WorkerPop
    <3> QED BY <1>3, <2>2, <3>2 DEF WorkerPop, Shape, HeapFits, TypeOK, history
  <2> QED BY <2>1, <2>2
<1>4. CASE WorkerInject(w)
  <2>1. CASE injection # <<>>
    <3>1. Head(injection) \in Item /\ Tail(injection) \in Seq(Item) BY <1>u, <2>1
    <3>2. AllFit' /\ pc' \in [Thread -> Label] /\ hand' \in [Thread -> Item \cup {None}]
      BY <1>2, <1>4, <2>1, <3>1 DEF WorkerInject
    <3> QED BY <1>4, <2>1, <3>1, <3>2 DEF WorkerInject, Shape, HeapFits, TypeOK, history
  <2>2. CASE injection = <<>>
    <3>1. Fits(w, "steal", hand[w], scan[w].offset)
      BY <1>0, <1>4, <1>f DEF WorkerInject, Fits, LabelOf, HandFits, OffsetFits, WorkerLabel, Calling
    <3>2. AllFit' /\ pc' \in [Thread -> Label] BY <1>0, <1>4, <2>2, <3>1, OneThread DEF WorkerInject
    <3> QED BY <1>4, <2>2, <3>2 DEF WorkerInject, Shape, HeapFits, TypeOK, history
  <2> QED BY <2>1, <2>2
<1>5. CASE WorkerSteal(w)
  <2>1. Victim(w) \in Worker BY <1>0, <1>f, VictimIsWorker
  <2>2. Head(local[Victim(w)]) \in Item /\ Tail(local[Victim(w)]) \in Seq(Item)
    BY <1>5, <1>u, <2>1 DEF WorkerSteal, StealLeaving
  <2>3. local' \in [Worker -> Seq(Item)] BY <1>5, <1>u, <2>1, <2>2 DEF WorkerSteal, StealLeaving
  <2>4. AllFit' /\ pc' \in [Thread -> Label] /\ hand' \in [Thread -> Item \cup {None}]
    BY <1>2, <1>5, <2>2 DEF WorkerSteal, StealLeaving
  <2> QED BY <1>5, <2>3, <2>4 DEF WorkerSteal, StealLeaving, Shape, HeapFits, TypeOK, history
<1>6. CASE WorkerNoSteal(w)
  <2>1. scan[w].offset \in 1..NumWorkers BY <1>0, <1>6, <1>f DEF WorkerNoSteal, OffsetFits
  <2>2. scan' \in [Thread -> [call : {1, 2}, offset : 1..(NumWorkers + 1)]]
    BY <1>0, <1>6, <1>u, <2>1 DEF WorkerNoSteal
  <2>3. /\ scan'[w].offset = scan[w].offset + 1
        /\ \A u \in Thread : u # w => hand'[u] = hand[u] /\ scan'[u] = scan[u]
    BY <1>0, <1>6, <1>u DEF WorkerNoSteal
  <2>4. /\ Fits(w, "load", hand'[w], scan'[w].offset) /\ Fits(w, "recheck", hand'[w], scan'[w].offset)
        /\ scan[w].offset + 1 < NumWorkers => Fits(w, "steal", hand'[w], scan'[w].offset)
    <3>1. hand'[w] = None BY <1>0, <1>6, <1>f DEF WorkerNoSteal, HandFits, Calling
    <3> QED BY <1>0, <2>1, <2>3, <3>1 DEF Fits, LabelOf, HandFits, OffsetFits, WorkerLabel, Calling
  <2>5. AllFit' /\ pc' \in [Thread -> Label]
    <3>1. PICK l : Goto(w, l) /\ Fits(w, l, hand'[w], scan'[w].offset) BY <1>6, <2>4 DEF WorkerNoSteal
    <3> QED BY <1>0, <2>3, <3>1, OneThread
  <2> QED BY <1>6, <2>2, <2>5 DEF WorkerNoSteal, Shape, HeapFits, TypeOK, shared, queues, history
<1>7. CASE WorkerLoad(w)
  <2>1. /\ scan' \in [Thread -> [call : {1, 2}, offset : 1..(NumWorkers + 1)]] /\ scan'[w].offset = 1
        /\ \A u \in Thread : u # w => hand'[u] = hand[u] /\ scan'[u] = scan[u]
    BY <1>0, <1>7, <1>u DEF WorkerLoad, Load
  <2>2. Fits(w, "pop", hand'[w], scan'[w].offset)
    <3>1. hand'[w] = None BY <1>0, <1>7, <1>f DEF WorkerLoad, Load, HandFits, Calling
    <3> QED BY <1>0, <2>1, <3>1 DEF Fits, LabelOf, HandFits, OffsetFits, WorkerLabel, Calling
  <2>3. AllFit' /\ pc' \in [Thread -> Label] BY <1>0, <1>7, <2>1, <2>2, OneThread DEF WorkerLoad, Load
  <2> QED BY <1>7, <2>1, <2>3 DEF WorkerLoad, Load, Shape, HeapFits, TypeOK, shared, queues, history
<1>8. CASE WorkerRecheck(w) \/ WorkerWait(w)
  <2>1. hand[w] = None BY <1>0, <1>8, <1>f DEF WorkerRecheck, WorkerWait, HandFits, Calling
  <2>2. ASSUME NEW l \in {"exited", "wait", "parked", "check"} PROVE Fits(w, l, hand[w], scan[w].offset)
    BY <1>0, <2>1 DEF Fits, LabelOf, HandFits, OffsetFits, WorkerLabel, Calling
  <2>3. PICK l \in {"exited", "wait", "parked", "check"} : Goto(w, l)
    BY <1>8 DEF WorkerRecheck, WorkerWait, Sleep
  <2>4. UNCHANGED <<shared, current, locals, history>> BY <1>8 DEF WorkerRecheck, WorkerWait, Sleep
  <2>5. current' \in SUBSET (Worker \cup {Timer}) BY <2>4 DEF Shape, TypeOK
  <2> QED BY <1>0, <2>2, <2>3, <2>4, <2>5, GotoShape
<1> QED BY <1>1, <1>3, <1>4, <1>5, <1>6, <1>7, <1>8 DEF WorkerStep

\* The heap's entries in some order are a sequence of items.
LEMMA DueIsSequence ==
    ASSUME NEW due, due \subseteq Item, IsFiniteSet(due),
           NEW s \in [1..Cardinality(due) -> due]
    PROVE  s \in Seq(Item) /\ Len(s) = Cardinality(due)
<1>1. Cardinality(due) \in Nat BY FS_CardinalityType
<1>2. s \in [1..Cardinality(due) -> Item] OBVIOUS
<1> QED BY <1>1, <1>2

\* A finite set of items with deadlines has an earliest one.
LEMMA EarliestIsLeast ==
    ASSUME NEW S, S # {}, \A i \in S : deadline[i] \in Nat
    PROVE  /\ \E i \in S : Earliest(S) = deadline[i]
           /\ \A i \in S : Earliest(S) <= deadline[i]
<1> DEFINE D == {deadline[i] : i \in S}
<1>1. D \subseteq Nat /\ D # {} OBVIOUS
<1> DEFINE R == {p \in Nat \X Nat : p[1] < p[2]}
<1>2. IsWellFoundedOn(R, Nat) BY NatLessThanWellFounded DEF OpToRel
<1>3. PICK d \in D : \A e \in D : ~(<<e, d>> \in R)
  <2> HIDE DEF R, D
  <2> QED BY <1>1, <1>2, WFMin
<1>4. \A e \in D : d <= e
  <2> HIDE DEF D
  <2> TAKE e \in D
  <2>1. e \in Nat /\ d \in Nat /\ ~(<<e, d>> \in R) BY <1>1, <1>3
  <2> QED BY <2>1
<1>5. \A i \in S : d <= deadline[i] BY <1>4
<1>6. /\ Earliest(S) \in D
      /\ \A i \in S : Earliest(S) <= deadline[i]
  BY <1>5 DEF Earliest
<1> QED BY <1>6

\* A step of TimerLoop().
LEMMA TimerShape ==
    ASSUME Shape, TimerStep
    PROVE  Shape'
<1>0. Timer \in Thread /\ Timer \notin Worker /\ Timer \notin Client BY Kinds
<1>1. hand[Timer] = None BY <1>0, FitsFacts DEF HandFits
<1>2. ASSUME NEW l \in TimerLabel, NEW o PROVE Fits(Timer, l, None, o)
  BY <1>0 DEF Fits, LabelOf, HandFits, OffsetFits
<1>3. CASE TimerCheck \/ TimerLoad \/ TimerRecheck \/ TimerWait \/ TimerTimeout
  <2>1. PICK l \in TimerLabel : Goto(Timer, l)
    BY <1>3 DEF TimerCheck, TimerLoad, TimerRecheck, TimerWait, TimerTimeout, Sleep, TimerLabel
  <2>2. UNCHANGED <<shared, locals, history>> /\ current' \in SUBSET (Worker \cup {Timer})
    BY <1>3 DEF TimerCheck, TimerLoad, TimerRecheck, TimerWait, TimerTimeout, Sleep, Shape, TypeOK
  <2> QED BY <1>0, <1>1, <1>2, <2>1, <2>2, GotoShape
<1>4. CASE TimerScan
  <2> DEFINE due == {i \in timers : deadline[i] <= clock}
  <2>1. due \subseteq timers /\ due \subseteq Item BY DEF Shape, TypeOK
  <2>2. IsFiniteSet(due) /\ IsFiniteSet(timers \ due) BY <2>1, FS_Subset DEF Shape, HeapFits
  <2>3. ready' \in Seq(Item) BY <1>4, <2>1, <2>2, DueIsSequence DEF TimerScan, TakeFromHeap
  <2>4. \A i \in timers : deadline[i] \in 0..MaxTime /\ deadline[i] \in Nat
    BY BoundsAssumption DEF Shape, TypeOK, HeapFits
  <2>5. nextWake' \in (0..MaxTime) \cup {None}
    <3>1. CASE timers = due BY <1>4, <3>1 DEF TimerScan, TakeFromHeap
    <3>2. CASE timers # due
      <4>1. timers \ due # {} BY <2>1, <3>2
      <4>2. \E i \in timers \ due : Earliest(timers \ due) = deadline[i]
        BY <4>1, <2>4, EarliestIsLeast
      <4>3. nextWake' = Earliest(timers \ due) BY <1>4, <3>2 DEF TimerScan, TakeFromHeap
      <4> QED BY <2>4, <4>2, <4>3
    <3> QED BY <3>1, <3>2
  <2>6. AllFit' /\ pc' \in [Thread -> Label]
    <3>1. Goto(Timer, "execute") /\ hand' = hand /\ scan' = scan BY <1>4 DEF TimerScan, TakeFromHeap
    <3>2. Fits(Timer, "execute", hand'[Timer], scan'[Timer].offset) BY <1>1, <1>2, <3>1 DEF TimerLabel
    <3> QED BY <1>0, <3>1, <3>2, OneThread
  <2>7. timers' = timers \ due /\ UNCHANGED <<local, injection, clock, stop, current, hand, scan, history>>
    BY <1>4 DEF TimerScan, TakeFromHeap
  <2> QED BY <2>2, <2>3, <2>5, <2>6, <2>7 DEF Shape, HeapFits, TypeOK, history
<1>5. CASE TimerExecute
  <2>1. injection \in Seq(Item) /\ ready \in Seq(Item) BY DEF Shape, TypeOK
  <2>2. Head(ready) \in Item /\ Tail(ready) \in Seq(Item) BY <1>5, <2>1 DEF TimerExecute
  <2>3. injection' = Append(injection, Head(ready)) /\ local' = local /\ Goto(Timer, "notifyOne")
    BY <1>0, <1>5 DEF TimerExecute, Push
  <2>4. AllFit' /\ pc' \in [Thread -> Label]
    <3>1. hand' = hand /\ scan' = scan BY <1>5 DEF TimerExecute
    <3>2. Fits(Timer, "notifyOne", hand'[Timer], scan'[Timer].offset) BY <1>1, <1>2, <3>1 DEF TimerLabel
    <3> QED BY <1>0, <2>3, <3>1, <3>2, OneThread
  <2>5. injection' \in Seq(Item) BY <2>1, <2>2, <2>3
  <2> QED BY <1>5, <2>2, <2>3, <2>4, <2>5 DEF TimerExecute, Shape, HeapFits, TypeOK, history
<1> QED BY <1>3, <1>4, <1>5 DEF TimerStep

\* A thread that has notified goes on where it fits.
LEMMA ReturnFits ==
    ASSUME Shape, NEW t \in Thread, pc[t] \in {"wakeOne", "wakeTimer"}
    PROVE  Fits(t, Return(t), hand[t], scan[t].offset)
<1>1. pc[t] \in LabelOf(t) /\ HandFits(t, pc[t], hand[t]) BY FitsFacts
<1>2. CASE t = Timer
  BY <1>1, <1>2, Kinds DEF Fits, Return, LabelOf, HandFits, OffsetFits, TimerLabel
<1>3. CASE t \in Worker
  <2>1. pc[t] = "wakeOne" /\ hand[t] # None /\ t \notin Client /\ t # Timer
    BY <1>1, <1>3, Kinds DEF LabelOf, WorkerLabel, HandFits, Calling
  <2> QED BY <1>3, <2>1 DEF Fits, Return, LabelOf, HandFits, OffsetFits, WorkerLabel, Calling
<1>4. CASE t \in Client
  <2>1. t \notin Worker /\ t # Timer BY <1>4, Kinds
  <2>2. Return(t) \in {"run", "join", "idle"} /\ (Return(t) = "run" <=> hand[t] # None)
    BY <2>1 DEF Return
  <2> QED BY <1>4, <2>1, <2>2 DEF Fits, LabelOf, HandFits, OffsetFits, ClientLabel, Calling
<1> QED BY <1>2, <1>3, <1>4, Kinds

\* A step of a notification.
LEMMA NotifyShape ==
    ASSUME Shape, NEW t \in Thread, NotifyStep(t)
    PROVE  Shape'
<1>0. pc[t] \in LabelOf(t) /\ HandFits(t, pc[t], hand[t]) BY FitsFacts
<1>c. current \in SUBSET (Worker \cup {Timer}) BY DEF Shape, TypeOK
<1>1. CASE NotifyWork(t)
  <2>1. PICK l \in {"wakeOne", "wakeAll"} : Goto(t, l) /\ (l = "wakeOne" <=> pc[t] = "notifyOne")
    BY <1>1 DEF NotifyWork
  <2>2. Fits(t, l, hand[t], scan[t].offset)
    BY <1>0, <1>1, <2>1, Kinds
    DEF NotifyWork, Fits, LabelOf, HandFits, OffsetFits, Calling, WorkerLabel, TimerLabel, ClientLabel, Notifying
  <2> QED BY <1>1, <1>c, <2>1, <2>2, GotoShape DEF NotifyWork
<1>2. CASE NotifyTimer(t)
  <2>1. Fits(t, "wakeTimer", hand[t], scan[t].offset)
    BY <1>0, <1>2, Kinds
    DEF NotifyTimer, Fits, LabelOf, HandFits, OffsetFits, Calling, WorkerLabel, TimerLabel, ClientLabel, Notifying
  <2> QED BY <1>2, <1>c, <2>1, GotoShape DEF NotifyTimer
<1>3. CASE WakeOne(t)
  <2>1. Fits(t, Return(t), hand[t], scan[t].offset) BY <1>3, ReturnFits DEF WakeOne
  <2>2. UNCHANGED <<shared, current, locals, history>> BY <1>3 DEF WakeOne
  <2>3. CASE Parked = {} BY <1>3, <1>c, <2>1, <2>2, <2>3, GotoShape DEF WakeOne
  <2>4. CASE Parked # {}
    <3>1. PICK w \in Parked : Wake(t, {w}, Return(t)) BY <1>3, <2>4 DEF WakeOne
    <3>2. \A u \in {w} : u \in Worker \cup {Timer} /\ pc[u] = "parked" BY <3>1 DEF Parked
    <3>3. AllFit' /\ pc' \in [Thread -> Label] BY <2>1, <2>2, <3>1, <3>2, WakingThread DEF locals
    <3> QED BY <2>2, <3>3 DEF Shape, HeapFits, TypeOK, shared, queues, locals, history
  <2> QED BY <2>3, <2>4
<1>4. CASE WakeAll(t)
  <2>1. Fits(t, "notifyTimer", hand[t], scan[t].offset)
    BY <1>0, <1>4, Kinds
    DEF WakeAll, Fits, LabelOf, HandFits, OffsetFits, Calling, WorkerLabel, TimerLabel, ClientLabel, Notifying
  <2>2. \A u \in Parked : u \in Worker \cup {Timer} /\ pc[u] = "parked" BY DEF Parked
  <2>3. AllFit' /\ pc' \in [Thread -> Label] BY <1>4, <2>1, <2>2, WakingThread DEF WakeAll, locals
  <2> QED BY <1>4, <2>3 DEF WakeAll, Shape, HeapFits, TypeOK, shared, queues, locals, history
<1>5. CASE WakeTimer(t)
  <2>1. Fits(t, Return(t), hand[t], scan[t].offset) BY <1>5, ReturnFits DEF WakeTimer
  <2>2. \A u \in {v \in {Timer} : pc[v] = "parked"} : u \in Worker \cup {Timer} /\ pc[u] = "parked"
    OBVIOUS
  <2>3. AllFit' /\ pc' \in [Thread -> Label] BY <1>5, <2>1, <2>2, WakingThread DEF WakeTimer, locals
  <2> QED BY <1>5, <2>3 DEF WakeTimer, Shape, HeapFits, TypeOK, shared, queues, locals, history
<1> QED BY <1>1, <1>2, <1>3, <1>4, <1>5 DEF NotifyStep

\* Execute(): a thread that may call it pushes a fresh item and notifies.
LEMMA PushShape ==
    ASSUME Shape, NEW t \in Worker \cup Client, NEW i \in Item, Push(t, i),
           t \in Worker => hand[t] # None,
           status' = [status EXCEPT ![i] = "pending"],
           UNCHANGED <<timers, clock, stop, current, locals, deadline, cancels, doomed>>
    PROVE  Shape'
<1>0. t \in Thread /\ t # Timer /\ (t \in Worker => t \notin Client) BY Kinds
<1>1. local \in [Worker -> Seq(Item)] /\ injection \in Seq(Item) BY DEF Shape, TypeOK
<1>2. local' \in [Worker -> Seq(Item)] /\ injection' \in Seq(Item)
  <2>1. Append(injection, i) \in Seq(Item) BY <1>1
  <2>2. CASE t \in Worker
    <3>1. Append(local[t], i) \in Seq(Item) BY <1>1, <2>2
    <3> QED BY <1>1, <2>2, <3>1 DEF Push
  <2>3. CASE t \notin Worker BY <1>1, <2>1, <2>3 DEF Push
  <2> QED BY <2>2, <2>3
<1>3. Fits(t, "notifyOne", hand[t], scan[t].offset)
  BY <1>0 DEF Fits, LabelOf, HandFits, OffsetFits, Calling, WorkerLabel, ClientLabel
<1>4. AllFit' /\ pc' \in [Thread -> Label] BY <1>0, <1>3, OneThread DEF Push, locals
<1>5. status' \in [Item -> {"fresh", "pending", "done", "dropped"}] BY DEF Shape, TypeOK
<1> QED BY <1>2, <1>4, <1>5 DEF Shape, HeapFits, TypeOK, locals

\* A step of a work item.
LEMMA InvokeShape ==
    ASSUME Shape, NEW t \in Worker \cup Client,
           InvokeReturns(t) \/ \E i \in Item : InvokeSubmits(t, i)
    PROVE  Shape'
<1>0. t \in Thread /\ t # Timer /\ (t \in Worker => t \notin Client) /\ (t \in Worker \/ t \in Client)
  BY Kinds
<1>1. HandFits(t, pc[t], hand[t]) BY <1>0, FitsFacts
<1>2. ASSUME NEW i \in Item, InvokeSubmits(t, i) PROVE Shape'
  <2>1. hand[t] # None BY <1>0, <1>1, <1>2 DEF InvokeSubmits, HandFits, Calling
  <2> QED BY <1>2, <2>1, PushShape DEF InvokeSubmits
<1>3. CASE InvokeReturns(t)
  <2>1. hand \in [Thread -> Item \cup {None}] /\ status \in [Item -> {"fresh", "pending", "done", "dropped"}]
    BY DEF Shape, TypeOK
  <2>2. /\ hand' \in [Thread -> Item \cup {None}] /\ hand'[t] = None /\ scan' = scan
        /\ \A u \in Thread : u # t => hand'[u] = hand[u]
    BY <1>0, <1>3, <2>1 DEF InvokeReturns
  <2>3. status' \in [Item -> {"fresh", "pending", "done", "dropped"}] BY <1>3, <2>1 DEF InvokeReturns
  <2>4. PICK l : Goto(t, l) /\ l = IF t \in Worker THEN "check" ELSE "idle" BY <1>3 DEF InvokeReturns
  <2>5. Fits(t, l, hand'[t], scan'[t].offset)
    BY <1>0, <2>2, <2>4 DEF Fits, LabelOf, HandFits, OffsetFits, Calling, WorkerLabel, ClientLabel
  <2>6. AllFit' /\ pc' \in [Thread -> Label] BY <1>0, <2>2, <2>4, <2>5, OneThread
  <2> QED BY <1>3, <2>2, <2>3, <2>6 DEF InvokeReturns, Shape, HeapFits, TypeOK, shared, queues
<1> QED BY <1>2, <1>3

\* A client with no item in hand may be anywhere but in an item.
LEMMA ClientFits ==
    ASSUME NEW c \in Client, NEW l \in ClientLabel, l # "run", NEW o, l = "clearLocal" => o \in Worker
    PROVE  Fits(c, l, None, o)
BY Kinds DEF Fits, LabelOf, HandFits, OffsetFits

\* A step of a client.
LEMMA ClientShape ==
    ASSUME Shape, NEW c \in Client, ClientCall(c) \/ ClientStep(c)
    PROVE  Shape'
<1>0. c \in Thread /\ c \notin Worker /\ c # Timer BY Kinds
<1>1. pc[c] \in LabelOf(c) /\ HandFits(c, pc[c], hand[c]) /\ OffsetFits(c, pc[c], scan[c].offset)
  BY <1>0, FitsFacts
<1>2. pc[c] \in {"idle", "clearLocal", "clearTimers", "join"} => hand[c] = None
  BY <1>0, <1>1 DEF HandFits, Calling
<1>3. /\ scan \in [Thread -> [call : {1, 2}, offset : 1..(NumWorkers + 1)]]
      /\ hand \in [Thread -> Item \cup {None}] /\ NumWorkers \in Nat \ {0}
      /\ local \in [Worker -> Seq(Item)] /\ injection \in Seq(Item) /\ timers \subseteq Item
      /\ status \in [Item -> {"fresh", "pending", "done", "dropped"}]
  BY Kinds DEF Shape, TypeOK
<1>4. \A S : Drop(S) \in [Item -> {"fresh", "pending", "done", "dropped"}] BY <1>3 DEF Drop
<1>5. ASSUME NEW i \in Item, Submit(c, i) PROVE Shape'
  BY <1>0, <1>5, PushShape DEF Submit
<1>6. ASSUME NEW i \in Item, NEW at \in 0..MaxTime, SubmitAt(c, i, at) PROVE Shape'
  <2>1. Fits(c, "notifyTimer", hand[c], scan[c].offset)
    BY <1>2, <1>6, ClientFits DEF SubmitAt, Schedule, CanCall, ClientLabel, Notifying
  <2>2. AllFit' /\ pc' \in [Thread -> Label]
    BY <1>0, <1>6, <2>1, OneThread DEF SubmitAt, Schedule, locals
  <2>3. IsFiniteSet(timers') BY <1>6, FS_AddElement DEF SubmitAt, Schedule, Shape, HeapFits
  <2>4. deadline' \in [Item -> (0..MaxTime) \cup {None}] BY <1>6 DEF SubmitAt, Schedule, Shape, TypeOK
  <2>5. \A j \in timers' : deadline'[j] # None
    BY <1>6, NoneAssumption DEF SubmitAt, Schedule, Shape, HeapFits, TypeOK
  <2>6. status' \in [Item -> {"fresh", "pending", "done", "dropped"}] BY <1>3, <1>6 DEF SubmitAt, Schedule
  <2>7. timers' \subseteq Item BY <1>3, <1>6 DEF SubmitAt, Schedule
  <2> QED BY <1>6, <2>2, <2>3, <2>4, <2>5, <2>6, <2>7 DEF SubmitAt, Schedule, Shape, HeapFits, TypeOK, locals
<1>7. CASE RunOne(c)
  <2>1. Head(injection) \in Item /\ Tail(injection) \in Seq(Item) BY <1>3, <1>7 DEF RunOne
  <2>2. /\ hand' \in [Thread -> Item \cup {None}] /\ hand'[c] # None
        /\ \A u \in Thread : u # c => hand'[u] = hand[u] /\ scan'[u] = scan[u]
    BY <1>0, <1>3, <1>7, <2>1, NoneAssumption DEF RunOne
  <2>3. Fits(c, "run", hand'[c], scan'[c].offset)
    BY <1>0, <2>2 DEF Fits, LabelOf, HandFits, OffsetFits, Calling, ClientLabel
  <2>4. AllFit' /\ pc' \in [Thread -> Label] BY <1>0, <1>7, <2>2, <2>3, OneThread DEF RunOne
  <2> QED BY <1>7, <2>1, <2>2, <2>4 DEF RunOne, Shape, HeapFits, TypeOK, history
<1>8. CASE CancelAll(c)
  <2>1. /\ scan' \in [Thread -> [call : {1, 2}, offset : 1..(NumWorkers + 1)]] /\ scan'[c].offset = 1
        /\ \A u \in Thread : u # c => hand'[u] = hand[u] /\ scan'[u] = scan[u]
    <3>1. scan[c] \in [call : {1, 2}, offset : 1..(NumWorkers + 1)] /\ 1 \in 1..(NumWorkers + 1)
      BY <1>0, <1>3
    <3>2. scan' = [scan EXCEPT ![c].offset = 1] /\ hand' = hand BY <1>8 DEF CancelAll
    <3> QED BY <1>0, <1>3, <3>1, <3>2
  <2>2. Fits(c, "clearLocal", hand'[c], scan'[c].offset)
    <3>1. 1 \in Worker /\ hand'[c] = None BY <1>2, <1>8, Kinds DEF CancelAll, CanCall
    <3> QED BY <2>1, <3>1, ClientFits DEF ClientLabel
  <2>3. AllFit' /\ pc' \in [Thread -> Label] BY <1>0, <1>8, <2>1, <2>2, OneThread DEF CancelAll
  <2>4. Queued \subseteq Item
    <3>1. Elements(injection) \subseteq Item BY <1>3 DEF Elements
    <3>2. \A w \in Worker : Elements(local[w]) \subseteq Item BY <1>3 DEF Elements
    <3> QED BY <3>1, <3>2 DEF Queued
  <2>5. cancels' \in 0..MaxCancels /\ doomed' \in SUBSET Item
    BY <1>3, <1>8, <2>4, BoundsAssumption DEF CancelAll, Shape, TypeOK
  <2>6. injection' \in Seq(Item) /\ status' \in [Item -> {"fresh", "pending", "done", "dropped"}]
    BY <1>4, <1>8 DEF CancelAll
  <2> QED BY <1>8, <2>1, <2>3, <2>5, <2>6 DEF CancelAll, Shape, HeapFits, TypeOK
<1>9. CASE Destroy(c)
  <2>1. Fits(c, "notifyAll", hand[c], scan[c].offset)
    BY <1>2, <1>9, ClientFits DEF Destroy, CanCall, ClientLabel, Notifying
  <2>2. AllFit' /\ pc' \in [Thread -> Label] BY <1>0, <1>9, <2>1, OneThread DEF Destroy, locals
  <2> QED BY <1>9, <2>2 DEF Destroy, Shape, HeapFits, TypeOK, queues, locals, history
<1>10. CASE ClearLocal(c)
  <2> DEFINE w == scan[c].offset
  <2>1. w \in Worker /\ w \in 1..NumWorkers BY <1>1, <1>10, Kinds DEF ClearLocal, OffsetFits
  <2>2. /\ scan' \in [Thread -> [call : {1, 2}, offset : 1..(NumWorkers + 1)]] /\ scan'[c].offset = w + 1
        /\ \A u \in Thread : u # c => hand'[u] = hand[u] /\ scan'[u] = scan[u]
    <3>1. scan[c] \in [call : {1, 2}, offset : 1..(NumWorkers + 1)] /\ w + 1 \in 1..(NumWorkers + 1)
      BY <1>0, <1>3, <2>1
    <3>2. scan' = [scan EXCEPT ![c].offset = w + 1] /\ hand' = hand BY <1>10 DEF ClearLocal
    <3> QED BY <1>0, <1>3, <3>1, <3>2
  <2>3. PICK l : Goto(c, l) /\ l = IF w < NumWorkers THEN "clearLocal" ELSE "clearTimers"
    BY <1>10 DEF ClearLocal
  <2>4. Fits(c, l, hand'[c], scan'[c].offset)
    <3>1. hand'[c] = None BY <1>2, <1>10 DEF ClearLocal
    <3>2. w < NumWorkers => w + 1 \in Worker BY <1>3, <2>1, Kinds
    <3> QED BY <2>2, <2>3, <3>1, <3>2, ClientFits DEF ClientLabel
  <2>5. AllFit' /\ pc' \in [Thread -> Label] BY <1>0, <2>2, <2>3, <2>4, OneThread
  <2>6. local' \in [Worker -> Seq(Item)] /\ status' \in [Item -> {"fresh", "pending", "done", "dropped"}]
    BY <1>3, <1>4, <1>10, <2>1 DEF ClearLocal
  <2> QED BY <1>10, <2>2, <2>5, <2>6 DEF ClearLocal, Shape, HeapFits, TypeOK
<1>11. CASE ClearTimers(c)
  <2>1. Fits(c, "notifyAll", hand[c], scan[c].offset)
    BY <1>2, <1>11, ClientFits DEF ClearTimers, ClientLabel, Notifying
  <2>2. AllFit' /\ pc' \in [Thread -> Label] BY <1>0, <1>11, <2>1, OneThread DEF ClearTimers, locals
  <2>3. IsFiniteSet(timers') BY <1>11, FS_EmptySet DEF ClearTimers
  <2> QED BY <1>4, <1>11, <2>2, <2>3 DEF ClearTimers, Shape, HeapFits, TypeOK, locals
<1>12. CASE Join(c)
  <2>1. Fits(c, "destroyed", hand[c], scan[c].offset)
    BY <1>2, <1>12, ClientFits DEF Join, ClearAll, ClientLabel
  <2>2. AllFit' /\ pc' \in [Thread -> Label] BY <1>0, <1>12, <2>1, OneThread DEF Join, ClearAll, locals
  <2>3. IsFiniteSet(timers') BY <1>12, FS_EmptySet DEF Join, ClearAll
  <2>4. local' \in [Worker -> Seq(Item)] /\ injection' \in Seq(Item) BY <1>12 DEF Join, ClearAll
  <2> QED BY <1>4, <1>12, <2>2, <2>3, <2>4 DEF Join, ClearAll, Shape, HeapFits, TypeOK, locals
<1> QED BY <1>5, <1>6, <1>7, <1>8, <1>9, <1>10, <1>11, <1>12 DEF ClientCall, ClientStep

\* Every step keeps the types and program points.
LEMMA ShapeStep == Shape /\ [Next]_vars => Shape'
<1> SUFFICES ASSUME Shape, [Next]_vars PROVE Shape' OBVIOUS
<1>1. CASE Tick
  <2>1. clock' \in 0..MaxTime BY <1>1, BoundsAssumption DEF Tick, Shape, TypeOK
  <2>2. AllFit' BY <1>1 DEF Tick, Shape, AllFit, locals
  <2> QED BY <1>1, <2>1, <2>2 DEF Tick, Shape, HeapFits, TypeOK, queues, locals, history
<1>2. CASE UNCHANGED vars
  BY <1>2 DEF vars, Shape, AllFit, HeapFits, TypeOK, shared, queues, locals, history
<1> QED BY <1>1, <1>2, WorkerShape, TimerShape, NotifyShape, InvokeShape, ClientShape DEF Next

\* The initial state has the right shape.
LEMMA ShapeInit == Init => Shape
<1> SUFFICES ASSUME Init PROVE Shape OBVIOUS
<1>1. TypeOK
  <2>1. \A t \in Thread : (IF t \in Client THEN "idle" ELSE "check") \in Label BY DEF Label
  <2>2. 1 \in 1..(NumWorkers + 1) BY Kinds
  <2>3. 0 \in 0..MaxTime /\ 0 \in 0..MaxCancels BY BoundsAssumption
  <2>4. pc \in [Thread -> Label] BY <2>1 DEF Init
  <2>5. scan \in [Thread -> [call : {1, 2}, offset : 1..(NumWorkers + 1)]] BY <2>2 DEF Init
  <2>6. local \in [Worker -> Seq(Item)] /\ injection \in Seq(Item) /\ ready \in Seq(Item) BY DEF Init
  <2> QED BY <2>3, <2>4, <2>5, <2>6 DEF Init, TypeOK
<1>2. ASSUME NEW t \in Thread PROVE Fits(t, pc[t], hand[t], scan[t].offset)
  BY Kinds DEF Init, Fits, LabelOf, HandFits, OffsetFits, WorkerLabel, TimerLabel, ClientLabel, Calling
<1>3. HeapFits BY FS_EmptySet DEF Init, HeapFits
<1> QED BY <1>1, <1>2, <1>3 DEF Shape, AllFit

\* Type correctness of the thread pool, for every number of workers, clients
\* and items.
THEOREM PoolTypeCorrect == Spec => []TypeOK
<1>1. Shape => TypeOK BY DEF Shape
<1> QED BY <1>1, ShapeInit, ShapeStep, PTL DEF Spec

-----------------------------------------------------------------------------
(* The destructor.                                                          *)

\* Once m_stop is set only the client that destroys the pool is inside a call.
Alone(p, s) ==
    /\ \A c \in Client : p[c] \in {"join", "destroyed"} => s
    /\ s => \A c \in Client : p[c] \in Notifying \cup {"idle", "join", "destroyed"}
    /\ s => \A c, d \in Client : p[c] # "idle" /\ p[d] # "idle" => c = d

\* When the destructor has returned, no thread and no queue is left.
Gone ==
    /\ \A t \in Worker \cup {Timer} : pc[t] = "exited"
    /\ injection = <<>> /\ timers = {} /\ \A w \in Worker : local[w] = <<>>

Ending == Alone(pc, stop) /\ \A c \in Client : pc[c] = "destroyed" => Gone

\* What a step of each kind of thread leaves alone.
LEMMA WorkerLeaves ==
    ASSUME Shape, NEW w \in Worker, WorkerStep(w)
    PROVE  /\ \A u \in Thread : u # w => pc'[u] = pc[u]
           /\ UNCHANGED <<stop, clock, timers, ready, nextWake, history>> /\ pc[w] # "exited"
<1>1. pc \in [Thread -> Label] BY DEF Shape, TypeOK
<1>2. /\ UNCHANGED <<stop, clock, timers, ready, nextWake, history>> /\ pc[w] # "exited"
      /\ \E l : Goto(w, l)
  BY DEF WorkerStep, WorkerCheck, WorkerPop, WorkerInject, WorkerSteal, StealLeaving, WorkerNoSteal,
         WorkerLoad, Load, WorkerRecheck, WorkerWait, Sleep, Take, shared, queues, locals
<1> QED BY <1>1, <1>2 DEF Goto

\* What TimerLoop() leaves alone.
LEMMA TimerLeaves ==
    ASSUME Shape, TimerStep
    PROVE  /\ \A u \in Thread : u # Timer => pc'[u] = pc[u]
           /\ UNCHANGED <<stop, clock, local, hand, scan, history>> /\ pc[Timer] # "exited"
<1>1. pc \in [Thread -> Label] /\ Timer \notin Worker BY Kinds DEF Shape, TypeOK
<1>2. /\ UNCHANGED <<stop, clock, local, hand, scan, history>> /\ pc[Timer] # "exited"
      /\ \E l : Goto(Timer, l)
  BY <1>1 DEF TimerStep, TimerCheck, TimerLoad, TimerScan, TakeFromHeap, TimerExecute, Push, TimerRecheck,
         TimerWait, TimerTimeout, Sleep, shared, queues, locals
<1> QED BY <1>1, <1>2 DEF Goto

\* What a notification leaves alone, and where it leads.
LEMMA NotifyLeaves ==
    ASSUME Shape, NEW t \in Thread, NotifyStep(t)
    PROVE  /\ \A u \in Thread : u # t => pc'[u] = pc[u] \/ (pc[u] = "parked" /\ pc'[u] = "check")
           /\ UNCHANGED <<shared, locals, history>>
           /\ pc[t] \in {"notifyOne", "wakeOne"} \cup Notifying
           /\ \/ pc[t] = "notifyOne" /\ pc'[t] = "wakeOne"
              \/ pc[t] = "notifyAll" /\ pc'[t] = "wakeAll"
              \/ pc[t] = "wakeAll" /\ pc'[t] = "notifyTimer"
              \/ pc[t] = "notifyTimer" /\ pc'[t] = "wakeTimer"
              \/ pc[t] \in {"wakeOne", "wakeTimer"} /\ pc'[t] = Return(t)
<1>1. pc \in [Thread -> Label] BY DEF Shape, TypeOK
<1>2. CASE NotifyWork(t) \/ NotifyTimer(t)
  BY <1>1, <1>2 DEF NotifyWork, NotifyTimer, Goto, Notifying
<1>3. CASE WakeOne(t)
  <2>1. CASE Parked = {} BY <1>1, <1>3, <2>1 DEF WakeOne, Goto
  <2>2. CASE Parked # {} BY <1>1, <1>3, <2>2 DEF WakeOne, Wake, Parked
  <2> QED BY <2>1, <2>2
<1>4. CASE WakeAll(t) BY <1>1, <1>4 DEF WakeAll, Wake, Parked, Notifying
<1>5. CASE WakeTimer(t) BY <1>1, <1>5 DEF WakeTimer, Wake, Notifying
<1> QED BY <1>2, <1>3, <1>4, <1>5 DEF NotifyStep

\* A client inside a call moves on; nothing else of what Alone is about changes.
LEMMA AloneMoves ==
    ASSUME NEW p, NEW q, NEW s, NEW c \in Client, Alone(p, s), p[c] # "idle",
           q[c] \in {"join", "destroyed"} => s,
           s => q[c] \in Notifying \cup {"idle", "join", "destroyed"},
           \A d \in Client : d # c => q[d] = p[d]
    PROVE  Alone(q, s)
BY DEF Alone

\* Every step keeps what is known of the destructor.
LEMMA EndingStep ==
    ASSUME Shape, Ending, [Next]_vars
    PROVE  Ending'
<1>1. CASE UNCHANGED vars \/ Tick
  BY <1>1 DEF Ending, Alone, Gone, vars, Tick, shared, queues, locals, history
<1>2. ASSUME NEW w \in Worker, WorkerStep(w) PROVE Ending'
  <2>1. \A c \in Client : pc'[c] = pc[c] /\ pc[c] # "destroyed" /\ stop' = stop
    BY <1>2, WorkerLeaves, Kinds DEF Ending, Gone
  <2> QED BY <2>1 DEF Ending, Alone
<1>3. CASE TimerStep
  <2>1. \A c \in Client : pc'[c] = pc[c] /\ pc[c] # "destroyed" /\ stop' = stop
    BY <1>3, TimerLeaves, Kinds DEF Ending, Gone
  <2> QED BY <2>1 DEF Ending, Alone
<1>4. ASSUME NEW t \in Thread, NotifyStep(t) PROVE Ending'
  <2>1. /\ \A u \in Thread : u # t => pc'[u] = pc[u] \/ (pc[u] = "parked" /\ pc'[u] = "check")
        /\ stop' = stop /\ pc[t] \in {"notifyOne", "wakeOne"} \cup Notifying
    BY <1>4, NotifyLeaves DEF shared
  <2>2. \A c \in Client : c # t => pc'[c] = pc[c]
    BY <2>1, FitsFacts, Kinds DEF LabelOf, ClientLabel, Notifying
  <2>3. \A c \in Client : pc[c] # "destroyed"
    <3>1. SUFFICES ASSUME NEW c \in Client, pc[c] = "destroyed" PROVE FALSE OBVIOUS
    <3>2. Gone /\ stop BY <3>1 DEF Ending, Alone
    <3>3. t \in Client BY <2>1, <3>2, Kinds DEF Gone, Notifying
    <3>4. t = c BY <2>1, <3>1, <3>2, <3>3 DEF Ending, Alone, Notifying
    <3> QED BY <2>1, <3>1, <3>4 DEF Notifying
  <2>4. CASE t \notin Client
    <3>1. \A c \in Client : pc'[c] = pc[c] BY <2>2, <2>4
    <3> QED BY <2>1, <2>3, <3>1 DEF Ending, Alone
  <2>5. CASE t \in Client
    <3>1. t \notin Worker /\ t # Timer /\ HandFits(t, pc[t], hand[t]) BY <2>5, FitsFacts, Kinds
    <3>2. stop => pc[t] \in Notifying /\ hand[t] = None
      BY <2>1, <2>5, <3>1 DEF Ending, Alone, HandFits, Calling, Notifying
    <3>3. /\ stop => pc'[t] \in Notifying \cup {"join"}
          /\ pc'[t] # "destroyed" /\ (pc'[t] = "join" => stop)
      BY <1>4, <3>1, <3>2, NotifyLeaves DEF Return, Notifying
    <3>4. Alone(pc', stop) BY <2>1, <2>2, <2>5, <3>3, AloneMoves DEF Ending, Notifying
    <3> QED BY <2>1, <2>2, <2>3, <3>3, <3>4 DEF Ending
  <2> QED BY <2>4, <2>5
<1>5. ASSUME NEW t \in Worker \cup Client, InvokeReturns(t) \/ \E i \in Item : InvokeSubmits(t, i)
      PROVE  Ending'
  <2>1. /\ pc[t] = "run" /\ stop' = stop /\ t \in Thread
        /\ \E l \in {"notifyOne", "check", "idle"} : Goto(t, l) /\ (t \in Client => l # "check")
    BY <1>5, Kinds DEF InvokeReturns, InvokeSubmits, Push, shared
  <2>2. /\ \A u \in Thread : u # t => pc'[u] = pc[u]
        /\ pc'[t] \in {"notifyOne", "check", "idle"} /\ (t \in Client => pc'[t] # "check")
    BY <2>1 DEF Goto, Shape, TypeOK
  <2>3. \A c \in Client : pc[c] # "destroyed"
    <3>1. SUFFICES ASSUME NEW c \in Client, pc[c] = "destroyed" PROVE FALSE OBVIOUS
    <3>2. Gone /\ stop BY <3>1 DEF Ending, Alone
    <3>3. t \in Client BY <2>1, <3>2 DEF Gone
    <3> QED BY <2>1, <3>2, <3>3 DEF Ending, Alone, Notifying
  <2>4. CASE t \notin Client
    <3>1. \A c \in Client : pc'[c] = pc[c] BY <2>2, <2>4, Kinds
    <3> QED BY <2>1, <2>3, <3>1 DEF Ending, Alone
  <2>5. CASE t \in Client
    <3>1. ~stop BY <2>1, <2>5 DEF Ending, Alone, Notifying
    <3>2. \A c \in Client : pc'[c] \notin {"join", "destroyed"}
      BY <2>2, <2>5, <3>1, Kinds DEF Ending, Alone
    <3> QED BY <2>1, <3>1, <3>2 DEF Ending, Alone
  <2> QED BY <2>4, <2>5
<1>6. ASSUME NEW c \in Client, ClientCall(c) PROVE Ending'
  <2>1. CanCall(c) /\ \E l : Goto(c, l) /\ l \in ClientLabel \ {"join", "destroyed"}
    BY <1>6 DEF ClientCall, Submit, Push, SubmitAt, Schedule, RunOne, CancelAll, Destroy, ClientLabel, Notifying
  <2>2. /\ ~stop /\ pc[c] = "idle" /\ pc'[c] \notin {"join", "destroyed"}
        /\ \A d \in Client : d # c => pc'[d] = pc[d]
    BY <2>1, Kinds DEF CanCall, Goto, Shape, TypeOK
  <2>3. \A d \in Client : pc'[d] \notin {"join", "destroyed"} BY <2>2 DEF Ending, Alone
  <2>4. CASE ~stop' BY <2>3, <2>4 DEF Ending, Alone
  <2>5. CASE stop'
    <3>1. Destroy(c)
      BY <1>6, <2>2, <2>5 DEF ClientCall, Submit, SubmitAt, Schedule, RunOne, CancelAll
    <3>2. pc'[c] = "notifyAll" /\ \A d \in Client : pc[d] = "idle"
      BY <3>1, Kinds DEF Destroy, Goto, Shape, TypeOK
    <3>3. \A d \in Client : d # c => pc'[d] = "idle" BY <2>2, <3>2
    <3>4. Alone(pc', TRUE) BY <3>2, <3>3 DEF Alone, Notifying
    <3>5. Alone(pc', stop') BY <2>5, <3>4 DEF Alone
    <3> QED BY <2>3, <3>5 DEF Ending
  <2> QED BY <2>4, <2>5
<1>7. ASSUME NEW c \in Client, ClientStep(c) PROVE Ending'
  <2>1. stop' = stop /\ pc[c] \in {"clearLocal", "clearTimers", "join"}
    BY <1>7 DEF ClientStep, ClearLocal, ClearTimers, Join, ClearAll
  <2>2. \E l : Goto(c, l) BY <1>7 DEF ClientStep, ClearLocal, ClearTimers, Join, ClearAll
  <2>3. \A u \in Thread : u # c => pc'[u] = pc[u] BY <2>2 DEF Goto, Shape, TypeOK
  <2>4. CASE ClearLocal(c) \/ ClearTimers(c)
    <3>1. ~stop /\ pc'[c] \in {"clearLocal", "clearTimers", "notifyAll"}
      BY <2>4, Kinds DEF ClearLocal, ClearTimers, Goto, Shape, TypeOK, Ending, Alone, Notifying
    <3>2. \A d \in Client : pc'[d] \notin {"join", "destroyed"}
      BY <2>3, <3>1, Kinds DEF Ending, Alone
    <3> QED BY <2>1, <3>1, <3>2 DEF Ending, Alone
  <2>5. CASE Join(c)
    <3>1. stop /\ pc[c] = "join" /\ pc'[c] = "destroyed"
      BY <2>5, Kinds DEF Join, ClearAll, Goto, Shape, TypeOK, Ending, Alone
    <3>2. Alone(pc', stop)
      <4>1. \A d \in Client : d # c => pc'[d] = pc[d] BY <2>3, Kinds
      <4>2. Alone(pc, stop) BY DEF Ending
      <4> QED BY <3>1, <4>1, <4>2 DEF Alone
    <3>3. Gone'
      <4>1. \A t \in Worker \cup {Timer} : pc'[t] = "exited" BY <2>3, <2>5, Kinds DEF Join
      <4>2. injection' = <<>> /\ timers' = {} /\ \A w \in Worker : local'[w] = <<>>
        BY <2>5 DEF Join, ClearAll
      <4> QED BY <4>1, <4>2 DEF Gone
    <3> QED BY <2>1, <3>2, <3>3 DEF Ending
  <2> QED BY <1>7, <2>4, <2>5 DEF ClientStep
<1> QED BY <1>1, <1>2, <1>3, <1>4, <1>5, <1>6, <1>7 DEF Next

\* At first nobody has called the destructor.
LEMMA EndingInit == Init => Ending
BY Kinds DEF Init, Ending, Alone

-----------------------------------------------------------------------------
(* Where the items are.                                                     *)

\* The places an item can be in, and what they contain.
InInjection == <<"injection", Timer>>
InReady == <<"ready", Timer>>
InHeap == <<"timers", Timer>>
InLocal(w) == <<"local", w>>
InHand(t) == <<"hand", t>>

Place ==
    {InInjection, InReady, InHeap} \cup {InLocal(w) : w \in Worker} \cup {InHand(t) : t \in Thread}

Contents(inj, rdy, heap, loc, hnd) ==
    [p \in Place |->
        IF p = InInjection THEN Elements(inj)
        ELSE IF p = InReady THEN Elements(rdy)
        ELSE IF p = InHeap THEN heap
        ELSE IF p[1] = "local" THEN Elements(loc[p[2]])
        ELSE {hnd[p[2]]} \ {None}]

Content == Contents(injection, ready, timers, local, hand)

\* The pending items are the ones that are somewhere, and none is in two places.
Exact(c, st) ==
    /\ \A p, q \in Place : \A i \in Item : i \in c[p] /\ i \in c[q] => p = q
    /\ \A i \in Item : st[i] = "pending" <=> \E p \in Place : i \in c[p]

Distinct(s) == \A j, k \in 1..Len(s) : s[j] = s[k] => j = k

Tidy == Distinct(injection) /\ Distinct(ready) /\ \A w \in Worker : Distinct(local[w])

ReadyDrained == pc[Timer] \notin {"execute", "notifyOne", "wakeOne"} => ready = <<>>

Placement == ReadyDrained /\ Tidy /\ Exact(Content, status)

\* The places are apart.
LEMMA Places ==
    /\ InInjection \in Place /\ InReady \in Place /\ InHeap \in Place
    /\ \A w \in Worker : InLocal(w) \in Place
    /\ \A t \in Thread : InHand(t) \in Place
    /\ InInjection # InReady /\ InInjection # InHeap /\ InReady # InHeap
    /\ \A w \in Worker : InLocal(w) # InInjection /\ InLocal(w) # InReady /\ InLocal(w) # InHeap
    /\ \A t \in Thread : InHand(t) # InInjection /\ InHand(t) # InReady /\ InHand(t) # InHeap
    /\ \A w \in Worker, t \in Thread : InLocal(w) # InHand(t)
    /\ \A v, w \in Worker : InLocal(v) = InLocal(w) => v = w
    /\ \A t, u \in Thread : InHand(t) = InHand(u) => t = u
    /\ \A p \in Place : \/ p \in {InInjection, InReady, InHeap}
                        \/ \E w \in Worker : p = InLocal(w)
                        \/ \E t \in Thread : p = InHand(t)
BY DEF Place, InInjection, InReady, InHeap, InLocal, InHand

\* What each place contains.
LEMMA ContentsAt ==
    ASSUME NEW inj, NEW rdy, NEW heap, NEW loc, NEW hnd
    PROVE  /\ Contents(inj, rdy, heap, loc, hnd)[InInjection] = Elements(inj)
           /\ Contents(inj, rdy, heap, loc, hnd)[InReady] = Elements(rdy)
           /\ Contents(inj, rdy, heap, loc, hnd)[InHeap] = heap
           /\ \A w \in Worker : Contents(inj, rdy, heap, loc, hnd)[InLocal(w)] = Elements(loc[w])
           /\ \A t \in Thread : Contents(inj, rdy, heap, loc, hnd)[InHand(t)] = {hnd[t]} \ {None}
<1>1. \A w \in Worker : InLocal(w)[1] = "local" /\ InLocal(w)[2] = w BY DEF InLocal
<1>2. \A t \in Thread : InHand(t)[1] = "hand" /\ InHand(t)[2] = t BY DEF InHand
<1> QED BY <1>1, <1>2, Places DEF Contents

\* The items of S go from p to q.
Moves(c, d, p, q, S) ==
    /\ d[p] = c[p] \ S /\ d[q] = c[q] \cup S
    /\ \A r \in Place : r # p /\ r # q => d[r] = c[r]

\* Moving items keeps every pending item in one place.
LEMMA MoveExact ==
    ASSUME NEW c, NEW d, NEW st, NEW p \in Place, NEW q \in Place, p # q, NEW S, S \subseteq c[p],
           Exact(c, st), Moves(c, d, p, q, S)
    PROVE  Exact(d, st)
<1>1. ASSUME NEW r \in Place, NEW i \in Item
      PROVE  i \in d[r] <=> (i \in c[r] /\ ~(r = p /\ i \in S)) \/ (r = q /\ i \in S)
  BY DEF Moves
<1>2. \A i \in Item : i \in S => \A r \in Place : i \in c[r] => r = p BY DEF Exact
<1>3. \A r, s \in Place : \A i \in Item : i \in d[r] /\ i \in d[s] => r = s
  BY <1>1, <1>2 DEF Exact
<1>4. \A i \in Item : (\E r \in Place : i \in c[r]) <=> (\E r \in Place : i \in d[r])
  BY <1>1, <1>2
<1> QED BY <1>3, <1>4 DEF Exact

\* An item that was not pending enters at q.
Enters(c, d, st, st2, q, i) ==
    /\ st[i] # "pending" /\ st2[i] = "pending" /\ \A j \in Item : j # i => st2[j] = st[j]
    /\ d[q] = c[q] \cup {i} /\ \A r \in Place : r # q => d[r] = c[r]

\* So does accepting an item that is in no place yet.
LEMMA EnterExact ==
    ASSUME NEW c, NEW d, NEW st, NEW st2, NEW q \in Place, NEW i \in Item,
           Exact(c, st), Enters(c, d, st, st2, q, i)
    PROVE  Exact(d, st2)
<1>1. \A r \in Place : i \notin c[r] BY DEF Exact, Enters
<1>2. ASSUME NEW r \in Place, NEW j \in Item PROVE j \in d[r] <=> j \in c[r] \/ (r = q /\ j = i)
  BY DEF Enters
<1>3. \A r, s \in Place : \A j \in Item : j \in d[r] /\ j \in d[s] => r = s
  BY <1>1, <1>2 DEF Exact
<1>4. \A j \in Item : st2[j] = "pending" <=> \E r \in Place : j \in d[r]
  BY <1>1, <1>2 DEF Exact, Enters
<1> QED BY <1>3, <1>4 DEF Exact

\* The items of S, and no others, leave and are no longer pending.
Leaves(c, d, st, st2, S) ==
    /\ \A r \in Place : d[r] = c[r] \ S
    /\ \A j \in Item : IF j \in S THEN st2[j] # "pending" ELSE st2[j] = st[j]

\* So does running or dropping items that are taken from their place.
LEMMA LeaveExact ==
    ASSUME NEW c, NEW d, NEW st, NEW st2, NEW S, Exact(c, st), Leaves(c, d, st, st2, S)
    PROVE  Exact(d, st2)
<1>1. ASSUME NEW r \in Place, NEW j \in Item PROVE j \in d[r] <=> j \in c[r] /\ j \notin S
  BY DEF Leaves
<1>2. \A r, s \in Place : \A j \in Item : j \in d[r] /\ j \in d[s] => r = s
  BY <1>1 DEF Exact
<1>3. \A j \in Item : st2[j] = "pending" <=> \E r \in Place : j \in d[r]
  BY <1>1 DEF Exact, Leaves
<1> QED BY <1>2, <1>3 DEF Exact

\* What is in one place is in no other.
LEMMA Elsewhere ==
    ASSUME NEW c, NEW st, Exact(c, st), NEW p \in Place, NEW S, S \subseteq c[p], S \subseteq Item,
           NEW r \in Place, r # p
    PROVE  c[r] \ S = c[r]
BY DEF Exact

\* Queues: what pushing and popping does to their elements.
LEMMA EmptyQueue == Elements(<<>>) = {} /\ Distinct(<<>>)
BY DEF Elements, Distinct

\* Pushing an item that is not in the queue.
LEMMA AppendQueue ==
    ASSUME NEW s \in Seq(Item), NEW i \in Item
    PROVE  /\ Elements(Append(s, i)) = Elements(s) \cup {i}
           /\ Distinct(s) /\ i \notin Elements(s) => Distinct(Append(s, i))
<1>1. /\ Len(Append(s, i)) = Len(s) + 1 /\ Len(s) \in Nat
      /\ \A k \in 1..Len(s) : Append(s, i)[k] = s[k]
      /\ Append(s, i)[Len(s) + 1] = i
  OBVIOUS
<1>2. 1..(Len(s) + 1) = 1..Len(s) \cup {Len(s) + 1} BY <1>1
<1>3. Elements(Append(s, i)) = Elements(s) \cup {i} BY <1>1, <1>2 DEF Elements
<1>4. ASSUME Distinct(s), i \notin Elements(s) PROVE Distinct(Append(s, i))
  BY <1>1, <1>2, <1>4 DEF Elements, Distinct
<1> QED BY <1>3, <1>4

\* Taking the oldest item.
LEMMA TailQueue ==
    ASSUME NEW s \in Seq(Item), s # <<>>, Distinct(s)
    PROVE  /\ Head(s) \in Elements(s) /\ Elements(Tail(s)) = Elements(s) \ {Head(s)}
           /\ Distinct(Tail(s))
<1>1. /\ Len(s) \in Nat \ {0} /\ Len(Tail(s)) = Len(s) - 1 /\ Head(s) = s[1]
      /\ \A k \in 1..(Len(s) - 1) : Tail(s)[k] = s[k + 1]
  OBVIOUS
<1>2. Head(s) \in Elements(s) BY <1>1 DEF Elements
<1>3. Distinct(Tail(s)) BY <1>1 DEF Distinct
<1>4. ASSUME NEW e PROVE e \in Elements(Tail(s)) <=> e \in Elements(s) /\ e # Head(s)
  <2>1. ASSUME e \in Elements(Tail(s)) PROVE e \in Elements(s) /\ e # Head(s)
    <3>1. PICK k \in 1..(Len(s) - 1) : e = s[k + 1] BY <1>1, <2>1 DEF Elements
    <3>2. k + 1 \in 1..Len(s) /\ k + 1 # 1 BY <1>1
    <3> QED BY <1>1, <3>1, <3>2 DEF Elements, Distinct
  <2>2. ASSUME e \in Elements(s), e # Head(s) PROVE e \in Elements(Tail(s))
    <3>1. PICK k \in 1..Len(s) : e = s[k] BY <2>2 DEF Elements
    <3>2. k - 1 \in 1..(Len(s) - 1) /\ Tail(s)[k - 1] = e BY <1>1, <2>2, <3>1
    <3> QED BY <1>1, <3>2 DEF Elements
  <2> QED BY <2>1, <2>2
<1> QED BY <1>2, <1>3, <1>4

\* Taking the newest item.
LEMMA FrontQueue ==
    ASSUME NEW s \in Seq(Item), s # <<>>, Distinct(s)
    PROVE  /\ s[Len(s)] \in Elements(s)
           /\ Elements(SubSeq(s, 1, Len(s) - 1)) = Elements(s) \ {s[Len(s)]}
           /\ Distinct(SubSeq(s, 1, Len(s) - 1))
<1> DEFINE f == SubSeq(s, 1, Len(s) - 1)
<1>0. Len(s) \in Nat \ {0} OBVIOUS
<1>1. /\ Len(s) \in Nat \ {0} /\ Len(f) = Len(s) - 1
      /\ \A k \in 1..(Len(s) - 1) : f[k] = s[k]
  <2>1. \A k \in 1..(Len(s) - 1) : s[k] \in Item BY <1>0
  <2>2. 1 \in Int /\ Len(s) - 1 \in Int BY <1>0
  <2>3. /\ Len(f) = IF 1 <= Len(s) - 1 THEN Len(s) - 1 - 1 + 1 ELSE 0
        /\ \A k \in 1..(Len(s) - 1 - 1 + 1) : f[k] = s[1 + k - 1]
    BY <2>1, <2>2, SubSeqProperties
  <2> HIDE DEF f
  <2>4. Len(f) = Len(s) - 1
    <3>1. \A n \in Nat \ {0} : (IF 1 <= n - 1 THEN n - 1 - 1 + 1 ELSE 0) = n - 1 OBVIOUS
    <3> QED BY <1>0, <2>3, <3>1, Zenon
  <2>5. ASSUME NEW k \in 1..(Len(s) - 1) PROVE f[k] = s[k]
    <3>1. k \in 1..(Len(s) - 1 - 1 + 1) /\ 1 + k - 1 = k BY <1>0
    <3> QED BY <2>3, <3>1
  <2> QED BY <1>0, <2>4, <2>5
<1> HIDE DEF f
<1>2. s[Len(s)] \in Elements(s) BY <1>1 DEF Elements
<1>3. Distinct(f) BY <1>1 DEF Distinct
<1>4. ASSUME NEW e PROVE e \in Elements(f) <=> e \in Elements(s) /\ e # s[Len(s)]
  <2>1. ASSUME e \in Elements(f) PROVE e \in Elements(s) /\ e # s[Len(s)]
    <3>1. PICK k \in 1..(Len(s) - 1) : e = s[k] BY <1>1, <2>1 DEF Elements
    <3>2. k \in 1..Len(s) /\ Len(s) \in 1..Len(s) /\ k # Len(s) BY <1>1
    <3> QED BY <1>1, <3>1, <3>2 DEF Elements, Distinct
  <2>2. ASSUME e \in Elements(s), e # s[Len(s)] PROVE e \in Elements(f)
    <3>1. PICK k \in 1..Len(s) : e = s[k] BY <2>2 DEF Elements
    <3>2. k \in 1..(Len(s) - 1) BY <1>1, <2>2, <3>1
    <3> QED BY <1>1, <3>1, <3>2 DEF Elements
  <2> QED BY <2>1, <2>2
<1> QED BY <1>2, <1>3, <1>4 DEF f

\* The due entries, each once, in some order.
LEMMA DueIsDistinct ==
    ASSUME NEW due, IsFiniteSet(due), NEW s \in [1..Cardinality(due) -> due],
           Len(s) = Cardinality(due), Elements(s) = due
    PROVE  Distinct(s)
<1>1. Cardinality(due) \in Nat BY FS_CardinalityType
<1>2. IsFiniteSet(1..Cardinality(due)) /\ Cardinality(1..Cardinality(due)) = Cardinality(due)
  BY <1>1, FS_Interval
<1>3. s \in Surjection(1..Cardinality(due), due) BY DEF Surjection, Elements
<1>4. s \in Injection(1..Cardinality(due), due)
  BY <1>2, <1>3, FS_SurjSameCardinalityImpliesInj
<1> QED BY <1>4 DEF Injection, IsInjective, Distinct

\* The contents before and after a step.
LEMMA ContentNow ==
    /\ Content[InInjection] = Elements(injection) /\ Content[InReady] = Elements(ready)
    /\ Content[InHeap] = timers
    /\ \A w \in Worker : Content[InLocal(w)] = Elements(local[w])
    /\ \A t \in Thread : Content[InHand(t)] = {hand[t]} \ {None}
    /\ Content'[InInjection] = Elements(injection') /\ Content'[InReady] = Elements(ready')
    /\ Content'[InHeap] = timers'
    /\ \A w \in Worker : Content'[InLocal(w)] = Elements(local'[w])
    /\ \A t \in Thread : Content'[InHand(t)] = {hand'[t]} \ {None}
<1>1. Content = Contents(injection, ready, timers, local, hand) BY DEF Content
<1>2. Content' = Contents(injection', ready', timers', local', hand') BY DEF Content
<1> QED BY <1>1, <1>2, ContentsAt

\* The elements of the queues are items.
LEMMA ContentItems ==
    ASSUME Shape
    PROVE  /\ Elements(injection) \subseteq Item /\ Elements(ready) \subseteq Item /\ timers \subseteq Item
           /\ \A w \in Worker : Elements(local[w]) \subseteq Item
BY DEF Shape, TypeOK, Elements

\* A step that moves nothing.
LEMMA PlacementKept ==
    ASSUME Placement, UNCHANGED <<local, injection, timers, ready, hand, status>>, ReadyDrained'
    PROVE  Placement'
BY DEF Placement, Tidy, Content

\* A thread with empty hands dequeues i from a queue.
LEMMA TakeExact ==
    ASSUME Shape, Placement, NEW t \in Thread, NEW i \in Item, hand[t] = None,
           hand' = [hand EXCEPT ![t] = i], NEW p \in Place, \A u \in Thread : p # InHand(u),
           i \in Content[p], Content'[p] = Content[p] \ {i},
           \A r \in Place : r # p /\ (\A u \in Thread : r # InHand(u)) => Content'[r] = Content[r],
           status' = status
    PROVE  Exact(Content', status')
<1>1. /\ hand'[t] = i /\ i # None /\ \A u \in Thread : u # t => hand'[u] = hand[u]
  BY NoneAssumption DEF Shape, TypeOK
<1>2. Content'[InHand(t)] = Content[InHand(t)] \cup {i} BY <1>1, ContentNow
<1>3. ASSUME NEW u \in Thread, u # t PROVE Content'[InHand(u)] = Content[InHand(u)]
  <2>1. hand'[u] = hand[u] BY <1>1, <1>3
  <2> QED BY <2>1, ContentNow
<1>4. \A r \in Place : r # p /\ r # InHand(t) => Content'[r] = Content[r] BY <1>3
<1>5. Moves(Content, Content', p, InHand(t), {i}) BY <1>2, <1>4 DEF Moves
<1>6. InHand(t) \in Place /\ p # InHand(t) /\ {i} \subseteq Content[p] BY Places
<1>7. Exact(Content, status) BY DEF Placement
<1> QED BY <1>5, <1>6, <1>7, MoveExact

\* A worker's step moves at most one item, into its hand.
LEMMA PlacementWorker ==
    ASSUME Shape, Placement, NEW w \in Worker, WorkerStep(w)
    PROVE  Placement'
<1>0. w \in Thread /\ w # Timer /\ Timer \in Thread /\ InLocal(w) \in Place /\ InInjection \in Place
  BY Kinds, Places
<1>1. HandFits(w, pc[w], hand[w]) /\ OffsetFits(w, pc[w], scan[w].offset) /\ scan[w].offset \in Nat
  BY <1>0, FitsFacts, Kinds
<1>2. pc'[Timer] = pc[Timer] /\ ready' = ready /\ timers' = timers /\ status' = status
  BY <1>0, WorkerLeaves DEF history
<1>3. ReadyDrained' BY <1>2 DEF ReadyDrained, Placement
<1>4. local \in [Worker -> Seq(Item)] /\ injection \in Seq(Item) BY DEF Shape, TypeOK
<1>5. CASE UNCHANGED <<local, injection, hand>> BY <1>2, <1>3, <1>5, PlacementKept
<1>6. ASSUME NEW v \in Worker, local[v] # <<>>, NEW i, NEW rest, local' = [local EXCEPT ![v] = rest],
             injection' = injection, hand[w] = None, hand' = [hand EXCEPT ![w] = i],
             i \in Elements(local[v]), Elements(rest) = Elements(local[v]) \ {i}, Distinct(rest)
      PROVE  Placement'
  <2>1. i \in Item BY <1>6, ContentItems
  <2>2. local'[v] = rest /\ \A u \in Worker : u # v => local'[u] = local[u] BY <1>4, <1>6
  <2>3. i \in Content[InLocal(v)] /\ Content'[InLocal(v)] = Content[InLocal(v)] \ {i}
    BY <1>6, <2>2, ContentNow
  <2>4. \A u \in Worker : u # v => Content'[InLocal(u)] = Content[InLocal(u)] BY <2>2, ContentNow
  <2>5. /\ Content'[InInjection] = Content[InInjection] /\ Content'[InReady] = Content[InReady]
        /\ Content'[InHeap] = Content[InHeap]
    BY <1>2, <1>6, ContentNow
  <2>6. \A r \in Place : r # InLocal(v) /\ (\A u \in Thread : r # InHand(u)) => Content'[r] = Content[r]
    BY <2>4, <2>5, Places
  <2>7. InLocal(v) \in Place /\ \A u \in Thread : InLocal(v) # InHand(u) BY Places
  <2>8. Exact(Content', status') BY <1>0, <1>2, <1>6, <2>1, <2>3, <2>6, <2>7, TakeExact
  <2>9. Tidy' BY <1>2, <1>6, <2>2 DEF Placement, Tidy
  <2> QED BY <1>3, <2>8, <2>9 DEF Placement
<1>7. CASE WorkerPop(w) /\ local[w] # <<>>
  <2>1. local[w] \in Seq(Item) /\ Distinct(local[w]) BY <1>4 DEF Placement, Tidy
  <2>2. hand[w] = None BY <1>1, <1>7 DEF WorkerPop, HandFits, Calling
  <2>3. local' = [local EXCEPT ![w] = SubSeq(local[w], 1, Len(local[w]) - 1)]
    BY <1>7 DEF WorkerPop
  <2>4. injection' = injection /\ hand' = [hand EXCEPT ![w] = local[w][Len(local[w])]]
    BY <1>7 DEF WorkerPop, Take
  <2> QED BY <1>6, <1>7, <2>1, <2>2, <2>3, <2>4, FrontQueue
<1>8. CASE WorkerSteal(w)
  <2>1. Victim(w) \in Worker BY <1>1, VictimIsWorker
  <2>2. local[Victim(w)] \in Seq(Item) /\ Distinct(local[Victim(w)]) BY <1>4, <2>1 DEF Placement, Tidy
  <2>3. hand[w] = None BY <1>1, <1>8 DEF WorkerSteal, StealLeaving, HandFits, Calling
  <2>4. /\ local' = [local EXCEPT ![Victim(w)] = Tail(local[Victim(w)])] /\ local[Victim(w)] # <<>>
        /\ injection' = injection /\ hand' = [hand EXCEPT ![w] = Head(local[Victim(w)])]
    BY <1>8 DEF WorkerSteal, StealLeaving, Take
  <2> QED BY <1>6, <2>1, <2>2, <2>3, <2>4, TailQueue
<1>9. CASE WorkerInject(w) /\ injection # <<>>
  <2>1. injection \in Seq(Item) /\ Distinct(injection) BY <1>4 DEF Placement, Tidy
  <2>2. hand[w] = None BY <1>1, <1>9 DEF WorkerInject, HandFits, Calling
  <2>3. /\ injection' = Tail(injection) /\ local' = local /\ hand' = [hand EXCEPT ![w] = Head(injection)]
    BY <1>9 DEF WorkerInject, Take
  <2>4. /\ Head(injection) \in Elements(injection) /\ Distinct(injection')
        /\ Elements(injection') = Elements(injection) \ {Head(injection)}
    BY <1>9, <2>1, <2>3, TailQueue
  <2>5. Head(injection) \in Item BY <2>4, ContentItems
  <2>6. /\ Head(injection) \in Content[InInjection]
        /\ Content'[InInjection] = Content[InInjection] \ {Head(injection)}
    BY <2>4, ContentNow
  <2>7. /\ Content'[InReady] = Content[InReady] /\ Content'[InHeap] = Content[InHeap]
        /\ \A u \in Worker : Content'[InLocal(u)] = Content[InLocal(u)]
    BY <1>2, <2>3, ContentNow
  <2>8. \A r \in Place : r # InInjection /\ (\A u \in Thread : r # InHand(u)) => Content'[r] = Content[r]
    BY <2>7, Places
  <2>9. \A u \in Thread : InInjection # InHand(u) BY Places
  <2>10. Exact(Content', status') BY <1>0, <1>2, <2>2, <2>3, <2>5, <2>6, <2>8, <2>9, TakeExact
  <2>11. Tidy' BY <1>2, <2>3, <2>4 DEF Placement, Tidy
  <2> QED BY <1>3, <2>10, <2>11 DEF Placement
<1> QED
  BY <1>5, <1>7, <1>8, <1>9
  DEF WorkerStep, WorkerCheck, WorkerPop, WorkerInject, WorkerNoSteal, WorkerLoad, Load,
      WorkerRecheck, WorkerWait, Sleep, shared, queues, locals

\* TimerLoop() moves items from the heap by way of its vector to a queue.
LEMMA PlacementTimer ==
    ASSUME Shape, Placement, TimerStep
    PROVE  Placement'
<1>0. /\ Timer \in Thread /\ Timer \notin Worker /\ Timer \notin Client
      /\ InHeap \in Place /\ InReady \in Place /\ InInjection \in Place
  BY Kinds, Places
<1>1. local' = local /\ hand' = hand /\ status' = status BY TimerLeaves DEF history
<1>2. /\ pc \in [Thread -> Label] /\ injection \in Seq(Item) /\ ready \in Seq(Item) /\ timers \subseteq Item
      /\ IsFiniteSet(timers)
  BY DEF Shape, TypeOK, HeapFits
<1>3. Exact(Content, status) BY DEF Placement
<1>4. /\ \A w \in Worker : Content'[InLocal(w)] = Content[InLocal(w)]
      /\ \A t \in Thread : Content'[InHand(t)] = Content[InHand(t)]
  BY <1>1, ContentNow
<1>5. CASE TimerCheck \/ TimerLoad \/ TimerRecheck \/ TimerWait \/ TimerTimeout
  <2>1. UNCHANGED <<injection, timers, ready>>
    BY <1>5 DEF TimerCheck, TimerLoad, TimerRecheck, TimerWait, TimerTimeout, Sleep, shared, queues, locals
  <2>2. ready = <<>>
    BY <1>5 DEF TimerCheck, TimerLoad, TimerRecheck, TimerWait, TimerTimeout, Placement, ReadyDrained
  <2> QED BY <1>1, <2>1, <2>2, PlacementKept DEF ReadyDrained
<1>6. CASE TimerScan
  <2> DEFINE due == {i \in timers : deadline[i] <= clock}
  <2>1. due \subseteq timers /\ IsFiniteSet(due) BY <1>2, FS_Subset
  <2>2. PICK s \in [1..Cardinality(due) -> due] : InDeadlineOrder(due, s) /\ ready' = s
    BY <1>6 DEF TimerScan, TakeFromHeap
  <2>3. timers' = timers \ due /\ injection' = injection /\ Goto(Timer, "execute") /\ ready = <<>>
    BY <1>6 DEF TimerScan, TakeFromHeap, Placement, ReadyDrained
  <2> HIDE DEF due
  <2>4. Elements(ready') = due /\ Distinct(ready')
    BY <2>1, <2>2, DueIsDistinct DEF InDeadlineOrder
  <2>5. /\ Content'[InHeap] = Content[InHeap] \ due /\ Content'[InReady] = Content[InReady] \cup due
        /\ Content'[InInjection] = Content[InInjection]
    BY <2>3, <2>4, ContentNow, EmptyQueue
  <2>6. Moves(Content, Content', InHeap, InReady, due) BY <1>4, <2>5, Places DEF Moves
  <2>7. InHeap # InReady /\ due \subseteq Content[InHeap] BY <2>1, Places, ContentNow
  <2>8. Exact(Content', status') BY <1>0, <1>1, <1>3, <2>6, <2>7, MoveExact
  <2>9. ReadyDrained' BY <1>0, <1>2, <2>3 DEF Goto, ReadyDrained
  <2>10. Tidy' BY <1>1, <2>3, <2>4 DEF Placement, Tidy
  <2> QED BY <2>8, <2>9, <2>10 DEF Placement
<1>7. CASE TimerExecute
  <2>1. /\ injection' = Append(injection, Head(ready)) /\ ready' = Tail(ready) /\ ready # <<>>
        /\ timers' = timers /\ Goto(Timer, "notifyOne")
    BY <1>0, <1>7 DEF TimerExecute, Push
  <2>2. /\ Head(ready) \in Elements(ready) /\ Elements(ready') = Elements(ready) \ {Head(ready)}
        /\ Distinct(ready')
    BY <1>2, <2>1, TailQueue DEF Placement, Tidy
  <2>3. Head(ready) \in Item BY <2>2, ContentItems
  <2>4. Head(ready) \notin Elements(injection)
    BY <1>0, <1>3, <2>2, <2>3, ContentNow, Places DEF Exact
  <2>5. Elements(injection') = Elements(injection) \cup {Head(ready)} /\ Distinct(injection')
    BY <1>2, <2>1, <2>3, <2>4, AppendQueue DEF Placement, Tidy
  <2>6. /\ Content'[InReady] = Content[InReady] \ {Head(ready)} /\ Content'[InHeap] = Content[InHeap]
        /\ Content'[InInjection] = Content[InInjection] \cup {Head(ready)}
    BY <2>1, <2>2, <2>5, ContentNow
  <2>7. Moves(Content, Content', InReady, InInjection, {Head(ready)}) BY <1>4, <2>6, Places DEF Moves
  <2>8. InReady # InInjection /\ {Head(ready)} \subseteq Content[InReady] BY <2>2, Places, ContentNow
  <2>9. Exact(Content', status')
    <3>1. Exact(Content', status) BY <1>0, <1>3, <2>7, <2>8, MoveExact
    <3> QED BY <1>1, <3>1
  <2>10. ReadyDrained' BY <1>0, <1>2, <2>1 DEF Goto, ReadyDrained
  <2>11. Tidy' BY <1>1, <2>2, <2>5 DEF Placement, Tidy
  <2> QED BY <2>9, <2>10, <2>11 DEF Placement
<1> QED BY <1>5, <1>6, <1>7 DEF TimerStep

\* A notification moves no item.
LEMMA PlacementNotify ==
    ASSUME Shape, Placement, NEW t \in Thread, NotifyStep(t)
    PROVE  Placement'
<1>1. UNCHANGED <<local, injection, timers, ready, hand, status>>
  BY NotifyLeaves DEF shared, queues, locals, history
<1>2. pc'[Timer] \notin {"execute", "notifyOne", "wakeOne"}
         => pc[Timer] \notin {"execute", "notifyOne", "wakeOne"}
  <2>1. CASE t = Timer
    <3>1. pc[Timer] \in TimerLabel BY FitsFacts, Kinds DEF LabelOf
    <3> QED BY <2>1, <3>1, NotifyLeaves DEF Return, TimerLabel
  <2>2. CASE t # Timer BY <2>2, NotifyLeaves, Kinds
  <2> QED BY <2>1, <2>2
<1> QED BY <1>1, <1>2, PlacementKept DEF Placement, ReadyDrained

\* Execute() of a fresh item.
LEMMA PlacementPush ==
    ASSUME Shape, Placement, NEW t \in Worker \cup Client, NEW i \in Fresh, Push(t, i),
           status' = [status EXCEPT ![i] = "pending"],
           UNCHANGED <<timers, locals>>
    PROVE  Placement'
<1>0. t \in Thread /\ t # Timer /\ Timer \in Thread BY Kinds
<1>1. /\ local \in [Worker -> Seq(Item)] /\ injection \in Seq(Item) /\ pc \in [Thread -> Label]
      /\ status \in [Item -> {"fresh", "pending", "done", "dropped"}]
      /\ i \in Item /\ status[i] = "fresh"
  BY DEF Shape, TypeOK, Fresh
<1>2. Exact(Content, status) /\ Tidy BY DEF Placement
<1>3. \A p \in Place : i \notin Content[p] BY <1>1, <1>2 DEF Exact
<1>4. status'[i] = "pending" /\ status[i] # "pending" /\ \A j \in Item : j # i => status'[j] = status[j]
  BY <1>1
<1>5. ReadyDrained'
  <2>1. pc'[Timer] = pc[Timer] /\ ready' = ready BY <1>0, <1>1 DEF Push, Goto, locals
  <2> QED BY <2>1 DEF Placement, ReadyDrained
<1>6. /\ Content'[InReady] = Content[InReady] /\ Content'[InHeap] = Content[InHeap]
      /\ \A u \in Thread : Content'[InHand(u)] = Content[InHand(u)]
  BY ContentNow DEF locals
<1>7. CASE t \in Worker
  <2>1. /\ local'[t] = Append(local[t], i) /\ \A v \in Worker : v # t => local'[v] = local[v]
        /\ injection' = injection /\ local[t] \in Seq(Item)
    BY <1>1, <1>7 DEF Push
  <2>2. i \notin Elements(local[t]) BY <1>3, <1>7, ContentNow, Places
  <2>3. Elements(local'[t]) = Elements(local[t]) \cup {i} /\ Distinct(local'[t])
    BY <1>1, <1>2, <1>7, <2>1, <2>2, AppendQueue DEF Tidy
  <2>4. /\ Content'[InLocal(t)] = Content[InLocal(t)] \cup {i}
        /\ Content'[InInjection] = Content[InInjection] /\ InLocal(t) \in Place
    BY <1>7, <2>1, <2>3, ContentNow, Places
  <2>5. ASSUME NEW v \in Worker, v # t PROVE Content'[InLocal(v)] = Content[InLocal(v)]
    <3>1. local'[v] = local[v] BY <2>1, <2>5
    <3> QED BY <3>1, ContentNow
  <2>6. \A r \in Place : r # InLocal(t) => Content'[r] = Content[r] BY <1>6, <2>4, <2>5, Places
  <2>7. Enters(Content, Content', status, status', InLocal(t), i) BY <1>4, <2>4, <2>6 DEF Enters
  <2>9. Exact(Content', status') BY <1>1, <1>2, <2>4, <2>7, EnterExact
  <2>8. Tidy' BY <1>2, <2>1, <2>3 DEF Tidy, locals
  <2> QED BY <1>5, <2>8, <2>9 DEF Placement
<1>8. CASE t \notin Worker
  <2>1. injection' = Append(injection, i) /\ local' = local BY <1>8 DEF Push
  <2>2. i \notin Elements(injection) BY <1>3, ContentNow, Places
  <2>3. Elements(injection') = Elements(injection) \cup {i} /\ Distinct(injection')
    BY <1>1, <1>2, <2>1, <2>2, AppendQueue DEF Tidy
  <2>4. /\ Content'[InInjection] = Content[InInjection] \cup {i} /\ InInjection \in Place
        /\ \A v \in Worker : Content'[InLocal(v)] = Content[InLocal(v)]
    BY <2>1, <2>3, ContentNow, Places
  <2>6. \A r \in Place : r # InInjection => Content'[r] = Content[r] BY <1>6, <2>4, Places
  <2>7. Enters(Content, Content', status, status', InInjection, i) BY <1>4, <2>4, <2>6 DEF Enters
  <2>9. Exact(Content', status') BY <1>1, <1>2, <2>4, <2>7, EnterExact
  <2>8. Tidy' BY <1>2, <2>1, <2>3 DEF Tidy, locals
  <2> QED BY <1>5, <2>8, <2>9 DEF Placement
<1> QED BY <1>7, <1>8

\* The items of S leave the one place they are in.
LEMMA LeaveOne ==
    ASSUME Shape, Placement, NEW p \in Place, NEW S, S \subseteq Content[p], S \subseteq Item,
           Content'[p] = Content[p] \ S, \A r \in Place : r # p => Content'[r] = Content[r],
           \A j \in Item : IF j \in S THEN status'[j] # "pending" ELSE status'[j] = status[j]
    PROVE  Exact(Content', status')
<1>1. Exact(Content, status) BY DEF Placement
<1>2. ASSUME NEW r \in Place, r # p PROVE Content'[r] = Content[r] \ S
  <2>1. Content[r] \ S = Content[r] BY <1>1, <1>2, Elsewhere
  <2> QED BY <1>2, <2>1
<1>3. Leaves(Content, Content', status, status', S) BY <1>2 DEF Leaves
<1> QED BY <1>1, <1>3, LeaveExact

\* An item that returns leaves the hand it was in.
LEMMA PlacementReturn ==
    ASSUME Shape, Placement, NEW t \in Worker \cup Client, InvokeReturns(t)
    PROVE  Placement'
<1>0. t \in Thread /\ t # Timer /\ Timer \in Thread /\ InHand(t) \in Place BY Kinds, Places
<1>1. hand[t] \in Item /\ hand[t] # None
  <2>1. HandFits(t, pc[t], hand[t]) /\ hand[t] \in Item \cup {None} /\ (t \in Worker \/ t \in Client)
    BY <1>0, FitsFacts
  <2> QED BY <2>1 DEF InvokeReturns, HandFits, Calling
<1>2. /\ hand'[t] = None /\ \A u \in Thread : u # t => hand'[u] = hand[u]
      /\ \A j \in Item : IF j \in {hand[t]} THEN status'[j] # "pending" ELSE status'[j] = status[j]
  BY <1>0, <1>1 DEF InvokeReturns, Shape, TypeOK
<1>3. UNCHANGED <<injection, local, timers, ready>> BY DEF InvokeReturns, shared, queues
<1>4. {hand[t]} \subseteq Content[InHand(t)] /\ Content'[InHand(t)] = Content[InHand(t)] \ {hand[t]}
  BY <1>0, <1>1, <1>2, ContentNow
<1>5. ASSUME NEW u \in Thread, u # t PROVE Content'[InHand(u)] = Content[InHand(u)]
  <2>1. hand'[u] = hand[u] BY <1>2, <1>5
  <2> QED BY <2>1, ContentNow
<1>6. /\ Content'[InReady] = Content[InReady] /\ Content'[InHeap] = Content[InHeap]
      /\ Content'[InInjection] = Content[InInjection]
      /\ \A v \in Worker : Content'[InLocal(v)] = Content[InLocal(v)]
  BY <1>3, ContentNow
<1>7. \A r \in Place : r # InHand(t) => Content'[r] = Content[r] BY <1>5, <1>6, Places
<1>8. {hand[t]} \subseteq Item BY <1>1
<1>9. Exact(Content', status') BY <1>0, <1>2, <1>4, <1>7, <1>8, LeaveOne
<1>10. Tidy' BY <1>3 DEF Placement, Tidy
<1>11. pc'[Timer] = pc[Timer] BY <1>0 DEF InvokeReturns, Goto, Shape, TypeOK
<1> QED BY <1>3, <1>9, <1>10, <1>11 DEF Placement, ReadyDrained

\* A client's call accepts an item, takes one, or drops what it clears.
LEMMA PlacementClient ==
    ASSUME Shape, Placement, NEW c \in Client, ClientCall(c) \/ ClientStep(c)
    PROVE  Placement'
<1>0. /\ c \in Thread /\ c \notin Worker /\ c # Timer /\ Timer \in Thread
      /\ InHeap \in Place /\ InReady \in Place /\ InInjection \in Place
  BY Kinds, Places
<1>1. HandFits(c, pc[c], hand[c]) /\ OffsetFits(c, pc[c], scan[c].offset) BY <1>0, FitsFacts
<1>2. /\ local \in [Worker -> Seq(Item)] /\ injection \in Seq(Item) /\ pc \in [Thread -> Label]
      /\ status \in [Item -> {"fresh", "pending", "done", "dropped"}]
  BY DEF Shape, TypeOK
<1>3. Exact(Content, status) /\ Tidy /\ ReadyDrained BY DEF Placement
<1>4. ready' = ready /\ pc'[Timer] = pc[Timer]
  <2>1. ready' = ready /\ \E l : Goto(c, l)
    BY DEF ClientCall, ClientStep, Submit, Push, SubmitAt, Schedule, RunOne, CancelAll, Destroy,
           ClearLocal, ClearTimers, Join, ClearAll, locals
  <2> QED BY <1>0, <1>2, <2>1 DEF Goto
<1>5. ReadyDrained' BY <1>3, <1>4 DEF ReadyDrained
<1>6. \A S : \A j \in Item : IF j \in S THEN Drop(S)[j] # "pending" ELSE Drop(S)[j] = status[j]
  BY DEF Drop
<1>7. ASSUME NEW i \in Item, Submit(c, i) PROVE Placement'
  BY <1>7, PlacementPush DEF Submit
<1>8. ASSUME NEW i \in Item, NEW at \in 0..MaxTime, SubmitAt(c, i, at) PROVE Placement'
  <2>1. /\ timers' = timers \cup {i} /\ UNCHANGED <<local, injection, hand>> /\ status[i] = "fresh"
        /\ status' = [status EXCEPT ![i] = "pending"]
    BY <1>8 DEF SubmitAt, Schedule, Fresh, locals
  <2>2. /\ Content'[InReady] = Content[InReady] /\ Content'[InHeap] = Content[InHeap] \cup {i}
        /\ Content'[InInjection] = Content[InInjection]
        /\ \A v \in Worker : Content'[InLocal(v)] = Content[InLocal(v)]
        /\ \A u \in Thread : Content'[InHand(u)] = Content[InHand(u)]
    BY <1>4, <2>1, ContentNow
  <2>3. \A r \in Place : r # InHeap => Content'[r] = Content[r] BY <2>2, Places
  <2>4. status'[i] = "pending" /\ \A j \in Item : j # i => status'[j] = status[j] BY <1>2, <2>1
  <2>5. Enters(Content, Content', status, status', InHeap, i) BY <2>1, <2>2, <2>3, <2>4 DEF Enters
  <2>6. Exact(Content', status') BY <1>0, <1>3, <2>5, EnterExact
  <2> QED BY <1>3, <1>4, <1>5, <2>1, <2>6 DEF Placement, Tidy
<1>9. CASE RunOne(c)
  <2>1. /\ injection # <<>> /\ injection' = Tail(injection) /\ hand' = [hand EXCEPT ![c] = Head(injection)]
        /\ UNCHANGED <<local, timers, status>> /\ hand[c] = None
    BY <1>0, <1>1, <1>9 DEF RunOne, CanCall, HandFits, Calling, history
  <2>2. /\ Head(injection) \in Elements(injection) /\ Distinct(injection')
        /\ Elements(injection') = Elements(injection) \ {Head(injection)}
    BY <1>2, <1>3, <2>1, TailQueue DEF Tidy
  <2>3. Head(injection) \in Item BY <2>2, ContentItems
  <2>4. /\ Head(injection) \in Content[InInjection]
        /\ Content'[InInjection] = Content[InInjection] \ {Head(injection)}
    BY <2>2, ContentNow
  <2>5. /\ Content'[InReady] = Content[InReady] /\ Content'[InHeap] = Content[InHeap]
        /\ \A u \in Worker : Content'[InLocal(u)] = Content[InLocal(u)]
    BY <1>4, <2>1, ContentNow
  <2>6. \A r \in Place : r # InInjection /\ (\A u \in Thread : r # InHand(u)) => Content'[r] = Content[r]
    BY <2>5, Places
  <2>7. \A u \in Thread : InInjection # InHand(u) BY Places
  <2>8. Exact(Content', status') BY <1>0, <2>1, <2>3, <2>4, <2>6, <2>7, TakeExact
  <2> QED BY <1>3, <1>4, <1>5, <2>1, <2>2, <2>8 DEF Placement, Tidy
<1>10. CASE CancelAll(c)
  <2>1. /\ injection' = <<>> /\ UNCHANGED <<local, timers, hand>> /\ status' = Drop(Elements(injection))
    BY <1>10 DEF CancelAll
  <2>2. /\ Elements(injection) \subseteq Content[InInjection] /\ Elements(injection) \subseteq Item
        /\ Content'[InInjection] = Content[InInjection] \ Elements(injection)
    BY <2>1, ContentNow, EmptyQueue, ContentItems
  <2>3. /\ Content'[InReady] = Content[InReady] /\ Content'[InHeap] = Content[InHeap]
        /\ \A v \in Worker : Content'[InLocal(v)] = Content[InLocal(v)]
        /\ \A u \in Thread : Content'[InHand(u)] = Content[InHand(u)]
    BY <1>4, <2>1, ContentNow
  <2>4. \A r \in Place : r # InInjection => Content'[r] = Content[r] BY <2>3, Places
  <2>5. Exact(Content', status')
    <3>1. \A j \in Item : IF j \in Elements(injection) THEN status'[j] # "pending" ELSE status'[j] = status[j]
      BY <1>6, <2>1
    <3> QED BY <1>0, <2>2, <2>4, <3>1, LeaveOne
  <2> QED BY <1>3, <1>4, <1>5, <2>1, <2>5, EmptyQueue DEF Placement, Tidy
<1>11. CASE ClearLocal(c)
  <2> DEFINE w == scan[c].offset
  <2>1. w \in Worker /\ InLocal(w) \in Place BY <1>1, <1>11, Places DEF ClearLocal, OffsetFits
  <2>2. /\ local' = [local EXCEPT ![w] = <<>>] /\ UNCHANGED <<injection, timers, hand>>
        /\ status' = Drop(Elements(local[w]))
    BY <1>11 DEF ClearLocal
  <2> HIDE DEF w
  <2>3. local'[w] = <<>> /\ \A v \in Worker : v # w => local'[v] = local[v] BY <1>2, <2>1, <2>2
  <2>4. /\ Elements(local[w]) \subseteq Content[InLocal(w)] /\ Elements(local[w]) \subseteq Item
        /\ Content'[InLocal(w)] = Content[InLocal(w)] \ Elements(local[w])
    BY <2>1, <2>3, ContentNow, EmptyQueue, ContentItems
  <2>5. /\ Content'[InReady] = Content[InReady] /\ Content'[InHeap] = Content[InHeap]
        /\ Content'[InInjection] = Content[InInjection]
        /\ \A u \in Thread : Content'[InHand(u)] = Content[InHand(u)]
    BY <1>4, <2>2, ContentNow
  <2>6. ASSUME NEW v \in Worker, v # w PROVE Content'[InLocal(v)] = Content[InLocal(v)]
    <3>1. local'[v] = local[v] BY <2>3, <2>6
    <3> QED BY <3>1, ContentNow
  <2>7. \A r \in Place : r # InLocal(w) => Content'[r] = Content[r] BY <2>5, <2>6, Places
  <2>8. Exact(Content', status')
    <3>1. \A j \in Item : IF j \in Elements(local[w]) THEN status'[j] # "pending" ELSE status'[j] = status[j]
      BY <1>6, <2>2
    <3> QED BY <2>1, <2>4, <2>7, <3>1, LeaveOne
  <2>9. Tidy' BY <1>3, <1>4, <2>2, <2>3, EmptyQueue DEF Tidy
  <2> QED BY <1>5, <2>8, <2>9 DEF Placement
<1>12. CASE ClearTimers(c)
  <2>1. timers' = {} /\ UNCHANGED <<local, injection, hand>> /\ status' = Drop(timers)
    BY <1>12 DEF ClearTimers, locals
  <2>2. timers \subseteq Content[InHeap] /\ timers \subseteq Item /\ Content'[InHeap] = Content[InHeap] \ timers
    BY <2>1, ContentNow, ContentItems
  <2>3. /\ Content'[InReady] = Content[InReady] /\ Content'[InInjection] = Content[InInjection]
        /\ \A v \in Worker : Content'[InLocal(v)] = Content[InLocal(v)]
        /\ \A u \in Thread : Content'[InHand(u)] = Content[InHand(u)]
    BY <1>4, <2>1, ContentNow
  <2>4. \A r \in Place : r # InHeap => Content'[r] = Content[r] BY <2>3, Places
  <2>5. Exact(Content', status') BY <1>0, <1>6, <2>1, <2>2, <2>4, LeaveOne
  <2> QED BY <1>3, <1>4, <1>5, <2>1, <2>5 DEF Placement, Tidy
<1>13. CASE Destroy(c)
  <2>1. UNCHANGED <<local, injection, timers, hand, status>> BY <1>13 DEF Destroy, queues, locals, history
  <2> QED BY <1>4, <1>5, <2>1, PlacementKept
<1>14. CASE Join(c)
  <2>1. /\ local' = [w \in Worker |-> <<>>] /\ injection' = <<>> /\ timers' = {} /\ hand' = hand
        /\ status' = Drop(Queued \cup timers)
    BY <1>14 DEF Join, ClearAll, locals
  <2> DEFINE S == Queued \cup timers
  <2>2. /\ Content[InInjection] \subseteq S /\ Content[InHeap] \subseteq S
        /\ \A w \in Worker : Content[InLocal(w)] \subseteq S
    BY ContentNow DEF Queued
  <2>3. \A i \in S : i \in Item /\ \E p \in Place : /\ p = InInjection \/ p = InHeap \/ \E w \in Worker : p = InLocal(w)
                                                   /\ i \in Content[p]
    BY ContentNow, ContentItems, Places DEF Queued
  <2> HIDE DEF S
  <2>4. /\ Content'[InInjection] = {} /\ Content'[InHeap] = {} /\ Content'[InReady] = Content[InReady]
        /\ \A w \in Worker : Content'[InLocal(w)] = {}
        /\ \A t \in Thread : Content'[InHand(t)] = Content[InHand(t)]
    BY <1>4, <2>1, ContentNow, EmptyQueue
  <2>5. ASSUME NEW i \in S PROVE i \notin Content[InReady] /\ \A t \in Thread : i \notin Content[InHand(t)]
    BY <1>0, <1>3, <2>3, Places DEF Exact
  <2>6. \A r \in Place : Content'[r] = Content[r] \ S BY <2>2, <2>4, <2>5, Places
  <2>7. Leaves(Content, Content', status, status', S) BY <1>6, <2>1, <2>6 DEF Leaves, S
  <2>8. Exact(Content', status') BY <1>3, <2>7, LeaveExact
  <2>9. Tidy' BY <1>3, <1>4, <2>1, EmptyQueue DEF Tidy
  <2> QED BY <1>5, <2>8, <2>9 DEF Placement
<1> QED BY <1>7, <1>8, <1>9, <1>10, <1>11, <1>12, <1>13, <1>14 DEF ClientCall, ClientStep

\* Every step keeps every pending item in one place.
LEMMA PlacementStep ==
    ASSUME Shape, Placement, [Next]_vars
    PROVE  Placement'
<1>1. CASE UNCHANGED vars \/ Tick
  <2>1. UNCHANGED <<local, injection, timers, ready, hand, status, pc>>
    BY <1>1 DEF vars, Tick, shared, queues, locals, history
  <2> QED BY <2>1, PlacementKept DEF Placement, ReadyDrained
<1>2. ASSUME NEW t \in Worker \cup Client, NEW i \in Item, InvokeSubmits(t, i) PROVE Placement'
  BY <1>2, PlacementPush DEF InvokeSubmits
<1> QED
  BY <1>1, <1>2, PlacementWorker, PlacementTimer, PlacementNotify, PlacementReturn, PlacementClient DEF Next

\* At first there is no item anywhere.
LEMMA PlacementInit == Init => Placement
<1> SUFFICES ASSUME Init PROVE Placement OBVIOUS
<1>1. /\ injection = <<>> /\ ready = <<>> /\ timers = {} /\ \A w \in Worker : local[w] = <<>>
      /\ \A t \in Thread : hand[t] = None
  BY DEF Init
<1>2. \A p \in Place : Content[p] = {} BY <1>1, ContentNow, EmptyQueue, Places
<1>3. \A i \in Item : status[i] # "pending" BY DEF Init
<1>4. Exact(Content, status) BY <1>2, <1>3 DEF Exact
<1> QED BY <1>1, <1>4, EmptyQueue DEF Placement, Tidy, ReadyDrained

-----------------------------------------------------------------------------
(* Counting.                                                                *)

\* The cardinality of a set in which all elements are equal.
LEMMA AtMostOneElement ==
    ASSUME NEW S, \A a, b \in S : a = b
    PROVE  Cardinality(S) = IF S = {} THEN 0 ELSE 1
<1>1. CASE S = {} BY <1>1, FS_EmptySet
<1>2. CASE S # {}
  <2>1. PICK a \in S : TRUE BY <1>2
  <2>2. S = {a} BY <2>1
  <2> QED BY <1>2, <2>2, FS_Singleton
<1> QED BY <1>1, <1>2

\* An item occurs in a queue without repetitions once or not at all.
LEMMA CountDistinct ==
    ASSUME NEW s \in Seq(Item), Distinct(s), NEW i \in Item
    PROVE  Count(s, i) = IF i \in Elements(s) THEN 1 ELSE 0
<1> DEFINE S == {k \in 1..Len(s) : s[k] = i}
<1>1. \A a, b \in S : a = b BY DEF Distinct
<1>2. S = {} <=> i \notin Elements(s) BY DEF Elements
<1>3. Cardinality(S) = IF S = {} THEN 0 ELSE 1
  <2> HIDE DEF S
  <2> QED BY <1>1, AtMostOneElement
<1> QED BY <1>2, <1>3 DEF Count

\* The parts of Occurrences(), each of which is 0 or 1.
LEMMA OccurrencesAre ==
    ASSUME Shape, Placement, NEW i \in Item
    PROVE  Occurrences(i) = (IF i \in Content[InInjection] THEN 1 ELSE 0)
                          + (IF i \in Content[InReady] THEN 1 ELSE 0)
                          + (IF i \in Content[InHeap] THEN 1 ELSE 0)
                          + (IF \E t \in Thread : i \in Content[InHand(t)] THEN 1 ELSE 0)
                          + (IF \E w \in Worker : i \in Content[InLocal(w)] THEN 1 ELSE 0)
<1>1. /\ injection \in Seq(Item) /\ ready \in Seq(Item) /\ local \in [Worker -> Seq(Item)]
      /\ hand \in [Thread -> Item \cup {None}] /\ i # None
  BY NoneAssumption DEF Shape, TypeOK
<1>2. Tidy /\ Exact(Content, status) BY DEF Placement
<1>3. Count(injection, i) = IF i \in Content[InInjection] THEN 1 ELSE 0
  BY <1>1, <1>2, CountDistinct, ContentNow DEF Tidy
<1>4. Count(ready, i) = IF i \in Content[InReady] THEN 1 ELSE 0
  BY <1>1, <1>2, CountDistinct, ContentNow DEF Tidy
<1>5. Cardinality({i} \cap timers) = IF i \in Content[InHeap] THEN 1 ELSE 0
  <2>1. \A a, b \in {i} \cap timers : a = b OBVIOUS
  <2>2. {i} \cap timers = {} <=> i \notin Content[InHeap] BY ContentNow
  <2>3. Cardinality({i} \cap timers) = IF {i} \cap timers = {} THEN 0 ELSE 1 BY <2>1, AtMostOneElement
  <2> QED BY <2>2, <2>3
<1>6. Cardinality({t \in Thread : hand[t] = i})
        = IF \E t \in Thread : i \in Content[InHand(t)] THEN 1 ELSE 0
  <2> DEFINE S == {t \in Thread : hand[t] = i}
  <2>1. \A t \in Thread : t \in S <=> i \in Content[InHand(t)] BY <1>1, ContentNow
  <2>2. S \subseteq Thread OBVIOUS
  <2> HIDE DEF S
  <2>3. \A a, b \in S : a = b BY <1>2, <2>1, <2>2, Places DEF Exact
  <2>4. Cardinality(S) = IF S = {} THEN 0 ELSE 1 BY <2>3, AtMostOneElement
  <2>5. S = {} <=> ~ \E t \in Thread : i \in Content[InHand(t)] BY <2>1, <2>2
  <2>6. Cardinality(S) = IF \E t \in Thread : i \in Content[InHand(t)] THEN 1 ELSE 0 BY <2>4, <2>5
  <2> QED BY <2>6 DEF S
<1>7. Cardinality(UNION {{<<w, k>> : k \in {j \in 1..Len(local[w]) : local[w][j] = i}} : w \in Worker})
        = IF \E w \in Worker : i \in Content[InLocal(w)] THEN 1 ELSE 0
  <2> DEFINE S == UNION {{<<w, k>> : k \in {j \in 1..Len(local[w]) : local[w][j] = i}} : w \in Worker}
  <2>1. \A a \in S : \E w \in Worker : \E k \in 1..Len(local[w]) : a = <<w, k>> /\ local[w][k] = i OBVIOUS
  <2>2. \A w \in Worker : \A k \in 1..Len(local[w]) : local[w][k] = i => <<w, k>> \in S OBVIOUS
  <2> HIDE DEF S
  <2>3. \A w \in Worker : i \in Content[InLocal(w)] <=> \E k \in 1..Len(local[w]) : local[w][k] = i
    BY ContentNow DEF Elements
  <2>4. \A a, b \in S : a = b
    <3> SUFFICES ASSUME NEW a \in S, NEW b \in S PROVE a = b OBVIOUS
    <3>a. PICK w \in Worker : \E k \in 1..Len(local[w]) : a = <<w, k>> /\ local[w][k] = i BY <2>1
    <3>b. PICK v \in Worker : \E l \in 1..Len(local[v]) : b = <<v, l>> /\ local[v][l] = i BY <2>1
    <3>1. PICK k \in 1..Len(local[w]) : a = <<w, k>> /\ local[w][k] = i BY <3>a
    <3>2. PICK l \in 1..Len(local[v]) : b = <<v, l>> /\ local[v][l] = i BY <3>b
    <3>3. i \in Content[InLocal(w)] /\ i \in Content[InLocal(v)] BY <2>3, <3>1, <3>2
    <3>4. w = v BY <1>2, <3>3, Places DEF Exact
    <3>5. Distinct(local[w]) BY <1>2 DEF Tidy
    <3>6. k = l BY <3>1, <3>2, <3>4, <3>5 DEF Distinct
    <3> QED BY <3>1, <3>2, <3>4, <3>6
  <2>5. Cardinality(S) = IF S = {} THEN 0 ELSE 1 BY <2>4, AtMostOneElement
  <2>6. S = {} <=> ~ \E w \in Worker : i \in Content[InLocal(w)] BY <2>1, <2>2, <2>3
  <2>7. Cardinality(S) = IF \E w \in Worker : i \in Content[InLocal(w)] THEN 1 ELSE 0 BY <2>5, <2>6
  <2> QED BY <2>7 DEF S
<1> QED BY <1>3, <1>4, <1>5, <1>6, <1>7 DEF Occurrences

\* To be in one place is to be counted once.
LEMMA ExactCounts ==
    ASSUME Shape, Placement
    PROVE  ExactlyOnce
<1> SUFFICES ASSUME NEW i \in Item
             PROVE  Occurrences(i) = IF status[i] = "pending" THEN 1 ELSE 0
  BY DEF ExactlyOnce
<1> DEFINE A == i \in Content[InInjection]
           B == i \in Content[InReady]
           C == i \in Content[InHeap]
           D == \E t \in Thread : i \in Content[InHand(t)]
           E == \E w \in Worker : i \in Content[InLocal(w)]
<1>1. Exact(Content, status) BY DEF Placement
<1>2. ~(A /\ B) /\ ~(A /\ C) /\ ~(A /\ D) /\ ~(A /\ E) /\ ~(B /\ C) BY <1>1, Places DEF Exact
<1>3. ~(B /\ D) /\ ~(B /\ E) /\ ~(C /\ D) /\ ~(C /\ E) /\ ~(D /\ E) BY <1>1, Places DEF Exact
<1>4. status[i] = "pending" <=> A \/ B \/ C \/ D \/ E BY <1>1, Places DEF Exact
<1>5. Occurrences(i) = (IF A THEN 1 ELSE 0) + (IF B THEN 1 ELSE 0) + (IF C THEN 1 ELSE 0)
                       + (IF D THEN 1 ELSE 0) + (IF E THEN 1 ELSE 0)
  BY OccurrencesAre
<1> HIDE DEF A, B, C, D, E
<1> QED BY <1>2, <1>3, <1>4, <1>5

\* Work is neither lost nor duplicated: whatever the workers, the timer thread,
\* stealing, CancelAll() and the destructor do, an accepted item is in exactly
\* one queue or hand until it has run or was dropped.
THEOREM PoolExactlyOnce == Spec => []ExactlyOnce
<1>1. Init => Shape /\ Placement BY ShapeInit, PlacementInit
<1>2. Shape /\ Placement /\ [Next]_vars => (Shape /\ Placement)' BY ShapeStep, PlacementStep
<1>3. Shape /\ Placement => ExactlyOnce BY ExactCounts
<1> QED BY <1>1, <1>2, <1>3, PTL DEF Spec

\* At the end nobody holds an item and no queue has one.
LEMMA ShutdownIsClean ==
    ASSUME Shape, Ending, Placement
    PROVE  CleanShutdown
<1> SUFFICES ASSUME NEW c \in Client, pc[c] = "destroyed"
             PROVE  /\ \A i \in Item : status[i] # "pending"
                    /\ \A t \in Worker \cup {Timer} : pc[t] = "exited"
  BY DEF CleanShutdown
<1>1. Gone /\ stop BY DEF Ending, Alone
<1>2. ready = <<>> BY <1>1 DEF Gone, Placement, ReadyDrained
<1>3. ASSUME NEW t \in Thread PROVE hand[t] = None
  <2>1. HandFits(t, pc[t], hand[t]) BY FitsFacts
  <2>2. t \in Client => pc[t] \in Notifying \cup {"idle", "join", "destroyed"} BY <1>1 DEF Ending, Alone
  <2>3. t \in Worker => pc[t] = "exited" BY <1>1 DEF Gone
  <2> QED BY <2>1, <2>2, <2>3, Kinds DEF HandFits, Calling, Notifying
<1>4. \A p \in Place : Content[p] = {}
  BY <1>1, <1>2, <1>3, ContentNow, EmptyQueue, Places DEF Gone
<1>5. \A i \in Item : status[i] # "pending" BY <1>4 DEF Placement, Exact
<1> QED BY <1>1, <1>5 DEF Gone

\* When the destructor returns, every thread of the pool has ended and no
\* accepted item is left behind.
THEOREM PoolCleanShutdown == Spec => []CleanShutdown
<1>1. Init => Shape /\ Ending /\ Placement BY ShapeInit, EndingInit, PlacementInit
<1>2. Shape /\ Ending /\ Placement /\ [Next]_vars => (Shape /\ Ending /\ Placement)'
  BY ShapeStep, EndingStep, PlacementStep
<1>3. Shape /\ Ending /\ Placement => CleanShutdown BY ShutdownIsClean
<1> QED BY <1>1, <1>2, <1>3, PTL DEF Spec

-----------------------------------------------------------------------------
(* What a worker that is about to sleep has seen.                           *)

\* A generation is about to be bumped: whoever reads it now will not sleep.
Bumping == \E t \in Thread : pc[t] \in {"notifyOne", "notifyAll"}

\* The workers whose queues w has found empty in this TryDequeueAny().
Seen(w, o) == {w} \cup {v \in Worker : \E k \in 1..(o - 1) : v = ((w - 1 + k) % NumWorkers) + 1}

SearchedBy(w) ==
    /\ pc[w] = "inject" => local[w] = <<>>
    /\ pc[w] = "steal" => injection = <<>> /\ \A v \in Seen(w, scan[w].offset) : local[v] = <<>>
    /\ pc[w] \in {"recheck", "wait"} => Queued = {}

\* As long as no notification came since w read the generation, what it has
\* seen is still so.
Searched == \A w \in Worker : w \in current /\ ~Bumping => SearchedBy(w)

\* An empty queue stays empty.
QueuesShrink ==
    (injection = <<>> => injection' = <<>>) /\ \A v \in Worker : local[v] = <<>> => local'[v] = <<>>

\* A step of t that adds no work and leaves the searches of the others alone.
Quiet(t) ==
    /\ QueuesShrink
    /\ pc[t] \notin {"notifyOne", "notifyAll"}
    /\ \A u \in Thread : u # t => pc'[u] = pc[u] \/ (pc[u] = "parked" /\ pc'[u] = "check")
    /\ \A w \in Worker : w # t => scan'[w] = scan[w] /\ (w \in current' => w \in current)

\* A quiet step ends no notification that is about to be made.
LEMMA BumpKept ==
    ASSUME NEW t \in Thread, Quiet(t), ~Bumping'
    PROVE  ~Bumping
BY DEF Quiet, Bumping

\* Queued is empty when every queue is, and only then.
LEMMA NothingQueued ==
    ASSUME Shape
    PROVE  Queued = {} <=> injection = <<>> /\ \A w \in Worker : local[w] = <<>>
<1>1. ASSUME NEW s \in Seq(Item) PROVE Elements(s) = {} <=> s = <<>>
  <2>1. CASE s = <<>> BY <2>1 DEF Elements
  <2>2. CASE s # <<>>
    <3>1. 1 \in 1..Len(s) BY <2>2
    <3> QED BY <2>2, <3>1 DEF Elements
  <2> QED BY <2>1, <2>2
<1>2. injection \in Seq(Item) /\ \A w \in Worker : local[w] \in Seq(Item) BY DEF Shape, TypeOK
<1>3. (Elements(injection) = {} <=> injection = <<>>) /\ \A w \in Worker : Elements(local[w]) = {} <=> local[w] = <<>>
  BY <1>1, <1>2
<1> QED BY <1>3 DEF Queued

\* The remainders that TryDequeueAny() computes.
LEMMA Remainders ==
    ASSUME NEW n \in Nat \ {0}, NEW a \in 0..(n - 1)
    PROVE  a % n = a /\ (a + n) % n = a
OBVIOUS

\* After NumWorkers - 1 victims every queue has been looked at.
LEMMA AllSeen ==
    ASSUME NEW w \in Worker, NEW o \in Nat, o >= NumWorkers, NEW v \in Worker
    PROVE  v \in Seen(w, o)
<1>0. NumWorkers \in Nat \ {0} /\ w \in 1..NumWorkers /\ v \in 1..NumWorkers BY Kinds
<1>1. CASE v = w BY <1>1 DEF Seen
<1>2. CASE v > w
  <2>1. v - w \in 1..(o - 1) /\ v - 1 \in 0..(NumWorkers - 1) /\ w - 1 + (v - w) = v - 1 BY <1>0, <1>2
  <2>2. (v - 1) % NumWorkers = v - 1 BY <1>0, <2>1, Remainders
  <2>3. v = ((w - 1 + (v - w)) % NumWorkers) + 1 BY <1>0, <2>1, <2>2
  <2> QED BY <2>1, <2>3 DEF Seen
<1>3. CASE v < w
  <2>1. /\ v - w + NumWorkers \in 1..(o - 1) /\ v - 1 \in 0..(NumWorkers - 1)
        /\ w - 1 + (v - w + NumWorkers) = (v - 1) + NumWorkers
    BY <1>0, <1>3
  <2>2. ((v - 1) + NumWorkers) % NumWorkers = v - 1 BY <1>0, <2>1, Remainders
  <2>3. v = ((w - 1 + (v - w + NumWorkers)) % NumWorkers) + 1 BY <1>0, <2>1, <2>2
  <2> QED BY <2>1, <2>3 DEF Seen
<1> QED BY <1>0, <1>1, <1>2, <1>3

\* One victim more.
LEMMA SeenNext ==
    ASSUME NEW w \in Worker, scan[w].offset \in Nat \ {0}, NEW v \in Seen(w, scan[w].offset + 1)
    PROVE  v \in Seen(w, scan[w].offset) \/ v = Victim(w)
<1>1. CASE v = w BY <1>1 DEF Seen
<1>2. CASE v # w
  <2>1. PICK k \in 1..(scan[w].offset + 1 - 1) : v \in Worker /\ v = ((w - 1 + k) % NumWorkers) + 1
    BY <1>2 DEF Seen
  <2>2. k \in 1..(scan[w].offset - 1) \/ k = scan[w].offset BY <2>1
  <2> QED BY <2>1, <2>2 DEF Seen, Victim
<1> QED BY <1>1, <1>2

\* After a quiet step of another thread, what w has seen is still so.
LEMMA QuietOthers ==
    ASSUME Shape, Shape', Searched, NEW t \in Thread, Quiet(t), ~Bumping',
           NEW w \in Worker, w # t, w \in current'
    PROVE  SearchedBy(w)'
<1>1. SearchedBy(w) BY BumpKept DEF Searched, Quiet
<1>2. w \in Thread /\ scan'[w] = scan[w] BY Kinds DEF Quiet
<1>3. CASE pc'[w] = "inject"
  <2>1. pc[w] = "inject" BY <1>2, <1>3 DEF Quiet
  <2> QED BY <1>1, <1>3, <2>1 DEF SearchedBy, Quiet, QueuesShrink
<1>4. CASE pc'[w] = "steal"
  <2>1. pc[w] = "steal" BY <1>2, <1>4 DEF Quiet
  <2>2. injection = <<>> /\ \A v \in Seen(w, scan[w].offset) : local[v] = <<>> BY <1>1, <2>1 DEF SearchedBy
  <2>3. \A v \in Seen(w, scan[w].offset) : v \in Worker BY DEF Seen
  <2>4. injection' = <<>> /\ \A v \in Seen(w, scan'[w].offset) : local'[v] = <<>>
    BY <1>2, <2>2, <2>3 DEF Quiet, QueuesShrink
  <2> QED BY <1>4, <2>4 DEF SearchedBy
<1>5. CASE pc'[w] \in {"recheck", "wait"}
  <2>1. pc[w] \in {"recheck", "wait"} BY <1>2, <1>5 DEF Quiet
  <2>2. injection = <<>> /\ \A v \in Worker : local[v] = <<>> BY <1>1, <2>1, NothingQueued DEF SearchedBy
  <2>3. injection' = <<>> /\ \A v \in Worker : local'[v] = <<>> BY <2>2 DEF Quiet, QueuesShrink
  <2>4. Queued' = {} BY <2>3, EmptyQueue DEF Queued
  <2> QED BY <1>5, <2>4 DEF SearchedBy
<1> QED BY <1>3, <1>4, <1>5 DEF SearchedBy

\* The steps of a worker are quiet.
LEMMA WorkerQuiet ==
    ASSUME Shape, NEW w \in Worker, WorkerStep(w)
    PROVE  Quiet(w)
<1>0. w \in Thread BY Kinds
<1>1. local \in [Worker -> Seq(Item)] /\ scan \in [Thread -> [call : {1, 2}, offset : 1..(NumWorkers + 1)]]
  BY DEF Shape, TypeOK
<1>2. \A u \in Thread : u # w => pc'[u] = pc[u] BY WorkerLeaves
<1>3. pc[w] \notin {"notifyOne", "notifyAll"}
  BY DEF WorkerStep, WorkerCheck, WorkerPop, WorkerInject, WorkerSteal, StealLeaving, WorkerNoSteal,
         WorkerLoad, Load, WorkerRecheck, WorkerWait
<1>4. /\ \A v \in Worker : v # w => (v \in current' => v \in current)
      /\ scan' = scan \/ \E x : scan' = [scan EXCEPT ![w] = x]
  BY DEF WorkerStep, WorkerCheck, WorkerPop, WorkerInject, WorkerSteal, StealLeaving, WorkerNoSteal,
         WorkerLoad, Load, WorkerRecheck, WorkerWait, Sleep, locals
<1>5. \A v \in Worker : v # w => scan'[v] = scan[v] BY <1>0, <1>1, <1>4, Kinds
<1>6. QueuesShrink
  <2>1. CASE UNCHANGED <<local, injection>> BY <2>1 DEF QueuesShrink
  <2>2. CASE WorkerPop(w) /\ local[w] # <<>> BY <1>1, <2>2 DEF WorkerPop, QueuesShrink
  <2>3. CASE WorkerInject(w) /\ injection # <<>> BY <2>3 DEF WorkerInject, QueuesShrink
  <2>4. CASE WorkerSteal(w) BY <1>1, <2>4 DEF WorkerSteal, StealLeaving, QueuesShrink
  <2> QED
    BY <2>1, <2>2, <2>3, <2>4
    DEF WorkerStep, WorkerCheck, WorkerPop, WorkerInject, WorkerNoSteal, WorkerLoad, Load,
        WorkerRecheck, WorkerWait, Sleep, shared, queues
<1> QED BY <1>2, <1>3, <1>4, <1>5, <1>6 DEF Quiet

\* A worker's search makes progress.
LEMMA WorkerSearches ==
    ASSUME Shape, Shape', Searched, NEW w \in Worker, WorkerStep(w), ~Bumping', w \in current'
    PROVE  SearchedBy(w)'
<1>0. w \in Thread BY Kinds
<1>1. pc \in [Thread -> Label] /\ scan \in [Thread -> [call : {1, 2}, offset : 1..(NumWorkers + 1)]]
  BY DEF Shape, TypeOK
<1>2. Quiet(w) /\ ~Bumping BY <1>0, WorkerQuiet, BumpKept
<1>3. OffsetFits(w, pc[w], scan[w].offset) /\ scan[w].offset \in Nat \ {0} BY <1>0, FitsFacts, Kinds
<1>4. CASE WorkerCheck(w) BY <1>4 DEF WorkerCheck
<1>5. CASE WorkerLoad(w)
  <2>1. pc'[w] = "pop" BY <1>0, <1>1, <1>5 DEF WorkerLoad, Load, Goto
  <2> QED BY <2>1 DEF SearchedBy
<1>6. CASE WorkerPop(w)
  <2>1. CASE local[w] # <<>>
    <3>1. pc'[w] = "run" BY <1>0, <1>1, <1>6, <2>1 DEF WorkerPop, Take, Goto
    <3> QED BY <3>1 DEF SearchedBy
  <2>2. CASE local[w] = <<>>
    <3>1. pc'[w] = "inject" /\ local' = local BY <1>0, <1>1, <1>6, <2>2 DEF WorkerPop, Goto
    <3> QED BY <2>2, <3>1 DEF SearchedBy
  <2> QED BY <2>1, <2>2
<1>7. CASE WorkerInject(w)
  <2>1. CASE injection # <<>>
    <3>1. pc'[w] = "run" BY <1>0, <1>1, <1>7, <2>1 DEF WorkerInject, Take, Goto
    <3> QED BY <3>1 DEF SearchedBy
  <2>2. CASE injection = <<>>
    <3>1. pc'[w] = "steal" /\ local' = local /\ injection' = injection /\ scan' = scan /\ current' = current
      BY <1>0, <1>1, <1>7, <2>2 DEF WorkerInject, Goto
    <3>2. local[w] = <<>> /\ scan[w].offset = 1
      BY <1>2, <1>3, <1>7, <3>1 DEF WorkerInject, Searched, SearchedBy, OffsetFits
    <3>3. \A v \in Seen(w, 1) : v = w BY DEF Seen
    <3>4. \A v \in Seen(w, scan'[w].offset) : local'[v] = <<>> BY <3>1, <3>2, <3>3
    <3> QED BY <2>2, <3>1, <3>4 DEF SearchedBy
  <2> QED BY <2>1, <2>2
<1>8. CASE WorkerSteal(w)
  <2>1. pc'[w] = "run" BY <1>0, <1>1, <1>8 DEF WorkerSteal, StealLeaving, Take, Goto
  <2> QED BY <2>1 DEF SearchedBy
<1>9. CASE WorkerNoSteal(w)
  <2>1. /\ pc[w] = "steal" /\ UNCHANGED <<local, injection, current>>
        /\ scan[w].offset < NumWorkers => local[Victim(w)] = <<>>
    BY <1>9 DEF WorkerNoSteal, shared, queues
  <2>2. scan'[w].offset = scan[w].offset + 1 BY <1>0, <1>1, <1>9 DEF WorkerNoSteal
  <2>3. injection = <<>> /\ \A v \in Seen(w, scan[w].offset) : local[v] = <<>>
    BY <1>2, <2>1 DEF Searched, SearchedBy
  <2>4. ASSUME scan[w].offset < NumWorkers PROVE \A v \in Seen(w, scan'[w].offset) : local'[v] = <<>>
    BY <1>3, <2>1, <2>2, <2>3, <2>4, SeenNext
  <2>5. pc'[w] = IF scan[w].offset + 1 < NumWorkers THEN "steal"
                 ELSE IF scan[w].call = 1 THEN "load" ELSE "recheck"
    BY <1>0, <1>1, <1>9 DEF WorkerNoSteal, Goto
  <2>6. CASE pc'[w] = "steal"
    <3>1. scan[w].offset < NumWorkers BY <1>3, <2>5, <2>6, Kinds
    <3> QED BY <2>1, <2>3, <2>4, <2>6, <3>1 DEF SearchedBy
  <2>7. CASE pc'[w] = "load" BY <2>7 DEF SearchedBy
  <2>8. CASE pc'[w] = "recheck"
    <3>1. scan[w].offset + 1 >= NumWorkers BY <1>3, <2>5, <2>8, Kinds
    <3>2. ASSUME NEW v \in Worker PROVE local'[v] = <<>>
      <4>1. CASE scan[w].offset < NumWorkers
        <5>1. v \in Seen(w, scan'[w].offset) BY <1>3, <2>2, <3>1, AllSeen
        <5> QED BY <2>4, <4>1, <5>1
      <4>2. CASE ~(scan[w].offset < NumWorkers)
        <5>1. scan[w].offset >= NumWorkers BY <1>3, <4>2, Kinds
        <5>2. v \in Seen(w, scan[w].offset) BY <1>3, <5>1, AllSeen
        <5> QED BY <2>1, <2>3, <5>2
      <4> QED BY <4>1, <4>2
    <3>3. Queued' = {} BY <2>1, <2>3, <3>2, EmptyQueue DEF Queued
    <3> QED BY <2>8, <3>3 DEF SearchedBy
  <2> QED BY <2>5, <2>6, <2>7, <2>8
<1>10. CASE WorkerRecheck(w)
  <2>1. /\ pc[w] = "recheck" /\ UNCHANGED <<local, injection, current>> /\ pc'[w] \in {"exited", "wait"}
    BY <1>0, <1>1, <1>10 DEF WorkerRecheck, Goto, shared, queues
  <2>2. Queued' = {} BY <1>2, <2>1 DEF Searched, SearchedBy, Queued
  <2> QED BY <2>1, <2>2 DEF SearchedBy
<1>11. CASE WorkerWait(w)
  <2>1. pc'[w] \in {"parked", "check"} BY <1>0, <1>1, <1>11 DEF WorkerWait, Sleep, Goto
  <2> QED BY <2>1 DEF SearchedBy
<1> QED BY <1>4, <1>5, <1>6, <1>7, <1>8, <1>9, <1>10, <1>11 DEF WorkerStep

\* A thread that goes to a notification is about to bump the generation.
LEMMA AboutToBump ==
    ASSUME Shape, NEW t \in Thread, NEW l \in {"notifyOne", "notifyAll"}, Goto(t, l)
    PROVE  Bumping'
<1>1. pc'[t] = l BY DEF Goto, Shape, TypeOK
<1> QED BY <1>1 DEF Bumping

\* TimerLoop(): only Execute() of a due item adds work.
LEMMA TimerQuiet ==
    ASSUME Shape, TimerStep
    PROVE  Bumping' \/ Quiet(Timer)
<1>0. Timer \in Thread /\ Timer \notin Worker BY Kinds
<1>1. CASE TimerExecute BY <1>0, <1>1, AboutToBump DEF TimerExecute, Push
<1>2. CASE ~TimerExecute
  <2>1. /\ UNCHANGED <<local, injection, scan>> /\ pc[Timer] \notin {"notifyOne", "notifyAll"}
        /\ \A w \in Worker : w \in current' => w \in current
    BY <1>0, <1>2
    DEF TimerStep, TimerCheck, TimerLoad, TimerScan, TakeFromHeap, TimerRecheck,
        TimerWait, TimerTimeout, Sleep, shared, queues, locals
  <2> QED BY <2>1, TimerLeaves DEF Quiet, QueuesShrink
<1> QED BY <1>1, <1>2

\* A notification adds no work.
LEMMA NotifyQuiet ==
    ASSUME Shape, NEW t \in Thread, NotifyStep(t)
    PROVE  /\ NotifyWork(t) \/ Quiet(t)
           /\ t \in Worker => pc'[t] \in {"wakeOne", "run"}
<1>1. ASSUME ~NotifyWork(t) PROVE Quiet(t)
  <2>1. /\ UNCHANGED <<local, injection, scan>> /\ pc[t] \notin {"notifyOne", "notifyAll"}
        /\ \A w \in Worker : w \in current' => w \in current
    BY <1>1 DEF NotifyStep, WakeOne, WakeAll, NotifyTimer, WakeTimer, shared, queues, locals
  <2> QED BY <2>1, NotifyLeaves DEF Quiet, QueuesShrink
<1>2. ASSUME t \in Worker PROVE pc'[t] \in {"wakeOne", "run"}
  <2>1. pc[t] \in WorkerLabel /\ HandFits(t, pc[t], hand[t]) /\ t # Timer
    BY <1>2, FitsFacts, Kinds DEF LabelOf
  <2> QED BY <1>2, <2>1, NotifyLeaves DEF WorkerLabel, HandFits, Calling, Return
<1> QED BY <1>1, <1>2

\* A work item adds work only when it submits.
LEMMA InvokeQuiet ==
    ASSUME Shape, NEW t \in Worker \cup Client, InvokeReturns(t) \/ \E i \in Item : InvokeSubmits(t, i)
    PROVE  Bumping' \/ (Quiet(t) /\ (t \in Worker => pc'[t] = "check"))
<1>0. t \in Thread BY Kinds
<1>1. CASE \E i \in Item : InvokeSubmits(t, i) BY <1>0, <1>1, AboutToBump DEF InvokeSubmits, Push
<1>2. CASE InvokeReturns(t)
  <2>1. UNCHANGED <<local, injection, scan, current>> /\ pc[t] = "run"
    BY <1>2 DEF InvokeReturns, shared, queues
  <2>2. (t \in Worker => pc'[t] = "check") /\ \A u \in Thread : u # t => pc'[u] = pc[u]
    BY <1>0, <1>2 DEF InvokeReturns, Goto, Shape, TypeOK
  <2> QED BY <2>1, <2>2 DEF Quiet, QueuesShrink
<1> QED BY <1>1, <1>2

\* A client adds work only by Execute(), which notifies.
LEMMA ClientQuiet ==
    ASSUME Shape, NEW c \in Client, ClientCall(c) \/ ClientStep(c)
    PROVE  Bumping' \/ Quiet(c)
<1>0. c \in Thread /\ c \notin Worker BY Kinds
<1>1. /\ pc \in [Thread -> Label] /\ scan \in [Thread -> [call : {1, 2}, offset : 1..(NumWorkers + 1)]]
      /\ local \in [Worker -> Seq(Item)]
  BY DEF Shape, TypeOK
<1>2. CASE (\E i \in Item : Submit(c, i)) \/ Destroy(c) \/ ClearTimers(c)
  BY <1>0, <1>2, AboutToBump DEF Submit, Push, Destroy, ClearTimers
<1>3. CASE (\E i \in Item : \E at \in 0..MaxTime : SubmitAt(c, i, at)) \/ RunOne(c) \/ CancelAll(c)
           \/ ClearLocal(c) \/ Join(c)
  <2>1. current' = current /\ pc[c] \in {"idle", "clearLocal", "join"} /\ \E l : Goto(c, l)
    BY <1>3 DEF SubmitAt, Schedule, RunOne, CancelAll, ClearLocal, Join, ClearAll, CanCall
  <2>2. \A u \in Thread : u # c => pc'[u] = pc[u] BY <1>1, <2>1 DEF Goto
  <2>3. scan' = scan \/ \E x : scan' = [scan EXCEPT ![c] = x]
    BY <1>3 DEF SubmitAt, Schedule, RunOne, CancelAll, ClearLocal, Join, ClearAll, locals
  <2>4. \A w \in Worker : scan'[w] = scan[w] BY <1>0, <1>1, <2>3, Kinds
  <2>5. QueuesShrink
    <3>1. CASE (\E i \in Item : \E at \in 0..MaxTime : SubmitAt(c, i, at)) \/ RunOne(c) \/ CancelAll(c)
      BY <3>1 DEF SubmitAt, Schedule, RunOne, CancelAll, QueuesShrink
    <3>2. CASE ClearLocal(c) BY <1>1, <3>2 DEF ClearLocal, QueuesShrink
    <3>3. CASE Join(c) BY <3>3 DEF Join, ClearAll, QueuesShrink
    <3> QED BY <1>3, <3>1, <3>2, <3>3
  <2> QED BY <2>1, <2>2, <2>4, <2>5 DEF Quiet
<1> QED BY <1>2, <1>3 DEF ClientCall, ClientStep

\* Every step keeps what the workers about to sleep have seen.
LEMMA SearchedStep ==
    ASSUME Shape, Shape', Searched, [Next]_vars
    PROVE  Searched'
<1> SUFFICES ASSUME NEW w \in Worker, w \in current', ~Bumping' PROVE SearchedBy(w)'
  BY DEF Searched
<1>1. CASE UNCHANGED vars \/ Tick
  <2>1. UNCHANGED <<local, injection, current, pc, scan>>
    BY <1>1 DEF vars, Tick, shared, queues, locals
  <2> QED BY <2>1 DEF Searched, SearchedBy, Bumping, Queued
<1>2. ASSUME NEW v \in Worker, WorkerStep(v) PROVE SearchedBy(w)'
  <2>1. CASE v = w BY <1>2, <2>1, WorkerSearches
  <2>2. CASE v # w
    <3>1. v \in Thread /\ Quiet(v) BY <1>2, WorkerQuiet, Kinds
    <3> QED BY <2>2, <3>1, QuietOthers
  <2> QED BY <2>1, <2>2
<1>3. ASSUME NEW t \in Thread, Quiet(t), t \in Worker => pc'[t] \in {"check", "wakeOne", "run"}
      PROVE  SearchedBy(w)'
  <2>1. CASE t = w BY <1>3, <2>1 DEF SearchedBy
  <2>2. CASE t # w BY <1>3, <2>2, QuietOthers
  <2> QED BY <2>1, <2>2
<1>4. CASE TimerStep BY <1>3, <1>4, TimerQuiet, Kinds
<1>5. ASSUME NEW t \in Thread, NotifyStep(t) PROVE SearchedBy(w)'
  <2>1. CASE NotifyWork(t) BY <2>1 DEF NotifyWork
  <2>2. CASE ~NotifyWork(t) BY <1>3, <1>5, <2>2, NotifyQuiet
  <2> QED BY <2>1, <2>2
<1>6. ASSUME NEW t \in Worker \cup Client, InvokeReturns(t) \/ \E i \in Item : InvokeSubmits(t, i)
      PROVE  SearchedBy(w)'
  BY <1>3, <1>6, InvokeQuiet, Kinds
<1>7. ASSUME NEW c \in Client, ClientCall(c) \/ ClientStep(c) PROVE SearchedBy(w)'
  BY <1>3, <1>7, ClientQuiet, Kinds
<1> QED BY <1>1, <1>2, <1>4, <1>5, <1>6, <1>7 DEF Next

\* No lost wake-up is kept by every step: the last worker to sleep has seen
\* every queue empty, and whoever queues work afterwards notifies.
LEMMA AwakeStep ==
    ASSUME Shape, Shape', Searched, NoSleepOnWork, [Next]_vars
    PROVE  NoSleepOnWork'
<1> SUFFICES ASSUME Queued' # {}, ~stop', \A w \in Worker : pc'[w] = "parked",
                    \A t \in Thread : pc'[t] \notin {"notifyOne", "wakeOne", "notifyAll", "wakeAll"}
             PROVE  FALSE
  BY DEF NoSleepOnWork
<1>0. ~Bumping' /\ 1 \in Worker /\ Worker \subseteq Thread BY Kinds DEF Bumping
<1>1. CASE UNCHANGED vars \/ Tick
  <2>1. UNCHANGED <<local, injection, stop, pc>> BY <1>1 DEF vars, Tick, shared, queues
  <2> QED BY <2>1 DEF NoSleepOnWork, Queued
<1>2. ASSUME NEW t \in Thread, Quiet(t), \A w \in Worker : pc[w] = "parked", ~stop,
             pc'[t] # pc[t] /\ pc[t] \in {"wakeOne", "wakeAll"} => \E w \in Worker : pc'[w] # "parked"
      PROVE  FALSE
  <2>1. Queued # {}
    <3>1. SUFFICES ASSUME Queued = {} PROVE FALSE OBVIOUS
    <3>2. injection = <<>> /\ \A w \in Worker : local[w] = <<>> BY <3>1, NothingQueued
    <3>3. injection' = <<>> /\ \A w \in Worker : local'[w] = <<>> BY <1>2, <3>2 DEF Quiet, QueuesShrink
    <3> QED BY <3>3, EmptyQueue DEF Queued
  <2>2. PICK u \in Thread : pc[u] \in {"notifyOne", "wakeOne", "notifyAll", "wakeAll"}
    BY <1>2, <2>1 DEF NoSleepOnWork
  <2>3. u = t /\ pc[t] \in {"wakeOne", "wakeAll"} BY <1>2, <2>2 DEF Quiet
  <2> QED BY <1>2, <2>3
<1>3. ASSUME NEW w \in Worker, WorkerStep(w) PROVE FALSE
  <2>1. w \in Thread /\ pc \in [Thread -> Label] /\ pc'[w] = "parked" BY <1>0 DEF Shape, TypeOK
  <2>2. WorkerWait(w) /\ w \in current
    BY <1>3, <2>1
    DEF WorkerStep, WorkerCheck, WorkerPop, WorkerInject, WorkerSteal, StealLeaving, WorkerNoSteal,
        WorkerLoad, Load, WorkerRecheck, WorkerWait, Sleep, Take, Goto
  <2>3. ~Bumping BY <1>0, <1>3, <2>1, WorkerQuiet, BumpKept
  <2>4. Queued = {} BY <2>2, <2>3 DEF WorkerWait, Searched, SearchedBy
  <2> QED BY <2>2, <2>4 DEF WorkerWait, Sleep, Queued, shared, queues
<1>4. ASSUME NEW t \in Thread, NotifyStep(t) PROVE FALSE
  <2>1. t \notin Worker BY <1>4, NotifyQuiet
  <2>2. \A w \in Worker : pc[w] = "parked" BY <1>0, <1>4, <2>1, NotifyLeaves
  <2>3. ~NotifyWork(t) BY DEF NotifyWork, Goto, Shape, TypeOK
  <2>4. ~WakeOne(t)
    <3>1. SUFFICES ASSUME WakeOne(t) PROVE FALSE OBVIOUS
    <3>2. 1 \in Parked BY <1>0, <2>2 DEF Parked
    <3>3. PICK w \in Parked : Wake(t, {w}, Return(t)) BY <3>1, <3>2 DEF WakeOne
    <3>4. w \in Worker /\ w # t BY <2>1 DEF Parked
    <3>5. pc'[w] = "check" BY <1>0, <3>3, <3>4 DEF Wake
    <3> QED BY <3>4, <3>5
  <2>5. ~WakeAll(t)
    <3>1. SUFFICES ASSUME WakeAll(t) PROVE FALSE OBVIOUS
    <3>2. 1 \in Parked /\ 1 # t BY <1>0, <2>1, <2>2 DEF Parked
    <3>3. pc'[1] = "check" BY <1>0, <3>1, <3>2 DEF WakeAll, Wake
    <3> QED BY <1>0, <3>3
  <2>6. stop' = stop /\ pc[t] \in {"notifyTimer", "wakeTimer"} /\ Quiet(t)
    BY <1>4, <2>3, <2>4, <2>5, NotifyQuiet DEF NotifyStep, NotifyTimer, WakeTimer, shared
  <2> QED BY <1>2, <2>2, <2>6
<1>5. CASE TimerStep
  <2>1. Timer \in Thread /\ Quiet(Timer) /\ stop' = stop BY <1>0, <1>5, TimerQuiet, TimerLeaves, Kinds
  <2>2. \A w \in Worker : pc[w] = "parked" BY <1>0, <1>5, TimerLeaves, Kinds
  <2>3. pc[Timer] \notin {"wakeOne", "wakeAll"}
    BY <1>5 DEF TimerStep, TimerCheck, TimerLoad, TimerScan, TakeFromHeap, TimerExecute, TimerRecheck,
                TimerWait, TimerTimeout
  <2> QED BY <1>2, <2>1, <2>2, <2>3
<1>6. ASSUME NEW t \in Worker \cup Client, InvokeReturns(t) \/ \E i \in Item : InvokeSubmits(t, i) PROVE FALSE
  <2>1. t \in Thread /\ t \notin Worker /\ Quiet(t) BY <1>0, <1>6, InvokeQuiet, Kinds
  <2>2. pc[t] = "run" /\ stop' = stop BY <1>6 DEF InvokeReturns, InvokeSubmits, shared
  <2>3. \E l : Goto(t, l) BY <1>6 DEF InvokeReturns, InvokeSubmits, Push
  <2>4. \A w \in Worker : pc[w] = "parked" BY <1>0, <2>1, <2>3 DEF Goto, Shape, TypeOK
  <2> QED BY <1>2, <2>1, <2>2, <2>4
<1>7. ASSUME NEW c \in Client, ClientCall(c) \/ ClientStep(c) PROVE FALSE
  <2>1. c \in Thread /\ c \notin Worker /\ Quiet(c) BY <1>0, <1>7, ClientQuiet, Kinds
  <2>2. \E l : Goto(c, l)
    BY <1>7 DEF ClientCall, ClientStep, Submit, Push, SubmitAt, Schedule, RunOne, CancelAll, Destroy,
                ClearLocal, ClearTimers, Join, ClearAll
  <2>3. \A w \in Worker : pc[w] = "parked" BY <1>0, <2>1, <2>2 DEF Goto, Shape, TypeOK
  <2>4. pc[c] \notin {"wakeOne", "wakeAll"} /\ (stop => stop')
    BY <1>7 DEF ClientCall, ClientStep, Submit, SubmitAt, Schedule, RunOne, CancelAll, Destroy, CanCall,
                ClearLocal, ClearTimers, Join, ClearAll
  <2> QED BY <1>2, <2>1, <2>3, <2>4
<1> QED BY <1>1, <1>3, <1>4, <1>5, <1>6, <1>7 DEF Next

\* No lost wake-up, for every number of workers and whatever the clients call:
\* work in a queue never meets a pool in which all workers sleep and no
\* notification is under way.
THEOREM PoolNoSleepOnWork == Spec => []NoSleepOnWork
<1>1. Init => Shape /\ Searched /\ NoSleepOnWork
  <2>1. Init => Searched /\ NoSleepOnWork
    <3> SUFFICES ASSUME Init PROVE Searched /\ NoSleepOnWork OBVIOUS
    <3>1. current = {} /\ Queued = {} BY EmptyQueue DEF Init, Queued
    <3> QED BY <3>1 DEF Searched, NoSleepOnWork
  <2> QED BY <2>1, ShapeInit
<1>2. Shape /\ Searched /\ NoSleepOnWork /\ [Next]_vars => (Shape /\ Searched /\ NoSleepOnWork)'
  BY ShapeStep, SearchedStep, AwakeStep
<1> QED BY <1>1, <1>2, PTL DEF Spec

-----------------------------------------------------------------------------
(* Timers.                                                                  *)

FreshUntimed == \A i \in Item : status[i] = "fresh" => deadline[i] = None

\* TimerLoop() has read the heap since the last change that concerns it, or it
\* is going to be told of the change before it sleeps, or woken after.
NextWakeKnown ==
    \/ pc[Timer] \notin {"execute", "notifyOne", "wakeOne", "wait", "parked"}
    \/ \A i \in timers : nextWake # None /\ nextWake <= deadline[i]
    \/ \E t \in Thread : pc[t] = "notifyTimer"
    \/ pc[Timer] = "parked" /\ \E t \in Thread : pc[t] = "wakeTimer"
    \/ pc[Timer] # "parked" /\ Timer \notin current

Timed == FreshUntimed /\ NotEarly /\ NextWakeKnown

\* A step of t that leaves the heap, and what is known of it, alone.
LEMMA KnownKept ==
    ASSUME Shape, NextWakeKnown, NEW t \in Thread, pc[t] \notin {"notifyTimer", "wakeTimer"},
           \A u \in Thread : u # t => pc'[u] = pc[u] \/ (pc[u] = "parked" /\ pc'[u] = "check"),
           UNCHANGED <<timers, deadline, nextWake>>, Timer \in current' => Timer \in current,
           pc'[Timer] = "parked" => pc[Timer] = "parked",
           pc'[Timer] \in {"execute", "notifyOne", "wakeOne", "wait", "parked"}
               => pc[Timer] \in {"execute", "notifyOne", "wakeOne", "wait", "parked"},
           pc[Timer] = "parked" => pc'[Timer] \in {"parked", "check"}
    PROVE  NextWakeKnown'
<1>1. \A u \in Thread : pc[u] \in {"notifyTimer", "wakeTimer"} => pc'[u] = pc[u] OBVIOUS
<1>2. CASE pc[Timer] \notin {"execute", "notifyOne", "wakeOne", "wait", "parked"} BY <1>2 DEF NextWakeKnown
<1>3. CASE \A i \in timers : nextWake # None /\ nextWake <= deadline[i] BY <1>3 DEF NextWakeKnown
<1>4. CASE \E u \in Thread : pc[u] = "notifyTimer" BY <1>1, <1>4 DEF NextWakeKnown
<1>5. CASE pc[Timer] = "parked" /\ \E u \in Thread : pc[u] = "wakeTimer" BY <1>1, <1>5 DEF NextWakeKnown
<1>6. CASE pc[Timer] # "parked" /\ Timer \notin current BY <1>6 DEF NextWakeKnown
<1> QED BY <1>2, <1>3, <1>4, <1>5, <1>6 DEF NextWakeKnown

\* TimerLoop() reads the generation before the heap.
LEMMA KnownTimer ==
    ASSUME Shape, NextWakeKnown, TimerStep
    PROVE  NextWakeKnown'
<1>0. Timer \in Thread /\ pc \in [Thread -> Label] BY Kinds DEF Shape, TypeOK
<1>1. \A u \in Thread : u # Timer => pc'[u] = pc[u] BY TimerLeaves
<1>2. CASE TimerCheck \/ TimerLoad \/ TimerTimeout
  <2>1. pc'[Timer] \in {"exited", "load", "scan", "check"}
    BY <1>0, <1>2 DEF TimerCheck, TimerLoad, TimerTimeout, Goto
  <2> QED BY <2>1 DEF NextWakeKnown
<1>3. CASE TimerScan
  <2>1. /\ timers' \subseteq timers /\ deadline' = deadline
        /\ nextWake' = IF timers' = {} THEN None ELSE Earliest(timers')
    BY <1>3 DEF TimerScan, TakeFromHeap, history
  <2>2. \A i \in timers : deadline[i] \in Nat BY DEF Shape, HeapFits, TypeOK
  <2>3. ASSUME timers' # {} PROVE \A i \in timers' : nextWake' # None /\ nextWake' <= deadline'[i]
    <3>1. /\ \E i \in timers' : Earliest(timers') = deadline[i]
          /\ \A i \in timers' : Earliest(timers') <= deadline[i]
      <4>1. \A i \in timers' : deadline[i] \in Nat BY <2>1, <2>2
      <4> QED BY <2>3, <4>1, EarliestIsLeast
    <3> QED BY <2>1, <2>2, <2>3, <3>1, NoneAssumption
  <2> QED BY <2>3 DEF NextWakeKnown
<1>4. CASE TimerExecute
  <2>1. /\ pc[Timer] = "execute" /\ pc'[Timer] = "notifyOne" /\ UNCHANGED <<timers, deadline, nextWake, current>>
    BY <1>0, <1>4 DEF TimerExecute, Push, Goto, history
  <2> QED BY <1>0, <1>1, <2>1, KnownKept
<1>5. CASE TimerRecheck
  <2>1. /\ pc[Timer] = "execute" /\ pc'[Timer] \in {"exited", "check", "wait"}
        /\ UNCHANGED <<timers, deadline, nextWake, current>>
    BY <1>0, <1>5 DEF TimerRecheck, Goto, shared, queues, locals, history
  <2> QED BY <1>0, <1>1, <2>1, KnownKept
<1>6. CASE TimerWait
  <2>1. /\ pc[Timer] = "wait" /\ pc'[Timer] = IF Timer \in current THEN "parked" ELSE "check"
        /\ UNCHANGED <<timers, deadline, nextWake, current>>
    BY <1>0, <1>6 DEF TimerWait, Sleep, Goto, shared, queues, locals, history
  <2>2. CASE Timer \notin current BY <2>1, <2>2 DEF NextWakeKnown
  <2>3. CASE Timer \in current
    <3>1. \/ \A i \in timers : nextWake # None /\ nextWake <= deadline[i]
          \/ \E t \in Thread : pc[t] = "notifyTimer"
      BY <2>1, <2>3 DEF NextWakeKnown
    <3>2. \A t \in Thread : pc[t] = "notifyTimer" => pc'[t] = "notifyTimer" BY <1>1, <2>1
    <3> QED BY <2>1, <3>1, <3>2 DEF NextWakeKnown
  <2> QED BY <2>2, <2>3
<1> QED BY <1>2, <1>3, <1>4, <1>5, <1>6 DEF TimerStep

\* A notification of the timer reaches it asleep or keeps it from sleeping.
LEMMA KnownNotify ==
    ASSUME Shape, NextWakeKnown, NEW t \in Thread, NotifyStep(t)
    PROVE  NextWakeKnown'
<1>0. Timer \in Thread /\ pc \in [Thread -> Label] /\ pc[Timer] \in TimerLabel
  BY FitsFacts, Kinds DEF Shape, TypeOK, LabelOf
<1>1. UNCHANGED <<timers, deadline, nextWake>> BY NotifyLeaves DEF shared, queues, locals, history
<1>2. \A u \in Thread : u # t => pc'[u] = pc[u] \/ (pc[u] = "parked" /\ pc'[u] = "check") BY NotifyLeaves
<1>3. CASE NotifyTimer(t)
  <2>1. t # Timer /\ pc'[t] = "wakeTimer" /\ Timer \notin current' BY <1>0, <1>3 DEF NotifyTimer, Goto, TimerLabel
  <2> QED BY <2>1 DEF NextWakeKnown
<1>4. CASE WakeTimer(t)
  <2>1. t # Timer /\ pc[t] = "wakeTimer" /\ current' = current BY <1>0, <1>4 DEF WakeTimer, TimerLabel
  <2>2. /\ \A u \in Thread : u # t /\ u # Timer => pc'[u] = pc[u]
        /\ pc'[Timer] = IF pc[Timer] = "parked" THEN "check" ELSE pc[Timer]
    BY <1>0, <1>4, <2>1 DEF WakeTimer, Wake
  <2>3. CASE pc[Timer] = "parked" BY <2>2, <2>3 DEF NextWakeKnown
  <2>4. CASE pc[Timer] # "parked"
    <3>1. pc'[Timer] = pc[Timer] BY <2>2, <2>4
    <3>2. \A u \in Thread : pc[u] = "notifyTimer" => pc'[u] = "notifyTimer" BY <2>1, <2>2, <3>1
    <3> QED BY <1>1, <2>1, <2>4, <3>1, <3>2 DEF NextWakeKnown
  <2> QED BY <2>3, <2>4
<1>5. CASE NotifyWork(t) \/ WakeOne(t) \/ WakeAll(t)
  <2>1. pc[t] \in {"notifyOne", "notifyAll", "wakeOne", "wakeAll"} /\ (Timer \in current' => Timer \in current)
    BY <1>5 DEF NotifyWork, WakeOne, WakeAll
  <2>2. t = Timer => pc[t] \in {"notifyOne", "wakeOne"} /\ pc'[t] \in {"wakeOne", "execute"}
    BY <1>0, <2>1, NotifyLeaves DEF TimerLabel, Return
  <2>3. /\ pc'[Timer] = "parked" => pc[Timer] = "parked"
        /\ pc'[Timer] \in {"execute", "notifyOne", "wakeOne", "wait", "parked"}
             => pc[Timer] \in {"execute", "notifyOne", "wakeOne", "wait", "parked"}
        /\ pc[Timer] = "parked" => pc'[Timer] \in {"parked", "check"}
    BY <1>0, <1>2, <2>2
  <2>4. pc[t] \notin {"notifyTimer", "wakeTimer"} BY <2>1
  <2> QED BY <1>1, <1>2, <2>1, <2>3, <2>4, KnownKept
<1> QED BY <1>3, <1>4, <1>5 DEF NotifyStep

\* A step of a thread that is not the timer thread and does not notify.
LEMMA KnownOthers ==
    ASSUME Shape, NextWakeKnown, NEW t \in Thread, t # Timer, pc[t] \notin {"notifyTimer", "wakeTimer"},
           \A u \in Thread : u # t => pc'[u] = pc[u],
           UNCHANGED <<timers, deadline, nextWake>>, Timer \in current' => Timer \in current
    PROVE  NextWakeKnown'
<1>1. pc'[Timer] = pc[Timer] BY Kinds
<1> QED BY <1>1, KnownKept

\* Every step keeps what TimerLoop() knows of the heap.
LEMMA KnownStep ==
    ASSUME Shape, NextWakeKnown, [Next]_vars
    PROVE  NextWakeKnown'
<1>0. pc \in [Thread -> Label] BY DEF Shape, TypeOK
<1>1. CASE UNCHANGED vars \/ Tick
  <2>1. UNCHANGED <<timers, deadline, nextWake, current, pc>>
    BY <1>1 DEF vars, Tick, shared, queues, locals, history
  <2> QED BY <2>1 DEF NextWakeKnown
<1>2. ASSUME NEW w \in Worker, WorkerStep(w) PROVE NextWakeKnown'
  <2>1. w \in Thread /\ w # Timer BY Kinds
  <2>2. pc[w] \notin {"notifyTimer", "wakeTimer"} /\ (Timer \in current' => Timer \in current)
    BY <1>2, <2>1
    DEF WorkerStep, WorkerCheck, WorkerPop, WorkerInject, WorkerSteal, StealLeaving, WorkerNoSteal,
        WorkerLoad, Load, WorkerRecheck, WorkerWait, Sleep
  <2>3. UNCHANGED <<timers, deadline, nextWake>> BY <1>2, WorkerLeaves DEF history
  <2>4. \A u \in Thread : u # w => pc'[u] = pc[u] BY <1>2, WorkerLeaves
  <2> QED BY <2>1, <2>2, <2>3, <2>4, KnownOthers
<1>3. ASSUME NEW t \in Worker \cup Client, InvokeReturns(t) \/ \E i \in Item : InvokeSubmits(t, i)
      PROVE  NextWakeKnown'
  <2>1. t \in Thread /\ t # Timer BY Kinds
  <2>2. /\ pc[t] = "run" /\ UNCHANGED <<timers, deadline, nextWake, current>> /\ \E l : Goto(t, l)
    BY <1>3 DEF InvokeReturns, InvokeSubmits, Push, shared, queues, locals
  <2>3. \A u \in Thread : u # t => pc'[u] = pc[u] BY <1>0, <2>2 DEF Goto
  <2>4. pc[t] \notin {"notifyTimer", "wakeTimer"} BY <2>2
  <2> QED BY <2>1, <2>2, <2>3, <2>4, KnownOthers
<1>4. ASSUME NEW c \in Client, ClientCall(c) \/ ClientStep(c) PROVE NextWakeKnown'
  <2>1. c \in Thread /\ c # Timer BY Kinds
  <2>2. ASSUME NEW i \in Item, NEW at \in 0..MaxTime, SubmitAt(c, i, at) PROVE NextWakeKnown'
    <3>1. pc'[c] = "notifyTimer" BY <1>0, <2>1, <2>2 DEF SubmitAt, Schedule, Goto
    <3> QED BY <2>1, <3>1 DEF NextWakeKnown
  <2>3. CASE ClearTimers(c) \/ Join(c)
    <3>1. timers' = {} BY <2>3 DEF ClearTimers, Join, ClearAll
    <3> QED BY <3>1 DEF NextWakeKnown
  <2>4. CASE (\E i \in Item : Submit(c, i)) \/ RunOne(c) \/ CancelAll(c) \/ Destroy(c) \/ ClearLocal(c)
    <3>1. /\ pc[c] \in {"idle", "clearLocal"} /\ UNCHANGED <<timers, deadline, nextWake, current>>
          /\ \E l : Goto(c, l)
      BY <2>4 DEF Submit, Push, RunOne, CancelAll, Destroy, ClearLocal, CanCall, queues, locals, history
    <3>2. \A u \in Thread : u # c => pc'[u] = pc[u] BY <1>0, <3>1 DEF Goto
    <3>3. pc[c] \notin {"notifyTimer", "wakeTimer"} BY <3>1
    <3> QED BY <2>1, <3>1, <3>2, <3>3, KnownOthers
  <2> QED BY <1>4, <2>2, <2>3, <2>4 DEF ClientCall, ClientStep
<1> QED BY <1>1, <1>2, <1>3, <1>4, KnownTimer, KnownNotify DEF Next

\* No item leaves the heap early, and only ExecuteAt() gives an item a deadline.
LEMMA DueStep ==
    ASSUME Shape, Placement, FreshUntimed, NotEarly, [Next]_vars
    PROVE  (FreshUntimed /\ NotEarly)'
<1>0. /\ clock \in Nat /\ status \in [Item -> {"fresh", "pending", "done", "dropped"}]
      /\ deadline \in [Item -> (0..MaxTime) \cup {None}]
      /\ \A i \in Item : deadline[i] # None => deadline[i] \in Nat
  BY DEF Shape, TypeOK
<1>1. ASSUME UNCHANGED <<timers, status, deadline>>, clock' \in Nat, clock' >= clock
      PROVE  (FreshUntimed /\ NotEarly)'
  BY <1>0, <1>1 DEF FreshUntimed, NotEarly
<1>2. ASSUME NEW i \in Fresh, status' = [status EXCEPT ![i] = "pending"], UNCHANGED <<timers, deadline, clock>>
      PROVE  (FreshUntimed /\ NotEarly)'
  <2>1. i \in Item /\ status[i] = "fresh" /\ deadline[i] = None BY DEF Fresh, FreshUntimed
  <2>2. status'[i] = "pending" /\ \A j \in Item : j # i => status'[j] = status[j] BY <1>0, <1>2, <2>1
  <2> QED BY <1>2, <2>1, <2>2 DEF FreshUntimed, NotEarly
<1>3. ASSUME NEW S, status' = Drop(S), UNCHANGED <<deadline, clock>>, timers' = timers \/ timers \subseteq S
      PROVE  (FreshUntimed /\ NotEarly)'
  <2>1. \A j \in Item : status'[j] = IF j \in S THEN "dropped" ELSE status[j] BY <1>3 DEF Drop
  <2> QED BY <1>3, <2>1 DEF FreshUntimed, NotEarly
<1>4. CASE UNCHANGED vars \/ Tick
  <2>1. UNCHANGED <<timers, status, deadline>> /\ clock' \in Nat /\ clock' >= clock
    BY <1>0, <1>4 DEF vars, Tick, shared, queues, history
  <2> QED BY <1>1, <2>1
<1>5. ASSUME NEW w \in Worker, WorkerStep(w) PROVE (FreshUntimed /\ NotEarly)'
  <2>1. UNCHANGED <<timers, status, deadline, clock>> BY <1>5, WorkerLeaves DEF history
  <2> QED BY <1>0, <1>1, <2>1
<1>6. CASE TimerStep
  <2>1. UNCHANGED <<status, deadline, clock>> BY <1>6, TimerLeaves DEF history
  <2>2. CASE timers' = timers BY <1>0, <1>1, <2>1, <2>2
  <2>3. CASE TimerScan
    <3>1. timers' = timers \ {i \in timers : deadline[i] <= clock} BY <2>3 DEF TimerScan, TakeFromHeap
    <3>2. \A i \in Item : deadline[i] # None /\ deadline[i] > clock /\ i \in timers => i \in timers'
      BY <1>0, <3>1
    <3> QED BY <2>1, <3>2 DEF FreshUntimed, NotEarly
  <2>4. TimerScan \/ timers' = timers
    BY <1>6 DEF TimerStep, TimerCheck, TimerLoad, TimerExecute, TimerRecheck, TimerWait, TimerTimeout,
                Sleep, shared, queues
  <2> QED BY <2>2, <2>3, <2>4
<1>7. ASSUME NEW t \in Thread, NotifyStep(t) PROVE (FreshUntimed /\ NotEarly)'
  <2>1. UNCHANGED <<timers, status, deadline, clock>> BY <1>7, NotifyLeaves DEF shared, queues, history
  <2> QED BY <1>0, <1>1, <2>1
<1>8. ASSUME NEW t \in Worker \cup Client, InvokeReturns(t) PROVE (FreshUntimed /\ NotEarly)'
  <2>0. t \in Thread /\ InHand(t) \in Place /\ InHeap \in Place /\ InHand(t) # InHeap BY Kinds, Places
  <2>1. hand[t] \in Item /\ hand[t] # None
    <3>1. HandFits(t, pc[t], hand[t]) /\ hand[t] \in Item \cup {None} /\ (t \in Worker \/ t \in Client)
      BY <2>0, FitsFacts
    <3> QED BY <1>8, <3>1 DEF InvokeReturns, HandFits, Calling
  <2>2. hand[t] \in Content[InHand(t)] BY <2>0, <2>1, ContentNow
  <2>3. status[hand[t]] = "pending" /\ hand[t] \notin timers
    BY <2>0, <2>1, <2>2, ContentNow DEF Placement, Exact
  <2>4. deadline[hand[t]] # None => ~(deadline[hand[t]] > clock) BY <2>1, <2>3 DEF NotEarly
  <2>5. /\ UNCHANGED <<timers, deadline, clock>> /\ status'[hand[t]] = "done"
        /\ \A j \in Item : j # hand[t] => status'[j] = status[j]
    BY <1>0, <1>8, <2>1 DEF InvokeReturns, shared, queues
  <2> QED BY <2>1, <2>4, <2>5 DEF FreshUntimed, NotEarly
<1>9. ASSUME NEW t \in Worker \cup Client, NEW i \in Item, InvokeSubmits(t, i) PROVE (FreshUntimed /\ NotEarly)'
  BY <1>2, <1>9 DEF InvokeSubmits
<1>10. ASSUME NEW c \in Client, ClientCall(c) \/ ClientStep(c) PROVE (FreshUntimed /\ NotEarly)'
  <2>1. ASSUME NEW i \in Item, Submit(c, i) PROVE (FreshUntimed /\ NotEarly)' BY <1>2, <2>1 DEF Submit
  <2>2. ASSUME NEW i \in Item, NEW at \in 0..MaxTime, SubmitAt(c, i, at) PROVE (FreshUntimed /\ NotEarly)'
    <3>1. /\ timers' = timers \cup {i} /\ clock' = clock /\ status[i] = "fresh"
          /\ status' = [status EXCEPT ![i] = "pending"] /\ deadline' = [deadline EXCEPT ![i] = at]
      BY <2>2 DEF SubmitAt, Schedule, Fresh
    <3>2. /\ status'[i] = "pending" /\ \A j \in Item : j # i => status'[j] = status[j] /\ deadline'[j] = deadline[j]
      BY <1>0, <3>1
    <3> QED BY <3>1, <3>2 DEF FreshUntimed, NotEarly
  <2>3. CASE RunOne(c) \/ Destroy(c)
    <3>1. UNCHANGED <<timers, status, deadline, clock>> BY <2>3 DEF RunOne, Destroy, queues, history
    <3> QED BY <1>0, <1>1, <3>1
  <2>4. CASE CancelAll(c) \/ ClearLocal(c) \/ ClearTimers(c) \/ Join(c)
    <3>1. \E S : /\ status' = Drop(S) /\ UNCHANGED <<deadline, clock>>
                 /\ timers' = timers \/ timers \subseteq S
      BY <2>4 DEF CancelAll, ClearLocal, ClearTimers, Join, ClearAll
    <3> QED BY <1>3, <3>1
  <2> QED BY <1>10, <2>1, <2>2, <2>3, <2>4 DEF ClientCall, ClientStep
<1> QED BY <1>4, <1>5, <1>6, <1>7, <1>8, <1>9, <1>10 DEF Next

\* What TimerLoop() knows when it sleeps is enough to wake in time.
LEMMA SleepsInTime ==
    ASSUME Shape, NextWakeKnown
    PROVE  NoOversleep
<1> SUFFICES ASSUME timers # {}, pc[Timer] = "parked",
                    \A t \in Thread : pc[t] \notin {"notifyTimer", "wakeTimer"}
             PROVE  nextWake # None /\ nextWake <= Earliest(timers)
  BY DEF NoOversleep
<1>1. \A i \in timers : nextWake # None /\ nextWake <= deadline[i] BY DEF NextWakeKnown
<1>2. \A i \in timers : deadline[i] \in Nat BY DEF Shape, HeapFits, TypeOK
<1>3. \E i \in timers : Earliest(timers) = deadline[i] BY <1>2, EarliestIsLeast
<1> QED BY <1>1, <1>3

\* ExecuteAt() is exact: no timed item leaves the heap before its time, and the
\* timer thread never sleeps past an entry of the heap unless the notification
\* that will wake it is under way.
THEOREM PoolTimersExact == Spec => []TimersExact
<1>1. Init => Shape /\ Placement /\ Timed
  <2>1. Init => FreshUntimed /\ NotEarly /\ NextWakeKnown BY Kinds DEF Init, FreshUntimed, NotEarly, NextWakeKnown
  <2> QED BY <2>1, ShapeInit, PlacementInit DEF Timed
<1>2. Shape /\ Placement /\ Timed /\ [Next]_vars => (Shape /\ Placement /\ Timed)'
  BY ShapeStep, PlacementStep, KnownStep, DueStep DEF Timed
<1>3. Shape /\ Placement /\ Timed => TimersExact BY SleepsInTime DEF Timed, TimersExact
<1> QED BY <1>1, <1>2, <1>3, PTL DEF Spec
=============================================================================
