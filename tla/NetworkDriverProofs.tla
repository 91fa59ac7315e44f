------------------------ MODULE NetworkDriverProofs ------------------------
(***************************************************************************)
(* ResumedOnce and InterestExact for every set of pollers, waiters, sockets*)
(* and descriptors.                                                        *)
(*                                                                         *)
(* ResumedOnce is not inductive.  What keeps it is the ownership that the  *)
(* compare-exchange on Waiter::done gives: whoever set done is the only    *)
(* one to unregister and to resume the waiter (Owned, OneOwner), it has    *)
(* left the list before it is resumed (Delisted), and nobody can know of a *)
(* waiter that was not yet registered (Unknown).                           *)
(***************************************************************************)
EXTENDS NetworkDriver, FiniteSetTheorems, TLAPS

Early == {"unused", "idle", "checked", "returned"}
Owning == {"unregister", "resume"}

Shape ==
    /\ pc \in [Actor -> Label]
    /\ current \in [Actor -> Waiter \cup {None}]
    /\ todo \in [Actor -> SUBSET Waiter]
    /\ kept \in [Poller -> SUBSET Waiter]
    /\ waiters \in SUBSET Waiter
    /\ registration \in SUBSET Waiter
    /\ done \in SUBSET Waiter
    /\ resumed \in [Waiter -> Nat]

\* A thread that completes a waiter names it.
Named == \A a \in Actor : pc[a] \in Owning \cup {"claim"} => current[a] \in Waiter

\* A thread past its compare-exchange owns a waiter nobody has resumed.
Owned == \A a \in Actor : pc[a] \in Owning => current[a] \in done /\ resumed[current[a]] = 0

\* Two threads do not own one waiter.
OneOwner ==
    \A a, b \in Actor : a # b /\ pc[a] \in Owning /\ pc[b] \in Owning => current[a] # current[b]

\* A waiter about to be resumed has left the list.
Delisted == \A a \in Actor : pc[a] = "resume" => current[a] \notin waiters

\* A waiter before RegisterWaiter() is in no list and is being completed by
\* nobody.
Unknown ==
    \A w \in Waiter : pc[w] \in Early =>
        /\ w \notin waiters /\ w \notin registration /\ w \notin done
        /\ \A a \in Actor : w \notin todo[a] /\ (pc[a] = "claim" => current[a] # w)
        /\ \A p \in Poller : w \notin kept[p]

\* A resumed waiter is done.
Final == \A w \in Waiter : resumed[w] > 0 => resumed[w] = 1 /\ w \in done /\ w \notin waiters

Inv == Shape /\ Named /\ Owned /\ OneOwner /\ Delisted /\ Unknown /\ Final

-----------------------------------------------------------------------------
\* The initial states have the invariant: nothing is registered.
LEMMA InitInv == Init => Inv
  BY ActorAssumption, NoneAssumption
     DEF Init, Inv, Shape, Named, Owned, OneOwner, Delisted, Unknown, Final,
         Start, Label, Actor, Early, Owning

\* The steps that leave the waiters' bookkeeping alone.
LEMMA OtherInv ==
  ASSUME Inv,
         \/ Stop
         \/ \E s \in Socket : Close(s) \/ \E f \in Fd : Open(s, f)
         \/ \E f \in Fd, d \in Direction : Readiness(f, d)
         \/ \E a \in Actor : Dangle(a)
         \/ UNCHANGED vars
  PROVE  Inv'
<1>1. UNCHANGED <<pc, current, todo, kept, waiters, registration, done, resumed>>
  BY DEF Stop, Close, Open, Readiness, Dangle, vars, kernel, list, objects, pollState, rest
<1> QED
  BY <1>1 DEF Inv, Shape, Named, Owned, OneOwner, Delisted, Unknown, Final

\* WaitUntilReadable() and WaitUntilWritable() up to the suspension.
LEMMA AwaitInv ==
  ASSUME Inv, NEW w \in Waiter, AwaitReady(w) \/ AwaitStep(w) \/ DestroyFrame(w)
  PROVE  Inv'
<1> USE ActorAssumption, NoneAssumption
        DEF Inv, Shape, Named, Owned, OneOwner, Delisted, Unknown, Final,
            Early, Owning, Label, Actor, At, Goto, list, objects, pollState, rest
<1>1. CASE AwaitReady(w)
  BY <1>1 DEF AwaitReady
<1>2. CASE RegisterWaiter(w)
  <2>1. pc[w] = "checked" /\ pc' = [pc EXCEPT ![w] = "registered"] /\ waiters' = waiters \cup {w}
    BY <1>2 DEF RegisterWaiter
  <2>2. UNCHANGED <<current, todo, kept, registration, done, resumed>>
    BY <1>2 DEF RegisterWaiter
  <2>3. w \notin done
    BY <2>1 DEF Unknown
  <2>4. Delisted'
    BY <2>1, <2>2, <2>3 DEF Owned, Delisted
  <2>5. Final'
    BY <2>1, <2>2, <2>3 DEF Final
  <2>6. Shape' /\ Named' /\ Owned' /\ OneOwner' /\ Unknown'
    BY <2>1, <2>2 DEF Shape, Named, Owned, OneOwner, Unknown
  <2> QED
    BY <2>4, <2>5, <2>6
<1>3. CASE RegisterToken(w)
  BY <1>3 DEF RegisterToken
<1>4. CASE DestroyFrame(w)
  BY <1>4 DEF DestroyFrame
<1> QED
  BY <1>1, <1>2, <1>3, <1>4 DEF AwaitStep

\* PollOnce() apart from the completion of a waiter.
LEMMA PollInv ==
  ASSUME Inv, NEW p \in Poller, PollStep(p)
  PROVE  Inv'
<1> USE ActorAssumption, NoneAssumption
        DEF Inv, Shape, Named, Owned, OneOwner, Delisted, Unknown, Final,
            Early, Owning, Label, Actor, At, Goto, list, objects, pollState, rest
<1>1. CASE PollCheck(p)
  BY <1>1 DEF PollCheck
<1>2. CASE PollSnapshot(p)
  BY <1>2 DEF PollSnapshot
<1>3. CASE PollIdle(p)
  BY <1>3 DEF PollIdle
<1>4. CASE EpollWait(p)
  BY <1>4 DEF EpollWait
<1>5. CASE PollDone(p)
  BY <1>5 DEF PollDone
<1>6. ASSUME NEW w \in Waiter, PollSift(p, w) PROVE Inv'
  BY <1>6 DEF PollSift
<1>7. ASSUME NEW w \in Waiter, PollMatch(p, w) PROVE Inv'
  BY <1>7 DEF PollMatch, Visit
<1> QED
  BY <1>1, <1>2, <1>3, <1>4, <1>5, <1>6, <1>7 DEF PollStep

\* CancellationSource::Cancel() apart from the completion of a waiter.
LEMMA CancelInv ==
  ASSUME Inv, Cancel \/ \E w \in Waiter : CancelFire(w)
  PROVE  Inv'
<1> USE ActorAssumption, NoneAssumption
        DEF Inv, Shape, Named, Owned, OneOwner, Delisted, Unknown, Final,
            Early, Owning, Label, Actor, At, Goto, list, objects, pollState, rest
<1>1. CASE Cancel
  BY <1>1 DEF Cancel
<1>2. ASSUME NEW w \in Waiter, CancelFire(w) PROVE Inv'
  BY <1>2 DEF CancelFire
<1> QED
  BY <1>1, <1>2

\* Completion: here the waiter is claimed, leaves the list and is resumed.
LEMMA CompletionInv ==
  ASSUME Inv, NEW a \in Actor, Completion(a)
  PROVE  Inv'
<1> USE ActorAssumption, NoneAssumption
        DEF Inv, Shape, Named, Owned, OneOwner, Delisted, Unknown, Final,
            Early, Owning, Label, Actor, At, Goto, list, objects, pollState, rest
<1>0. Return(a) \in {"sift", "match", "suspended", "fire"}
  BY DEF Return
<1>1. CASE Claim(a)
  <2>1. pc[a] = "claim" /\ current[a] \in Waiter /\ done' = done \cup {current[a]}
    BY <1>1 DEF Claim
  <2>2. UNCHANGED <<todo, kept, waiters, registration, resumed>>
    BY <1>1 DEF Claim
  <2>3. CASE current[a] \in done          \* somebody else completes the waiter
    BY <1>0, <1>1, <2>1, <2>2, <2>3 DEF Claim
  <2>4. CASE current[a] \notin done       \* a owns it from now on
    <3>1. pc' = [pc EXCEPT ![a] = "unregister"] /\ UNCHANGED current
      BY <1>1, <2>4 DEF Claim
    <3>2. resumed[current[a]] = 0
      BY <2>1, <2>4 DEF Final
    <3>3. Owned'
      BY <2>1, <2>2, <3>1, <3>2
    <3>4. OneOwner'
      BY <2>1, <2>4, <3>1 DEF Owned, OneOwner
    <3>5. Unknown'
      BY <2>1, <2>2, <3>1
    <3>6. Shape' /\ Named' /\ Delisted' /\ Final'
      BY <2>1, <2>2, <3>1
    <3> QED
      BY <3>3, <3>4, <3>5, <3>6
  <2> QED
    BY <2>3, <2>4
<1>2. CASE UnregisterWaiter(a)
  <2>1. /\ pc[a] = "unregister" /\ pc' = [pc EXCEPT ![a] = "resume"]
        /\ waiters' = waiters \ {current[a]}
        /\ UNCHANGED <<current, todo, kept, registration, done, resumed>>
    BY <1>2 DEF UnregisterWaiter
  <2>2. Owned' /\ OneOwner' /\ Delisted'
    BY <2>1
  <2>3. Shape' /\ Named' /\ Unknown' /\ Final'
    BY <2>1
  <2> QED
    BY <2>2, <2>3
<1>3. CASE Resume(a)
  <2>1. /\ pc[a] = "resume" /\ pc' = [pc EXCEPT ![a] = Return(a)]
        /\ current' = [current EXCEPT ![a] = None]
        /\ registration' = registration \ {current[a]}
        /\ resumed' = [resumed EXCEPT ![current[a]] = @ + 1]
        /\ UNCHANGED <<todo, kept, waiters, done>>
    BY <1>3 DEF Resume
  <2>2. current[a] \in done /\ resumed[current[a]] = 0 /\ current[a] \notin waiters
    BY <2>1 DEF Owned, Delisted
  <2>3. Final'                            \* this is the waiter's only resumption
    BY <2>1, <2>2 DEF Final
  <2>4. Owned' /\ OneOwner'               \* nobody else owns it
    BY <1>0, <2>1 DEF Owned, OneOwner
  <2>5. Shape' /\ Named' /\ Delisted' /\ Unknown'
    BY <1>0, <2>1, <2>2
  <2> QED
    BY <2>3, <2>4, <2>5
<1> QED
  BY <1>1, <1>2, <1>3 DEF Completion

\* Every step keeps the invariant.
LEMMA StepInv == Inv /\ [Next]_vars => Inv'
<1> SUFFICES ASSUME Inv, [Next]_vars PROVE Inv'
  OBVIOUS
<1> QED
  BY OtherInv, AwaitInv, PollInv, CancelInv, CompletionInv DEF Next

\* The ownership argument of CompleteWaiter() and of the cancellation callback
\* holds in every reachable state.
THEOREM Ownership == Spec => []Inv
  BY InitInv, StepInv, PTL DEF Spec

\* However many threads poll, cancel and wait, a waiter of NetworkDriver is
\* resumed at most once, and only after it has left m_waiters.
THEOREM AtMostOneResumption == Spec => []ResumedOnce
<1>1. Inv => ResumedOnce
  BY DEF Inv, Final, ResumedOnce
<1> QED
  BY <1>1, Ownership, PTL

-----------------------------------------------------------------------------
(* The epoll interest.  InterestExact needs to know where the waiters are   *)
(* (Listed), that no two open sockets share a descriptor (Separate) and     *)
(* what is left of a closed one (Free).                                     *)

\* The waiters in the list that wait for a direction of a socket.
Waiting(s, d) == {w \in waiters : HandleOf[w] = s /\ want[w] = d}

Tables ==
    /\ native \in [Socket -> Fd \cup {None}]
    /\ interest \in [Fd -> SUBSET Direction]
    /\ watch \in [Fd -> [Direction -> Nat]]
    /\ want \in [Waiter -> Direction]
    /\ IsFiniteSet(waiters)

\* Two open sockets have two descriptors.
Separate == \A s, t \in Socket : native[s] # None /\ native[s] = native[t] => s = t

\* From RegisterWaiter() to the compare-exchange a waiter is in the list, and
\* the thread that won it finds it there.
Listed ==
    /\ \A w \in Waiter : pc[w] \notin Early /\ w \notin done => w \in waiters
    /\ \A a \in Actor : pc[a] = "unregister" => current[a] \in waiters

\* An open socket's descriptor is counted and watched for its waiters.
Exact ==
    \A s \in Socket : native[s] # None =>
        /\ \A d \in Direction : watch[native[s]][d] = Cardinality(Waiting(s, d))
        /\ interest[native[s]] = {d \in Direction : Waiting(s, d) # {}}

\* A free descriptor is not watched, nor counted if its closing left no waiter.
Free ==
    \A f \in Fd : (\A s \in Socket : native[s] # f) =>
        /\ interest[f] = {}
        /\ f \notin orphaned => \A d \in Direction : watch[f][d] = 0

Watched == Tables /\ Separate /\ Listed /\ Exact /\ Free

\* The counts of an open socket's descriptor are those of finite sets, and the
\* directions that are counted are those the kernel watches.
LEMMA CountedIsWatched ==
  ASSUME Inv, Watched, NEW s \in Socket, native[s] # None
  PROVE  /\ native[s] \in Fd
         /\ \A d \in Direction : IsFiniteSet(Waiting(s, d))
         /\ Counted(watch[native[s]]) = interest[native[s]]
<1>1. native[s] \in Fd
  BY DEF Watched, Tables
<1>2. ASSUME NEW d \in Direction PROVE IsFiniteSet(Waiting(s, d))
  <2>1. Waiting(s, d) \in SUBSET waiters
    BY DEF Waiting
  <2> QED
    BY <2>1, FS_Subset DEF Watched, Tables
<1>3. ASSUME NEW d \in Direction PROVE watch[native[s]][d] > 0 <=> Waiting(s, d) # {}
  <2>1. watch[native[s]][d] = Cardinality(Waiting(s, d))
    BY DEF Watched, Exact
  <2>2. Cardinality(Waiting(s, d)) \in Nat
    BY <1>2, FS_CardinalityType
  <2>3. Cardinality(Waiting(s, d)) = 0 <=> Waiting(s, d) = {}
    BY <1>2, FS_EmptySet
  <2> QED
    BY <2>1, <2>2, <2>3
<1>4. interest[native[s]] = {d \in Direction : Waiting(s, d) # {}}
  BY DEF Watched, Exact
<1> QED
  BY <1>1, <1>2, <1>3, <1>4 DEF Counted

\* A step that counts one open socket's waiters anew and touches no other
\* socket's keeps the tables exact.
LEMMA Recount ==
  ASSUME Watched, Inv, NEW s \in Socket, native[s] # None,
         NEW counts \in [Direction -> Nat],
         watch' = [watch EXCEPT ![native[s]] = counts],
         interest' = [interest EXCEPT ![native[s]] = Counted(counts)],
         UNCHANGED <<native, orphaned, want>>,
         IsFiniteSet(waiters'),
         \A d \in Direction : counts[d] = Cardinality(Waiting(s, d)'),
         \A t \in Socket : t # s => \A d \in Direction : Waiting(t, d)' = Waiting(t, d)
  PROVE  Tables' /\ Separate' /\ Exact' /\ Free'
<1> DEFINE f == native[s]
<1>1. f \in Fd
  BY DEF Watched, Tables
<1>2. Tables'
  BY <1>1 DEF Watched, Tables, Counted
<1>3. Separate'
  BY DEF Watched, Separate
<1>4. watch'[f] = counts /\ interest'[f] = Counted(counts)
  BY <1>1 DEF Watched, Tables
<1>5. ASSUME NEW d \in Direction PROVE counts[d] > 0 <=> Waiting(s, d)' # {}
  <2>1. Waiting(s, d)' \in SUBSET waiters'
    BY DEF Waiting
  <2>2. IsFiniteSet(Waiting(s, d)')
    BY <2>1, FS_Subset
  <2>3. Cardinality(Waiting(s, d)') \in Nat
    BY <2>2, FS_CardinalityType
  <2>4. Cardinality(Waiting(s, d)') = 0 <=> Waiting(s, d)' = {}
    BY <2>2, FS_EmptySet
  <2> QED
    BY <2>3, <2>4
<1>6. ASSUME NEW t \in Socket, native'[t] # None
      PROVE  /\ \A d \in Direction : watch'[native'[t]][d] = Cardinality(Waiting(t, d)')
             /\ interest'[native'[t]] = {d \in Direction : Waiting(t, d)' # {}}
  <2>1. CASE t = s
    BY <1>4, <1>5, <2>1 DEF Counted
  <2>2. CASE t # s
    <3>1. native[t] # f /\ native[t] # None
      BY <1>6, <2>2 DEF Watched, Separate
    <3>2. watch'[native[t]] = watch[native[t]] /\ interest'[native[t]] = interest[native[t]]
      BY <3>1, <1>1, <1>6 DEF Watched, Tables
    <3>3. \A d \in Direction : Waiting(t, d)' = Waiting(t, d)
      BY <2>2
    <3>4. /\ \A d \in Direction : watch[native[t]][d] = Cardinality(Waiting(t, d))
          /\ interest[native[t]] = {d \in Direction : Waiting(t, d) # {}}
      BY <3>1 DEF Watched, Exact
    <3> QED
      BY <3>2, <3>3, <3>4
  <2> QED
    BY <2>1, <2>2
<1>7. Exact'
  BY <1>6 DEF Exact
<1>8. Free'
  BY <1>1 DEF Watched, Tables, Free
<1> QED
  BY <1>2, <1>3, <1>7, <1>8

\* Initially the list is empty and nothing is watched.
LEMMA InitWatched == Init => Watched
<1> SUFFICES ASSUME Init PROVE Watched
  OBVIOUS
<1>1. waiters = {} /\ \A s \in Socket, d \in Direction : Waiting(s, d) = {}
  BY DEF Init, Waiting
<1>2. IsFiniteSet({}) /\ Cardinality({}) = 0
  BY FS_EmptySet
<1>3. native \in [Socket -> Fd] /\ Separate
  BY DEF Init, Separate
<1>4. Tables
  BY <1>1, <1>2, <1>3, ProgramAssumption DEF Init, Tables
<1>5. Listed
  BY ActorAssumption DEF Init, Listed, Start, Early, Actor
<1>6. Exact
  BY <1>1, <1>2, <1>3 DEF Init, Exact
<1>7. Free
  BY DEF Init, Free
<1> QED
  BY <1>3, <1>4, <1>5, <1>6, <1>7 DEF Watched

\* A step that leaves the list, the counts, the interest and the sockets alone
\* only has to keep the waiters' places.
LEMMA SameTables ==
  ASSUME Watched, UNCHANGED <<native, interest, watch, waiters, want, orphaned>>, Listed'
  PROVE  Watched'
<1>1. \A s, d : Waiting(s, d)' = Waiting(s, d)
  BY DEF Waiting
<1>2. Exact'
  BY <1>1 DEF Watched, Exact
<1> QED
  BY <1>2 DEF Watched, Tables, Separate, Free

\* RegisterWaiter(): one waiter more.
LEMMA RegisterWatched ==
  ASSUME Inv, Watched, NEW w \in Waiter, RegisterWaiter(w)
  PROVE  Watched'
<1> DEFINE s == HandleOf[w]
<1>0. s \in Socket /\ want[w] \in Direction
  BY ProgramAssumption DEF Watched, Tables
<1>1. /\ pc[w] = "checked" /\ pc' = [pc EXCEPT ![w] = "registered"]
      /\ waiters' = waiters \cup {w}
      /\ UNCHANGED <<native, current, done, want, orphaned>>
  BY DEF RegisterWaiter, At, Goto, objects, rest
<1>2. w \notin waiters
  BY <1>1 DEF Inv, Unknown, Early
<1>3. Listed'
  BY <1>1, ActorAssumption DEF Watched, Listed, Inv, Shape, Early, Actor
<1>4. IsFiniteSet(waiters')
  BY <1>1, FS_AddElement DEF Watched, Tables
<1>5. ASSUME NEW t \in Socket, NEW d \in Direction
      PROVE  Waiting(t, d)' = IF t = s /\ d = want[w] THEN Waiting(t, d) \cup {w} ELSE Waiting(t, d)
  BY <1>1 DEF Waiting
<1>6. CASE native[s] = None
  <2>1. UNCHANGED <<watch, interest>>
    BY <1>6 DEF RegisterWaiter
  <2>2. ASSUME NEW t \in Socket, native[t] # None, NEW d \in Direction
        PROVE  Waiting(t, d)' = Waiting(t, d)
    BY <1>5, <1>6, <2>2
  <2>3. Exact'
    BY <1>1, <2>1, <2>2 DEF Watched, Exact
  <2>4. Tables' /\ Separate' /\ Free'
    BY <1>1, <1>4, <2>1 DEF Watched, Tables, Separate, Free
  <2> QED
    BY <1>3, <2>3, <2>4 DEF Watched
<1>7. CASE native[s] # None
  <2> DEFINE f == native[s]
             counts == [watch[f] EXCEPT ![want[w]] = @ + 1]
  <2>1. /\ f \in Fd /\ Counted(watch[f]) = interest[f]
        /\ \A d \in Direction : IsFiniteSet(Waiting(s, d))
    BY <1>0, <1>7, CountedIsWatched
  <2>2. counts \in [Direction -> Nat]
    BY <1>0, <2>1 DEF Watched, Tables
  <2>3. UpdateEpollOnRegisterLocked(f, want[w])
    BY <1>7 DEF RegisterWaiter
  <2>4. /\ watch' = [watch EXCEPT ![f] = counts]
        /\ interest' = [interest EXCEPT ![f] = Counted(counts)]
    BY <2>1, <2>3 DEF UpdateEpollOnRegisterLocked, AddWatch, ModifyWatch
  <2>5. ASSUME NEW d \in Direction PROVE counts[d] = Cardinality(Waiting(s, d)')
    <3>1. watch[f][d] = Cardinality(Waiting(s, d))
      BY <1>0, <1>7 DEF Watched, Exact
    <3>2. w \notin Waiting(s, d) /\ IsFiniteSet(Waiting(s, d))
      BY <1>2, <2>1 DEF Waiting
    <3>3. Cardinality(Waiting(s, d) \cup {w}) = Cardinality(Waiting(s, d)) + 1
      BY <3>2, FS_AddElement
    <3>4. counts[d] = IF d = want[w] THEN watch[f][d] + 1 ELSE watch[f][d]
      BY <1>0, <2>1 DEF Watched, Tables
    <3> QED
      BY <1>0, <1>5, <3>1, <3>3, <3>4
  <2>6. \A t \in Socket : t # s => \A d \in Direction : Waiting(t, d)' = Waiting(t, d)
    BY <1>5
  <2>7. Tables' /\ Separate' /\ Exact' /\ Free'
    BY <1>0, <1>1, <1>4, <1>7, <2>2, <2>4, <2>5, <2>6, Recount
  <2> QED
    BY <1>3, <2>7 DEF Watched
<1> QED
  BY <1>6, <1>7

\* UnregisterWaiter(): one waiter less, by its only owner.
LEMMA UnregisterWatched ==
  ASSUME Inv, Watched, NEW a \in Actor, UnregisterWaiter(a)
  PROVE  Watched'
<1>w. PICK w \in Waiter : w = current[a]
  BY DEF UnregisterWaiter, At, Inv, Named, Owning
<1> DEFINE s == HandleOf[w]
<1>1. /\ pc[a] = "unregister" /\ pc' = [pc EXCEPT ![a] = "resume"]
      /\ waiters' = waiters \ {w}
      /\ UNCHANGED <<native, current, done, want, orphaned>>
  BY <1>w DEF UnregisterWaiter, At, Goto, objects, rest
<1>2. w \in waiters /\ w \in done
  BY <1>1, <1>w DEF Inv, Owned, Owning, Watched, Listed
<1>0. s \in Socket /\ want[w] \in Direction
  BY ProgramAssumption DEF Watched, Tables
<1>3. Listed'
  <2>1. ASSUME NEW v \in Waiter, pc'[v] \notin Early, v \notin done' PROVE v \in waiters'
    <3>1. v # w /\ pc[v] \notin Early
      BY <1>1, <1>2, <2>1 DEF Early, Inv, Shape, Actor
    <3> QED
      BY <1>1, <2>1, <3>1 DEF Watched, Listed
  <2>2. ASSUME NEW b \in Actor, pc'[b] = "unregister" PROVE current'[b] \in waiters'
    <3>1. b # a /\ pc[b] = "unregister"
      BY <1>1, <2>2 DEF Inv, Shape
    <3>2. current[b] # w
      BY <1>1, <1>w, <3>1 DEF Inv, OneOwner, Owning
    <3> QED
      BY <1>1, <3>1, <3>2 DEF Watched, Listed
  <2> QED
    BY <2>1, <2>2 DEF Listed
<1>4. IsFiniteSet(waiters')
  BY <1>1, FS_RemoveElement DEF Watched, Tables
<1>5. ASSUME NEW t \in Socket, NEW d \in Direction
      PROVE  Waiting(t, d)' = IF t = s /\ d = want[w] THEN Waiting(t, d) \ {w} ELSE Waiting(t, d)
  BY <1>1 DEF Waiting
<1>6. CASE native[s] = None
  <2>1. UNCHANGED <<watch, interest>>
    BY <1>6, <1>w DEF UnregisterWaiter
  <2>2. ASSUME NEW t \in Socket, native[t] # None, NEW d \in Direction
        PROVE  Waiting(t, d)' = Waiting(t, d)
    BY <1>5, <1>6, <2>2
  <2>3. Exact'
    BY <1>1, <2>1, <2>2 DEF Watched, Exact
  <2>4. Tables' /\ Separate' /\ Free'
    BY <1>1, <1>4, <2>1 DEF Watched, Tables, Separate, Free
  <2> QED
    BY <1>3, <2>3, <2>4 DEF Watched
<1>7. CASE native[s] # None
  <2> DEFINE f == native[s]
             counts == [watch[f] EXCEPT ![want[w]] = IF @ > 0 THEN @ - 1 ELSE 0]
  <2>1. /\ f \in Fd /\ Counted(watch[f]) = interest[f]
        /\ \A d \in Direction : IsFiniteSet(Waiting(s, d))
    BY <1>0, <1>7, CountedIsWatched
  <2>2. counts \in [Direction -> Nat]
    BY <1>0, <2>1 DEF Watched, Tables
  <2>3. UpdateEpollOnUnregisterLocked(f, want[w])
    BY <1>7, <1>w DEF UnregisterWaiter
  <2>4. w \in Waiting(s, want[w])
    BY <1>2 DEF Waiting
  <2>5. interest[f] # {}
    BY <1>0, <1>7, <2>4 DEF Watched, Exact
  <2>6. /\ watch' = [watch EXCEPT ![f] = counts]
        /\ interest' = [interest EXCEPT ![f] = Counted(counts)]
    BY <2>1, <2>3, <2>5 DEF UpdateEpollOnUnregisterLocked
  <2>7. ASSUME NEW d \in Direction PROVE counts[d] = Cardinality(Waiting(s, d)')
    <3>1. watch[f][d] = Cardinality(Waiting(s, d))
      BY <1>0, <1>7 DEF Watched, Exact
    <3>2. IsFiniteSet(Waiting(s, d)) /\ IsFiniteSet(Waiting(s, d) \ {w})
      BY <2>1, FS_RemoveElement
    <3>3. /\ Cardinality(Waiting(s, d)) \in Nat
          /\ Cardinality(Waiting(s, d) \ {w}) \in Nat
      BY <3>2, FS_CardinalityType
    <3>4. w \in Waiting(s, d) =>
            Cardinality(Waiting(s, d) \ {w}) = Cardinality(Waiting(s, d)) - 1
      BY <3>2, FS_RemoveElement
    <3>5. counts[d] = IF d = want[w] THEN IF watch[f][d] > 0 THEN watch[f][d] - 1 ELSE 0
                                     ELSE watch[f][d]
      BY <1>0, <2>1 DEF Watched, Tables
    <3>6. CASE d = want[w]
      <4>1. Waiting(s, d)' = Waiting(s, d) \ {w} /\ w \in Waiting(s, d)
        BY <1>0, <1>5, <2>4, <3>6
      <4>2. Cardinality(Waiting(s, d)) > 0
        BY <3>3, <3>4, <4>1
      <4>3. counts[d] = Cardinality(Waiting(s, d)) - 1
        BY <3>1, <3>5, <3>6, <4>2
      <4> QED
        BY <3>4, <4>1, <4>3
    <3>7. CASE d # want[w]
      <4>1. Waiting(s, d)' = Waiting(s, d)
        BY <1>0, <1>5, <3>7
      <4>2. counts[d] = Cardinality(Waiting(s, d))
        BY <3>1, <3>5, <3>7
      <4> QED
        BY <4>1, <4>2
    <3> QED
      BY <3>6, <3>7
  <2>8. \A t \in Socket : t # s => \A d \in Direction : Waiting(t, d)' = Waiting(t, d)
    BY <1>5
  <2>9. Tables' /\ Separate' /\ Exact' /\ Free'
    BY <1>0, <1>1, <1>4, <1>7, <2>2, <2>6, <2>7, <2>8, Recount
  <2> QED
    BY <1>3, <2>9 DEF Watched
<1> QED
  BY <1>6, <1>7

\* Close(): with no waiter the descriptor is free and uncounted; else it is
\* orphaned, and its counts stay behind.
LEMMA CloseWatched ==
  ASSUME Inv, Watched, NEW s \in Socket, Close(s)
  PROVE  Watched'
<1> DEFINE f == native[s]
<1>1. /\ f # None
      /\ native' = [native EXCEPT ![s] = None]
      /\ interest' = [interest EXCEPT ![f] = {}]
      /\ orphaned' = IF Awaited(s) THEN orphaned \cup {f} ELSE orphaned
      /\ UNCHANGED <<watch, waiters, want, done, pc, current>>
  BY DEF Close, list, objects
<1>2. f \in Fd
  BY <1>1 DEF Watched, Tables
<1>3. Tables'
  BY <1>1, <1>2 DEF Watched, Tables
<1>4. Separate'
  BY <1>1 DEF Watched, Tables, Separate
<1>5. Listed'
  BY <1>1 DEF Watched, Listed
<1>6. \A t, d : Waiting(t, d)' = Waiting(t, d)
  BY <1>1 DEF Waiting
<1>7. ASSUME NEW t \in Socket, native'[t] # None
      PROVE  t # s /\ native'[t] = native[t] /\ native[t] # f
  BY <1>1, <1>7 DEF Watched, Tables, Separate
<1>8. Exact'
  <2>1. ASSUME NEW t \in Socket, native'[t] # None
        PROVE  /\ \A d \in Direction : watch'[native'[t]][d] = Cardinality(Waiting(t, d)')
               /\ interest'[native'[t]] = {d \in Direction : Waiting(t, d)' # {}}
    <3>1. native'[t] = native[t] /\ native[t] # f /\ native[t] # None
      BY <1>7, <2>1
    <3>2. interest'[native[t]] = interest[native[t]]
      BY <1>1, <3>1 DEF Watched, Tables
    <3> QED
      BY <1>1, <1>6, <3>1, <3>2 DEF Watched, Exact
  <2> QED
    BY <2>1 DEF Exact
<1>9. Free'
  <2>1. ASSUME NEW g \in Fd, \A t \in Socket : native'[t] # g
        PROVE  /\ interest'[g] = {}
               /\ g \notin orphaned' => \A d \in Direction : watch'[g][d] = 0
    <3>1. CASE g = f
      <4>1. interest'[g] = {}
        BY <1>1, <1>2, <3>1 DEF Watched, Tables
      <4>2. ASSUME g \notin orphaned', NEW d \in Direction PROVE watch'[g][d] = 0
        <5>1. ~Awaited(s)
          BY <1>1, <3>1, <4>2
        <5>2. Waiting(s, d) = {}
          BY <5>1 DEF Waiting, Awaited, Inv, Shape
        <5> QED
          BY <1>1, <3>1, <5>2, FS_EmptySet DEF Watched, Exact
      <4> QED
        BY <4>1, <4>2
    <3>2. CASE g # f
      <4>1. \A t \in Socket : native[t] # g
        BY <1>1, <2>1, <3>2 DEF Watched, Tables
      <4> QED
        BY <1>1, <3>2, <4>1 DEF Watched, Tables, Free
    <3> QED
      BY <3>1, <3>2
  <2> QED
    BY <2>1 DEF Free
<1> QED
  BY <1>3, <1>4, <1>5, <1>8, <1>9 DEF Watched

\* Open(): the descriptor is free, and one closed under a waiter is not used
\* again.
LEMMA OpenWatched ==
  ASSUME ReopenBusy = FALSE, Inv, Watched, NEW s \in Socket, NEW f \in Fd, Open(s, f)
  PROVE  Watched'
<1>1. /\ native[s] = None
      /\ \A t \in Socket : native[t] # f
      /\ ~Awaited(s) /\ f \notin orphaned
      /\ native' = [native EXCEPT ![s] = f]
      /\ UNCHANGED <<interest, watch, waiters, want, done, pc, current, orphaned>>
  BY DEF Open, list, objects
<1>2. Tables'
  BY <1>1 DEF Watched, Tables
<1>3. Separate'
  BY <1>1 DEF Watched, Tables, Separate
<1>4. Listed'
  BY <1>1 DEF Watched, Listed
<1>5. \A t, d : Waiting(t, d)' = Waiting(t, d)
  BY <1>1 DEF Waiting
<1>6. \A d : Waiting(s, d) = {}
  BY <1>1 DEF Waiting, Awaited, Inv, Shape
<1>7. ASSUME NEW t \in Socket, native'[t] # None
      PROVE  /\ \A d \in Direction : watch'[native'[t]][d] = Cardinality(Waiting(t, d)')
             /\ interest'[native'[t]] = {d \in Direction : Waiting(t, d)' # {}}
  <2>1. CASE t = s
    <3>1. native'[t] = f /\ interest[f] = {} /\ \A d \in Direction : watch[f][d] = 0
      BY <1>1, <2>1 DEF Watched, Tables, Free
    <3> QED
      BY <1>1, <1>5, <1>6, <2>1, <3>1, FS_EmptySet
  <2>2. CASE t # s
    <3>1. native'[t] = native[t] /\ native[t] # None
      BY <1>1, <1>7, <2>2 DEF Watched, Tables
    <3> QED
      BY <1>1, <1>5, <3>1 DEF Watched, Exact
  <2> QED
    BY <2>1, <2>2
<1>8. Exact'
  BY <1>7 DEF Exact
<1>9. Free'
  <2>1. ASSUME NEW g \in Fd, \A t \in Socket : native'[t] # g
        PROVE  \A t \in Socket : native[t] # g
    BY <1>1, <2>1, NoneAssumption DEF Watched, Tables
  <2> QED
    BY <1>1, <2>1 DEF Watched, Free
<1> QED
  BY <1>2, <1>3, <1>4, <1>8, <1>9 DEF Watched

\* The steps of the threads that change neither list nor tables.
LEMMA ThreadWatched ==
  ASSUME Inv, Watched,
         \/ \E p \in Poller : PollStep(p)
         \/ \E w \in Waiter : AwaitReady(w) \/ RegisterToken(w) \/ DestroyFrame(w) \/ CancelFire(w)
         \/ \E a \in Actor : Claim(a) \/ Resume(a) \/ Dangle(a)
         \/ Stop \/ Cancel
         \/ \E f \in Fd, d \in Direction : Readiness(f, d)
         \/ UNCHANGED vars
  PROVE  Watched'
<1>1. UNCHANGED <<native, interest, watch, waiters, want, orphaned>>
  BY DEF PollStep, PollCheck, PollSnapshot, PollIdle, EpollWait, PollDone, PollSift, PollMatch,
         Visit, AwaitReady, RegisterToken, DestroyFrame, CancelFire, Claim, Resume, Dangle, Stop,
         Cancel, Readiness, vars, kernel, list, objects, pollState, rest
<1> USE ActorAssumption
        DEF Inv, Shape, Early, Label, Actor, At, Goto, objects, Listed
<1>2. Listed
  BY DEF Watched
<1>3. ASSUME NEW p \in Poller, PollStep(p) PROVE Listed'
  BY <1>1, <1>2, <1>3
     DEF PollStep, PollCheck, PollSnapshot, PollIdle, EpollWait, PollDone, PollSift, PollMatch, Visit
<1>4. ASSUME NEW w \in Waiter,
             AwaitReady(w) \/ RegisterToken(w) \/ DestroyFrame(w) \/ CancelFire(w)
      PROVE  Listed'
  BY <1>1, <1>2, <1>4 DEF AwaitReady, RegisterToken, DestroyFrame, CancelFire
<1>5. ASSUME NEW a \in Actor, Claim(a) PROVE Listed'
  <2>0. Return(a) \in {"sift", "match", "suspended", "fire"}
    BY DEF Return
  <2>1. pc[a] = "claim" /\ current[a] \in Waiter /\ pc[current[a]] \notin Early
    BY <1>5 DEF Claim, Named, Unknown, Owning
  <2>2. CASE current[a] \in done
    BY <1>1, <1>2, <1>5, <2>0, <2>1, <2>2 DEF Claim
  <2>3. CASE current[a] \notin done
    <3>1. current[a] \in waiters
      BY <1>2, <2>1, <2>3
    <3>2. /\ done' = done \cup {current[a]} /\ UNCHANGED current
          /\ pc' = [pc EXCEPT ![a] = "unregister"]
      BY <1>5, <2>3 DEF Claim
    <3> QED
      BY <1>1, <1>2, <2>1, <3>1, <3>2
  <2> QED
    BY <2>2, <2>3
<1>6. ASSUME NEW a \in Actor, Resume(a) PROVE Listed'
  <2>0. Return(a) \in {"sift", "match", "suspended", "fire"}
    BY DEF Return
  <2> QED
    BY <1>1, <1>2, <1>6, <2>0 DEF Resume
<1>7. ASSUME \/ Stop \/ Cancel \/ UNCHANGED vars
             \/ \E a \in Actor : Dangle(a)
             \/ \E f \in Fd, d \in Direction : Readiness(f, d)
      PROVE  Listed'
  BY <1>1, <1>2, <1>7 DEF Stop, Cancel, Dangle, Readiness, vars
<1> HIDE DEF Inv, Shape, Early, Label, Actor, At, Goto, objects, Listed
<1>8. Listed'
  BY <1>3, <1>4, <1>5, <1>6, <1>7
<1> QED
  BY <1>1, <1>8, SameTables

\* Every step keeps the tables exact.
LEMMA StepWatched == ASSUME ReopenBusy = FALSE PROVE Inv /\ Watched /\ [Next]_vars => Watched'
<1> SUFFICES ASSUME Inv, Watched, [Next]_vars PROVE Watched'
  OBVIOUS
<1> QED
  BY RegisterWatched, UnregisterWatched, CloseWatched, OpenWatched, ThreadWatched
     DEF Next, AwaitStep, Completion

\* While no descriptor is used again that was closed under a waiter, the waiters
\* of every open socket are counted, each once, and the kernel watches exactly
\* the directions somebody waits for, whatever registrations, completions,
\* cancellations, closings and openings come in between.
THEOREM ExactInterest == ASSUME ReopenBusy = FALSE PROVE Spec => []InterestExact
<1>1. Watched => InterestExact
  BY DEF Watched, Exact, InterestExact, Waiting
<1>2. Inv /\ Watched /\ [Next]_vars => Watched'
  BY StepWatched
<1> QED
  BY <1>1, <1>2, InitWatched, Ownership, PTL DEF Spec
=============================================================================
