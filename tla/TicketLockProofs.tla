-------------------------- MODULE TicketLockProofs --------------------------
(***************************************************************************)
(* Mutual exclusion and first-come, first-served order of the ticket lock  *)
(* for every set of threads and every counter width larger than that set.  *)
(*                                                                         *)
(* The counters only show their value modulo Width, so the argument is     *)
(* carried by the unwrapped numbers: the threads in line hold exactly the  *)
(* tickets served..issued-1, one each, hence at most Cardinality(Thread)   *)
(* of them, and two numbers closer than Width that agree modulo Width are  *)
(* equal.  The line of the abstract lock is those threads in the order of  *)
(* their tickets: drawing one appends to it, unlocking removes its head.   *)
(***************************************************************************)
EXTENDS TicketLock, FiniteSetTheorems, SequenceTheorems, TLAPS

\* The counters and the local copies are the unwrapped numbers, wrapped.
Wrapped ==
    /\ nextTicket = issued % Width
    /\ nowServing = served % Width
    /\ \A t \in InLine \cup InTryLock : ticket[t] = mine[t] % Width

\* The threads in line hold the tickets served..issued-1, one each.
Numbered ==
    /\ served <= issued
    /\ \A t \in InLine : mine[t] \in served..(issued - 1)
    /\ \A t, u \in InLine : mine[t] = mine[u] => t = u
    /\ \A i \in served..(issued - 1) : \E t \in InLine : mine[t] = i

\* The owner's ticket is the one being served.
Owner == \A t \in Thread : pc[t] = "held" => mine[t] = served

\* A TryLock() in progress loaded a value that is at most one lap old.
Fresh == \A t \in InTryLock : mine[t] <= served /\ issued < mine[t] + Width

IInv == TypeOK /\ Wrapped /\ Numbered /\ Owner /\ Fresh

-----------------------------------------------------------------------------
\* Division with remainder on the naturals.
LEMMA DivMod ==
    ASSUME NEW a \in Nat, NEW w \in Nat \ {0}
    PROVE  /\ a \div w \in Nat
           /\ a % w \in 0..(w - 1)
           /\ a = (w * (a \div w)) + (a % w)
OBVIOUS

\* Quotient and remainder are unique.
LEMMA DivModUnique ==
    ASSUME NEW w \in Nat \ {0}, NEW q \in Int, NEW p \in Int,
           NEW r \in 0..(w - 1), NEW s \in 0..(w - 1),
           (w * q) + r = (w * p) + s
    PROVE  q = p /\ r = s
<1>1. CASE q = p BY <1>1
<1>2. CASE q > p
  <2>1. w * (q - p) >= w BY <1>2
  <2>2. w * (q - p) = s - r OBVIOUS
  <2> QED BY <2>1, <2>2
<1>3. CASE q < p
  <2>1. w * (p - q) >= w BY <1>3
  <2>2. w * (p - q) = r - s OBVIOUS
  <2> QED BY <2>1, <2>2
<1> QED BY <1>1, <1>2, <1>3

\* Two numbers closer than w that agree modulo w are equal: why a comparison
\* of wrapped counters decides.
LEMMA NearEqual ==
    ASSUME NEW a \in Nat, NEW b \in Nat, NEW w \in Nat \ {0},
           a <= b, b < a + w, a % w = b % w
    PROVE  a = b
<1>1. a = (w * (a \div w)) + (a % w) /\ a \div w \in Nat BY DivMod
<1>2. b = (w * (b \div w)) + (b % w) /\ b \div w \in Nat BY DivMod
<1>3. b - a = w * ((b \div w) - (a \div w)) BY <1>1, <1>2
<1>4. (b \div w) - (a \div w) = 0
  <2>1. CASE (b \div w) - (a \div w) >= 1
    <3>1. w * ((b \div w) - (a \div w)) >= w BY <2>1, <1>1, <1>2
    <3> QED BY <3>1, <1>3
  <2>2. CASE (b \div w) - (a \div w) <= -1
    <3>1. w * ((b \div w) - (a \div w)) <= -w BY <2>2, <1>1, <1>2
    <3> QED BY <3>1, <1>3
  <2> QED BY <2>1, <2>2, <1>1, <1>2
<1> QED BY <1>3, <1>4, <1>1, <1>2

\* Incrementing a wrapped counter and wrapping again is wrapping the successor.
LEMMA WrapSuccessor ==
    ASSUME NEW a \in Nat, NEW w \in Nat \ {0}
    PROVE  ((a % w) + 1) % w = (a + 1) % w
<1> DEFINE q == a \div w  r == a % w  p == (a + 1) \div w  s == (a + 1) % w
<1>1. q \in Nat /\ r \in 0..(w - 1) /\ a = (w * q) + r BY DivMod
<1>2. p \in Nat /\ s \in 0..(w - 1) /\ a + 1 = (w * p) + s
  <2>1. a + 1 \in Nat OBVIOUS
  <2> QED BY <2>1, DivMod
<1> SUFFICES (r + 1) % w = s OBVIOUS
<1> HIDE DEF q, r, p, s
<1>3. CASE r + 1 < w
  <2>1. r + 1 \in 0..(w - 1) BY <1>1, <1>3
  <2>2. (w * q) + (r + 1) = (w * p) + s BY <1>1, <1>2
  <2>3. q \in Int /\ p \in Int BY <1>1, <1>2
  <2>4. r + 1 = s BY <2>1, <2>2, <2>3, <1>2, DivModUnique
  <2>5. (r + 1) % w = r + 1 BY <2>1
  <2> QED BY <2>4, <2>5
<1>4. CASE r + 1 = w
  <2>1. 0 \in 0..(w - 1) /\ q + 1 \in Int /\ p \in Int BY <1>1, <1>2
  <2>2. (w * (q + 1)) + 0 = (w * p) + s BY <1>1, <1>2, <1>4
  <2>3. 0 = s BY <2>1, <2>2, <1>2, DivModUnique
  <2>4. (r + 1) % w = 0 BY <1>4, <1>1
  <2> QED BY <2>3, <2>4
<1> QED BY <1>3, <1>4, <1>1

\* The width is positive.
LEMMA WidthPositive == Width \in Nat \ {0} /\ Cardinality(Thread) \in Nat
BY ThreadAssumption, WidthAssumption, FS_CardinalityType

\* At most one ticket per thread is outstanding, so the line is shorter than
\* a lap of the counters.
LEMMA LineShort ==
    ASSUME TypeOK, Numbered
    PROVE  issued - served < Width
<1>1. issued \in Nat /\ served \in Nat BY DEF TypeOK
<1> DEFINE S == served..(issued - 1)
           f == [i \in S |-> CHOOSE t \in InLine : mine[t] = i]
<1>2. \A i \in S : f[i] \in InLine /\ mine[f[i]] = i BY DEF Numbered
<1>3. f \in [S -> Thread] BY <1>2 DEF InLine
<1>4. f \in Injection(S, Thread)
  <2>1. \A i, j \in S : f[i] = f[j] => i = j BY <1>2
  <2> QED BY <1>3, <2>1 DEF Injection, IsInjective
<1>5. Cardinality(S) <= Cardinality(Thread) BY <1>4, ThreadAssumption, FS_Injection
<1>6. Cardinality(S) = IF served > issued - 1 THEN 0 ELSE (issued - 1) - served + 1
  BY <1>1, FS_Interval
<1>7. Cardinality(S) = issued - served BY <1>1, <1>6 DEF Numbered
<1> QED BY <1>1, <1>5, <1>7, WidthAssumption, WidthPositive

-----------------------------------------------------------------------------
\* A draw keeps the invariant when the drawer waits in Lock(), or comes in
\* through TryLock() with nobody in line.
LEMMA DrawPreserves ==
    ASSUME IInv, NEW t \in Thread, t \notin InLine, NEW next \in {"spin", "held"},
           next = "held" => served = issued, Draw(t, next)
    PROVE  IInv'
<1> USE DEF IInv
<1>1. /\ issued \in Nat /\ served \in Nat /\ issued' = issued + 1 /\ served' = served
      /\ Width \in Nat \ {0}
  BY WidthPositive DEF TypeOK, Draw
<1>2. /\ InLine' = InLine \cup {t}
      /\ InTryLock' = InTryLock \ {t}
  BY DEF Draw, TypeOK, InLine, InTryLock, PC
<1>3. /\ mine'[t] = issued /\ ticket'[t] = nextTicket
      /\ \A u \in Thread \ {t} : mine'[u] = mine[u] /\ ticket'[u] = ticket[u] /\ pc'[u] = pc[u]
  BY DEF Draw, TypeOK
<1>4. TypeOK'
  <2>1. nextTicket' \in 0..(Width - 1) BY <1>1 DEF Draw, TypeOK
  <2>2. pc' \in [Thread -> PC] BY DEF Draw, TypeOK, PC
  <2>3. ticket' \in [Thread -> 0..(Width - 1)] BY DEF Draw, TypeOK
  <2>4. mine' \in [Thread -> Nat] BY DEF Draw, TypeOK
  <2> QED BY <1>1, <2>1, <2>2, <2>3, <2>4 DEF Draw, TypeOK
<1>5. Wrapped'
  <2>1. nextTicket' = issued' % Width BY <1>1, WrapSuccessor DEF Draw, Wrapped
  <2>2. nowServing' = served' % Width BY DEF Draw, Wrapped
  <2>3. \A u \in (InLine \cup InTryLock)' : ticket'[u] = mine'[u] % Width
    <3> TAKE u \in (InLine \cup InTryLock)'
    <3>1. CASE u = t BY <3>1, <1>3 DEF Wrapped
    <3>2. CASE u # t
      <4>1. u \in Thread /\ u \in InLine \cup InTryLock BY <3>2, <1>2 DEF InLine, InTryLock
      <4> QED BY <4>1, <3>2, <1>3 DEF Wrapped
    <3> QED BY <3>1, <3>2
  <2> QED BY <2>1, <2>2, <2>3 DEF Wrapped
<1>6. Numbered'
  <2>1. \A u \in InLine : u # t /\ u \in Thread BY DEF InLine
  <2>2. (served <= issued)' BY <1>1 DEF Numbered
  <2>3. \A u \in InLine' : mine'[u] \in served'..(issued' - 1)
    BY <1>1, <1>2, <1>3, <2>1 DEF Numbered
  <2>4. \A u, v \in InLine' : mine'[u] = mine'[v] => u = v
    BY <1>1, <1>2, <1>3, <2>1 DEF Numbered
  <2>5. \A i \in served'..(issued' - 1) : \E u \in InLine' : mine'[u] = i
    <3> TAKE i \in served'..(issued' - 1)
    <3>1. CASE i = issued BY <3>1, <1>2, <1>3
    <3>2. CASE i # issued
      <4>1. i \in served..(issued - 1) BY <3>2, <1>1
      <4> QED BY <4>1, <1>2, <1>3, <2>1 DEF Numbered
    <3> QED BY <3>1, <3>2
  <2> QED BY <2>2, <2>3, <2>4, <2>5 DEF Numbered
<1>7. Owner'
  <2> SUFFICES ASSUME NEW u \in Thread, pc'[u] = "held" PROVE mine'[u] = served'
    BY DEF Owner
  <2>1. CASE u = t BY <2>1, <1>1, <1>3 DEF Draw, TypeOK
  <2>2. CASE u # t BY <2>2, <1>1, <1>3 DEF Owner
  <2> QED BY <2>1, <2>2
<1>8. Fresh'
  <2> SUFFICES ASSUME NEW u \in InTryLock'
               PROVE  mine'[u] <= served' /\ issued' < mine'[u] + Width
    BY DEF Fresh
  <2>1. u \in InTryLock /\ u # t /\ u \in Thread BY <1>2 DEF InTryLock
  <2>2. issued + 1 < mine[u] + Width BY <2>1 DEF Draw, Unlapped
  <2> QED BY <1>1, <1>3, <2>1, <2>2 DEF Fresh
<1> QED BY <1>4, <1>5, <1>6, <1>7, <1>8

\* Every step of the lock keeps the inductive invariant.
LEMMA StepPreserves == IInv /\ [Next]_vars => IInv'
<1> SUFFICES ASSUME IInv, [Next]_vars PROVE IInv' OBVIOUS
<1> USE DEF IInv
<1>1. issued \in Nat /\ served \in Nat /\ Width \in Nat \ {0}
  BY WidthPositive DEF TypeOK
<1>2. issued - served < Width BY LineShort
<1>3. ASSUME NEW t \in Thread, LockDraw(t) PROVE IInv'
  <2>1. t \notin InLine BY <1>3 DEF LockDraw, InLine
  <2> QED BY <1>3, <2>1, DrawPreserves DEF LockDraw
<1>4. ASSUME NEW t \in Thread, LockEnter(t) PROVE IInv'
  <2>1. t \in InLine BY <1>4 DEF LockEnter, InLine
  <2>2. mine[t] \in Nat /\ served <= mine[t] /\ mine[t] < issued BY <1>1, <2>1 DEF Numbered
  <2>3. served % Width = mine[t] % Width BY <1>4, <2>1 DEF LockEnter, Wrapped
  <2>4. mine[t] = served
    <3>1. mine[t] < served + Width BY <1>1, <1>2, <2>2
    <3> QED BY <1>1, <2>2, <2>3, <3>1, NearEqual
  <2>5. InLine' = InLine /\ InTryLock' = InTryLock
    BY <1>4 DEF LockEnter, TypeOK, InLine, InTryLock
  <2>6. TypeOK' BY <1>4 DEF LockEnter, TypeOK, PC
  <2>7. Wrapped' /\ Numbered' /\ Fresh' BY <1>4, <2>5 DEF LockEnter, Wrapped, Numbered, Fresh
  <2>8. Owner' BY <1>4, <2>4 DEF LockEnter, Owner, TypeOK
  <2> QED BY <2>6, <2>7, <2>8
<1>5. ASSUME NEW t \in Thread, TryLoad(t) PROVE IInv'
  <2>1. InLine' = InLine /\ InTryLock' = InTryLock \cup {t} /\ t \notin InLine
    BY <1>5 DEF TryLoad, TypeOK, InLine, InTryLock
  <2>2. /\ mine'[t] = served /\ ticket'[t] = nowServing
        /\ \A u \in Thread \ {t} : mine'[u] = mine[u] /\ ticket'[u] = ticket[u] /\ pc'[u] = pc[u]
        /\ pc'[t] = "loaded"
    BY <1>5 DEF TryLoad, TypeOK
  <2>3. \A u \in InLine \cup InTryLock : u \in Thread BY DEF InLine, InTryLock
  <2>4. TypeOK' BY <1>5 DEF TryLoad, TypeOK, PC
  <2>5. Wrapped' BY <1>5, <2>1, <2>2, <2>3 DEF TryLoad, Wrapped
  <2>6. Numbered' BY <1>5, <2>1, <2>2, <2>3 DEF TryLoad, Numbered
  <2>7. Owner' BY <1>5, <2>2 DEF TryLoad, Owner
  <2>8. Fresh' BY <1>1, <1>2, <1>5, <2>1, <2>2, <2>3 DEF TryLoad, Fresh
  <2> QED BY <2>4, <2>5, <2>6, <2>7, <2>8
<1>6. ASSUME NEW t \in Thread, TryCompare(t) \/ TryFail(t) PROVE IInv'
  <2>1. /\ InLine' = InLine /\ InTryLock' \subseteq InTryLock
        /\ UNCHANGED <<nextTicket, nowServing, ticket, issued, served, mine>>
    BY <1>6 DEF TryCompare, TryFail, TypeOK, InLine, InTryLock
  <2>2. TypeOK' BY <1>6, <2>1 DEF TryCompare, TryFail, TypeOK, PC
  <2>3. Wrapped' /\ Numbered' /\ Fresh' BY <2>1 DEF Wrapped, Numbered, Fresh
  <2>4. Owner' BY <1>6, <2>1 DEF TryCompare, TryFail, Owner, TypeOK
  <2> QED BY <2>2, <2>3, <2>4
<1>7. ASSUME NEW t \in Thread, TryExchange(t) PROVE IInv'
  <2>1. t \in InTryLock /\ t \notin InLine BY <1>7 DEF TryExchange, InTryLock, InLine
  <2>2. mine[t] \in Nat /\ mine[t] <= served /\ issued < mine[t] + Width
    BY <2>1 DEF Fresh, TypeOK
  <2>3. served <= issued BY DEF Numbered
  <2>4. mine[t] % Width = issued % Width BY <1>7, <2>1 DEF TryExchange, Wrapped
  <2>5. mine[t] <= issued BY <1>1, <2>2, <2>3
  <2>6. mine[t] = issued BY <1>1, <2>2, <2>4, <2>5, NearEqual
  <2>7. served = issued BY <1>1, <2>2, <2>3, <2>6
  <2> QED BY <1>7, <2>1, <2>7, DrawPreserves DEF TryExchange
<1>8. ASSUME NEW t \in Thread, Unlock(t) PROVE IInv'
  <2>1. /\ InLine' = InLine \ {t} /\ InTryLock' = InTryLock /\ t \in InLine
        /\ UNCHANGED <<nextTicket, ticket, issued, mine>> /\ served' = served + 1
    BY <1>8 DEF Unlock, TypeOK, InLine, InTryLock
  <2>2. mine[t] = served /\ served < issued BY <1>1, <1>8, <2>1 DEF Unlock, Owner, Numbered
  <2>3. \A u \in InLine \ {t} : mine[u] # served BY <2>1, <2>2 DEF Numbered
  <2>4. TypeOK' BY <1>1, <1>8 DEF Unlock, TypeOK, PC
  <2>5. Wrapped' BY <1>1, <1>8, <2>1, WrapSuccessor DEF Unlock, Wrapped
  <2>6. Numbered' BY <1>1, <2>1, <2>2, <2>3 DEF Numbered
  <2>7. Owner'
    <3> SUFFICES ASSUME NEW u \in Thread, pc'[u] = "held" PROVE FALSE BY DEF Owner
    <3>1. u # t /\ pc[u] = "held" BY <1>8 DEF Unlock, TypeOK
    <3> QED BY <3>1, <2>3 DEF Owner, InLine
  <2>8. Fresh' BY <1>1, <2>1 DEF Fresh, InTryLock, TypeOK
  <2> QED BY <2>4, <2>5, <2>6, <2>7, <2>8
<1>9. CASE UNCHANGED vars
  BY <1>9 DEF vars, TypeOK, Wrapped, Numbered, Owner, Fresh, InLine, InTryLock
<1> QED BY <1>3, <1>4, <1>5, <1>6, <1>7, <1>8, <1>9 DEF Next

\* The inductive invariant holds throughout every behaviour.
LEMMA Inductive == Spec => []IInv
<1>1. Init => IInv
  BY WidthPositive DEF Init, IInv, TypeOK, PC, Wrapped, Numbered, Owner, Fresh, InLine, InTryLock
<1> QED BY <1>1, StepPreserves, PTL DEF Spec

\* Type correctness of the ticket lock, for every number of threads.
THEOREM TypeCorrect == Spec => []TypeOK
BY Inductive, PTL DEF IInv

\* Mutual exclusion: whatever the threads, the width of the counters and the
\* interleaving of Lock(), TryLock() and Unlock(), two threads never own the
\* ticket lock at once.
THEOREM Exclusive == Spec => []MutualExclusion
<1>1. IInv => MutualExclusion
  BY DEF IInv, Owner, Numbered, MutualExclusion, InLine
<1> QED BY <1>1, Inductive, PTL

-----------------------------------------------------------------------------
(* The counters implement the first-come-first-served line of FifoLock.     *)

\* The members of S in the order of the tickets m gives them, from a to b - 1.
Ranked(S, m, a, b) == [i \in 1..(b - a) |-> CHOOSE t \in S : m[t] = a + i - 1]

\* The tickets a..b-1 are held by the members of S, one each.
OneEach(S, m, a, b) ==
    /\ S \subseteq Thread /\ a \in Nat /\ b \in Nat /\ a <= b
    /\ \A t, u \in S : m[t] = m[u] => t = u
    /\ \A i \in a..(b - 1) : \E t \in S : m[t] = i

\* When the tickets a..b-1 are held by exactly the members of S, one each, the
\* ranking is a sequence with each holder at its place.
LEMMA RankedProperties ==
    ASSUME NEW S, NEW m, NEW a, NEW b, OneEach(S, m, a, b)
    PROVE  /\ Ranked(S, m, a, b) \in Seq(Thread)
           /\ Len(Ranked(S, m, a, b)) = b - a
           /\ \A i \in 1..(b - a) : \A t \in S :
                 m[t] = a + i - 1 => Ranked(S, m, a, b)[i] = t
           /\ \A i \in 1..(b - a) : Ranked(S, m, a, b)[i] \in S /\ m[Ranked(S, m, a, b)[i]] = a + i - 1
<1> DEFINE r == Ranked(S, m, a, b)
<1> USE DEF OneEach
<1>1. \A i \in 1..(b - a) : \E t \in S : m[t] = a + i - 1
  <2> TAKE i \in 1..(b - a)
  <2>1. a + i - 1 \in a..(b - 1) OBVIOUS
  <2> QED BY <2>1
<1>2. \A i \in 1..(b - a) : r[i] \in S /\ m[r[i]] = a + i - 1 BY <1>1 DEF Ranked
<1>3. r \in [1..(b - a) -> Thread] BY <1>2 DEF Ranked
<1>4. b - a \in Nat OBVIOUS
<1>5. r \in Seq(Thread) /\ Len(r) = b - a BY <1>3, <1>4
<1> QED BY <1>2, <1>5

\* Line is such a ranking, in the present state and in the next one.
LEMMA LineRanked ==
    /\ Line = Ranked(InLine, mine, served, issued)
    /\ Line' = Ranked(InLine', mine', served', issued')
BY DEF Line, Ranked

\* A ranking only looks at the tickets of the members of S.
LEMMA RankedCongruent ==
    ASSUME NEW S, NEW m, NEW n, NEW a, NEW b, \A t \in S : m[t] = n[t]
    PROVE  Ranked(S, m, a, b) = Ranked(S, n, a, b)
<1>1. \A x : \A t \in S : m[t] = x <=> n[t] = x OBVIOUS
<1>2. \A i \in 1..(b - a) :
          (CHOOSE t \in S : m[t] = a + i - 1) = (CHOOSE t \in S : n[t] = a + i - 1)
  BY <1>1
<1> QED BY <1>2 DEF Ranked

\* What the line looks like under the inductive invariant.
LEMMA LineProperties ==
    ASSUME IInv
    PROVE  /\ Line \in Seq(Thread) /\ Len(Line) = issued - served
           /\ \A i \in 1..(issued - served) : Line[i] \in InLine /\ mine[Line[i]] = served + i - 1
           /\ \A i \in 1..(issued - served) : \A t \in InLine : mine[t] = served + i - 1 => Line[i] = t
<1>1. OneEach(InLine, mine, served, issued)
  BY DEF OneEach, IInv, TypeOK, Numbered, InLine
<1> DEFINE r == Ranked(InLine, mine, served, issued)
<1>2. /\ r \in Seq(Thread) /\ Len(r) = issued - served
      /\ \A i \in 1..(issued - served) : \A t \in InLine : mine[t] = served + i - 1 => r[i] = t
      /\ \A i \in 1..(issued - served) : r[i] \in InLine /\ mine[r[i]] = served + i - 1
  BY <1>1, RankedProperties
<1>3. Line = r BY LineRanked
<1> HIDE DEF r
<1> QED BY <1>2, <1>3

\* The same of the next state.
LEMMA NextLineProperties ==
    ASSUME IInv'
    PROVE  /\ Line' \in Seq(Thread) /\ Len(Line') = issued' - served'
           /\ \A i \in 1..(issued' - served') : Line'[i] \in InLine' /\ mine'[Line'[i]] = served' + i - 1
           /\ \A i \in 1..(issued' - served') : \A t \in InLine' :
                 mine'[t] = served' + i - 1 => Line'[i] = t
<1>1. OneEach(InLine', mine', served', issued')
  BY DEF OneEach, IInv, TypeOK, Numbered, InLine
<1> DEFINE r == Ranked(InLine', mine', served', issued')
<1>2. /\ r \in Seq(Thread) /\ Len(r) = issued' - served'
      /\ \A i \in 1..(issued' - served') : \A t \in InLine' : mine'[t] = served' + i - 1 => r[i] = t
      /\ \A i \in 1..(issued' - served') : r[i] \in InLine' /\ mine'[r[i]] = served' + i - 1
  BY <1>1, RankedProperties
<1>3. Line' = r BY LineRanked
<1> HIDE DEF r
<1> QED BY <1>2, <1>3

\* A draw puts its caller at the end of the line.
LEMMA DrawAppends ==
    ASSUME IInv, IInv', NEW t \in Thread, NEW next \in {"spin", "held"}, t \notin InLine,
           Draw(t, next)
    PROVE  Line' = Append(Line, t)
<1>1. /\ issued \in Nat /\ served \in Nat /\ issued' = issued + 1 /\ served' = served
      /\ served <= issued /\ mine \in [Thread -> Nat]
  BY DEF IInv, TypeOK, Numbered, Draw
<1>2. /\ InLine' = InLine \cup {t} /\ mine'[t] = issued
      /\ \A u \in InLine : mine'[u] = mine[u]
  BY DEF IInv, TypeOK, Draw, InLine, PC
<1> DEFINE n == issued - served
<1>3. n \in Nat /\ issued' - served' = n + 1 BY <1>1
<1>4. Line \in Seq(Thread) /\ Len(Line) = n BY LineProperties
<1>5. Line' \in Seq(Thread) /\ Len(Line') = n + 1 BY <1>3, NextLineProperties
<1>6. \A i \in 1..n : Line'[i] = Line[i]
  <2> TAKE i \in 1..n
  <2>1. Line[i] \in InLine /\ mine[Line[i]] = served + i - 1 BY LineProperties
  <2>2. i \in 1..(issued' - served') /\ Line[i] \in InLine' BY <1>2, <1>3, <2>1
  <2>3. mine'[Line[i]] = served' + i - 1 BY <1>1, <1>2, <2>1
  <2> QED BY <2>2, <2>3, NextLineProperties
<1>7. Line'[n + 1] = t
  <2>1. n + 1 \in 1..(issued' - served') BY <1>3
  <2>2. t \in InLine' /\ mine'[t] = served' + (n + 1) - 1 BY <1>1, <1>2
  <2> QED BY <2>1, <2>2, NextLineProperties
<1> HIDE DEF n
<1>8. /\ Append(Line, t) \in Seq(Thread) /\ Len(Append(Line, t)) = n + 1
      /\ \A i \in 1..n : Append(Line, t)[i] = Line[i]
      /\ Append(Line, t)[n + 1] = t
  BY <1>3, <1>4
<1>9. \A i \in 1..Len(Line') : Line'[i] = Append(Line, t)[i]
  <2> TAKE i \in 1..Len(Line')
  <2>1. i \in 1..n \/ i = n + 1 BY <1>3, <1>5
  <2> QED BY <2>1, <1>6, <1>7, <1>8
<1> QED BY <1>5, <1>8, <1>9, SeqEqual

\* The owner stands at the head of the line.
LEMMA OwnerLeads ==
    ASSUME IInv, NEW t \in InLine, mine[t] = served
    PROVE  Line # <<>> /\ Head(Line) = t
<1>1. issued \in Nat /\ served \in Nat /\ served < issued
  BY DEF IInv, TypeOK, Numbered
<1>2. 1 \in 1..(issued - served) /\ served = served + 1 - 1 BY <1>1
<1>3. Line[1] = t BY <1>2, LineProperties
<1>4. Line \in Seq(Thread) /\ Len(Line) # 0 BY <1>1, LineProperties
<1> QED BY <1>3, <1>4

\* Unlock() takes the head off the line.
LEMMA UnlockTail ==
    ASSUME IInv, IInv', NEW t \in Thread, Unlock(t)
    PROVE  Line # <<>> /\ Head(Line) = t /\ Line' = Tail(Line)
<1>1. /\ issued \in Nat /\ served \in Nat /\ issued' = issued /\ served' = served + 1
      /\ served <= issued /\ mine' = mine
  BY DEF IInv, TypeOK, Numbered, Unlock
<1>2. t \in InLine /\ mine[t] = served /\ InLine' = InLine \ {t}
  BY DEF IInv, TypeOK, Owner, Unlock, InLine
<1>3. Line # <<>> /\ Head(Line) = t BY <1>2, OwnerLeads
<1>4. Line \in Seq(Thread) /\ Len(Line) = issued - served BY LineProperties
<1>5. /\ Tail(Line) \in Seq(Thread) /\ Len(Tail(Line)) = issued - served - 1
      /\ \A i \in 1..Len(Tail(Line)) : Tail(Line)[i] = Line[i + 1]
  BY <1>3, <1>4, HeadTailProperties
<1>6. Line' \in Seq(Thread) /\ Len(Line') = issued - served - 1 BY <1>1, NextLineProperties
<1>7. \A i \in 1..Len(Line') : Line'[i] = Tail(Line)[i]
  <2> TAKE i \in 1..Len(Line')
  <2>1. i \in 1..(issued' - served') /\ i + 1 \in 1..(issued - served) BY <1>1, <1>6
  <2>2. Line[i + 1] \in InLine /\ mine[Line[i + 1]] = served + (i + 1) - 1 BY <2>1, LineProperties
  <2>3. mine'[Line[i + 1]] = served' + i - 1 /\ mine[Line[i + 1]] # served BY <1>1, <2>1, <2>2
  <2>4. Line[i + 1] \in InLine' BY <1>2, <2>2, <2>3
  <2>5. Line'[i] = Line[i + 1] BY <2>1, <2>3, <2>4, NextLineProperties
  <2> QED BY <1>5, <1>6, <2>5
<1>8. Line' = Tail(Line) BY <1>5, <1>6, <1>7, SeqEqual
<1> QED BY <1>3, <1>8

\* Every step of the lock is a step of the line or changes nothing of it.
LEMMA StepRefines ==
    ASSUME IInv, IInv', [Next]_vars
    PROVE  [F!FNext]_<<Line, {t \in Thread : pc[t] = "held"}>>
<1> DEFINE inside == {t \in Thread : pc[t] = "held"}
<1>1. issued \in Nat /\ served \in Nat /\ Width \in Nat \ {0}
  BY WidthPositive DEF IInv, TypeOK
<1>2. ASSUME NEW t \in Thread, LockDraw(t) PROVE F!Arrive(t)
  <2>1. t \notin InLine BY <1>2 DEF LockDraw, InLine
  <2>2. Line' = Append(Line, t) BY <1>2, <2>1, DrawAppends DEF LockDraw
  <2>3. inside' = inside BY <1>2 DEF LockDraw, Draw, IInv, TypeOK
  <2> QED BY <2>2, <2>3 DEF F!Arrive
<1>3. ASSUME NEW t \in Thread, LockEnter(t) PROVE F!Enter(t)
  <2>1. t \in InLine /\ mine'[t] = mine[t] /\ served' = served /\ pc'[t] = "held"
    BY <1>3 DEF LockEnter, InLine, IInv, TypeOK
  <2>2. mine[t] = served BY <2>1 DEF IInv, Owner
  <2>3. Line # <<>> /\ Head(Line) = t BY <2>1, <2>2, OwnerLeads
  <2>4. inside' = inside \cup {t} BY <1>3 DEF LockEnter, IInv, TypeOK
  <2>5. InLine' = InLine /\ mine' = mine /\ issued' = issued
    BY <1>3 DEF LockEnter, InLine, IInv, TypeOK
  <2>6. Line' = Line BY <2>1, <2>5, LineRanked
  <2> QED BY <2>3, <2>4, <2>6 DEF F!Enter
<1>4. ASSUME NEW t \in Thread, TryLoad(t) PROVE UNCHANGED <<Line, inside>>
  <2>1. /\ InLine' = InLine /\ issued' = issued /\ served' = served
        /\ \A u \in InLine : mine'[u] = mine[u]
    BY <1>4 DEF TryLoad, InLine, IInv, TypeOK
  <2>2. Line' = Line BY <2>1, LineRanked, RankedCongruent
  <2>3. inside' = inside BY <1>4 DEF TryLoad, IInv, TypeOK
  <2> QED BY <2>2, <2>3
<1>5. ASSUME NEW t \in Thread, TryCompare(t) \/ TryFail(t) PROVE UNCHANGED <<Line, inside>>
  <2>1. InLine' = InLine /\ issued' = issued /\ served' = served /\ mine' = mine
    BY <1>5 DEF TryCompare, TryFail, InLine, IInv, TypeOK
  <2>2. Line' = Line BY <2>1, LineRanked
  <2>3. inside' = inside BY <1>5 DEF TryCompare, TryFail, IInv, TypeOK
  <2> QED BY <2>2, <2>3
<1>6. ASSUME NEW t \in Thread, TryExchange(t) PROVE F!TryEnter(t)
  <2>1. t \notin InLine /\ pc'[t] = "held" /\ mine'[t] = issued /\ served' = served
    BY <1>6 DEF TryExchange, Draw, InLine, IInv, TypeOK
  <2>2. issued = served BY <2>1 DEF IInv, Owner
  <2>3. Line' = Append(Line, t) BY <1>6, <2>1, DrawAppends DEF TryExchange
  <2>4. Line \in Seq(Thread) /\ Len(Line) = 0 BY <1>1, <2>2, LineProperties
  <2>5. Line = <<>> BY <2>4, EmptySeq
  <2>6. Line' = <<t>> BY <2>3, <2>5
  <2>7. inside' = inside \cup {t} BY <1>6 DEF TryExchange, Draw, IInv, TypeOK
  <2> QED BY <2>5, <2>6, <2>7 DEF F!TryEnter
<1>7. ASSUME NEW t \in Thread, Unlock(t) PROVE F!Leave(t)
  <2>1. Line # <<>> /\ Head(Line) = t /\ Line' = Tail(Line) BY <1>7, UnlockTail
  <2>2. t \in inside /\ inside' = inside \ {t} BY <1>7 DEF Unlock, IInv, TypeOK
  <2> QED BY <2>1, <2>2 DEF F!Leave
<1>8. CASE UNCHANGED vars BY <1>8, LineRanked DEF vars, InLine
<1> QED BY <1>2, <1>3, <1>4, <1>5, <1>6, <1>7, <1>8 DEF Next, F!FNext

\* The counters implement a first-come-first-served line: whatever the number
\* of threads, the width of the counters and the interleaving of the atomic
\* accesses of Lock(), TryLock() and Unlock(), every step adds a caller to the
\* end of the line, lets its head in, takes the owner off the front, or leaves
\* line and owner as they are.
THEOREM Fifo == Spec => ImplementsFifo
<1>1. Init => F!FInit
  <2> SUFFICES ASSUME Init PROVE F!FInit OBVIOUS
  <2>1. IInv
    BY WidthPositive DEF Init, IInv, TypeOK, PC, Wrapped, Numbered, Owner, Fresh, InLine, InTryLock
  <2>2. Line \in Seq(Thread) /\ Len(Line) = 0 BY <2>1, LineProperties DEF Init
  <2>3. Line = <<>> BY <2>2, EmptySeq
  <2>4. {t \in Thread : pc[t] = "held"} = {} BY DEF Init
  <2> QED BY <2>3, <2>4 DEF F!FInit
<1>2. IInv /\ IInv' /\ [Next]_vars => [F!FNext]_<<Line, {t \in Thread : pc[t] = "held"}>>
  BY StepRefines
<1> QED BY <1>1, <1>2, Inductive, PTL DEF Spec, ImplementsFifo, F!FSpec
=============================================================================
