----------------------- MODULE ConcurrentHashMapProofs -----------------------
(***************************************************************************)
(* What a writer of the concurrent map unlinks is destroyed once, and only *)
(* when no read can look at it any more, for any keys, writers and readers *)
(* and under each of the three reclamation policies.                       *)
(*                                                                         *)
(* The inductive invariant has three layers.  The heap is a forest: a      *)
(* chain hangs in one bucket of one table (OneParent), and what hangs      *)
(* nowhere is a root, owned once by the shard, by a retired record, by the *)
(* list a Poll() has taken or by the writer itself (RootsApart, RootsLive, *)
(* Covered).  A read holds tables and chains of that forest (Holds,        *)
(* HeldWithin).  The rest says why what it holds is not reclaimed: its     *)
(* epoch is not past the record's (EpochKept, MinimumKept), its hazards    *)
(* name what it holds (HazardKept), or it is not there (Quiet, Drained).   *)
(***************************************************************************)
EXTENDS ConcurrentHashMap, TLAPS, FiniteSetTheorems, SequenceTheorems, WellFoundedInduction

----------------------------------------------------------------------------
\* The heap as a forest.

Place == Addr \cup {Null}
Record == [object : Addr, epoch : Nat]

IsChain(a) == a # Null /\ heap[a].kind = "chain"
Buckets(t) == heap[t].buckets
Parent(t, c) == IsTable(t) /\ c # Null /\ \E b \in DOMAIN Buckets(t) : Buckets(t)[b] = c

Records(s) == {s[i] : i \in DOMAIN s}
Objects(s) == {s[i].object : i \in DOMAIN s}
Distinct(s) == \A i, j \in DOMAIN s : s[i].object = s[j].object => i = j

\* What is owned by itself and not by a table.
Root(a) ==
    \/ a = table
    \/ a \in Objects(retired)
    \/ \E w \in Writer : a \in Objects(writer[w].scan) \/ a = writer[w].old

\* The object is of use to a read that has not finished.
Holds(r, a) == (reader[r].table = a /\ reader[r].pc # "leave") \/ reader[r].chain = a

ending == {"Quiesce", "Destroy"}
reading == {"load", "store", "validate", "walk", "leave"}

----------------------------------------------------------------------------
\* The inductive invariant.

WriterType(x) ==
    /\ x = [pc |-> x.pc, op |-> x.op, key |-> x.key, val |-> x.val, old |-> x.old,
            inserted |-> x.inserted, scan |-> x.scan, minimum |-> x.minimum]
    /\ x.old \in Place
    /\ x.scan \in Seq(Record)
    /\ x.minimum \in Nat

ReaderType(x) ==
    /\ x = [pc |-> x.pc, keys |-> x.keys, epoch |-> x.epoch, table |-> x.table,
            chain |-> x.chain, candidate |-> x.candidate, bucket |-> x.bucket,
            visited |-> x.visited]
    /\ x.pc \in {"idle", "register"} \cup reading
    /\ x.pc = "idle" \/ x.keys = Key \/ \E k \in Key : x.keys = {k}
    /\ x.epoch \in Nat
    /\ x.table \in Place
    /\ x.chain \in Place
    /\ x.candidate \in Place

TypeOK ==
    /\ policy \in Policies
    /\ heap = [a \in Addr |-> heap[a]]
    /\ table \in Place
    /\ size \in Int
    /\ lock \in Writer \cup {Nobody}
    /\ retired \in Seq(Record)
    /\ epoch \in Nat
    /\ records \in SUBSET Reader
    /\ hazard \in [Reader -> [table : Place, chain : Place]]
    /\ writer = [w \in Writer |-> writer[w]]
    /\ \A w \in Writer : WriterType(writer[w])
    /\ reader = [r \in Reader |-> reader[r]]
    /\ \A r \in Reader : ReaderType(reader[r])
    /\ lost \in SUBSET Addr

\* What an address holds.
Shapes ==
    \A a \in Addr :
        \/ heap[a] = Free
        \/ IsChain(a)
        \/ /\ IsTable(a)
           /\ heap[a] = Table(Buckets(a))
           /\ Buckets(a) \in Seq(Place)
           /\ Buckets(a) # <<>>

Heads == \A t, c \in Addr : Parent(t, c) => IsChain(c)

OneParent ==
    \A s, t \in Addr : IsTable(s) /\ IsTable(t) =>
        \A b \in DOMAIN Buckets(s), c \in DOMAIN Buckets(t) :
            Buckets(s)[b] = Buckets(t)[c] /\ Buckets(s)[b] # Null => s = t /\ b = c

\* Only the holder of the lock does anything.
LockedBy(w) ==
    /\ lock = w <=> writer[w].pc # "idle"
    /\ writer[w].pc = "idle" => writer[w] = Idle
    /\ writer[w].pc # "idle" => table # Null /\ lost = {}
Locked == \A w \in Writer : LockedBy(w)

\* What the holder has in hand at each of its steps.
StepsOf(w) ==
    /\ writer[w].scan # <<>> => writer[w].pc = "reclaim"
    /\ writer[w].old # Null => writer[w].pc \in {"uncount", "publish", "retire"}
    /\ writer[w].pc = "publish" /\ writer[w].old # Null => IsChain(writer[w].old)
    /\ writer[w].op \in ending => writer[w].pc \in {"drain", "reclaim"}
    /\ writer[w].pc \in {"chain", "publish"} => writer[w].op \in keyed
    /\ writer[w].op \in keyed => writer[w].key \in Key
    /\ writer[w].op = "Reserve" => writer[w].val \in Nat
    /\ writer[w].pc = "capacity" => writer[w].op \in {"InsertOrAssign", "Upsert", "Reserve"}
    /\ writer[w].pc = "drain" => writer[w].op \in ending
    /\ writer[w].pc = "minimum" => policy = "LocalEpoch"
    /\ writer[w].pc = "reclaim" /\ policy = "ManualQuiesce" => writer[w].op \in ending
Steps == \A w \in Writer : StepsOf(w)

ApartOf(w) ==
    /\ Distinct(writer[w].scan)
    /\ table \notin Objects(writer[w].scan)
    /\ Objects(retired) \cap Objects(writer[w].scan) = {}
    /\ writer[w].old \notin Objects(retired)
    /\ writer[w].old # Null => writer[w].old # table
RootsApart ==
    /\ Distinct(retired)
    /\ table \notin Objects(retired)
    /\ \A w \in Writer : ApartOf(w)

RootsLive ==
    \A a \in Addr : Root(a) => heap[a] # Free /\ \A t \in Addr : ~Parent(t, a)

ShardTable == table # Null => IsTable(table)

Covered ==
    \A a \in Addr : heap[a] # Free => Root(a) \/ a \in lost \/ \E t \in Addr : Parent(t, a)

Lost ==
    /\ \A a \in lost : heap[a] # Free
    /\ \A t \in lost : \A c \in Addr : Parent(t, c) => c \in lost

\* What a read has got so far.
ReadingBy(r) ==
    /\ r \in records <=> reader[r].pc \in reading
    /\ reader[r].pc \in {"idle", "register"} => reader[r].table = Null /\ reader[r].chain = Null
    /\ reader[r].pc # "idle" => table # Null
    /\ reader[r].chain # Null => reader[r].pc = "walk"
    /\ reader[r].pc = "walk" => reader[r].table # Null
    /\ reader[r].pc \in {"store", "validate"} => policy = "HazardPointers"
Reading == \A r \in Reader : ReadingBy(r)

HeldBy(r) ==
    /\ reader[r].table # Null /\ reader[r].pc # "leave"
          => /\ IsTable(reader[r].table)
             /\ reader[r].bucket \in DOMAIN Buckets(reader[r].table)
    /\ reader[r].chain # Null => IsChain(reader[r].chain)
Held == \A r \in Reader : HeldBy(r)

\* A chain that a read holds hangs in the table it holds, or no longer.
HeldWithinBy(r) ==
    reader[r].chain # Null =>
        /\ \A t \in Addr : Parent(t, reader[r].chain) => t = reader[r].table
        /\ \A w \in Writer : writer[w].pc = "publish" => writer[w].old # reader[r].chain
HeldWithin == \A r \in Reader : HeldWithinBy(r)

\* LocalEpoch: an object is retired at an epoch that no read that holds it is past.
EpochBound == \A r \in Reader : reader[r].epoch <= epoch
EpochKept ==
    policy = "LocalEpoch" =>
        \A r \in Reader :
            /\ \A x \in Records(retired) : Holds(r, x.object) => reader[r].epoch <= x.epoch
            /\ \A w \in Writer : \A x \in Records(writer[w].scan) :
                  Holds(r, x.object) => reader[r].epoch <= x.epoch
MinimumKept ==
    policy = "LocalEpoch" =>
        \A r \in Reader, w \in Writer : writer[w].op \notin ending =>
            \A x \in Records(writer[w].scan) :
                Holds(r, x.object) => writer[w].minimum <= reader[r].epoch

\* HazardPointers: the slots name what the read holds.
HazardKeptBy(r) ==
    policy = "HazardPointers" =>
        /\ reader[r].table # Null /\ reader[r].pc # "leave" => hazard[r].table = reader[r].table
        /\ reader[r].chain # Null => hazard[r].chain = reader[r].chain
        /\ reader[r].pc = "validate" =>
              reader[r].candidate = IF reader[r].table = Null THEN hazard[r].table ELSE hazard[r].chain
HazardKept == \A r \in Reader : HazardKeptBy(r)

\* Quiesce() and Drain(): what they let go nobody holds.
Quiet ==
    \A r \in Reader, w \in Writer : writer[w].op \in ending =>
        \A x \in Records(writer[w].scan) : ~Holds(r, x.object)
DrainedOf(r) ==
    \A w \in Writer :
        /\ writer[w].op = "Destroy" => reader[r].pc # "register"
        /\ writer[w].op = "Destroy" /\ writer[w].pc = "reclaim" => reader[r].pc = "idle"
        /\ writer[w].op \in ending /\ policy = "ManualQuiesce" => reader[r].pc = "idle"
Drained == \A r \in Reader : DrainedOf(r)

Inv ==
    /\ TypeOK /\ Shapes /\ Heads /\ OneParent
    /\ Locked /\ Steps
    /\ RootsApart /\ RootsLive /\ ShardTable /\ Covered /\ Lost
    /\ Reading /\ Held /\ HeldWithin
    /\ EpochBound /\ EpochKept /\ MinimumKept /\ HazardKept /\ Quiet /\ Drained

----------------------------------------------------------------------------
\* Numbers: every table has at least one bucket.

LEMMA LeastNumber ==
    ASSUME NEW S, S \subseteq Nat, S # {}
    PROVE  Min(S) \in S /\ \A n \in S : Min(S) <= n
<1>1. PICK m \in S : \A n \in S : ~(<<n, m>> \in OpToRel(<, Nat))
  BY NatLessThanWellFounded, WFMin
<1>2. \A n \in S : ~(n < m) BY <1>1 DEF OpToRel
<1>3. \E x \in S : \A n \in S : x <= n BY <1>2
<1> QED BY <1>3 DEF Min

LEMMA GreatestOfTwo ==
    ASSUME NEW m \in Int, NEW n \in Int
    PROVE  Max({m, n}) \in {m, n} /\ Max({m, n}) >= m
<1>1. \E x \in {m, n} : \A y \in {m, n} : x >= y OBVIOUS
<1> QED BY <1>1 DEF Max

LEMMA OddTimesOdd ==
    ASSUME NEW a \in Nat, NEW b \in Nat, NEW p \in Nat
    PROVE  (2 * a + 1) * (2 * b + 1) # 2 * p
<1>1. (2 * a + 1) * (2 * b + 1) = 2 * (2 * (a * b) + a + b) + 1 OBVIOUS
<1>2. PICK c \in Nat : c = 2 * (a * b) + a + b OBVIOUS
<1> QED BY <1>1, <1>2

LEMMA Parity == ASSUME NEW n \in Nat PROVE \E h \in Nat : n = 2 * h \/ n = 2 * h + 1
<1>1. n \div 2 \in Nat /\ (n = 2 * (n \div 2) \/ n = 2 * (n \div 2) + 1) OBVIOUS
<1> QED BY <1>1

LEMMA TwiceAPowerOfTwo ==
    ASSUME NEW p \in Nat \ {0}, IsPowerOfTwo(p)
    PROVE  IsPowerOfTwo(2 * p)
<1> SUFFICES ASSUME NEW d \in 1 .. 2 * p, NEW k \in 1 .. 2 * p, 2 * p = d * k
             PROVE  d = 1 \/ \E h \in 1 .. d : d = 2 * h
  BY DEF IsPowerOfTwo
<1>1. PICK a \in Nat : d = 2 * a \/ d = 2 * a + 1 BY Parity
<1>2. PICK b \in Nat : k = 2 * b \/ k = 2 * b + 1 BY Parity
<1>3. CASE d = 2 * a BY <1>3
<1>4. CASE d = 2 * a + 1
  <2>1. k = 2 * b BY <1>2, <1>4, OddTimesOdd
  <2>2. p = d * b
    <3>1. d * k = 2 * (d * b) BY <2>1
    <3> QED BY <3>1
  <2>3. b \in 1 .. p /\ d \in 1 .. p
    <3>1. b >= 1 BY <2>1
    <3>2. d * b >= d /\ d * b >= b BY <3>1
    <3> QED BY <3>1, <3>2, <2>2
  <2>4. d = 1 \/ \E h \in 1 .. d : d = 2 * h BY <2>2, <2>3 DEF IsPowerOfTwo
  <2> QED BY <2>4
<1> QED BY <1>1, <1>3, <1>4

\* Between n and twice n there is a power of two.
LEMMA PowerWithinTwice ==
    ASSUME NEW n \in Nat \ {0}
    PROVE  \E p \in n .. 2 * n : IsPowerOfTwo(p)
<1> DEFINE S == {m \in Nat \ {0} : ~\E p \in m .. 2 * m : IsPowerOfTwo(p)}
<1> SUFFICES ASSUME S # {} PROVE FALSE OBVIOUS
<1>1. PICK m \in S : \A l \in S : m <= l BY LeastNumber
<1>2. m # 1
  <2>1. IsPowerOfTwo(1) BY DEF IsPowerOfTwo
  <2> QED BY <2>1, <1>1
<1>3. m - 1 \in Nat \ {0} /\ m - 1 \notin S BY <1>1, <1>2
<1>4. PICK p \in (m - 1) .. 2 * (m - 1) : IsPowerOfTwo(p) BY <1>3
<1>5. CASE p >= m BY <1>1, <1>4, <1>5
<1>6. CASE p = m - 1
  <2>1. IsPowerOfTwo(2 * p) BY <1>3, <1>4, <1>6, TwiceAPowerOfTwo
  <2> QED BY <2>1, <1>1, <1>3, <1>6
<1> QED BY <1>4, <1>5, <1>6

LEMMA BucketCountPositive ==
    ASSUME NEW n \in Int
    PROVE  BucketCountForElements(n) \in Nat \ {0}
<1> DEFINE x == IF n = 0 THEN MinBuckets ELSE CeilDivide(n * 4 + 2, 3)
<1>1. x \in Int BY BucketsAssumption DEF CeilDivide
<1>2. Max({MinBuckets, x}) \in Nat \ {0}
  <2> HIDE DEF x
  <2>1. MinBuckets \in Int BY BucketsAssumption
  <2>2. Max({MinBuckets, x}) \in {MinBuckets, x} /\ Max({MinBuckets, x}) >= MinBuckets
    BY <1>1, <2>1, GreatestOfTwo
  <2> QED BY <1>1, <2>2, BucketsAssumption
<1>3. \A m \in Nat \ {0} : BitCeil(m) \in Nat \ {0}
  <2> TAKE m \in Nat \ {0}
  <2>1. {p \in m .. 2 * m : IsPowerOfTwo(p)} # {} BY PowerWithinTwice
  <2>2. {p \in m .. 2 * m : IsPowerOfTwo(p)} \subseteq Nat OBVIOUS
  <2>3. BitCeil(m) \in {p \in m .. 2 * m : IsPowerOfTwo(p)} BY <2>1, <2>2, LeastNumber DEF BitCeil
  <2> QED BY <2>3
<1> QED BY <1>2, <1>3 DEF BucketCountForElements

LEMMA BucketIndexInRange ==
    ASSUME NEW k \in Key, NEW n \in Nat \ {0}
    PROVE  BucketIndex(k, n) \in 1 .. n
<1>1. KeyHash[k] \in Nat BY HashAssumption
<1>2. KeyHash[k] % n \in 0 .. n - 1 BY <1>1
<1> QED BY <1>2 DEF BucketIndex

----------------------------------------------------------------------------
\* Sequences of records.

LEMMA InFront ==
    ASSUME NEW s \in Seq(Record), NEW x \in Record
    PROVE  /\ <<x>> \o s \in Seq(Record)
           /\ Records(<<x>> \o s) = {x} \cup Records(s)
           /\ Objects(<<x>> \o s) = {x.object} \cup Objects(s)
           /\ x.object \notin Objects(s) /\ Distinct(s) => Distinct(<<x>> \o s)
<1> DEFINE t == <<x>> \o s
<1>1. t \in Seq(Record) /\ Len(t) = Len(s) + 1 OBVIOUS
<1>2. \A i \in 1 .. Len(t) : t[i] = IF i = 1 THEN x ELSE s[i - 1] OBVIOUS
<1>3. DOMAIN t = 1 .. Len(t) /\ DOMAIN s = 1 .. Len(s) /\ Len(s) \in Nat BY <1>1
<1>4. t[1] = x /\ 1 \in DOMAIN t BY <1>1, <1>2, <1>3
<1>5. \A i \in DOMAIN s : i + 1 \in DOMAIN t /\ t[i + 1] = s[i] BY <1>1, <1>2, <1>3
<1>6. \A i \in DOMAIN t : i = 1 \/ (i - 1 \in DOMAIN s /\ t[i] = s[i - 1]) BY <1>1, <1>2, <1>3
<1> HIDE DEF t
<1>7. Records(t) = {x} \cup Records(s)
  <2>1. \A y \in Records(t) : y = x \/ y \in Records(s) BY <1>4, <1>6 DEF Records
  <2>2. x \in Records(t) /\ Records(s) \subseteq Records(t) BY <1>4, <1>5 DEF Records
  <2> QED BY <2>1, <2>2
<1>8. Objects(t) = {x.object} \cup Objects(s)
  <2>1. \A a \in Objects(t) : a = x.object \/ a \in Objects(s) BY <1>4, <1>6 DEF Objects
  <2>2. x.object \in Objects(t) /\ Objects(s) \subseteq Objects(t) BY <1>4, <1>5 DEF Objects
  <2> QED BY <2>1, <2>2
<1>9. ASSUME x.object \notin Objects(s), Distinct(s) PROVE Distinct(t)
  <2> SUFFICES ASSUME NEW i \in DOMAIN t, NEW j \in DOMAIN t, t[i].object = t[j].object
               PROVE  i = j
    BY DEF Distinct
  <2>1. CASE i = 1 /\ j # 1 BY <2>1, <1>4, <1>6, <1>9 DEF Objects
  <2>2. CASE i # 1 /\ j = 1 BY <2>2, <1>4, <1>6, <1>9 DEF Objects
  <2>3. CASE i # 1 /\ j # 1
    <3>1. i - 1 = j - 1 BY <2>3, <1>6, <1>9 DEF Distinct
    <3> QED BY <3>1, <1>3
  <2> QED BY <2>1, <2>2, <2>3
<1> QED BY <1>1, <1>7, <1>8, <1>9 DEF t

LEMMA WithoutHead ==
    ASSUME NEW s \in Seq(Record), s # <<>>
    PROVE  /\ Head(s) \in Record
           /\ Tail(s) \in Seq(Record)
           /\ Records(s) = {Head(s)} \cup Records(Tail(s))
           /\ Objects(s) = {Head(s).object} \cup Objects(Tail(s))
           /\ Distinct(s) => Head(s).object \notin Objects(Tail(s)) /\ Distinct(Tail(s))
<1> DEFINE t == Tail(s)
<1>1. Head(s) = s[1] /\ 1 \in DOMAIN s /\ t \in Seq(Record) /\ Len(t) = Len(s) - 1 OBVIOUS
<1>2. \A i \in DOMAIN t : i + 1 \in DOMAIN s /\ t[i] = s[i + 1] OBVIOUS
<1>3. \A i \in DOMAIN s : i = 1 \/ (i - 1 \in DOMAIN t /\ s[i] = t[i - 1]) OBVIOUS
<1>4. Head(s) \in Record BY <1>1
<1> HIDE DEF t
<1>5. Records(s) = {Head(s)} \cup Records(t)
  <2>1. \A y \in Records(s) : y = s[1] \/ y \in Records(t) BY <1>3 DEF Records
  <2>2. s[1] \in Records(s) /\ Records(t) \subseteq Records(s) BY <1>1, <1>2 DEF Records
  <2> QED BY <1>1, <2>1, <2>2
<1>6. Objects(s) = {Head(s).object} \cup Objects(t)
  <2>1. \A a \in Objects(s) : a = s[1].object \/ a \in Objects(t) BY <1>3 DEF Objects
  <2>2. s[1].object \in Objects(s) /\ Objects(t) \subseteq Objects(s) BY <1>1, <1>2 DEF Objects
  <2> QED BY <1>1, <2>1, <2>2
<1>7. ASSUME Distinct(s) PROVE Head(s).object \notin Objects(t) /\ Distinct(t)
  <2>1. DOMAIN t \subseteq Nat \ {0} BY <1>1
  <2>2. \A i \in DOMAIN t : t[i].object # Head(s).object BY <1>1, <1>2, <1>7, <2>1 DEF Distinct
  <2>3. \A i, j \in DOMAIN t : t[i].object = t[j].object => i + 1 = j + 1 BY <1>2, <1>7 DEF Distinct
  <2>4. \A i, j \in DOMAIN t : i + 1 = j + 1 => i = j BY <2>1
  <2> QED BY <2>2, <2>3, <2>4 DEF Objects, Distinct
<1> QED BY <1>1, <1>4, <1>5, <1>6, <1>7 DEF t

LEMMA NoRecords == Records(<<>>) = {} /\ Objects(<<>>) = {} /\ Distinct(<<>>) /\ <<>> \in Seq(Record)
BY DEF Records, Objects, Distinct

LEMMA RecordsObjects ==
    ASSUME NEW s \in Seq(Record)
    PROVE  /\ \A x \in Records(s) : x \in Record /\ x.object \in Objects(s)
           /\ Objects(s) \subseteq Addr
           /\ \A a \in Objects(s) : \E x \in Records(s) : x.object = a
<1>1. \A i \in DOMAIN s : s[i] \in Record OBVIOUS
<1>2. \A x \in Record : x.object \in Addr BY DEF Record
<1>3. \A x \in Records(s) : x \in Record /\ x.object \in Objects(s) BY <1>1 DEF Records, Objects
<1>4. Objects(s) \subseteq Addr BY <1>1, <1>2 DEF Objects
<1>5. \A a \in Objects(s) : \E x \in Records(s) : x.object = a BY DEF Records, Objects
<1> QED BY <1>3, <1>4, <1>5

----------------------------------------------------------------------------
\* Steps of a read.  They leave the heap and everything the writers keep.

\* No writer is about to destroy what hangs in a table.
Retiring(a) == a \in Objects(retired) \/ \E w \in Writer : a \in Objects(writer[w].scan)

LEMMA ReadFrame ==
    ASSUME Inv, UNCHANGED <<policy, heap, table, lock, retired, writer, lost>>
    PROVE  /\ Shapes' /\ Heads' /\ OneParent' /\ Locked' /\ Steps'
           /\ RootsApart' /\ RootsLive' /\ ShardTable' /\ Covered' /\ Lost'
<1>1. Shapes' BY DEF Inv, Shapes, IsChain, IsTable, Buckets
<1>2. Heads' BY DEF Inv, Heads, Parent, IsChain, IsTable, Buckets
<1>3. OneParent' BY DEF Inv, OneParent, IsTable, Buckets
<1>4. Locked' BY DEF Inv, Locked, LockedBy
<1>5. Steps' BY DEF Inv, Steps, StepsOf, IsChain
<1>6. RootsApart' BY DEF Inv, RootsApart, ApartOf
<1>7. RootsLive' BY DEF Inv, RootsLive, Root, Parent, IsTable, Buckets
<1>8. ShardTable' BY DEF Inv, ShardTable, IsTable
<1>9. Covered' BY DEF Inv, Covered, Root, Parent, IsTable, Buckets
<1>10. Lost' BY DEF Inv, Lost, Parent, IsTable, Buckets
<1> QED BY <1>1, <1>2, <1>3, <1>4, <1>5, <1>6, <1>7, <1>8, <1>9, <1>10

\* A read step is safe when its own part of the invariant is, and when it
\* takes hold of nothing that is waiting to be destroyed.
LEMMA ReadStep ==
    ASSUME Inv, NEW r \in Reader,
           UNCHANGED <<policy, heap, table, size, lock, retired, epoch, writer, lost>>,
           reader' = [q \in Reader |-> reader'[q]],
           records' \in SUBSET Reader,
           hazard' \in [Reader -> [table : Place, chain : Place]],
           \A q \in Reader : q # r => /\ reader'[q] = reader[q]
                                      /\ hazard'[q] = hazard[q]
                                      /\ q \in records' <=> q \in records,
           ReaderType(reader'[r]), reader'[r].epoch <= epoch,
           ReadingBy(r)', HeldBy(r)', HeldWithinBy(r)', HazardKeptBy(r)', DrainedOf(r)',
           \A a \in Addr : Holds(r, a)' =>
              (Holds(r, a) /\ reader'[r].epoch = reader[r].epoch) \/ ~Retiring(a)
    PROVE  Inv'
<1>1. TypeOK'
  <2>1. \A q \in Reader : ReaderType(reader'[q]) BY DEF Inv, TypeOK
  <2> QED BY <2>1 DEF Inv, TypeOK
<1>2. Reading'
  <2>1. \A q \in Reader : q # r => ReadingBy(q)' BY DEF Inv, Reading, ReadingBy
  <2> QED BY <2>1 DEF Reading
<1>3. Held'
  <2>1. \A q \in Reader : q # r => HeldBy(q)' BY DEF Inv, Held, HeldBy, IsTable, IsChain, Buckets
  <2> QED BY <2>1 DEF Held
<1>4. HeldWithin'
  <2>1. \A q \in Reader : q # r => HeldWithinBy(q)'
    BY DEF Inv, HeldWithin, HeldWithinBy, Parent, IsTable, Buckets
  <2> QED BY <2>1 DEF HeldWithin
<1>5. HazardKept'
  <2>1. \A q \in Reader : q # r => HazardKeptBy(q)' BY DEF Inv, HazardKept, HazardKeptBy
  <2> QED BY <2>1 DEF HazardKept
<1>6. Drained'
  <2>1. \A q \in Reader : q # r => DrainedOf(q)' BY DEF Inv, Drained, DrainedOf
  <2> QED BY <2>1 DEF Drained
<1>7. EpochBound' BY DEF Inv, EpochBound
<1>8. /\ \A x \in Records(retired) : x.object \in Addr /\ Retiring(x.object)
      /\ \A w \in Writer : \A x \in Records(writer[w].scan) : x.object \in Addr /\ Retiring(x.object)
  <2>1. retired \in Seq(Record) /\ \A w \in Writer : writer[w].scan \in Seq(Record)
    BY DEF Inv, TypeOK, WriterType
  <2>2. \A x \in Records(retired) : x.object \in Objects(retired) /\ x.object \in Addr
    BY <2>1, RecordsObjects
  <2>3. \A w \in Writer : \A x \in Records(writer[w].scan) :
           x.object \in Objects(writer[w].scan) /\ x.object \in Addr
    BY <2>1, RecordsObjects
  <2> QED BY <2>2, <2>3 DEF Retiring
<1>9. \A q \in Reader, a \in Addr : Holds(q, a)' /\ Retiring(a) =>
         Holds(q, a) /\ reader'[q].epoch = reader[q].epoch
  <2>1. \A q \in Reader, a \in Addr : q # r => (Holds(q, a)' <=> Holds(q, a)) BY DEF Holds
  <2> QED BY <2>1
<1>10. EpochKept' BY <1>8, <1>9 DEF Inv, EpochKept
<1>11. MinimumKept' BY <1>8, <1>9 DEF Inv, MinimumKept
<1>12. Quiet' BY <1>8, <1>9 DEF Inv, Quiet
<1>13. /\ Shapes' /\ Heads' /\ OneParent' /\ Locked' /\ Steps'
       /\ RootsApart' /\ RootsLive' /\ ShardTable' /\ Covered' /\ Lost'
  BY ReadFrame
<1> QED BY <1>1, <1>2, <1>3, <1>4, <1>5, <1>6, <1>7, <1>10, <1>11, <1>12, <1>13 DEF Inv

LEMMA ReaderFields ==
    ASSUME Inv, NEW r \in Reader
    PROVE  ReaderType(reader[r]) /\ reader = [q \in Reader |-> reader[q]]
BY DEF Inv, TypeOK

LEMMA BeginReadInv == ASSUME Inv, NEW r \in Reader, BeginRead(r) PROVE Inv'
<1>1. PICK keys \in {{k} : k \in Key} \cup {Key} :
         reader' = [reader EXCEPT ![r] = [Resting EXCEPT !.pc = "register", !.keys = keys,
                       !.epoch = IF policy = "LocalEpoch" THEN epoch ELSE 0]]
  BY DEF BeginRead
<1>2. /\ reader[r].pc = "idle" /\ table # Null
      /\ \A w \in Writer : writer[w].op # "Destroy" /\ (writer[w].op = "Quiesce" => policy # "ManualQuiesce")
      /\ UNCHANGED <<policy, heap, table, size, lock, retired, epoch, writer, lost, records, hazard>>
  BY DEF BeginRead
<1>3. reader = [q \in Reader |-> reader[q]] BY ReaderFields
<1>4. reader'[r] = [pc |-> "register", keys |-> keys, epoch |-> IF policy = "LocalEpoch" THEN epoch ELSE 0,
                    table |-> Null, chain |-> Null, candidate |-> Null, bucket |-> 0, visited |-> <<>>]
  BY <1>1, <1>3 DEF Resting
<1>5. reader' = [q \in Reader |-> reader'[q]] /\ \A q \in Reader : q # r => reader'[q] = reader[q]
  BY <1>1, <1>3
<1>6. ReaderType(reader'[r]) /\ reader'[r].epoch <= epoch
  <2>1. epoch \in Nat BY DEF Inv, TypeOK
  <2>2. keys = Key \/ \E k \in Key : keys = {k} BY <1>1
  <2>3. PICK e \in Nat : e = (IF policy = "LocalEpoch" THEN epoch ELSE 0) /\ e <= epoch BY <2>1
  <2>4. reader'[r] = [pc |-> "register", keys |-> keys, epoch |-> e, table |-> Null, chain |-> Null,
                      candidate |-> Null, bucket |-> 0, visited |-> <<>>]
    BY <1>4, <2>3
  <2> QED BY <2>2, <2>3, <2>4 DEF ReaderType, Place, Null
<1>7. ReadingBy(r)' BY <1>2, <1>4 DEF Inv, Reading, ReadingBy, reading, Null
<1>8. HeldBy(r)' /\ HeldWithinBy(r)' /\ HazardKeptBy(r)'
  BY <1>4 DEF HeldBy, HeldWithinBy, HazardKeptBy
<1>9. DrainedOf(r)' BY <1>2, <1>4 DEF DrainedOf, ending
<1>10. \A a \in Addr : ~Holds(r, a)' BY <1>4 DEF Holds, Addr, Null
<1>11. records' \in SUBSET Reader /\ hazard' \in [Reader -> [table : Place, chain : Place]]
  BY <1>2 DEF Inv, TypeOK
<1> QED BY <1>2, <1>5, <1>6, <1>7, <1>8, <1>9, <1>10, <1>11, ReadStep

LEMMA RegisterInv == ASSUME Inv, NEW r \in Reader, Register(r) PROVE Inv'
<1>1. /\ reader[r].pc = "register" /\ records' = records \cup {r}
      /\ reader' = [reader EXCEPT ![r].pc = "load"]
      /\ UNCHANGED <<policy, heap, table, size, lock, retired, epoch, writer, lost, hazard>>
  BY DEF Register
<1>2. ReaderType(reader[r]) /\ reader = [q \in Reader |-> reader[q]] BY ReaderFields
<1>3. reader'[r] = [pc |-> "load", keys |-> reader[r].keys, epoch |-> reader[r].epoch,
                    table |-> reader[r].table, chain |-> reader[r].chain,
                    candidate |-> reader[r].candidate, bucket |-> reader[r].bucket,
                    visited |-> reader[r].visited]
  BY <1>1, <1>2 DEF ReaderType
<1>4. reader' = [q \in Reader |-> reader'[q]] /\ \A q \in Reader : q # r => reader'[q] = reader[q]
  BY <1>1, <1>2
<1>5. ReaderType(reader'[r]) /\ reader'[r].epoch <= epoch
  <2>1. reader[r].epoch <= epoch BY DEF Inv, EpochBound
  <2> QED BY <1>1, <1>2, <1>3, <2>1 DEF ReaderType, reading
<1>6. reader[r].table = Null /\ reader[r].chain = Null /\ table # Null
  BY <1>1 DEF Inv, Reading, ReadingBy
<1>7. ReadingBy(r)' BY <1>1, <1>3, <1>6 DEF ReadingBy, reading
<1>8. HeldBy(r)' /\ HeldWithinBy(r)' /\ HazardKeptBy(r)'
  BY <1>3, <1>6 DEF HeldBy, HeldWithinBy, HazardKeptBy
<1>9. DrainedOf(r)' BY <1>1, <1>3 DEF Inv, Drained, DrainedOf
<1>10. \A a \in Addr : ~Holds(r, a)' BY <1>3, <1>6 DEF Holds, Addr, Null
<1>11. records' \in SUBSET Reader /\ hazard' \in [Reader -> [table : Place, chain : Place]]
  BY <1>1 DEF Inv, TypeOK
<1>12. \A q \in Reader : q # r => (q \in records' <=> q \in records) BY <1>1
<1> QED BY <1>1, <1>4, <1>5, <1>7, <1>8, <1>9, <1>10, <1>11, <1>12, ReadStep

\* What hangs in a table or is the shard's table is not being destroyed.
LEMMA NotRetiring ==
    ASSUME Inv
    PROVE  /\ table # Null => ~Retiring(table)
           /\ \A t, c \in Addr : Parent(t, c) => ~Retiring(c)
           /\ \A t, c \in Addr : Parent(t, c) => \A w \in Writer : c # writer[w].old
<1>1. table # Null => ~Retiring(table) BY DEF Inv, RootsApart, ApartOf, Retiring
<1>2. \A a \in Addr : Retiring(a) => Root(a) BY DEF Retiring, Root
<1>3. \A a \in Addr : (\E w \in Writer : a = writer[w].old) => Root(a) BY DEF Root
<1> QED BY <1>1, <1>2, <1>3 DEF Inv, RootsLive

\* A table has buckets 1 .. Len.
LEMMA BucketsOf ==
    ASSUME Inv, NEW t \in Addr, IsTable(t)
    PROVE  /\ heap[t] = Table(Buckets(t))
           /\ Buckets(t) \in Seq(Place)
           /\ DOMAIN Buckets(t) = 1 .. Len(Buckets(t))
           /\ Len(Buckets(t)) \in Nat \ {0}
           /\ BucketCount(t) = Len(Buckets(t))
           /\ \A b \in DOMAIN Buckets(t) : Buckets(t)[b] \in Place
<1>1. heap[t] # Free /\ ~IsChain(t) BY DEF IsTable, IsChain, Free
<1>2. heap[t] = Table(Buckets(t)) /\ Buckets(t) \in Seq(Place) /\ Buckets(t) # <<>>
  BY <1>1 DEF Inv, Shapes
<1>3. DOMAIN Buckets(t) = 1 .. Len(Buckets(t)) /\ Len(Buckets(t)) \in Nat \ {0} BY <1>2
<1>4. \A b \in DOMAIN Buckets(t) : Buckets(t)[b] \in Place BY <1>2
<1> QED BY <1>2, <1>3, <1>4 DEF BucketCount, Buckets

LEMMA TableProtected ==
    ASSUME Inv, NEW r \in Reader, reader[r].pc \in {"load", "validate"}, reader[r].table = Null,
           policy = "HazardPointers" => hazard[r].table = table,
           Protected(r, table),
           UNCHANGED <<policy, heap, table, size, lock, retired, epoch, records, hazard, writer, lost>>
    PROVE  Inv'
<1> DEFINE first == IF reader[r].keys = Key THEN 1
                    ELSE BucketIndex(CHOOSE k \in reader[r].keys : TRUE, BucketCount(table))
<1>1. reader' = [reader EXCEPT ![r].pc = "load", ![r].table = table, ![r].bucket = first,
                               ![r].candidate = Null]
  BY DEF Protected
<1>2. ReaderType(reader[r]) /\ reader = [q \in Reader |-> reader[q]] BY ReaderFields
<1>3. table # Null /\ table \in Addr /\ IsTable(table) /\ reader[r].chain = Null /\ r \in records
  BY DEF Inv, TypeOK, Reading, ReadingBy, reading, ShardTable, Place
<1>4. first \in DOMAIN Buckets(table)
  <2>1. DOMAIN Buckets(table) = 1 .. BucketCount(table) /\ BucketCount(table) \in Nat \ {0}
    BY <1>3, BucketsOf
  <2>2. CASE reader[r].keys = Key BY <2>1, <2>2
  <2>3. CASE reader[r].keys # Key
    <3>1. PICK k \in Key : reader[r].keys = {k} BY <1>2, <2>3 DEF ReaderType
    <3>2. (CHOOSE j \in reader[r].keys : TRUE) = k BY <3>1
    <3>3. BucketIndex(k, BucketCount(table)) \in 1 .. BucketCount(table) BY <2>1, BucketIndexInRange
    <3> QED BY <2>1, <2>3, <3>2, <3>3
  <2> QED BY <2>2, <2>3
<1> HIDE DEF first
<1>5. reader'[r] = [pc |-> "load", keys |-> reader[r].keys, epoch |-> reader[r].epoch,
                    table |-> table, chain |-> reader[r].chain, candidate |-> Null,
                    bucket |-> first, visited |-> reader[r].visited]
  BY <1>1, <1>2 DEF ReaderType
<1>6. reader' = [q \in Reader |-> reader'[q]] /\ \A q \in Reader : q # r => reader'[q] = reader[q]
  BY <1>1, <1>2
<1>7. ReaderType(reader'[r]) /\ reader'[r].epoch <= epoch
  <2>1. reader[r].epoch <= epoch BY DEF Inv, EpochBound
  <2> QED BY <1>2, <1>3, <1>5, <2>1 DEF ReaderType, reading, Place, Null
<1>8. ReadingBy(r)' BY <1>3, <1>5 DEF ReadingBy, reading
<1>9. HeldBy(r)' BY <1>3, <1>4, <1>5 DEF HeldBy, IsTable, Buckets
<1>10. HeldWithinBy(r)' /\ HazardKeptBy(r)' BY <1>3, <1>5 DEF HeldWithinBy, HazardKeptBy
<1>11. DrainedOf(r)' BY <1>5 DEF Inv, Drained, DrainedOf
<1>12. \A a \in Addr : Holds(r, a)' => a = table BY <1>3, <1>5 DEF Holds, Addr, Null
<1>13. \A a \in Addr : Holds(r, a)' => ~Retiring(a) BY <1>3, <1>12, NotRetiring
<1>14. records' \in SUBSET Reader /\ hazard' \in [Reader -> [table : Place, chain : Place]]
  BY DEF Inv, TypeOK
<1> QED BY <1>6, <1>7, <1>8, <1>9, <1>10, <1>11, <1>13, <1>14, ReadStep

\* The pointer to a chain is read from the table that the read holds.
LEMMA ChainPointer ==
    ASSUME Inv, NEW r \in Reader, reader[r].pc # "leave", reader[r].table # Null
    PROVE  /\ reader[r].table \in Addr
           /\ IsTable(reader[r].table)
           /\ Pointer(r) \in Place
           /\ Pointer(r) # Null => Parent(reader[r].table, Pointer(r)) /\ IsChain(Pointer(r))
<1>1. reader[r].table \in Addr BY ReaderFields DEF ReaderType, Place
<1>2. IsTable(reader[r].table) /\ reader[r].bucket \in DOMAIN Buckets(reader[r].table)
  BY DEF Inv, Held, HeldBy
<1>3. Pointer(r) = Buckets(reader[r].table)[reader[r].bucket] BY DEF Pointer, Buckets
<1>4. Pointer(r) \in Place BY <1>1, <1>2, <1>3, BucketsOf
<1>5. Pointer(r) # Null => Parent(reader[r].table, Pointer(r)) BY <1>2, <1>3 DEF Parent
<1> QED BY <1>1, <1>2, <1>4, <1>5 DEF Inv, Heads, Place

LEMMA ChainProtected ==
    ASSUME Inv, NEW r \in Reader, reader[r].pc \in {"load", "validate"}, reader[r].table # Null,
           policy = "HazardPointers" => hazard[r].chain = Pointer(r),
           Protected(r, Pointer(r)),
           UNCHANGED <<policy, heap, table, size, lock, retired, epoch, records, hazard, writer, lost>>
    PROVE  Inv'
<1>1. reader' = [reader EXCEPT ![r].pc = "walk", ![r].chain = Pointer(r), ![r].candidate = Null]
  BY DEF Protected
<1>2. ReaderType(reader[r]) /\ reader = [q \in Reader |-> reader[q]] BY ReaderFields
<1>3. /\ reader[r].table \in Addr /\ IsTable(reader[r].table) /\ Pointer(r) \in Place
      /\ Pointer(r) # Null => Parent(reader[r].table, Pointer(r)) /\ IsChain(Pointer(r))
  BY ChainPointer
<1>4. PICK p \in Place : p = Pointer(r) BY <1>3
<1>5. reader'[r] = [pc |-> "walk", keys |-> reader[r].keys, epoch |-> reader[r].epoch,
                    table |-> reader[r].table, chain |-> p, candidate |-> Null,
                    bucket |-> reader[r].bucket, visited |-> reader[r].visited]
  BY <1>1, <1>2, <1>4 DEF ReaderType
<1>6. reader' = [q \in Reader |-> reader'[q]] /\ \A q \in Reader : q # r => reader'[q] = reader[q]
  BY <1>1, <1>2
<1>7. ReaderType(reader'[r]) /\ reader'[r].epoch <= epoch
  <2>1. reader[r].epoch <= epoch BY DEF Inv, EpochBound
  <2> QED BY <1>2, <1>5, <2>1 DEF ReaderType, reading, Place, Null
<1>8. table # Null /\ r \in records BY DEF Inv, Reading, ReadingBy, reading
<1>9. ReadingBy(r)' BY <1>5, <1>8 DEF ReadingBy, reading
<1>10. HeldBy(r)'
  <2>1. reader[r].bucket \in DOMAIN Buckets(reader[r].table) BY DEF Inv, Held, HeldBy
  <2> QED BY <1>3, <1>4, <1>5, <2>1 DEF HeldBy, IsTable, IsChain, Buckets
<1>11. HeldWithinBy(r)'
  <2>1. \A t \in Addr : p # Null /\ Parent(t, p) => t = reader[r].table
    BY <1>3, <1>4 DEF Inv, OneParent, Parent
  <2>2. p # Null => \A w \in Writer : writer[w].old # p BY <1>3, <1>4, NotRetiring DEF Place
  <2>3. \A t \in Addr : Parent(t, p)' <=> Parent(t, p) BY DEF Parent, IsTable, Buckets
  <2> QED BY <1>5, <2>1, <2>2, <2>3 DEF HeldWithinBy
<1>12. HazardKeptBy(r)' BY <1>4, <1>5 DEF Inv, HazardKept, HazardKeptBy
<1>13. DrainedOf(r)' BY <1>5 DEF Inv, Drained, DrainedOf
<1>14. \A a \in Addr : Holds(r, a)' => Holds(r, a) \/ a = p BY <1>5 DEF Holds
<1>15. p \in Addr => ~Retiring(p) BY <1>3, <1>4, NotRetiring DEF Addr, Null
<1>16. \A a \in Addr : Holds(r, a)' =>
          (Holds(r, a) /\ reader'[r].epoch = reader[r].epoch) \/ ~Retiring(a)
  BY <1>5, <1>14, <1>15
<1>17. records' \in SUBSET Reader /\ hazard' \in [Reader -> [table : Place, chain : Place]]
  BY DEF Inv, TypeOK
<1> QED BY <1>6, <1>7, <1>9, <1>10, <1>11, <1>12, <1>13, <1>16, <1>17, ReadStep

LEMMA LoadInv == ASSUME Inv, NEW r \in Reader, Load(r) PROVE Inv'
<1>1. /\ reader[r].pc = "load"
      /\ UNCHANGED <<policy, heap, table, size, lock, retired, epoch, records, hazard, writer, lost>>
  BY DEF Load
<1>2. CASE policy # "HazardPointers" /\ Protected(r, Pointer(r))
  <2>1. CASE reader[r].table = Null
    <3>1. Pointer(r) = table BY <2>1 DEF Pointer
    <3> QED BY <1>1, <1>2, <2>1, <3>1, TableProtected
  <2>2. CASE reader[r].table # Null BY <1>1, <1>2, <2>2, ChainProtected
  <2> QED BY <2>1, <2>2
<1>3. CASE /\ policy = "HazardPointers"
           /\ reader' = [reader EXCEPT ![r].pc = "store", ![r].candidate = Pointer(r)]
  <2>1. ReaderType(reader[r]) /\ reader = [q \in Reader |-> reader[q]] BY ReaderFields
  <2>2. Pointer(r) \in Place
    <3>1. CASE reader[r].table = Null BY <3>1 DEF Pointer, Inv, TypeOK
    <3>2. CASE reader[r].table # Null BY <1>1, <3>2, ChainPointer
    <3> QED BY <3>1, <3>2
  <2>3. PICK p \in Place : p = Pointer(r) BY <2>2
  <2>4. reader'[r] = [pc |-> "store", keys |-> reader[r].keys, epoch |-> reader[r].epoch,
                      table |-> reader[r].table, chain |-> reader[r].chain, candidate |-> p,
                      bucket |-> reader[r].bucket, visited |-> reader[r].visited]
    BY <1>3, <2>1, <2>3 DEF ReaderType
  <2>5. reader' = [q \in Reader |-> reader'[q]] /\ \A q \in Reader : q # r => reader'[q] = reader[q]
    BY <1>3, <2>1
  <2>6. ReaderType(reader'[r]) /\ reader'[r].epoch <= epoch
    <3>1. reader[r].epoch <= epoch BY DEF Inv, EpochBound
    <3> QED BY <1>1, <2>1, <2>4, <3>1 DEF ReaderType, reading
  <2>7. reader[r].chain = Null BY <1>1 DEF Inv, Reading, ReadingBy
  <2>8. ReadingBy(r)' BY <1>1, <1>3, <2>4, <2>7 DEF Inv, Reading, ReadingBy, reading
  <2>9. HeldBy(r)' BY <1>1, <2>4, <2>7 DEF Inv, Held, HeldBy, IsTable, Buckets
  <2>10. HeldWithinBy(r)' BY <2>4, <2>7 DEF HeldWithinBy
  <2>11. HazardKeptBy(r)' BY <1>1, <2>4, <2>7 DEF Inv, HazardKept, HazardKeptBy
  <2>12. DrainedOf(r)' BY <1>1, <2>4 DEF Inv, Drained, DrainedOf
  <2>13. \A a \in Addr : Holds(r, a)' => Holds(r, a) /\ reader'[r].epoch = reader[r].epoch
    BY <1>1, <2>4 DEF Holds
  <2>14. records' \in SUBSET Reader /\ hazard' \in [Reader -> [table : Place, chain : Place]]
    BY <1>1 DEF Inv, TypeOK
  <2> QED BY <1>1, <2>5, <2>6, <2>8, <2>9, <2>10, <2>11, <2>12, <2>13, <2>14, ReadStep
<1> QED BY <1>2, <1>3 DEF Load

LEMMA StoreHazardInv == ASSUME Inv, NEW r \in Reader, StoreHazard(r) PROVE Inv'
<1>1. /\ reader[r].pc = "store"
      /\ hazard' = IF reader[r].table = Null
                     THEN [hazard EXCEPT ![r].table = reader[r].candidate]
                     ELSE [hazard EXCEPT ![r].chain = reader[r].candidate]
      /\ reader' = [reader EXCEPT ![r].pc = "validate"]
      /\ UNCHANGED <<policy, heap, table, size, lock, retired, epoch, records, writer, lost>>
  BY DEF StoreHazard
<1>2. ReaderType(reader[r]) /\ reader = [q \in Reader |-> reader[q]] BY ReaderFields
<1>3. reader'[r] = [pc |-> "validate", keys |-> reader[r].keys, epoch |-> reader[r].epoch,
                    table |-> reader[r].table, chain |-> reader[r].chain,
                    candidate |-> reader[r].candidate, bucket |-> reader[r].bucket,
                    visited |-> reader[r].visited]
  BY <1>1, <1>2 DEF ReaderType
<1>4. reader' = [q \in Reader |-> reader'[q]] /\ \A q \in Reader : q # r => reader'[q] = reader[q]
  BY <1>1, <1>2
<1>5. hazard \in [Reader -> [table : Place, chain : Place]] /\ reader[r].candidate \in Place
  BY <1>2 DEF Inv, TypeOK, ReaderType
<1>6. /\ hazard' \in [Reader -> [table : Place, chain : Place]]
      /\ \A q \in Reader : q # r => hazard'[q] = hazard[q]
      /\ reader[r].table = Null => hazard'[r].table = reader[r].candidate
      /\ reader[r].table # Null => /\ hazard'[r].chain = reader[r].candidate
                                   /\ hazard'[r].table = hazard[r].table
  <2>1. CASE reader[r].table = Null BY <1>1, <1>5, <2>1
  <2>2. CASE reader[r].table # Null BY <1>1, <1>5, <2>2
  <2> QED BY <2>1, <2>2
<1>7. ReaderType(reader'[r]) /\ reader'[r].epoch <= epoch
  <2>1. reader[r].epoch <= epoch BY DEF Inv, EpochBound
  <2> QED BY <1>1, <1>2, <1>3, <2>1 DEF ReaderType, reading
<1>8. reader[r].chain = Null BY <1>1 DEF Inv, Reading, ReadingBy
<1>9. ReadingBy(r)' BY <1>1, <1>3, <1>8 DEF Inv, Reading, ReadingBy, reading
<1>10. HeldBy(r)' BY <1>1, <1>3, <1>8 DEF Inv, Held, HeldBy, IsTable, Buckets
<1>11. HeldWithinBy(r)' BY <1>3, <1>8 DEF HeldWithinBy
<1>12. HazardKeptBy(r)' BY <1>1, <1>3, <1>6, <1>8 DEF Inv, HazardKept, HazardKeptBy
<1>13. DrainedOf(r)' BY <1>1, <1>3 DEF Inv, Drained, DrainedOf
<1>14. \A a \in Addr : Holds(r, a)' => Holds(r, a) /\ reader'[r].epoch = reader[r].epoch
  BY <1>1, <1>3 DEF Holds
<1>15. records' \in SUBSET Reader BY <1>1 DEF Inv, TypeOK
<1> QED BY <1>1, <1>4, <1>6, <1>7, <1>9, <1>10, <1>11, <1>12, <1>13, <1>14, <1>15, ReadStep

LEMMA ValidateInv == ASSUME Inv, NEW r \in Reader, Validate(r) PROVE Inv'
<1>1. /\ reader[r].pc = "validate"
      /\ UNCHANGED <<policy, heap, table, size, lock, retired, epoch, records, hazard, writer, lost>>
  BY DEF Validate
<1>2. CASE Pointer(r) = reader[r].candidate /\ Protected(r, reader[r].candidate)
  <2>1. policy = "HazardPointers" BY <1>1 DEF Inv, Reading, ReadingBy
  <2>2. reader[r].candidate = IF reader[r].table = Null THEN hazard[r].table ELSE hazard[r].chain
    BY <1>1, <2>1 DEF Inv, HazardKept, HazardKeptBy
  <2>3. CASE reader[r].table = Null
    <3>1. Pointer(r) = table BY <2>3 DEF Pointer
    <3>2. Protected(r, table) /\ hazard[r].table = table BY <1>2, <2>2, <2>3, <3>1
    <3> QED BY <1>1, <2>3, <3>2, TableProtected
  <2>4. CASE reader[r].table # Null
    <3>1. Protected(r, Pointer(r)) /\ hazard[r].chain = Pointer(r) BY <1>2, <2>2, <2>4
    <3> QED BY <1>1, <2>4, <3>1, ChainProtected
  <2> QED BY <2>3, <2>4
<1>3. CASE reader' = [reader EXCEPT ![r].pc = "load", ![r].candidate = Null]
  <2>1. ReaderType(reader[r]) /\ reader = [q \in Reader |-> reader[q]] BY ReaderFields
  <2>2. reader'[r] = [pc |-> "load", keys |-> reader[r].keys, epoch |-> reader[r].epoch,
                      table |-> reader[r].table, chain |-> reader[r].chain, candidate |-> Null,
                      bucket |-> reader[r].bucket, visited |-> reader[r].visited]
    BY <1>3, <2>1 DEF ReaderType
  <2>3. reader' = [q \in Reader |-> reader'[q]] /\ \A q \in Reader : q # r => reader'[q] = reader[q]
    BY <1>3, <2>1
  <2>4. ReaderType(reader'[r]) /\ reader'[r].epoch <= epoch
    <3>1. reader[r].epoch <= epoch BY DEF Inv, EpochBound
    <3> QED BY <1>1, <2>1, <2>2, <3>1 DEF ReaderType, reading, Place, Null
  <2>5. reader[r].chain = Null BY <1>1 DEF Inv, Reading, ReadingBy
  <2>6. ReadingBy(r)' BY <1>1, <2>2, <2>5 DEF Inv, Reading, ReadingBy, reading
  <2>7. HeldBy(r)' BY <1>1, <2>2, <2>5 DEF Inv, Held, HeldBy, IsTable, Buckets
  <2>8. HeldWithinBy(r)' BY <2>2, <2>5 DEF HeldWithinBy
  <2>9. HazardKeptBy(r)' BY <1>1, <2>2, <2>5 DEF Inv, HazardKept, HazardKeptBy
  <2>10. DrainedOf(r)' BY <1>1, <2>2 DEF Inv, Drained, DrainedOf
  <2>11. \A a \in Addr : Holds(r, a)' => Holds(r, a) /\ reader'[r].epoch = reader[r].epoch
    BY <1>1, <2>2 DEF Holds
  <2>12. records' \in SUBSET Reader /\ hazard' \in [Reader -> [table : Place, chain : Place]]
    BY <1>1 DEF Inv, TypeOK
  <2> QED BY <1>1, <2>3, <2>4, <2>6, <2>7, <2>8, <2>9, <2>10, <2>11, <2>12, ReadStep
<1> QED BY <1>2, <1>3 DEF Validate

LEMMA WalkInv == ASSUME Inv, NEW r \in Reader, Walk(r) PROVE Inv'
<1> DEFINE nodes == NodesOf(reader[r].chain)
           found == SelectSeq(nodes, LAMBDA n : n[1] \in reader[r].keys)
           more  == reader[r].keys = Key /\ reader[r].bucket < BucketCount(reader[r].table)
<1>1. /\ reader[r].pc = "walk"
      /\ reader' = [reader EXCEPT ![r].visited = @ \o found, ![r].chain = Null,
                                  ![r].bucket = IF more THEN @ + 1 ELSE @,
                                  ![r].pc = IF more THEN "load" ELSE "leave"]
      /\ UNCHANGED <<policy, heap, table, size, lock, retired, epoch, records, hazard, writer, lost>>
  BY DEF Walk
<1>2. ReaderType(reader[r]) /\ reader = [q \in Reader |-> reader[q]] BY ReaderFields
<1>3. /\ reader[r].table # Null /\ reader[r].table \in Addr /\ IsTable(reader[r].table)
      /\ reader[r].bucket \in DOMAIN Buckets(reader[r].table)
  BY <1>1, <1>2 DEF Inv, Reading, ReadingBy, Held, HeldBy, ReaderType, Place
<1>4. PICK b, p, s : /\ b = IF more THEN reader[r].bucket + 1 ELSE reader[r].bucket
                     /\ p = IF more THEN "load" ELSE "leave"
                     /\ s = reader[r].visited \o found
  OBVIOUS
<1>5. b \in DOMAIN Buckets(reader[r].table) /\ p \in {"load", "leave"}
  <2>1. /\ DOMAIN Buckets(reader[r].table) = 1 .. BucketCount(reader[r].table)
        /\ BucketCount(reader[r].table) \in Nat
    BY <1>3, BucketsOf
  <2> QED BY <1>3, <1>4, <2>1
<1>6. reader'[r] = [pc |-> p, keys |-> reader[r].keys, epoch |-> reader[r].epoch,
                    table |-> reader[r].table, chain |-> Null,
                    candidate |-> reader[r].candidate, bucket |-> b, visited |-> s]
  <2> HIDE DEF found, more
  <2> QED BY <1>1, <1>2, <1>4 DEF ReaderType
<1>7. reader' = [q \in Reader |-> reader'[q]] /\ \A q \in Reader : q # r => reader'[q] = reader[q]
  <2> HIDE DEF found, more
  <2> QED BY <1>1, <1>2
<1> HIDE DEF found, more
<1>8. ReaderType(reader'[r]) /\ reader'[r].epoch <= epoch
  <2>1. reader[r].epoch <= epoch BY DEF Inv, EpochBound
  <2> QED BY <1>1, <1>2, <1>5, <1>6, <2>1 DEF ReaderType, reading, Place, Null
<1>9. ReadingBy(r)' BY <1>1, <1>5, <1>6 DEF Inv, Reading, ReadingBy, reading
<1>10. HeldBy(r)'
  <2>1. PICK t \in Addr : t = reader[r].table BY <1>3
  <2>2. IsTable(t)' /\ b \in DOMAIN Buckets(t)' BY <1>1, <1>3, <1>5, <2>1 DEF IsTable, Buckets
  <2>3. reader'[r].table = t /\ reader'[r].bucket = b /\ reader'[r].chain = Null BY <1>6, <2>1
  <2> QED BY <2>2, <2>3 DEF HeldBy, IsTable, Buckets
<1>11. HeldWithinBy(r)' BY <1>6 DEF HeldWithinBy
<1>12. HazardKeptBy(r)' BY <1>1, <1>5, <1>6 DEF Inv, HazardKept, HazardKeptBy
<1>13. DrainedOf(r)' BY <1>1, <1>5, <1>6 DEF Inv, Drained, DrainedOf
<1>14. \A a \in Addr : Holds(r, a)' => Holds(r, a) /\ reader'[r].epoch = reader[r].epoch
  BY <1>1, <1>6 DEF Holds, Addr, Null
<1>15. records' \in SUBSET Reader /\ hazard' \in [Reader -> [table : Place, chain : Place]]
  BY <1>1 DEF Inv, TypeOK
<1> QED BY <1>1, <1>7, <1>8, <1>9, <1>10, <1>11, <1>12, <1>13, <1>14, <1>15, ReadStep

LEMMA LeaveInv == ASSUME Inv, NEW r \in Reader, Leave(r) PROVE Inv'
<1>1. /\ reader[r].pc = "leave"
      /\ records' = records \ {r}
      /\ hazard' = [hazard EXCEPT ![r] = NoHazard]
      /\ reader' = [reader EXCEPT ![r] = Resting]
      /\ UNCHANGED <<policy, heap, table, size, lock, retired, epoch, writer, lost>>
  BY DEF Leave
<1>2. reader = [q \in Reader |-> reader[q]] BY ReaderFields
<1>3. reader'[r] = Resting BY <1>1, <1>2
<1>4. reader' = [q \in Reader |-> reader'[q]] /\ \A q \in Reader : q # r => reader'[q] = reader[q]
  BY <1>1, <1>2
<1>5. ReaderType(reader'[r]) /\ reader'[r].epoch <= epoch
  <2>1. epoch \in Nat BY DEF Inv, TypeOK
  <2> QED BY <1>3, <2>1 DEF ReaderType, Resting, Place, Null
<1>6. hazard \in [Reader -> [table : Place, chain : Place]] /\ records \in SUBSET Reader
  BY DEF Inv, TypeOK
<1>7. /\ hazard' \in [Reader -> [table : Place, chain : Place]]
      /\ \A q \in Reader : q # r => hazard'[q] = hazard[q]
  BY <1>1, <1>6 DEF NoHazard, Place
<1>8. ReadingBy(r)' BY <1>1, <1>3 DEF ReadingBy, reading, Resting
<1>9. HeldBy(r)' /\ HeldWithinBy(r)' /\ HazardKeptBy(r)'
  BY <1>3 DEF HeldBy, HeldWithinBy, HazardKeptBy, Resting
<1>10. DrainedOf(r)' BY <1>3 DEF DrainedOf, Resting
<1>11. \A a \in Addr : ~Holds(r, a)' BY <1>3 DEF Holds, Resting, Addr, Null
<1>12. records' \in SUBSET Reader /\ \A q \in Reader : q # r => (q \in records' <=> q \in records)
  BY <1>1, <1>6
<1> QED BY <1>1, <1>4, <1>5, <1>7, <1>8, <1>9, <1>10, <1>11, <1>12, ReadStep

----------------------------------------------------------------------------
\* Steps of a writer that leave the heap alone.

LEMMA IdleFields ==
    /\ Idle.pc = "idle" /\ Idle.op = "none" /\ Idle.old = Null /\ Idle.scan = <<>>
    /\ WriterType(Idle)
BY DEF Idle, WriterType, Place, Null

LEMMA OthersIdle ==
    ASSUME Inv, NEW w \in Writer, lock = w \/ lock = Nobody
    PROVE  \A v \in Writer : v # w => writer[v] = Idle
BY NobodyAssumption DEF Inv, Locked, LockedBy

LEMMA Holder ==
    ASSUME Inv, NEW w \in Writer, writer[w].pc # "idle"
    PROVE  /\ lock = w /\ table # Null /\ table \in Addr /\ IsTable(table) /\ lost = {}
           /\ \A v \in Writer : v # w => writer[v] = Idle
           /\ WriterType(writer[w]) /\ StepsOf(w) /\ ApartOf(w)
           /\ writer = [v \in Writer |-> writer[v]]
<1>1. lock = w /\ table # Null /\ lost = {} BY DEF Inv, Locked, LockedBy
<1>2. WriterType(writer[w]) /\ writer = [v \in Writer |-> writer[v]] BY DEF Inv, TypeOK
<1>3. table \in Addr /\ IsTable(table) BY <1>1 DEF Inv, TypeOK, Place, ShardTable
<1>4. StepsOf(w) /\ ApartOf(w) BY DEF Inv, Steps, RootsApart
<1> QED BY <1>1, <1>2, <1>3, <1>4, OthersIdle

\* The roots that the writer has in hand.
Hand(w) == Objects(writer[w].scan) \cup ({writer[w].old} \ {Null})

LEMMA RootsInHand ==
    ASSUME NEW w \in Writer, \A v \in Writer : v # w => writer[v] = Idle
    PROVE  \A a \in Addr : Root(a) <=> a = table \/ a \in Objects(retired) \/ a \in Hand(w)
<1>1. \A v \in Writer : v # w => Objects(writer[v].scan) = {} /\ writer[v].old = Null
  BY IdleFields, NoRecords
<1>2. Null \notin Addr BY DEF Null, Addr
<1> QED BY <1>1, <1>2 DEF Root, Hand

\* Roots may change hands, as long as none is lost and each stays with one.
LEMMA HandStep ==
    ASSUME Inv, NEW w \in Writer,
           UNCHANGED <<policy, heap, table, records, hazard, reader, lost>>,
           \A v \in Writer : v # w => writer[v] = Idle,
           writer' = [v \in Writer |-> writer'[v]],
           \A v \in Writer : v # w => writer'[v] = writer[v],
           WriterType(writer'[w]),
           size' \in Int, epoch' \in Nat, epoch <= epoch', retired' \in Seq(Record),
           lock' \in {w, Nobody}, LockedBy(w)', StepsOf(w)',
           Objects(retired') \cup Hand(w)' = Objects(retired) \cup Hand(w),
           Distinct(retired'), table \notin Objects(retired'), ApartOf(w)',
           writer'[w].pc = "publish" => writer'[w].old = Null,
           \A x \in Records(retired') \cup Records(writer'[w].scan) :
              x \in Records(retired) \cup Records(writer[w].scan) \/ x.epoch = epoch,
           policy = "LocalEpoch" /\ writer'[w].op \notin ending =>
              \A r \in Reader : \A x \in Records(writer'[w].scan) :
                 Holds(r, x.object) => writer'[w].minimum <= reader[r].epoch,
           writer'[w].op \in ending =>
              \A r \in Reader : \A x \in Records(writer'[w].scan) : ~Holds(r, x.object),
           \A r \in Reader :
              /\ writer'[w].op = "Destroy" => reader[r].pc # "register"
              /\ writer'[w].op = "Destroy" /\ writer'[w].pc = "reclaim" => reader[r].pc = "idle"
              /\ writer'[w].op \in ending /\ policy = "ManualQuiesce" => reader[r].pc = "idle"
    PROVE  Inv'
<1>1. \A v \in Writer : v # w => writer'[v] = Idle OBVIOUS
<1>2. \A v \in Writer : v # w => /\ writer'[v].pc = "idle" /\ writer'[v].op = "none" /\ writer'[v].old = Null
                                 /\ writer'[v].scan = <<>> /\ WriterType(writer'[v])
  BY <1>1, IdleFields
<1>3. TypeOK'
  <2>1. \A v \in Writer : WriterType(writer'[v]) BY <1>2
  <2> QED BY <2>1 DEF Inv, TypeOK
<1>4. Locked'
  <2>1. \A v \in Writer : v # w => LockedBy(v)' BY <1>1, <1>2, NobodyAssumption DEF LockedBy, Idle
  <2> QED BY <2>1 DEF Locked
<1>5. Steps'
  <2>1. \A v \in Writer : v # w => StepsOf(v)' BY <1>2 DEF StepsOf, ending, keyed
  <2> QED BY <2>1 DEF Steps
<1>6. RootsApart'
  <2>1. Objects(retired') \subseteq Addr BY RecordsObjects
  <2>2. Null \notin Addr BY DEF Null, Addr
  <2>3. \A v \in Writer : v # w => ApartOf(v)' BY <1>2, <2>1, <2>2, NoRecords DEF ApartOf
  <2> QED BY <2>3 DEF RootsApart
<1>7. \A a \in Addr : Root(a)' <=> Root(a)
  <2>1. \A a \in Addr : Root(a) <=> a = table \/ a \in Objects(retired) \/ a \in Hand(w) BY RootsInHand
  <2>2. \A a \in Addr : Root(a)' <=> a = table \/ a \in Objects(retired') \/ a \in Hand(w)'
    <3>1. \A v \in Writer : v # w => Objects(writer'[v].scan) = {} /\ writer'[v].old = Null
      BY <1>2, NoRecords
    <3>2. Null \notin Addr BY DEF Null, Addr
    <3> QED BY <3>1, <3>2 DEF Root, Hand
  <2> QED BY <2>1, <2>2
<1>8. \A t, c \in Addr : Parent(t, c)' <=> Parent(t, c) BY DEF Parent, IsTable, Buckets
<1>9. Shapes' BY DEF Inv, Shapes, IsChain, IsTable, Buckets
<1>10. Heads' BY <1>8 DEF Inv, Heads, IsChain
<1>11. OneParent' BY DEF Inv, OneParent, IsTable, Buckets
<1>12. RootsLive' BY <1>7, <1>8 DEF Inv, RootsLive
<1>13. ShardTable' BY DEF Inv, ShardTable, IsTable
<1>14. Covered' BY <1>7, <1>8 DEF Inv, Covered
<1>15. Lost'
  <2>1. lost \subseteq Addr BY DEF Inv, TypeOK
  <2> QED BY <1>8, <2>1 DEF Inv, Lost
<1>16. Reading' BY DEF Inv, Reading, ReadingBy
<1>17. Held' BY DEF Inv, Held, HeldBy, IsTable, IsChain, Buckets
<1>18. HeldWithin'
  <2>1. \A r \in Reader : reader[r].chain \in Place BY DEF Inv, TypeOK, ReaderType
  <2>2. \A r \in Reader : reader[r].chain # Null =>
           \A t \in Addr : Parent(t, reader[r].chain)' <=> Parent(t, reader[r].chain)
    BY <2>1 DEF Parent, IsTable, Buckets
  <2>3. \A v \in Writer : writer'[v].pc = "publish" => writer'[v].old = Null BY <1>2
  <2> QED BY <2>2, <2>3 DEF Inv, HeldWithin, HeldWithinBy
<1>19. EpochBound' /\ HazardKept'
  <2>1. \A r \in Reader : reader[r].epoch \in Nat BY DEF Inv, TypeOK, ReaderType
  <2>2. EpochBound' BY <2>1 DEF Inv, TypeOK, EpochBound
  <2> QED BY <2>2 DEF Inv, HazardKept, HazardKeptBy
<1>20. \A v \in Writer : v # w => Records(writer'[v].scan) = {} BY <1>2, NoRecords
<1>21. EpochKept'
  <2>1. \A r \in Reader, a \in Addr : Holds(r, a)' <=> Holds(r, a) BY DEF Holds
  <2> SUFFICES ASSUME policy = "LocalEpoch", NEW r \in Reader,
                      NEW x \in Records(retired') \cup Records(writer'[w].scan), Holds(r, x.object)
               PROVE  reader[r].epoch <= x.epoch
    BY <1>20 DEF EpochKept, Holds
  <2>2. CASE x.epoch = epoch BY <2>2 DEF Inv, EpochBound
  <2>3. CASE x \in Records(retired) \cup Records(writer[w].scan) BY <2>3 DEF Inv, EpochKept
  <2> QED BY <2>2, <2>3
<1>22. MinimumKept' BY <1>20 DEF MinimumKept, Holds
<1>23. Quiet' BY <1>20 DEF Quiet, Holds
<1>24. Drained' BY <1>2 DEF Drained, DrainedOf, ending
<1> QED BY <1>3, <1>4, <1>5, <1>6, <1>9, <1>10, <1>11, <1>12, <1>13, <1>14, <1>15, <1>16, <1>17, <1>18,
           <1>19, <1>21, <1>22, <1>23, <1>24 DEF Inv

\* A step that only moves the holder on, its hands as they are.
LEMMA MoveOn ==
    ASSUME Inv, NEW w \in Writer, writer[w].pc # "idle", writer[w].scan = <<>>,
           UNCHANGED <<policy, heap, table, records, hazard, reader, lost, retired, lock>>,
           writer' = [v \in Writer |-> writer'[v]],
           \A v \in Writer : v # w => writer'[v] = writer[v],
           WriterType(writer'[w]), StepsOf(w)',
           writer'[w].pc # "idle", writer'[w].scan = <<>>, writer'[w].old = writer[w].old,
           writer'[w].op = writer[w].op, writer[w].op \notin ending,
           writer'[w].pc = "publish" => writer'[w].old = Null,
           size' \in Int, epoch' \in Nat, epoch <= epoch'
    PROVE  Inv'
<1>1. /\ lock = w /\ table # Null /\ lost = {}
      /\ \A v \in Writer : v # w => writer[v] = Idle
      /\ ApartOf(w)
  BY Holder
<1>2. LockedBy(w)' BY <1>1 DEF LockedBy
<1>3. Hand(w)' = Hand(w) BY DEF Hand
<1>4. Distinct(retired) /\ table \notin Objects(retired) /\ retired \in Seq(Record)
  BY DEF Inv, RootsApart, TypeOK
<1>5. ApartOf(w)' BY <1>1 DEF ApartOf
<1>6. Records(writer'[w].scan) = {} BY NoRecords
<1>7. \A r \in Reader :
         /\ writer'[w].op = "Destroy" => reader[r].pc # "register"
         /\ writer'[w].op = "Destroy" /\ writer'[w].pc = "reclaim" => reader[r].pc = "idle"
         /\ writer'[w].op \in ending /\ policy = "ManualQuiesce" => reader[r].pc = "idle"
  BY DEF ending
<1> QED BY <1>1, <1>2, <1>3, <1>4, <1>5, <1>6, <1>7, HandStep

\* A step that ends the operation with empty hands.
LEMMA UnlockInv ==
    ASSUME Inv, NEW w \in Writer, writer[w].pc # "idle", writer[w].scan = <<>>, writer[w].old = Null,
           Unlock(w), UNCHANGED <<policy, heap, table, size, records, hazard, reader, lost, retired, epoch>>
    PROVE  Inv'
<1>1. /\ lock = w /\ writer = [v \in Writer |-> writer[v]]
      /\ \A v \in Writer : v # w => writer[v] = Idle
      /\ ApartOf(w)
  BY Holder
<1>2. lock' = Nobody /\ writer' = [writer EXCEPT ![w] = Idle] BY DEF Unlock
<1>3. /\ writer' = [v \in Writer |-> writer'[v]] /\ writer'[w] = Idle
      /\ \A v \in Writer : v # w => writer'[v] = writer[v]
  BY <1>1, <1>2
<1>4. /\ writer'[w].pc = "idle" /\ writer'[w].op = "none" /\ writer'[w].old = Null
      /\ writer'[w].scan = <<>> /\ WriterType(writer'[w])
  BY <1>3, IdleFields
<1>5. LockedBy(w)' BY <1>2, <1>3, <1>4, NobodyAssumption DEF LockedBy
<1>6. StepsOf(w)' BY <1>4 DEF StepsOf, ending, keyed
<1>7. Hand(w)' = Hand(w) BY <1>4 DEF Hand
<1>8. Distinct(retired) /\ table \notin Objects(retired) /\ retired \in Seq(Record) /\ epoch \in Nat /\ size \in Int
  BY DEF Inv, RootsApart, TypeOK
<1>9. ApartOf(w)' BY <1>1, <1>4 DEF ApartOf
<1>10. Records(writer'[w].scan) = {} BY <1>4, NoRecords
<1>11. \A r \in Reader :
         /\ writer'[w].op = "Destroy" => reader[r].pc # "register"
         /\ writer'[w].op = "Destroy" /\ writer'[w].pc = "reclaim" => reader[r].pc = "idle"
         /\ writer'[w].op \in ending /\ policy = "ManualQuiesce" => reader[r].pc = "idle"
  BY <1>4 DEF ending
<1> QED BY <1>1, <1>2, <1>3, <1>4, <1>5, <1>6, <1>7, <1>8, <1>9, <1>10, <1>11, HandStep

LEMMA BeginInv == ASSUME Inv, NEW w \in Writer, Begin(w) PROVE Inv'
<1>1. /\ writer[w].pc = "idle" /\ lock = Nobody /\ lock' = w /\ table # Null /\ lost = {}
      /\ UNCHANGED <<policy, heap, table, size, retired, epoch, records, hazard, reader, lost>>
  BY DEF Begin
<1>2. PICK op, k, n : /\ writer' = [writer EXCEPT ![w] = Started(op, k, n)]
                      /\ \/ op \in keyed /\ k \in Key
                         \/ op = "Reserve" /\ n \in Nat
                         \/ op \in whole /\ Exclusive(op)
  BY BucketsAssumption DEF Begin
<1>3. \A v \in Writer : writer[v] = Idle BY <1>1, NobodyAssumption DEF Inv, Locked, LockedBy
<1>4. writer = [v \in Writer |-> writer[v]] BY DEF Inv, TypeOK
<1>5. PICK p : p = FirstStep(op) OBVIOUS
<1>6. /\ writer' = [v \in Writer |-> writer'[v]]
      /\ writer'[w] = [pc |-> p, op |-> op, key |-> k, val |-> n, old |-> Null,
                       inserted |-> FALSE, scan |-> <<>>, minimum |-> 0]
      /\ \A v \in Writer : v # w => writer'[v] = writer[v]
  BY <1>2, <1>4, <1>5 DEF Started, Idle
<1>7. /\ op \in {"InsertOrAssign", "Upsert", "Reserve"} => p = "capacity"
      /\ op = "Remove" => p = "chain"
      /\ op = "Clear" => p = "clear"
      /\ op \in ending => p = "drain"
      /\ op \in {"InsertOrAssign", "Upsert", "Reserve", "Remove", "Clear"} \cup ending
  <2>1. op \in {"InsertOrAssign", "Upsert", "Reserve", "Remove", "Clear"} \cup ending
    BY <1>2 DEF keyed, whole, ending
  <2>2. CASE op \in {"InsertOrAssign", "Upsert", "Reserve"} BY <1>5, <2>2 DEF FirstStep, ending
  <2>3. CASE op = "Remove" BY <1>5, <2>3 DEF FirstStep, ending
  <2>4. CASE op = "Clear" BY <1>5, <2>4 DEF FirstStep, ending
  <2>5. CASE op \in ending BY <1>5, <2>5 DEF FirstStep, ending
  <2> QED BY <2>1, <2>2, <2>3, <2>4, <2>5
<1>8. WriterType(writer'[w]) BY <1>6, NoRecords DEF WriterType, Place, Null
<1>9. LockedBy(w)' BY <1>1, <1>6, <1>7 DEF LockedBy, ending
<1>10. StepsOf(w)' BY <1>2, <1>6, <1>7 DEF StepsOf, ending, keyed, whole
<1>11. Hand(w)' = Hand(w) BY <1>3, <1>6, IdleFields DEF Hand
<1>12. Distinct(retired) /\ table \notin Objects(retired) /\ retired \in Seq(Record) /\ epoch \in Nat /\ size \in Int
  BY DEF Inv, RootsApart, TypeOK
<1>13. ApartOf(w)'
  <2>1. Null \notin Objects(retired) BY <1>12, RecordsObjects DEF Null, Addr
  <2> QED BY <1>1, <1>6, <2>1, NoRecords DEF ApartOf
<1>14. Records(writer'[w].scan) = {} BY <1>6, NoRecords
<1>15. \A r \in Reader :
         /\ writer'[w].op = "Destroy" => reader[r].pc # "register"
         /\ writer'[w].op = "Destroy" /\ writer'[w].pc = "reclaim" => reader[r].pc = "idle"
         /\ writer'[w].op \in ending /\ policy = "ManualQuiesce" => reader[r].pc = "idle"
  <2>1. op \in ending => Exclusive(op) BY <1>2 DEF ending, keyed
  <2>2. writer'[w].op = op /\ writer'[w].pc = p BY <1>6
  <2> QED BY <1>7, <2>1, <2>2 DEF Exclusive, NoReaders, ending
<1>16. writer'[w].pc # "publish" BY <1>6, <1>7
<1>17. UNCHANGED <<policy, heap, table, records, hazard, reader, lost>> BY <1>1
<1>18. \A v \in Writer : v # w => writer[v] = Idle BY <1>3
<1>19. /\ size' \in Int /\ epoch' \in Nat /\ epoch <= epoch' /\ retired' \in Seq(Record)
       /\ Objects(retired') \cup Hand(w)' = Objects(retired) \cup Hand(w)
       /\ Distinct(retired') /\ table \notin Objects(retired') /\ Records(retired') = Records(retired)
       /\ lock' \in {w, Nobody}
  BY <1>1, <1>11, <1>12
<1>20. /\ writer' = [v \in Writer |-> writer'[v]]
       /\ \A v \in Writer : v # w => writer'[v] = writer[v]
  BY <1>6
<1> QED BY <1>8, <1>9, <1>10, <1>13, <1>14, <1>15, <1>16, <1>17, <1>18, <1>19, <1>20, HandStep

\* The fields of the holder after a step that changes its pc alone.
LEMMA GotoFields ==
    ASSUME Inv, NEW w \in Writer, writer[w].pc # "idle", NEW p, writer' = [writer EXCEPT ![w].pc = p]
    PROVE  /\ writer' = [v \in Writer |-> writer'[v]]
           /\ \A v \in Writer : v # w => writer'[v] = writer[v]
           /\ WriterType(writer'[w])
           /\ writer'[w].pc = p /\ writer'[w].op = writer[w].op /\ writer'[w].key = writer[w].key
           /\ writer'[w].val = writer[w].val /\ writer'[w].old = writer[w].old
           /\ writer'[w].scan = writer[w].scan
<1>1. WriterType(writer[w]) /\ writer = [v \in Writer |-> writer[v]] BY Holder
<1>2. writer'[w] = [pc |-> p, op |-> writer[w].op, key |-> writer[w].key, val |-> writer[w].val,
                    old |-> writer[w].old, inserted |-> writer[w].inserted,
                    scan |-> writer[w].scan, minimum |-> writer[w].minimum]
  BY <1>1 DEF WriterType
<1>3. writer' = [v \in Writer |-> writer'[v]] /\ \A v \in Writer : v # w => writer'[v] = writer[v]
  BY <1>1
<1> QED BY <1>1, <1>2, <1>3 DEF WriterType

LEMMA EnoughCapacityInv ==
    ASSUME Inv, NEW w \in Writer, writer[w].pc = "capacity",
           Goto(w, IF writer[w].op = "Reserve" THEN "poll" ELSE "chain"),
           UNCHANGED <<policy, heap, table, size, lock, retired, epoch, records, hazard, reader, lost>>
    PROVE  Inv'
<1>1. StepsOf(w) BY Holder
<1>2. PICK p : p = (IF writer[w].op = "Reserve" THEN "poll" ELSE "chain") OBVIOUS
<1>3. writer' = [writer EXCEPT ![w].pc = p] BY <1>2 DEF Goto
<1>4. /\ writer' = [v \in Writer |-> writer'[v]]
      /\ \A v \in Writer : v # w => writer'[v] = writer[v]
      /\ WriterType(writer'[w])
      /\ writer'[w].pc = p /\ writer'[w].op = writer[w].op /\ writer'[w].key = writer[w].key
      /\ writer'[w].val = writer[w].val /\ writer'[w].old = writer[w].old
      /\ writer'[w].scan = writer[w].scan
  BY <1>3, GotoFields
<1>5. writer[w].scan = <<>> /\ writer[w].old = Null /\ writer[w].op \notin ending
  BY <1>1 DEF StepsOf, ending
<1>6. StepsOf(w)' BY <1>1, <1>2, <1>4, <1>5 DEF StepsOf, keyed
<1>7. p # "idle" /\ p # "publish" BY <1>2
<1>8. size' \in Int /\ epoch' \in Nat /\ epoch <= epoch' BY DEF Inv, TypeOK
<1> QED BY <1>4, <1>5, <1>6, <1>7, <1>8, MoveOn

LEMMA ClearCountsInv == ASSUME Inv, NEW w \in Writer, ClearCounts(w) PROVE Inv'
<1>1. /\ writer[w].pc = "uncount" /\ size' = 0 /\ writer' = [writer EXCEPT ![w].pc = "retire"]
      /\ UNCHANGED <<policy, heap, table, lock, retired, epoch, records, hazard, reader, lost>>
  BY DEF ClearCounts, Goto
<1>2. StepsOf(w) BY <1>1, Holder
<1>3. /\ writer' = [v \in Writer |-> writer'[v]]
      /\ \A v \in Writer : v # w => writer'[v] = writer[v]
      /\ WriterType(writer'[w])
      /\ writer'[w].pc = "retire" /\ writer'[w].op = writer[w].op /\ writer'[w].key = writer[w].key
      /\ writer'[w].val = writer[w].val /\ writer'[w].old = writer[w].old
      /\ writer'[w].scan = writer[w].scan
  BY <1>1, GotoFields
<1>4. writer[w].scan = <<>> /\ writer[w].op \notin ending BY <1>1, <1>2 DEF StepsOf, ending
<1>5. StepsOf(w)' BY <1>1, <1>2, <1>3, <1>4 DEF StepsOf
<1>6. size' \in Int /\ epoch' \in Nat /\ epoch <= epoch' BY <1>1 DEF Inv, TypeOK
<1>7. writer[w].pc # "idle" /\ UNCHANGED <<policy, heap, table, records, hazard, reader, lost, retired, lock>> BY <1>1
<1> QED BY <1>3, <1>4, <1>5, <1>6, <1>7, MoveOn

LEMMA CountInv == ASSUME Inv, NEW w \in Writer, Count(w) PROVE Inv'
<1>1. PICK d \in Int : size' = size + d BY DEF Count
<1>2. /\ writer[w].pc = "count" /\ writer' = [writer EXCEPT ![w].pc = "poll"]
      /\ UNCHANGED <<policy, heap, table, lock, retired, epoch, records, hazard, reader, lost>>
  BY DEF Count, Goto
<1>3. StepsOf(w) BY <1>2, Holder
<1>4. /\ writer' = [v \in Writer |-> writer'[v]]
      /\ \A v \in Writer : v # w => writer'[v] = writer[v]
      /\ WriterType(writer'[w])
      /\ writer'[w].pc = "poll" /\ writer'[w].op = writer[w].op /\ writer'[w].key = writer[w].key
      /\ writer'[w].val = writer[w].val /\ writer'[w].old = writer[w].old
      /\ writer'[w].scan = writer[w].scan
  BY <1>2, GotoFields
<1>5. writer[w].scan = <<>> /\ writer[w].old = Null /\ writer[w].op \notin ending
  BY <1>2, <1>3 DEF StepsOf, ending
<1>6. StepsOf(w)' BY <1>2, <1>3, <1>4, <1>5 DEF StepsOf
<1>7. size' \in Int /\ epoch' \in Nat /\ epoch <= epoch' BY <1>1, <1>2 DEF Inv, TypeOK
<1>8. writer[w].pc # "idle" /\ UNCHANGED <<policy, heap, table, records, hazard, reader, lost, retired, lock>> BY <1>2
<1> QED BY <1>4, <1>5, <1>6, <1>7, <1>8, MoveOn

LEMMA ThrowInv == ASSUME Inv, NEW w \in Writer, Throw(w) PROVE Inv'
<1>1. /\ writer[w].pc \in {"capacity", "clear", "chain"} /\ Unlock(w)
      /\ UNCHANGED <<policy, heap, table, size, retired, epoch, records, hazard, reader, lost>>
  BY DEF Throw
<1>2. writer[w].scan = <<>> /\ writer[w].old = Null BY <1>1, Holder DEF StepsOf
<1> QED BY <1>1, <1>2, UnlockInv

LEMMA NotFoundInv ==
    ASSUME Inv, NEW w \in Writer, writer[w].pc = "chain", Unlock(w),
           UNCHANGED <<policy, heap, table, size, retired, epoch, records, hazard, reader, lost>>
    PROVE  Inv'
<1>1. writer[w].scan = <<>> /\ writer[w].old = Null BY Holder DEF StepsOf
<1> QED BY <1>1, UnlockInv

LEMMA EmptyChainInv ==
    ASSUME Inv, NEW w \in Writer, writer[w].pc = "chain", NEW inserted, Cloned(w, Null, inserted),
           UNCHANGED <<policy, heap, table, lock, retired, epoch, records, hazard, reader, lost>>,
           size' \in Int
    PROVE  Inv'
<1>1. WriterType(writer[w]) /\ StepsOf(w) /\ writer = [v \in Writer |-> writer[v]] BY Holder
<1>2. writer[w].scan = <<>> /\ writer[w].old = Null /\ writer[w].op \notin ending
  BY <1>1 DEF StepsOf, ending
<1>3. writer'[w] = [pc |-> "publish", op |-> writer[w].op, key |-> writer[w].key, val |-> writer[w].val,
                    old |-> Null, inserted |-> inserted,
                    scan |-> writer[w].scan, minimum |-> writer[w].minimum]
  BY <1>1 DEF Cloned, WriterType
<1>4. writer' = [v \in Writer |-> writer'[v]] /\ \A v \in Writer : v # w => writer'[v] = writer[v]
  BY <1>1 DEF Cloned
<1>5. WriterType(writer'[w]) BY <1>1, <1>3 DEF WriterType, Place
<1>6. StepsOf(w)' BY <1>1, <1>2, <1>3 DEF StepsOf
<1>7. epoch' \in Nat /\ epoch <= epoch' BY DEF Inv, TypeOK
<1> QED BY <1>2, <1>3, <1>4, <1>5, <1>6, <1>7, MoveOn

LEMMA RetireInv == ASSUME Inv, NEW w \in Writer, Retire(w) PROVE Inv'
<1>1. /\ writer[w].pc = "retire"
      /\ retired' = IF writer[w].old = Null THEN retired
                    ELSE <<[object |-> writer[w].old, epoch |-> epoch]>> \o retired
      /\ UNCHANGED <<policy, heap, table, size, lock, epoch, records, hazard, reader, lost>>
  BY DEF Retire
<1>2. PICK p : p = IF IsTable(writer[w].old) /\ writer[w].op \in keyed THEN "chain" ELSE AfterRetire(w)
  OBVIOUS
<1>3. writer' = [writer EXCEPT ![w].old = Null, ![w].pc = p] BY <1>2 DEF Retire
<1>4. /\ lock = w /\ table # Null /\ lost = {}
      /\ \A v \in Writer : v # w => writer[v] = Idle
      /\ WriterType(writer[w]) /\ StepsOf(w) /\ ApartOf(w)
      /\ writer = [v \in Writer |-> writer[v]]
  BY <1>1, Holder
<1>5. p \in {"count", "poll"} \/ (p = "chain" /\ writer[w].op \in keyed) BY <1>2 DEF AfterRetire
<1>6. writer'[w] = [pc |-> p, op |-> writer[w].op, key |-> writer[w].key, val |-> writer[w].val,
                    old |-> Null, inserted |-> writer[w].inserted,
                    scan |-> writer[w].scan, minimum |-> writer[w].minimum]
  BY <1>3, <1>4 DEF WriterType
<1>7. writer' = [v \in Writer |-> writer'[v]] /\ \A v \in Writer : v # w => writer'[v] = writer[v]
  BY <1>3, <1>4
<1>8. writer[w].scan = <<>> /\ writer[w].op \notin ending BY <1>1, <1>4 DEF StepsOf, ending
<1>9. WriterType(writer'[w]) BY <1>4, <1>6 DEF WriterType, Place
<1>10. LockedBy(w)' BY <1>1, <1>4, <1>5, <1>6 DEF LockedBy
<1>11. StepsOf(w)' BY <1>1, <1>4, <1>5, <1>6, <1>8 DEF StepsOf
<1>12. Distinct(retired) /\ table \notin Objects(retired) /\ retired \in Seq(Record) /\ epoch \in Nat /\ size \in Int
  BY DEF Inv, RootsApart, TypeOK
<1>13. /\ retired' \in Seq(Record) /\ Distinct(retired')
       /\ Objects(retired') = Objects(retired) \cup ({writer[w].old} \ {Null})
       /\ \A x \in Records(retired') : x \in Records(retired) \/ x.epoch = epoch
  <2>1. CASE writer[w].old = Null BY <1>1, <1>12, <2>1
  <2>2. CASE writer[w].old # Null
    <3>1. PICK x \in Record : x = [object |-> writer[w].old, epoch |-> epoch]
      BY <1>4, <1>12, <2>2 DEF Record, WriterType, Place
    <3>2. retired' = <<x>> \o retired /\ x.object = writer[w].old /\ x.epoch = epoch BY <1>1, <2>2, <3>1
    <3>3. writer[w].old \notin Objects(retired) BY <1>4 DEF ApartOf
    <3>4. /\ retired' \in Seq(Record) /\ Records(retired') = {x} \cup Records(retired)
          /\ Objects(retired') = {writer[w].old} \cup Objects(retired) /\ Distinct(retired')
      BY <1>12, <3>2, <3>3, InFront
    <3> QED BY <2>2, <3>2, <3>4
  <2> QED BY <2>1, <2>2
<1>14. Objects(retired') \cup Hand(w)' = Objects(retired) \cup Hand(w)
  BY <1>6, <1>8, <1>13, NoRecords DEF Hand
<1>15. table \notin Objects(retired') BY <1>4, <1>12, <1>13 DEF ApartOf
<1>16. ApartOf(w)'
  <2>1. Null \notin Objects(retired') BY <1>13, RecordsObjects DEF Null, Addr
  <2> QED BY <1>1, <1>6, <1>8, <2>1, NoRecords DEF ApartOf
<1>17. Records(writer'[w].scan) = {} BY <1>6, <1>8, NoRecords
<1>18. writer'[w].op \notin ending /\ writer'[w].op # "Destroy" BY <1>6, <1>8 DEF ending
<1>19. writer'[w].pc # "publish" BY <1>5, <1>6
<1>20. size' \in Int /\ epoch' \in Nat /\ epoch <= epoch' /\ lock' \in {w, Nobody} BY <1>1, <1>4, <1>12
<1>21. UNCHANGED <<policy, heap, table, records, hazard, reader, lost>> BY <1>1
<1>22. \A v \in Writer : v # w => writer[v] = Idle BY <1>4
<1> QED BY <1>7, <1>9, <1>10, <1>11, <1>13, <1>14, <1>15, <1>16, <1>17, <1>18, <1>19, <1>20, <1>21, <1>22, HandStep

\* A read that holds an object is registered.
LEMMA HoldsRegistered ==
    ASSUME Inv, NEW r \in Reader, NEW a \in Addr, Holds(r, a)
    PROVE  r \in records /\ reader[r].pc \in reading
BY DEF Inv, TypeOK, ReaderType, Reading, ReadingBy, Holds, Addr, Null

\* Poll() and Drain() take the whole list of retired records.
LEMMA TakeAll ==
    ASSUME Inv, NEW w \in Writer, writer[w].pc # "idle", writer[w].scan = <<>>, writer[w].old = Null,
           NEW m \in Nat,
           writer' = [writer EXCEPT ![w].pc = "reclaim", ![w].scan = retired, ![w].minimum = m],
           retired' = <<>>,
           UNCHANGED <<policy, heap, table, size, lock, epoch, records, hazard, reader, lost>>,
           policy = "ManualQuiesce" => writer[w].op \in ending,
           policy = "LocalEpoch" /\ writer[w].op \notin ending =>
              \A r \in records : m <= reader[r].epoch,
           writer[w].op \in ending => \A r \in Reader : reader[r].pc \notin reading,
           writer[w].op \in ending /\ policy = "ManualQuiesce" => NoReaders,
           writer[w].op = "Destroy" => \A r \in Reader : reader[r].pc # "register"
    PROVE  Inv'
<1>1. /\ lock = w /\ table # Null /\ lost = {}
      /\ \A v \in Writer : v # w => writer[v] = Idle
      /\ WriterType(writer[w]) /\ StepsOf(w)
      /\ writer = [v \in Writer |-> writer[v]]
  BY Holder
<1>2. Distinct(retired) /\ table \notin Objects(retired) /\ retired \in Seq(Record) /\ epoch \in Nat /\ size \in Int
  BY DEF Inv, RootsApart, TypeOK
<1>3. writer'[w] = [pc |-> "reclaim", op |-> writer[w].op, key |-> writer[w].key, val |-> writer[w].val,
                    old |-> writer[w].old, inserted |-> writer[w].inserted,
                    scan |-> retired, minimum |-> m]
  BY <1>1 DEF WriterType
<1>4. writer' = [v \in Writer |-> writer'[v]] /\ \A v \in Writer : v # w => writer'[v] = writer[v]
  BY <1>1
<1>5. WriterType(writer'[w]) BY <1>1, <1>2, <1>3 DEF WriterType
<1>6. LockedBy(w)' BY <1>1, <1>3 DEF LockedBy
<1>7. StepsOf(w)' BY <1>1, <1>3 DEF StepsOf
<1>8. Objects(retired') = {} /\ Records(retired') = {} /\ Distinct(retired') /\ retired' \in Seq(Record)
  BY NoRecords
<1>9. Objects(retired') \cup Hand(w)' = Objects(retired) \cup Hand(w) BY <1>3, <1>8, NoRecords DEF Hand
<1>10. ApartOf(w)' BY <1>2, <1>3, <1>8 DEF ApartOf
<1>11. \A x \in Records(retired) : x.object \in Addr BY <1>2, RecordsObjects
<1>12. policy = "LocalEpoch" /\ writer'[w].op \notin ending =>
          \A r \in Reader : \A x \in Records(writer'[w].scan) :
             Holds(r, x.object) => writer'[w].minimum <= reader[r].epoch
  BY <1>3, <1>11, HoldsRegistered
<1>13. writer'[w].op \in ending =>
          \A r \in Reader : \A x \in Records(writer'[w].scan) : ~Holds(r, x.object)
  BY <1>3, <1>11, HoldsRegistered
<1>14. \A r \in Reader : reader[r].pc \in {"idle", "register"} \cup reading BY DEF Inv, TypeOK, ReaderType
<1>15. \A r \in Reader :
         /\ writer'[w].op = "Destroy" => reader[r].pc # "register"
         /\ writer'[w].op = "Destroy" /\ writer'[w].pc = "reclaim" => reader[r].pc = "idle"
         /\ writer'[w].op \in ending /\ policy = "ManualQuiesce" => reader[r].pc = "idle"
  BY <1>3, <1>14 DEF NoReaders, ending
<1>16. \A x \in Records(retired') \cup Records(writer'[w].scan) :
          x \in Records(retired) \cup Records(writer[w].scan) \/ x.epoch = epoch
  BY <1>3, <1>8
<1>17. writer'[w].pc # "publish" BY <1>3
<1>18. /\ size' \in Int /\ epoch' \in Nat /\ epoch <= epoch' /\ lock' \in {w, Nobody}
       /\ table \notin Objects(retired')
  BY <1>1, <1>2, <1>8
<1>19. \A v \in Writer : v # w => writer[v] = Idle BY <1>1
<1> QED BY <1>4, <1>5, <1>6, <1>7, <1>8, <1>9, <1>10, <1>12, <1>13, <1>15, <1>16, <1>17, <1>18, <1>19, HandStep

LEMMA PollInv == ASSUME Inv, NEW w \in Writer, Poll(w) PROVE Inv'
<1>1. /\ writer[w].pc = "poll"
      /\ UNCHANGED <<policy, heap, table, size, records, hazard, reader, lost>>
  BY DEF Poll
<1>2. WriterType(writer[w]) /\ StepsOf(w) /\ writer = [v \in Writer |-> writer[v]] BY <1>1, Holder
<1>3. writer[w].scan = <<>> /\ writer[w].old = Null /\ writer[w].op \notin ending
  BY <1>1, <1>2 DEF StepsOf, ending
<1>4. CASE PollEpoch(w)
  <2>1. /\ policy = "LocalEpoch" /\ epoch' = epoch + 1 /\ writer' = [writer EXCEPT ![w].pc = "minimum"]
        /\ UNCHANGED <<lock, retired>>
    BY <1>4 DEF PollEpoch, Goto
  <2>2. /\ writer' = [v \in Writer |-> writer'[v]]
        /\ \A v \in Writer : v # w => writer'[v] = writer[v]
        /\ WriterType(writer'[w])
        /\ writer'[w].pc = "minimum" /\ writer'[w].op = writer[w].op /\ writer'[w].key = writer[w].key
        /\ writer'[w].val = writer[w].val /\ writer'[w].old = writer[w].old
        /\ writer'[w].scan = writer[w].scan
    BY <1>1, <2>1, GotoFields
  <2>3. StepsOf(w)' BY <1>1, <1>2, <1>3, <2>1, <2>2 DEF StepsOf
  <2>4. size' \in Int /\ epoch' \in Nat /\ epoch <= epoch' BY <1>1, <2>1 DEF Inv, TypeOK
  <2>5. writer[w].pc # "idle" /\ UNCHANGED <<policy, heap, table, records, hazard, reader, lost, retired, lock>> BY <1>1, <2>1
  <2> QED BY <1>3, <2>2, <2>3, <2>4, <2>5, MoveOn
<1>5. CASE PollHazards(w)
  <2>1. /\ policy = "HazardPointers" /\ retired' = <<>> /\ UNCHANGED <<epoch, lock>>
        /\ writer' = [writer EXCEPT ![w].pc = "reclaim", ![w].scan = retired]
    BY <1>5 DEF PollHazards
  <2>2. writer[w].minimum \in Nat BY <1>2 DEF WriterType
  <2>3. writer' = [writer EXCEPT ![w].pc = "reclaim", ![w].scan = retired, ![w].minimum = writer[w].minimum]
    BY <1>2, <2>1 DEF WriterType
  <2>4. writer[w].op # "Destroy" BY <1>3 DEF ending
  <2> QED BY <1>1, <1>3, <2>1, <2>2, <2>3, <2>4, TakeAll
<1>6. CASE PollManual(w)
  <2>1. Unlock(w) /\ UNCHANGED <<epoch, retired>> BY <1>6 DEF PollManual
  <2> QED BY <1>1, <1>3, <2>1, UnlockInv
<1> QED BY <1>4, <1>5, <1>6 DEF Poll

LEMMA MinimumActiveEpochInv == ASSUME Inv, NEW w \in Writer, MinimumActiveEpoch(w) PROVE Inv'
<1> DEFINE S == {epoch} \cup {reader[r].epoch : r \in records}
<1>1. /\ writer[w].pc = "minimum" /\ retired' = <<>>
      /\ writer' = [writer EXCEPT ![w].pc = "reclaim", ![w].scan = retired, ![w].minimum = Min(S)]
      /\ UNCHANGED <<policy, heap, table, size, lock, epoch, records, hazard, reader, lost>>
  BY DEF MinimumActiveEpoch
<1>2. StepsOf(w) BY <1>1, Holder
<1>3. writer[w].scan = <<>> /\ writer[w].old = Null /\ writer[w].op \notin ending /\ policy = "LocalEpoch"
  BY <1>1, <1>2 DEF StepsOf, ending
<1>4. S \subseteq Nat /\ S # {} BY DEF Inv, TypeOK, ReaderType
<1>5. Min(S) \in Nat /\ \A n \in S : Min(S) <= n BY <1>4, LeastNumber
<1>6. \A r \in records : reader[r].epoch \in S OBVIOUS
<1>7. PICK m \in Nat : m = Min(S) BY <1>5
<1> HIDE DEF S
<1>8. writer[w].op # "Destroy" BY <1>3 DEF ending
<1>9. writer' = [writer EXCEPT ![w].pc = "reclaim", ![w].scan = retired, ![w].minimum = m] BY <1>1, <1>7
<1>10. \A r \in records : m <= reader[r].epoch BY <1>5, <1>6, <1>7
<1> QED BY <1>1, <1>3, <1>8, <1>9, <1>10, TakeAll

LEMMA DrainInv == ASSUME Inv, NEW w \in Writer, Drain(w) PROVE Inv'
<1>1. /\ writer[w].pc = "drain" /\ retired' = <<>>
      /\ policy # "ManualQuiesce" => records = {}
      /\ writer' = [writer EXCEPT ![w].pc = "reclaim", ![w].scan = retired]
      /\ UNCHANGED <<policy, heap, table, size, lock, epoch, records, hazard, reader, lost>>
  BY DEF Drain
<1>2. WriterType(writer[w]) /\ StepsOf(w) /\ writer = [v \in Writer |-> writer[v]] BY <1>1, Holder
<1>3. writer[w].scan = <<>> /\ writer[w].old = Null /\ writer[w].op \in ending BY <1>1, <1>2 DEF StepsOf
<1>4. writer[w].minimum \in Nat BY <1>2 DEF WriterType
<1>5. writer' = [writer EXCEPT ![w].pc = "reclaim", ![w].scan = retired, ![w].minimum = writer[w].minimum]
  BY <1>1, <1>2 DEF WriterType
<1>6. policy = "ManualQuiesce" => NoReaders BY <1>3 DEF Inv, Drained, DrainedOf, NoReaders
<1>7. \A r \in Reader : reader[r].pc \notin reading
  <2>1. CASE policy = "ManualQuiesce" BY <1>6, <2>1 DEF NoReaders, reading
  <2>2. CASE policy # "ManualQuiesce" BY <1>1, <2>2 DEF Inv, Reading, ReadingBy
  <2> QED BY <2>1, <2>2
<1>8. writer[w].op = "Destroy" => \A r \in Reader : reader[r].pc # "register"
  BY DEF Inv, Drained, DrainedOf
<1> QED BY <1>1, <1>3, <1>4, <1>5, <1>6, <1>7, <1>8, TakeAll

LEMMA KeepInv ==
    ASSUME Inv, NEW w \in Writer, ReclaimIf(w), ~Reclaimable(w, Head(writer[w].scan))
    PROVE  Inv'
<1>a. /\ writer[w].pc = "reclaim" /\ writer[w].scan # <<>>
      /\ retired' = <<Head(writer[w].scan)>> \o retired
      /\ writer' = [writer EXCEPT ![w].scan = Tail(@)]
  BY DEF ReclaimIf
<1>b. UNCHANGED <<policy, heap, table, size, lock, epoch, records, hazard, reader, lost>> BY DEF ReclaimIf
<1>c. writer[w].pc = "reclaim" /\ writer[w].scan # <<>> BY <1>a
<1>1. /\ lock = w /\ table # Null /\ lost = {}
      /\ \A v \in Writer : v # w => writer[v] = Idle
      /\ WriterType(writer[w]) /\ StepsOf(w) /\ ApartOf(w)
      /\ writer = [v \in Writer |-> writer[v]]
  BY <1>c, Holder
<1>2. PICK s \in Seq(Record) : s = writer[w].scan BY <1>1 DEF WriterType
<1>3. PICK x, t : x = Head(s) /\ t = Tail(s) OBVIOUS
<1>4. Distinct(s) /\ table \notin Objects(s) /\ Objects(retired) \cap Objects(s) = {}
  BY <1>1, <1>2 DEF ApartOf
<1>5. /\ x \in Record /\ t \in Seq(Record) /\ Records(s) = {x} \cup Records(t)
      /\ Objects(s) = {x.object} \cup Objects(t)
      /\ x.object \notin Objects(t) /\ Distinct(t)
  BY <1>c, <1>2, <1>3, <1>4, WithoutHead
<1>6. Distinct(retired) /\ table \notin Objects(retired) /\ retired \in Seq(Record) /\ epoch \in Nat /\ size \in Int
  BY DEF Inv, RootsApart, TypeOK
<1>7. x.object \notin Objects(retired) BY <1>4, <1>5
<1>8. /\ retired' \in Seq(Record) /\ Records(retired') = {x} \cup Records(retired)
      /\ Objects(retired') = {x.object} \cup Objects(retired) /\ Distinct(retired')
  BY <1>a, <1>2, <1>3, <1>5, <1>6, <1>7, InFront
<1>9. writer'[w] = [pc |-> writer[w].pc, op |-> writer[w].op, key |-> writer[w].key, val |-> writer[w].val,
                    old |-> writer[w].old, inserted |-> writer[w].inserted,
                    scan |-> t, minimum |-> writer[w].minimum]
  BY <1>a, <1>1, <1>2, <1>3 DEF WriterType
<1>10. writer' = [v \in Writer |-> writer'[v]] /\ \A v \in Writer : v # w => writer'[v] = writer[v]
  BY <1>a, <1>1
<1>11. WriterType(writer'[w]) BY <1>1, <1>5, <1>9 DEF WriterType
<1>12. LockedBy(w)' BY <1>b, <1>c, <1>1, <1>9 DEF LockedBy
<1>13. StepsOf(w)' BY <1>b, <1>c, <1>1, <1>9 DEF StepsOf, IsChain
<1>14. writer[w].old = Null BY <1>c, <1>1 DEF StepsOf
<1>15. Objects(retired') \cup Hand(w)' = Objects(retired) \cup Hand(w) BY <1>2, <1>5, <1>8, <1>9, <1>14 DEF Hand
<1>16. ApartOf(w)'
  <2>1. Null \notin Objects(retired') BY <1>8, RecordsObjects DEF Null, Addr
  <2> QED BY <1>b, <1>4, <1>5, <1>8, <1>9, <1>14, <2>1 DEF ApartOf
<1>17. \A y \in Records(t) : y \in Records(writer[w].scan) BY <1>2, <1>5
<1>18. policy = "LocalEpoch" /\ writer'[w].op \notin ending =>
          \A r \in Reader : \A y \in Records(writer'[w].scan) :
             Holds(r, y.object) => writer'[w].minimum <= reader[r].epoch
  BY <1>9, <1>17 DEF Inv, MinimumKept
<1>19. writer'[w].op \in ending =>
          \A r \in Reader : \A y \in Records(writer'[w].scan) : ~Holds(r, y.object)
  BY <1>9, <1>17 DEF Inv, Quiet
<1>20. \A r \in Reader :
         /\ writer'[w].op = "Destroy" => reader[r].pc # "register"
         /\ writer'[w].op = "Destroy" /\ writer'[w].pc = "reclaim" => reader[r].pc = "idle"
         /\ writer'[w].op \in ending /\ policy = "ManualQuiesce" => reader[r].pc = "idle"
  BY <1>9 DEF Inv, Drained, DrainedOf
<1>21. \A y \in Records(retired') \cup Records(writer'[w].scan) :
          y \in Records(retired) \cup Records(writer[w].scan) \/ y.epoch = epoch
  BY <1>2, <1>5, <1>8, <1>9
<1>22. writer'[w].pc # "publish" BY <1>c, <1>9
<1>23. /\ size' \in Int /\ epoch' \in Nat /\ epoch <= epoch' /\ lock' \in {w, Nobody}
       /\ table \notin Objects(retired')
  BY <1>b, <1>1, <1>4, <1>5, <1>6, <1>8
<1>25. UNCHANGED <<policy, heap, table, records, hazard, reader, lost>> BY <1>b
<1>24. \A v \in Writer : v # w => writer[v] = Idle BY <1>1
<1> QED BY <1>8, <1>10, <1>11, <1>12, <1>13, <1>15, <1>16, <1>18, <1>19, <1>20, <1>21, <1>22, <1>23, <1>24, <1>25, HandStep

LEMMA FinishedInv ==
    ASSUME Inv, NEW w \in Writer, writer[w].pc = "reclaim", writer[w].scan = <<>>, Unlock(w),
           UNCHANGED <<policy, heap, table, size, retired, epoch, records, hazard, reader, lost>>
    PROVE  Inv'
<1>1. writer[w].old = Null BY Holder DEF StepsOf
<1> QED BY <1>1, UnlockInv

----------------------------------------------------------------------------
\* Steps of a writer that change the heap.

\* What a read may look at stays what it is.
Kept(a) ==
    /\ IsTable(a) => IsTable(a)' /\ DOMAIN Buckets(a)' = DOMAIN Buckets(a)
    /\ IsChain(a) => IsChain(a)'

\* Such a step is safe when the heap stays a forest, what the reads hold is
\* kept and no chain that a read holds is published again.
LEMMA HeapStep ==
    ASSUME Inv, NEW w \in Writer, writer[w].pc # "idle",
           UNCHANGED <<policy, retired, epoch, records, hazard, reader>>,
           heap' = [a \in Addr |-> heap'[a]], table' \in Place, size' \in Int, lost' \in SUBSET Addr,
           writer' = [v \in Writer |-> writer'[v]],
           \A v \in Writer : v # w => writer'[v] = writer[v],
           WriterType(writer'[w]), LockedBy(w)', StepsOf(w)', lock' \in {w, Nobody},
           table' \notin Objects(retired), ApartOf(w)',
           Shapes', Heads', OneParent', RootsLive', ShardTable', Covered', Lost',
           Records(writer'[w].scan) \subseteq Records(writer[w].scan),
           writer'[w] = Idle \/ (writer'[w].op = writer[w].op /\ writer'[w].minimum = writer[w].minimum),
           writer'[w].pc = "reclaim" => writer[w].pc = "reclaim",
           table' = Null => NoReaders,
           \A r \in Reader, a \in Addr : Holds(r, a) => Kept(a),
           \A r \in Reader : reader[r].chain # Null =>
              /\ \A t \in Addr : Parent(t, reader[r].chain)' => Parent(t, reader[r].chain)
              /\ writer'[w].pc = "publish" => writer'[w].old # reader[r].chain
    PROVE  Inv'
<1>1. \A v \in Writer : v # w => writer'[v] = Idle BY Holder
<1>2. \A v \in Writer : v # w => /\ writer'[v].pc = "idle" /\ writer'[v].op = "none" /\ writer'[v].old = Null
                                 /\ writer'[v].scan = <<>> /\ WriterType(writer'[v])
  BY <1>1, IdleFields
<1>3. TypeOK'
  <2>1. \A v \in Writer : WriterType(writer'[v]) BY <1>2
  <2> QED BY <2>1 DEF Inv, TypeOK
<1>4. Locked'
  <2>1. \A v \in Writer : v # w => LockedBy(v)' BY <1>1, <1>2, NobodyAssumption DEF LockedBy
  <2> QED BY <2>1 DEF Locked
<1>5. Steps'
  <2>1. \A v \in Writer : v # w => StepsOf(v)' BY <1>2 DEF StepsOf, ending, keyed
  <2> QED BY <2>1 DEF Steps
<1>6. RootsApart'
  <2>1. Distinct(retired) /\ retired \in Seq(Record) BY DEF Inv, RootsApart, TypeOK
  <2>2. Null \notin Objects(retired) BY <2>1, RecordsObjects DEF Null, Addr
  <2>3. \A v \in Writer : v # w => ApartOf(v)' BY <1>2, <2>2, NoRecords DEF ApartOf
  <2> QED BY <2>1, <2>3 DEF RootsApart
<1>7. Reading'
  <2>1. \A r \in Reader : reader[r].pc # "idle" => table' # Null BY DEF NoReaders
  <2> QED BY <2>1 DEF Inv, Reading, ReadingBy
<1>8. \A r \in Reader : reader[r].table \in Place /\ reader[r].chain \in Place BY ReaderFields DEF ReaderType
<1>9. Held'
  <2> SUFFICES ASSUME NEW r \in Reader PROVE HeldBy(r)' BY DEF Held
  <2>1. HeldBy(r) BY DEF Inv, Held
  <2>2. ASSUME reader[r].table # Null, reader[r].pc # "leave"
        PROVE  IsTable(reader[r].table)' /\ (reader[r].bucket \in DOMAIN Buckets(reader[r].table))'
    <3>1. Kept(reader[r].table) BY <1>8, <2>2 DEF Holds, Place
    <3> QED BY <2>1, <2>2, <3>1 DEF HeldBy, Kept, IsTable, Buckets
  <2>3. ASSUME reader[r].chain # Null PROVE IsChain(reader[r].chain)'
    <3>1. Kept(reader[r].chain) BY <1>8, <2>3 DEF Holds, Place
    <3> QED BY <2>1, <2>3, <3>1 DEF HeldBy, Kept, IsChain
  <2> QED BY <2>2, <2>3 DEF HeldBy
<1>10. HeldWithin'
  <2> SUFFICES ASSUME NEW r \in Reader, reader[r].chain # Null PROVE HeldWithinBy(r)'
    BY DEF HeldWithin, HeldWithinBy
  <2>1. HeldWithinBy(r) BY DEF Inv, HeldWithin
  <2>2. \A t \in Addr : Parent(t, reader[r].chain)' => t = reader[r].table BY <2>1 DEF HeldWithinBy
  <2>3. \A v \in Writer : writer'[v].pc = "publish" => writer'[v].old # reader[r].chain BY <1>2
  <2>4. \A t \in Addr : (Parent(t, reader[r].chain))' => (t = reader[r].table)' BY <2>2
  <2> QED BY <2>3, <2>4 DEF HeldWithinBy, Parent, IsTable, Buckets
<1>11. EpochBound' /\ HazardKept' BY DEF Inv, EpochBound, HazardKept, HazardKeptBy
<1>12. \A v \in Writer : v # w => Records(writer'[v].scan) = {} BY <1>2, NoRecords
<1>13. \A v \in Writer : Records(writer'[v].scan) \subseteq Records(writer[v].scan) BY <1>12
<1>14. EpochKept' BY <1>13 DEF Inv, EpochKept, Holds
<1>15. writer'[w] = Idle => Records(writer'[w].scan) = {} BY IdleFields, NoRecords
<1>16. MinimumKept' BY <1>12, <1>15 DEF Inv, MinimumKept, Holds
<1>17. Quiet' BY <1>12, <1>15 DEF Inv, Quiet, Holds
<1>18. Drained'
  <2>1. \A v \in Writer : writer'[v].op = "none" \/ (writer'[v].op = writer[v].op /\ v = w) BY <1>2, IdleFields
  <2> QED BY <2>1 DEF Inv, Drained, DrainedOf, ending
<1> QED BY <1>3, <1>4, <1>5, <1>6, <1>7, <1>9, <1>10, <1>11, <1>14, <1>16, <1>17, <1>18 DEF Inv

LEMMA RetireFailsInv == ASSUME Inv, NEW w \in Writer, RetireFails(w) PROVE Inv'
<1>1. /\ writer[w].pc = "retire" /\ writer[w].old # Null /\ lost' = lost \cup Owned(writer[w].old)
      /\ lock' = Nobody /\ writer' = [writer EXCEPT ![w] = Idle]
      /\ UNCHANGED <<policy, heap, table, size, retired, epoch, records, hazard, reader>>
  BY DEF RetireFails, Unlock
<1>2. /\ table # Null /\ table \in Addr /\ IsTable(table) /\ lost = {}
      /\ \A v \in Writer : v # w => writer[v] = Idle
      /\ WriterType(writer[w]) /\ StepsOf(w) /\ ApartOf(w)
      /\ writer = [v \in Writer |-> writer[v]]
  BY <1>1, Holder
<1>3. PICK a \in Addr : a = writer[w].old BY <1>1, <1>2 DEF WriterType, Place
<1>4. /\ writer' = [v \in Writer |-> writer'[v]] /\ writer'[w] = Idle
      /\ \A v \in Writer : v # w => writer'[v] = writer[v]
  BY <1>1, <1>2
<1>5. /\ writer'[w].pc = "idle" /\ writer'[w].op = "none" /\ writer'[w].old = Null
      /\ writer'[w].scan = <<>> /\ WriterType(writer'[w])
  BY <1>4, IdleFields
<1>6. LockedBy(w)' BY <1>1, <1>4, <1>5, NobodyAssumption DEF LockedBy
<1>7. StepsOf(w)' BY <1>5 DEF StepsOf, ending, keyed
<1>8. Distinct(retired) /\ table \notin Objects(retired) /\ retired \in Seq(Record) /\ size \in Int
      /\ heap = [x \in Addr |-> heap[x]]
  BY DEF Inv, RootsApart, TypeOK
<1>9. Null \notin Objects(retired) BY <1>8, RecordsObjects DEF Null, Addr
<1>10. ApartOf(w)' BY <1>1, <1>5, <1>9, NoRecords DEF ApartOf
<1>11. \A t, c \in Addr : Parent(t, c)' <=> Parent(t, c) BY <1>1 DEF Parent, IsTable, Buckets
<1>12. Shapes' BY <1>1 DEF Inv, Shapes, IsChain, IsTable, Buckets
<1>13. Heads' BY <1>1, <1>11 DEF Inv, Heads, IsChain
<1>14. OneParent' BY <1>1 DEF Inv, OneParent, IsTable, Buckets
<1>15. writer[w].scan = <<>> BY <1>1, <1>2 DEF StepsOf
<1>16. \A x \in Addr : Root(x) <=> x = table \/ x \in Objects(retired) \/ x = a
  BY <1>2, <1>3, <1>15, <1>1, RootsInHand, NoRecords DEF Hand
<1>17. \A x \in Addr : Root(x)' <=> x = table \/ x \in Objects(retired)
  <2>1. \A v \in Writer : Objects(writer'[v].scan) = {} /\ writer'[v].old = Null
    BY <1>2, <1>4, IdleFields, NoRecords
  <2>2. Null \notin Addr BY DEF Null, Addr
  <2> QED BY <1>1, <2>1, <2>2 DEF Root
<1>18. RootsLive' BY <1>1, <1>11, <1>16, <1>17 DEF Inv, RootsLive
<1>19. ShardTable' BY <1>1 DEF Inv, ShardTable, IsTable
<1>20. lost' = Owned(a) BY <1>1, <1>2, <1>3
<1>21. heap[a] # Free BY <1>16 DEF Inv, RootsLive
<1>22. a \in Owned(a) /\ \A c \in Owned(a) : c = a \/ (c \in Addr /\ Parent(a, c))
  <2>1. CASE IsTable(a)
    <3>1. \A b \in DOMAIN Buckets(a) : Buckets(a)[b] \in Place BY <2>1, BucketsOf
    <3> QED BY <2>1, <3>1 DEF Owned, Range, Parent, IsTable, Buckets, Place
  <2>2. CASE ~IsTable(a) BY <2>2 DEF Owned, IsTable, Addr, Null
  <2> QED BY <2>1, <2>2
<1>23. \A c \in Addr : Parent(a, c) => c \in Owned(a) BY DEF Parent, IsTable, Buckets, Owned, Range
<1>24. Covered' BY <1>1, <1>11, <1>16, <1>17, <1>20, <1>22, <1>2 DEF Inv, Covered
<1>25. \A c \in Addr : Parent(a, c) => IsChain(c) BY DEF Inv, Heads
<1>26. Lost'
  <2>1. \A c \in Owned(a) : heap[c] # Free BY <1>21, <1>22, <1>25 DEF IsChain, Free
  <2>2. \A c, d \in Addr : Parent(a, c) => ~Parent(c, d) BY <1>25 DEF Parent, IsTable, IsChain
  <2> QED BY <1>1, <1>11, <1>20, <1>22, <1>23, <2>1, <2>2 DEF Lost
<1>27. lost' \in SUBSET Addr BY <1>20, <1>22
<1>28. \A x \in Addr : Kept(x) BY <1>1 DEF Kept, IsTable, IsChain, Buckets
<1>29. \A r \in Reader : reader[r].chain # Null =>
          \A t \in Addr : Parent(t, reader[r].chain)' => Parent(t, reader[r].chain)
  BY <1>1, <1>11, ReaderFields DEF ReaderType, Place
<1>30. Records(writer'[w].scan) = {} BY <1>5, NoRecords
<1>31. UNCHANGED <<policy, retired, epoch, records, hazard, reader>> /\ writer[w].pc # "idle" BY <1>1
<1>32. /\ heap' = [x \in Addr |-> heap'[x]] /\ table' \in Place /\ size' \in Int /\ table' \notin Objects(retired)
       /\ table' # Null /\ lock' \in {w, Nobody} /\ writer'[w].pc # "reclaim" /\ writer'[w].pc # "publish"
  BY <1>1, <1>2, <1>5, <1>8 DEF Place
<1> QED BY <1>4, <1>5, <1>6, <1>7, <1>10, <1>12, <1>13, <1>14, <1>18, <1>19, <1>24, <1>26, <1>27, <1>28,
           <1>29, <1>30, <1>31, <1>32, HeapStep

LEMMA NewChainInv ==
    ASSUME Inv, NEW w \in Writer, writer[w].pc = "chain", NEW s, NEW a \in Addr, heap[a] = Free,
           NEW inserted, heap' = [heap EXCEPT ![a] = Chain(s)], Cloned(w, a, inserted),
           UNCHANGED <<policy, table, lock, retired, epoch, records, hazard, reader, lost>>,
           size' \in Int
    PROVE  Inv'
<1>1. /\ lock = w /\ table # Null /\ table \in Addr /\ IsTable(table) /\ lost = {}
      /\ \A v \in Writer : v # w => writer[v] = Idle
      /\ WriterType(writer[w]) /\ StepsOf(w) /\ ApartOf(w)
      /\ writer = [v \in Writer |-> writer[v]]
  BY Holder
<1>2. writer[w].scan = <<>> /\ writer[w].old = Null /\ writer[w].op \notin ending
  BY <1>1 DEF StepsOf, ending
<1>3. writer'[w] = [pc |-> "publish", op |-> writer[w].op, key |-> writer[w].key, val |-> writer[w].val,
                    old |-> a, inserted |-> inserted,
                    scan |-> writer[w].scan, minimum |-> writer[w].minimum]
  BY <1>1 DEF Cloned, WriterType
<1>4. writer' = [v \in Writer |-> writer'[v]] /\ \A v \in Writer : v # w => writer'[v] = writer[v]
  BY <1>1 DEF Cloned
<1>5. heap = [x \in Addr |-> heap[x]] /\ retired \in Seq(Record) /\ table \notin Objects(retired)
  BY DEF Inv, TypeOK, RootsApart
<1>6. heap' = [x \in Addr |-> heap'[x]] /\ heap'[a] = Chain(s) /\ \A x \in Addr : x # a => heap'[x] = heap[x]
  BY <1>5
<1>7. heap'[a].kind = "chain" /\ heap[a].kind = "free" /\ a # Null BY <1>6 DEF Chain, Free, Addr, Null
<1>8. /\ IsChain(a)' /\ ~IsTable(a)' /\ ~IsTable(a) /\ ~IsChain(a)
      /\ \A x \in Addr : x # a => /\ IsTable(x)' <=> IsTable(x)
                                  /\ IsChain(x)' <=> IsChain(x)
                                  /\ Buckets(x)' = Buckets(x)
  BY <1>6, <1>7 DEF IsTable, IsChain, Buckets
<1>9. \A t, c \in Addr : Parent(t, c)' <=> Parent(t, c) BY <1>8 DEF Parent
<1>10. \A t \in Addr : ~Parent(t, a) BY <1>8 DEF Inv, Heads
<1>11. ~Root(a) BY DEF Inv, RootsLive
<1>12. \A x \in Addr : Root(x) <=> x = table \/ x \in Objects(retired)
  BY <1>1, <1>2, RootsInHand, NoRecords DEF Hand
<1>13. \A x \in Addr : Root(x)' <=> Root(x) \/ x = a
  <2>1. \A v \in Writer : Objects(writer'[v].scan) = {} /\ writer'[v].old = IF v = w THEN a ELSE Null
    BY <1>1, <1>2, <1>3, <1>4, IdleFields, NoRecords
  <2>2. Null \notin Addr BY DEF Null, Addr
  <2> QED BY <1>12, <2>1, <2>2 DEF Root
<1>14. Shapes' BY <1>6, <1>8 DEF Inv, Shapes
<1>15. Heads' BY <1>8, <1>9, <1>10 DEF Inv, Heads
<1>16. OneParent' BY <1>8 DEF Inv, OneParent
<1>17. RootsLive'
  <2>1. heap'[a] # Free BY <1>7 DEF Free
  <2> QED BY <1>6, <1>9, <1>10, <1>13, <2>1 DEF Inv, RootsLive
<1>18. ShardTable' BY <1>1, <1>8 DEF ShardTable
<1>19. Covered' BY <1>6, <1>9, <1>13 DEF Inv, Covered
<1>20. Lost' BY <1>1 DEF Lost
<1>21. \A x \in Addr : x # a => Kept(x) BY <1>8 DEF Kept
<1>22. Kept(a) BY <1>8 DEF Kept
<1>23. \A r \in Reader : reader[r].chain # Null => reader[r].chain # a BY <1>8 DEF Inv, Held, HeldBy
<1>24. \A r \in Reader : reader[r].chain # Null =>
          \A t \in Addr : Parent(t, reader[r].chain)' => Parent(t, reader[r].chain)
  BY <1>9, ReaderFields DEF ReaderType, Place
<1>25. WriterType(writer'[w]) BY <1>1, <1>3 DEF WriterType, Place
<1>26. LockedBy(w)' BY <1>1, <1>3 DEF LockedBy
<1>27. StepsOf(w)' BY <1>1, <1>2, <1>3, <1>8 DEF StepsOf, ending
<1>28. ApartOf(w)' BY <1>2, <1>3, <1>11, <1>12, NoRecords DEF ApartOf
<1>29. Records(writer'[w].scan) \subseteq Records(writer[w].scan) BY <1>3
<1>30. /\ table' \in Place /\ table' # Null /\ table' \notin Objects(retired) /\ lost' \in SUBSET Addr
       /\ lock' \in {w, Nobody} /\ writer'[w].op = writer[w].op /\ writer'[w].minimum = writer[w].minimum
       /\ writer'[w].pc # "reclaim" /\ writer'[w].old = a
  BY <1>1, <1>3, <1>5 DEF Place
<1> QED BY <1>4, <1>6, <1>14, <1>15, <1>16, <1>17, <1>18, <1>19, <1>20, <1>21, <1>22, <1>23, <1>24, <1>25,
           <1>26, <1>27, <1>28, <1>29, <1>30, HeapStep

LEMMA CloneChainInv == ASSUME Inv, NEW w \in Writer, CloneChain(w) PROVE Inv'
<1>1. PICK old, new, found : /\ old = heap[table].buckets[BucketIndex(writer[w].key, BucketCount(table))]
                             /\ new = Replacement(writer[w].op, NodesOf(old), writer[w].key, writer[w].val)
                             /\ found = (FindNodeInChain(NodesOf(old), writer[w].key) # 0)
  OBVIOUS
<1>2. writer[w].pc = "chain" /\ UNCHANGED <<policy, table, retired, epoch, records, hazard, reader, lost>>
  BY DEF CloneChain
<1>3. \/ Unlock(w) /\ UNCHANGED <<heap, size>>
      \/ /\ \/ Cloned(w, Null, ~found) /\ UNCHANGED heap
            \/ \E place \in Fresh({0}) : /\ heap' = [heap EXCEPT ![place[0]] = Chain(new)]
                                         /\ Cloned(w, place[0], ~found)
         /\ size' = size \/ size' = size + 1
         /\ UNCHANGED lock
  BY <1>1 DEF CloneChain
<1>4. CASE Unlock(w) /\ UNCHANGED <<heap, size>> BY <1>2, <1>4, NotFoundInv
<1>5. size' = size \/ size' = size + 1 => size' \in Int BY DEF Inv, TypeOK
<1>6. CASE Cloned(w, Null, ~found) /\ UNCHANGED <<heap, lock>> /\ (size' = size \/ size' = size + 1)
  BY <1>2, <1>5, <1>6, EmptyChainInv
<1>7. ASSUME NEW place \in Fresh({0}), heap' = [heap EXCEPT ![place[0]] = Chain(new)],
             Cloned(w, place[0], ~found), UNCHANGED lock, size' = size \/ size' = size + 1
      PROVE  Inv'
  <2>1. place[0] \in Addr /\ heap[place[0]] = Free BY <1>7 DEF Fresh
  <2> QED BY <1>2, <1>5, <1>7, <2>1, NewChainInv
<1> QED BY <1>3, <1>4, <1>6, <1>7

LEMMA PublishChainInv == ASSUME Inv, NEW w \in Writer, PublishChain(w) PROVE Inv'
<1> DEFINE b == BucketIndex(writer[w].key, BucketCount(table))
           new == writer[w].old
           old == Buckets(table)[b]
<1>1. /\ writer[w].pc = "publish"
      /\ UNCHANGED <<policy, table, size, lock, retired, epoch, records, hazard, reader, lost>>
  BY DEF PublishChain
<1>a. /\ heap' = [heap EXCEPT ![table].buckets[b] = new]
      /\ writer' = [writer EXCEPT ![w].pc = "retire", ![w].old = old]
  BY DEF PublishChain, Buckets
<1>2. /\ lock = w /\ table # Null /\ table \in Addr /\ IsTable(table) /\ lost = {}
      /\ \A v \in Writer : v # w => writer[v] = Idle
      /\ WriterType(writer[w]) /\ StepsOf(w) /\ ApartOf(w)
      /\ writer = [v \in Writer |-> writer[v]]
  BY <1>1, Holder
<1>3. /\ writer[w].scan = <<>> /\ writer[w].op \in keyed /\ writer[w].key \in Key
      /\ writer[w].op \notin ending /\ (new # Null => IsChain(new)) /\ new \in Place
  BY <1>1, <1>2 DEF StepsOf, keyed, ending, WriterType
<1>4. /\ heap[table] = Table(Buckets(table)) /\ Buckets(table) \in Seq(Place)
      /\ DOMAIN Buckets(table) = 1 .. Len(Buckets(table)) /\ Len(Buckets(table)) \in Nat \ {0}
      /\ BucketCount(table) = Len(Buckets(table))
      /\ \A i \in DOMAIN Buckets(table) : Buckets(table)[i] \in Place
  BY <1>2, BucketsOf
<1>5. b \in DOMAIN Buckets(table) BY <1>3, <1>4, BucketIndexInRange
<1>6. old \in Place BY <1>4, <1>5
<1>7. heap = [x \in Addr |-> heap[x]] /\ retired \in Seq(Record) /\ table \notin Objects(retired) /\ size \in Int
  BY DEF Inv, TypeOK, RootsApart
<1> HIDE DEF b
<1>8. /\ heap' = [x \in Addr |-> heap'[x]] /\ \A x \in Addr : x # table => heap'[x] = heap[x]
      /\ heap'[table] = Table([Buckets(table) EXCEPT ![b] = new])
  <2>1. heap'[table] = [heap[table] EXCEPT !.buckets[b] = new] BY <1>a, <1>2, <1>7
  <2>2. [Table(Buckets(table)) EXCEPT !.buckets[b] = new] = Table([Buckets(table) EXCEPT ![b] = new])
    BY DEF Table
  <2> QED BY <1>a, <1>2, <1>4, <1>7, <2>1, <2>2
<1>9. writer'[w] = [pc |-> "retire", op |-> writer[w].op, key |-> writer[w].key, val |-> writer[w].val,
                    old |-> old, inserted |-> writer[w].inserted,
                    scan |-> writer[w].scan, minimum |-> writer[w].minimum]
  BY <1>a, <1>2 DEF WriterType
<1>10. writer' = [v \in Writer |-> writer'[v]] /\ \A v \in Writer : v # w => writer'[v] = writer[v]
  BY <1>a, <1>2
<1>11. PICK o, n : o = old /\ n = new OBVIOUS
<1> HIDE DEF old, new
<1>b. PICK T \in Addr : T = table /\ T = table' BY <1>1, <1>2
<1>c. /\ IsTable(T) /\ Buckets(T) \in Seq(Place) /\ DOMAIN Buckets(T) = 1 .. Len(Buckets(T))
      /\ Len(Buckets(T)) \in Nat \ {0} /\ b \in DOMAIN Buckets(T) /\ T # Null
      /\ \A x \in Addr : x # T => heap'[x] = heap[x]
      /\ heap'[T] = Table([Buckets(T) EXCEPT ![b] = new]) /\ T \notin Objects(retired)
      /\ o = Buckets(T)[b]
  BY <1>2, <1>4, <1>5, <1>7, <1>8, <1>11, <1>b DEF old
<1>12. /\ IsTable(T)' /\ ~IsChain(T)' /\ ~IsChain(T) /\ DOMAIN Buckets(T)' = DOMAIN Buckets(T)
       /\ Buckets(T)'[b] = n
       /\ \A i \in DOMAIN Buckets(T) : i # b => Buckets(T)'[i] = Buckets(T)[i]
       /\ heap'[T] = Table(Buckets(T)') /\ Buckets(T)' \in Seq(Place) /\ Buckets(T)' # <<>>
  <2>1. Buckets(T)' = [Buckets(T) EXCEPT ![b] = n] BY <1>11, <1>c DEF Buckets, Table
  <2>2. heap'[T].kind = "table" BY <1>c DEF Table
  <2>3. Buckets(T)' \in Seq(Place) /\ Buckets(T)' # <<>> BY <1>3, <1>11, <1>c, <2>1
  <2>4. heap'[T] = Table(Buckets(T)') BY <1>11, <1>c, <2>1
  <2>5. IsTable(T)' /\ ~IsChain(T)' /\ ~IsChain(T) BY <1>c, <2>2 DEF IsTable, IsChain
  <2> QED BY <1>c, <2>1, <2>3, <2>4, <2>5
<1>13. \A x \in Addr : x # T => /\ IsTable(x)' <=> IsTable(x)
                                /\ IsChain(x)' <=> IsChain(x)
                                /\ Buckets(x)' = Buckets(x)
  BY <1>c DEF IsTable, IsChain, Buckets
<1>14. o # Null => o \in Addr /\ Parent(T, o) BY <1>6, <1>11, <1>c DEF Parent, Place
<1>15. n # Null => n \in Addr /\ n # T /\ n \notin Objects(retired) /\ IsChain(n)
  BY <1>2, <1>3, <1>11, <1>b DEF ApartOf, Place, new
<1>16. \A x \in Addr : Root(x) <=> x = T \/ x \in Objects(retired) \/ x = n
  <2>1. Hand(w) = {n} \ {Null} BY <1>3, <1>11, NoRecords DEF Hand, new
  <2>2. Null \notin Addr BY DEF Null, Addr
  <2> QED BY <1>2, <1>b, <2>1, <2>2, RootsInHand
<1>17. \A x \in Addr : Root(x)' <=> x = T \/ x \in Objects(retired) \/ x = o
  <2>1. \A v \in Writer : Objects(writer'[v].scan) = {} /\ writer'[v].old = IF v = w THEN o ELSE Null
    BY <1>2, <1>3, <1>9, <1>10, <1>11, IdleFields, NoRecords
  <2>2. Null \notin Addr BY DEF Null, Addr
  <2> QED BY <1>1, <1>b, <2>1, <2>2 DEF Root
<1>18. \A x, t \in Addr : Root(x) => ~Parent(t, x) BY DEF Inv, RootsLive
<1>19. o # Null => o # n /\ o # T /\ o \notin Objects(retired)
  BY <1>14, <1>15, <1>16, <1>18
<1>20. \A c \in Addr : Parent(T, c)' <=> c = n \/ (Parent(T, c) /\ c # o)
  <2>0. \A c \in Addr : c # Null BY DEF Addr, Null
  <2>1. \A c \in Addr : Parent(T, c) <=> \E i \in DOMAIN Buckets(T) : Buckets(T)[i] = c
    BY <1>c, <2>0 DEF Parent
  <2>2. \A c \in Addr : Parent(T, c)' <=> \E i \in DOMAIN Buckets(T) : Buckets(T)'[i] = c
    BY <1>12, <2>0 DEF Parent
  <2>3. \A i \in DOMAIN Buckets(T) : Buckets(T)[i] # Null /\ Buckets(T)[i] = o => i = b
    BY <1>c DEF Inv, OneParent
  <2>4. \A c \in Addr : Parent(T, c)' => c = n \/ (Parent(T, c) /\ c # o)
    <3> SUFFICES ASSUME NEW c \in Addr, NEW i \in DOMAIN Buckets(T), Buckets(T)'[i] = c
                 PROVE  c = n \/ (Parent(T, c) /\ c # o)
      BY <2>2
    <3>1. CASE i = b BY <1>12, <3>1
    <3>2. CASE i # b BY <1>12, <2>0, <2>1, <2>3, <3>2
    <3> QED BY <3>1, <3>2
  <2>5. \A c \in Addr : c = n => Parent(T, c)' BY <1>c, <1>12, <2>2
  <2>6. \A c \in Addr : Parent(T, c) /\ c # o => Parent(T, c)'
    <3> SUFFICES ASSUME NEW c \in Addr, c # o, NEW i \in DOMAIN Buckets(T), Buckets(T)[i] = c
                 PROVE  Parent(T, c)'
      BY <2>1
    <3>1. i # b BY <1>c
    <3> QED BY <1>12, <2>2, <3>1
  <2> QED BY <2>4, <2>5, <2>6
<1>21. \A t, c \in Addr : t # T => (Parent(t, c)' <=> Parent(t, c)) BY <1>13 DEF Parent
<1>22. \A t \in Addr : n # Null => ~Parent(t, n) BY <1>15, <1>16, <1>18
<1>23. \A t \in Addr : Parent(t, o) /\ o # Null => t = T BY <1>14 DEF Inv, OneParent, Parent
<1>24. Shapes'
  <2>1. \A x \in Addr : x # T =>
           \/ heap'[x] = Free
           \/ IsChain(x)'
           \/ IsTable(x)' /\ heap'[x] = Table(Buckets(x)') /\ Buckets(x)' \in Seq(Place) /\ Buckets(x)' # <<>>
    BY <1>c, <1>13 DEF Inv, Shapes
  <2>2. \/ heap'[T] = Free
        \/ IsChain(T)'
        \/ IsTable(T)' /\ heap'[T] = Table(Buckets(T)') /\ Buckets(T)' \in Seq(Place) /\ Buckets(T)' # <<>>
    BY <1>12
  <2> QED BY <2>1, <2>2 DEF Shapes, IsTable, IsChain, Buckets
<1>25. Heads'
  <2>1. \A t, c \in Addr : Parent(t, c)' => IsChain(c)
    <3>1. Null \notin Addr BY DEF Addr, Null
    <3>2. \A t, c \in Addr : Parent(t, c) => IsChain(c) BY DEF Inv, Heads
    <3> QED BY <1>15, <1>20, <1>21, <3>1, <3>2
  <2>2. \A c \in Addr : IsChain(c) => (IsChain(c))' BY <1>12, <1>13
  <2> QED BY <2>1, <2>2 DEF Heads
<1>26. OneParent'
  <2> SUFFICES ASSUME NEW s \in Addr, NEW t \in Addr, IsTable(s)', IsTable(t)',
                      NEW i \in DOMAIN Buckets(s)', NEW j \in DOMAIN Buckets(t)',
                      Buckets(s)'[i] = Buckets(t)'[j], Buckets(s)'[i] # Null
               PROVE  s = t /\ i = j
    BY DEF OneParent
  <2>1. IsTable(s) /\ IsTable(t) /\ i \in DOMAIN Buckets(s) /\ j \in DOMAIN Buckets(t) BY <1>c, <1>12, <1>13
  <2>2. \A u, k : u \in Addr /\ IsTable(u) /\ k \in DOMAIN Buckets(u) /\ ~(u = T /\ k = b)
                   => Buckets(u)'[k] = Buckets(u)[k] /\ (n # Null => Buckets(u)[k] # n)
    <3>1. \A u \in Addr : IsTable(u) => \A k \in DOMAIN Buckets(u) : n # Null => Buckets(u)[k] # n
      BY <1>22 DEF Parent
    <3> QED BY <1>12, <1>13, <3>1
  <2>3. CASE s = T /\ i = b BY <1>12, <2>1, <2>2, <2>3
  <2>4. CASE t = T /\ j = b BY <1>12, <2>1, <2>2, <2>4
  <2>5. CASE ~(s = T /\ i = b) /\ ~(t = T /\ j = b)
    <3>1. Buckets(s)[i] = Buckets(t)[j] /\ Buckets(s)[i] # Null BY <2>1, <2>2, <2>5
    <3> QED BY <2>1, <3>1 DEF Inv, OneParent
  <2> QED BY <2>3, <2>4, <2>5
<1>27. \A x \in Addr : heap[x] # Free => heap'[x] # Free
  <2>1. heap'[T] # Free BY <1>12 DEF IsTable, Free
  <2> QED BY <1>c, <2>1
<1>28. RootsLive'
  <2> SUFFICES ASSUME NEW x \in Addr, Root(x)' PROVE heap'[x] # Free /\ \A t \in Addr : ~Parent(t, x)'
    BY DEF RootsLive
  <2>1. CASE x = o
    <3>1. x # Null BY DEF Addr, Null
    <3>2. IsChain(x) BY <1>14, <2>1, <3>1 DEF Inv, Heads
    <3>3. heap[x] # Free BY <3>2 DEF IsChain, Free
    <3> QED BY <1>19, <1>20, <1>21, <1>23, <1>27, <2>1, <3>1, <3>3
  <2>2. CASE x # o
    <3>1. Root(x) /\ x # n BY <1>15, <1>16, <1>17, <2>2 DEF Addr, Null
    <3>2. heap[x] # Free BY <3>1 DEF Inv, RootsLive
    <3> QED BY <1>18, <1>20, <1>21, <1>27, <3>1, <3>2
  <2> QED BY <2>1, <2>2
<1>29. ShardTable' BY <1>b, <1>12 DEF ShardTable
<1>30. Covered'
  <2> SUFFICES ASSUME NEW x \in Addr, heap'[x] # Free
               PROVE  Root(x)' \/ \E t \in Addr : Parent(t, x)'
    BY DEF Covered
  <2>1. heap[x] # Free
    <3>1. heap[T] # Free BY <1>c DEF IsTable, Free
    <3> QED BY <1>c, <3>1
  <2>2. Root(x) \/ \E t \in Addr : Parent(t, x) BY <1>2, <2>1 DEF Inv, Covered
  <2>3. CASE Root(x) BY <1>16, <1>17, <1>20, <2>3
  <2>4. CASE \E t \in Addr : Parent(t, x) BY <1>17, <1>20, <1>21, <2>4
  <2> QED BY <2>2, <2>3, <2>4
<1>31. Lost' BY <1>1, <1>2 DEF Lost
<1>32. \A x \in Addr : Kept(x) BY <1>12, <1>13 DEF Kept
<1>33. \A r \in Reader : reader[r].chain # Null => reader[r].chain \in Addr /\ reader[r].chain # n
  BY <1>1, <1>11, ReaderFields DEF ReaderType, Place, Inv, HeldWithin, HeldWithinBy, new
<1>34. \A r \in Reader : reader[r].chain # Null =>
          \A t \in Addr : Parent(t, reader[r].chain)' => Parent(t, reader[r].chain)
  <2> SUFFICES ASSUME NEW r \in Reader, reader[r].chain # Null, NEW t \in Addr, NEW c \in Addr,
                      c = reader[r].chain, c # n, Parent(t, c)'
               PROVE  Parent(t, c)
    BY <1>1, <1>33
  <2> QED BY <1>20, <1>21
<1>35. WriterType(writer'[w]) BY <1>2, <1>6, <1>9 DEF WriterType
<1>36. LockedBy(w)' BY <1>1, <1>2, <1>9 DEF LockedBy
<1>37. StepsOf(w)' BY <1>1, <1>2, <1>3, <1>9 DEF StepsOf
<1>38. ApartOf(w)'
  <2>1. Null \notin Objects(retired) BY <1>7, RecordsObjects DEF Null, Addr
  <2> QED BY <1>1, <1>3, <1>9, <1>11, <1>19, <1>b, <2>1, NoRecords DEF ApartOf
<1>39. Records(writer'[w].scan) \subseteq Records(writer[w].scan) BY <1>9
<1>40. /\ table' \in Place /\ table' # Null /\ table' \notin Objects(retired) /\ lost' \in SUBSET Addr
       /\ size' \in Int /\ lock' \in {w, Nobody} /\ writer[w].pc # "idle"
       /\ writer'[w].op = writer[w].op /\ writer'[w].minimum = writer[w].minimum
       /\ writer'[w].pc # "reclaim" /\ writer'[w].pc # "publish"
       /\ UNCHANGED <<policy, retired, epoch, records, hazard, reader>>
  BY <1>1, <1>2, <1>7, <1>9 DEF Place
<1>41. heap' = [x \in Addr |-> heap'[x]] BY <1>8
<1> QED BY <1>10, <1>24, <1>25, <1>26, <1>28, <1>29, <1>30, <1>31, <1>32, <1>34, <1>35,
           <1>36, <1>37, <1>38, <1>39, <1>40, <1>41, HeapStep

\* What ReplaceTable() builds: a table at T and its chains at the addresses P,
\* all of them free before.
Built(T, P) ==
    /\ heap' = [a \in Addr |-> heap'[a]]
    /\ table' = T /\ T \in Addr /\ T \notin P
    /\ P \subseteq Addr
    /\ \A a \in P \cup {T} : heap[a] = Free
    /\ \A a \in P : heap'[a].kind = "chain"
    /\ \A a \in Addr : a \notin P \cup {T} => heap'[a] = heap[a]
    /\ heap'[T] = Table(heap'[T].buckets)
    /\ heap'[T].buckets \in Seq(Place) /\ heap'[T].buckets # <<>>
    /\ \A c \in Addr : c \in P <=> \E b \in DOMAIN heap'[T].buckets : heap'[T].buckets[b] = c
    /\ \A b, d \in DOMAIN heap'[T].buckets :
          heap'[T].buckets[b] = heap'[T].buckets[d] /\ heap'[T].buckets[b] # Null => b = d

LEMMA ReplaceTableBuilds ==
    ASSUME NEW chains, NEW count \in Nat \ {0}, DOMAIN chains = 1 .. count, ReplaceTable(chains)
    PROVE  \E T, P : Built(T, P)
<1> DEFINE ids == {0} \cup Used(chains)
<1>1. PICK place \in Fresh(ids) : heap' = Build(chains, place) /\ table' = place[0] BY DEF ReplaceTable
<1>2. ids \subseteq Nat /\ 0 \in ids /\ Used(chains) \subseteq 1 .. count BY DEF Used
<1>3. \A i \in ids : place[i] \in Addr /\ heap[place[i]] = Free BY <1>1 DEF Fresh
<1>4. \A i, j \in ids : place[i] = place[j] => i = j
  <2>1. \A i, j \in ids : i < j => place[i] < place[j] BY <1>1 DEF Fresh
  <2>2. \A i, j \in ids : place[i] \in Int /\ (i = j \/ i < j \/ j < i) BY <1>2, <1>3 DEF Addr
  <2>3. \A i, j \in ids : i # j => place[i] < place[j] \/ place[j] < place[i] BY <2>1, <2>2
  <2> QED BY <2>2, <2>3
<1> DEFINE T == place[0]
           P == {place[b] : b \in Used(chains)}
           B == [b \in DOMAIN chains |-> IF b \in Used(chains) THEN place[b] ELSE Null]
<1>5. T \in Addr /\ P \subseteq Addr /\ T \notin P /\ \A a \in P \cup {T} : heap[a] = Free
  <2>1. T \notin P BY <1>2, <1>4
  <2> QED BY <1>2, <1>3, <2>1
<1>6. heap' = [a \in Addr |-> IF a = T THEN Table(B)
                              ELSE IF a \in P THEN Chain(chains[CHOOSE b \in Used(chains) : place[b] = a])
                              ELSE heap[a]]
  <2>1. \A a \in Addr : a \in P <=> \E b \in Used(chains) : place[b] = a OBVIOUS
  <2> QED BY <1>1, <2>1 DEF Build
<1>7. DOMAIN B = 1 .. count /\ B \in Seq(Place) /\ B # <<>>
  <2>1. \A b \in 1 .. count : B[b] \in Place BY <1>2, <1>3 DEF Place
  <2>2. B \in [1 .. count -> Place] BY <2>1
  <2>3. B \in Seq(Place) BY <2>2
  <2>4. 1 \in DOMAIN B OBVIOUS
  <2> QED BY <2>3, <2>4
<1>8. \A c \in Addr : c \in P <=> \E b \in DOMAIN B : B[b] = c
  <2>1. Null \notin Addr BY DEF Addr, Null
  <2> QED BY <1>2, <2>1
<1>9. \A b, d \in DOMAIN B : B[b] = B[d] /\ B[b] # Null => b = d
  <2>1. \A b \in DOMAIN B : B[b] # Null => b \in Used(chains) /\ B[b] = place[b] OBVIOUS
  <2> QED BY <1>4, <2>1
<1>10. heap'[T] = Table(B) /\ heap'[T].buckets = B BY <1>5, <1>6 DEF Table
<1>11. \A a \in P : heap'[a].kind = "chain" BY <1>5, <1>6 DEF Chain
<1>12. heap' = [a \in Addr |-> heap'[a]] /\ \A a \in Addr : a \notin P \cup {T} => heap'[a] = heap[a] BY <1>6
<1>13. table' = T BY <1>1
<1> HIDE DEF T, P, B
<1>14. Built(T, P) BY <1>5, <1>7, <1>8, <1>9, <1>10, <1>11, <1>12, <1>13 DEF Built
<1> QED BY <1>14

\* A new table replaces the shard's, which the writer keeps in hand.
Takes(w, p) == writer' = [writer EXCEPT ![w].pc = p, ![w].old = table]

LEMMA ReplacedInv ==
    ASSUME Inv, NEW w \in Writer, writer[w].pc \in {"capacity", "clear"}, NEW p \in {"retire", "uncount"},
           NEW T, NEW P, Built(T, P),
           Takes(w, p), UNCHANGED <<policy, size, lock, retired, epoch, records, hazard, reader, lost>>
    PROVE  Inv'
<1>1. /\ lock = w /\ table # Null /\ table \in Addr /\ IsTable(table) /\ lost = {}
      /\ \A v \in Writer : v # w => writer[v] = Idle
      /\ WriterType(writer[w]) /\ StepsOf(w) /\ ApartOf(w)
      /\ writer = [v \in Writer |-> writer[v]]
  BY Holder
<1>2. writer[w].scan = <<>> /\ writer[w].old = Null /\ writer[w].op \notin ending
  BY <1>1 DEF StepsOf, ending
<1>3. PICK o \in Addr : o = table BY <1>1
<1>4. writer'[w] = [pc |-> p, op |-> writer[w].op, key |-> writer[w].key, val |-> writer[w].val,
                    old |-> o, inserted |-> writer[w].inserted,
                    scan |-> writer[w].scan, minimum |-> writer[w].minimum]
  BY <1>1, <1>3 DEF Takes, WriterType
<1>5. writer' = [v \in Writer |-> writer'[v]] /\ \A v \in Writer : v # w => writer'[v] = writer[v]
  BY <1>1 DEF Takes
<1>6. retired \in Seq(Record) /\ o \notin Objects(retired) /\ size \in Int BY <1>3 DEF Inv, TypeOK, RootsApart
<1>7. /\ heap' = [a \in Addr |-> heap'[a]] /\ table' = T /\ T \in Addr /\ T \notin P /\ P \subseteq Addr
      /\ \A a \in P \cup {T} : heap[a] = Free
      /\ \A a \in Addr : a \notin P \cup {T} => heap'[a] = heap[a]
  BY DEF Built
<1>8. Null \notin Addr BY DEF Addr, Null
<1>9. \A a \in P \cup {T} : ~IsTable(a) /\ ~IsChain(a) BY <1>7 DEF IsTable, IsChain, Free
<1>10. \A a \in P : IsChain(a)' /\ ~IsTable(a)' BY <1>7, <1>8 DEF Built, IsTable, IsChain
<1>11. \A a \in Addr : a \notin P \cup {T} => /\ IsTable(a)' <=> IsTable(a)
                                              /\ IsChain(a)' <=> IsChain(a)
                                              /\ Buckets(a)' = Buckets(a)
  BY <1>7 DEF IsTable, IsChain, Buckets
<1>12. /\ IsTable(T)' /\ ~IsChain(T)' /\ heap'[T] = Table(Buckets(T)')
       /\ Buckets(T)' \in Seq(Place) /\ Buckets(T)' # <<>>
       /\ \A c \in Addr : c \in P <=> \E b \in DOMAIN Buckets(T)' : Buckets(T)'[b] = c
       /\ \A b, d \in DOMAIN Buckets(T)' : Buckets(T)'[b] = Buckets(T)'[d] /\ Buckets(T)'[b] # Null => b = d
  <2>1. heap'[T].kind = "table" BY DEF Built, Table
  <2>2. IsTable(T)' /\ ~IsChain(T)' BY <1>7, <1>8, <2>1 DEF IsTable, IsChain
  <2> QED BY <2>2 DEF Built, Buckets
<1>13. \A t, c \in Addr : Parent(t, c)' <=> (t = T /\ c \in P) \/ Parent(t, c)
  <2> SUFFICES ASSUME NEW t \in Addr, NEW c \in Addr
               PROVE  Parent(t, c)' <=> (t = T /\ c \in P) \/ Parent(t, c)
    OBVIOUS
  <2>1. CASE t = T BY <1>8, <1>9, <1>12, <2>1 DEF Parent
  <2>2. CASE t \in P BY <1>7, <1>9, <1>10, <2>2 DEF Parent
  <2>3. CASE t \notin P \cup {T} BY <1>11, <2>3 DEF Parent
  <2> QED BY <2>1, <2>2, <2>3
<1>14. \A t \in Addr, c \in P \cup {T} : ~Parent(t, c) BY <1>7, <1>9 DEF Inv, Heads
<1>15. \A x \in Addr : Root(x) <=> x = o \/ x \in Objects(retired)
  BY <1>1, <1>2, <1>3, RootsInHand, NoRecords DEF Hand
<1>16. \A x \in Addr : Root(x)' <=> Root(x) \/ x = T
  <2>1. \A v \in Writer : Objects(writer'[v].scan) = {} /\ writer'[v].old = IF v = w THEN o ELSE Null
    BY <1>1, <1>2, <1>4, <1>5, IdleFields, NoRecords
  <2> QED BY <1>7, <1>8, <1>15, <2>1 DEF Root
<1>17. \A x \in Addr : Root(x) => x \notin P \cup {T} BY <1>7 DEF Inv, RootsLive
<1>18. Shapes'
  <2>1. \A a \in Addr : a \notin P \cup {T} =>
           \/ heap'[a] = Free
           \/ IsChain(a)'
           \/ IsTable(a)' /\ heap'[a] = Table(Buckets(a)') /\ Buckets(a)' \in Seq(Place) /\ Buckets(a)' # <<>>
    BY <1>7, <1>11 DEF Inv, Shapes
  <2> QED BY <1>10, <1>12, <2>1 DEF Shapes
<1>19. Heads'
  <2>1. \A c \in Addr : IsChain(c) => c \notin P \cup {T} /\ IsChain(c)' BY <1>9, <1>11
  <2> QED BY <1>10, <1>13, <2>1 DEF Inv, Heads
<1>20. OneParent'
  <2> SUFFICES ASSUME NEW s \in Addr, NEW t \in Addr, IsTable(s)', IsTable(t)',
                      NEW i \in DOMAIN Buckets(s)', NEW j \in DOMAIN Buckets(t)',
                      Buckets(s)'[i] = Buckets(t)'[j], Buckets(s)'[i] # Null
               PROVE  s = t /\ i = j
    BY DEF OneParent
  <2>1. PICK c \in Addr : c = Buckets(s)'[i]
    <3>1. Buckets(s)' \in Seq(Place) BY <1>18 DEF Shapes, IsTable, IsChain, Free
    <3>2. Buckets(s)'[i] \in Place BY <3>1
    <3> QED BY <3>2 DEF Place
  <2>2. Parent(s, c)' /\ Parent(t, c)' BY <1>8, <2>1 DEF Parent
  <2>3. CASE s = T /\ t = T BY <1>12, <2>3
  <2>4. CASE s # T /\ t # T
    <3>1. s \notin P /\ t \notin P BY <1>10
    <3>2. IsTable(s) /\ IsTable(t) /\ Buckets(s)' = Buckets(s) /\ Buckets(t)' = Buckets(t) BY <1>11, <2>4, <3>1
    <3> QED BY <3>2 DEF Inv, OneParent
  <2>5. CASE s # t /\ (s = T \/ t = T) BY <1>7, <1>9, <1>13, <1>14, <2>2, <2>5 DEF Parent
  <2> QED BY <2>3, <2>4, <2>5
<1>21. RootsLive'
  <2>1. heap'[T] # Free BY <1>12 DEF IsTable, Free
  <2>2. \A x \in Addr : Root(x) => heap'[x] # Free BY <1>7, <1>17 DEF Inv, RootsLive
  <2>3. \A x, t \in Addr : Root(x) => ~Parent(t, x) BY DEF Inv, RootsLive
  <2> QED BY <1>7, <1>13, <1>14, <1>16, <1>17, <2>1, <2>2, <2>3 DEF RootsLive
<1>22. ShardTable' BY <1>7, <1>12 DEF ShardTable
<1>23. Covered'
  <2> SUFFICES ASSUME NEW x \in Addr, heap'[x] # Free
               PROVE  Root(x)' \/ \E t \in Addr : Parent(t, x)'
    BY DEF Covered
  <2>1. CASE x = T BY <1>16, <2>1
  <2>2. CASE x \in P BY <1>7, <1>13, <2>2
  <2>3. CASE x \notin P \cup {T}
    <3>1. Root(x) \/ \E t \in Addr : Parent(t, x) BY <1>1, <1>7, <2>3 DEF Inv, Covered
    <3> QED BY <1>13, <1>16, <3>1
  <2> QED BY <2>1, <2>2, <2>3
<1>24. Lost' BY <1>1 DEF Lost
<1>25. \A x \in Addr : Kept(x) BY <1>9, <1>11 DEF Kept
<1>26. \A r \in Reader : reader[r].chain # Null =>
          \A t \in Addr : Parent(t, reader[r].chain)' => Parent(t, reader[r].chain)
  <2> SUFFICES ASSUME NEW r \in Reader, NEW c, c = reader[r].chain, c # Null
               PROVE  \A t \in Addr : Parent(t, c)' => Parent(t, c)
    OBVIOUS
  <2>1. c \in Addr /\ IsChain(c) BY ReaderFields DEF ReaderType, Place, Inv, Held, HeldBy
  <2>2. c \notin P BY <1>9, <2>1
  <2> QED BY <1>13, <2>1, <2>2
<1>27. WriterType(writer'[w]) BY <1>1, <1>4 DEF WriterType, Place
<1>28. LockedBy(w)' BY <1>1, <1>4, <1>7, <1>8 DEF LockedBy
<1>29. StepsOf(w)' BY <1>1, <1>2, <1>4 DEF StepsOf, ending
<1>30. T \notin Objects(retired) /\ T # o BY <1>7, <1>15, <1>17
<1>31. ApartOf(w)' BY <1>2, <1>4, <1>6, <1>7, <1>30, NoRecords DEF ApartOf
<1>32. Records(writer'[w].scan) \subseteq Records(writer[w].scan) BY <1>4
<1>33. /\ table' \in Place /\ table' # Null /\ table' \notin Objects(retired) /\ lost' \in SUBSET Addr
       /\ size' \in Int /\ lock' \in {w, Nobody} /\ writer[w].pc # "idle"
       /\ writer'[w].op = writer[w].op /\ writer'[w].minimum = writer[w].minimum
       /\ writer'[w].pc # "reclaim" /\ writer'[w].pc # "publish"
  BY <1>1, <1>4, <1>6, <1>7, <1>8, <1>30 DEF Place
<1> QED BY <1>5, <1>7, <1>18, <1>19, <1>20, <1>21, <1>22, <1>23, <1>24, <1>25, <1>26, <1>27, <1>28,
           <1>29, <1>31, <1>32, <1>33, HeapStep

LEMMA EnsureShardCapacityInv == ASSUME Inv, NEW w \in Writer, EnsureShardCapacity(w) PROVE Inv'
<1>1. PICK desired, count :
         /\ desired = IF writer[w].op = "Reserve" THEN Max({writer[w].val, 1}) ELSE size + 1
         /\ count = BucketCountForElements(desired)
  OBVIOUS
<1>2. /\ writer[w].pc = "capacity"
      /\ UNCHANGED <<policy, size, lock, retired, epoch, records, hazard, reader, lost>>
  BY DEF EnsureShardCapacity
<1>3. \/ Goto(w, IF writer[w].op = "Reserve" THEN "poll" ELSE "chain") /\ UNCHANGED <<heap, table>>
      \/ /\ ReplaceTable(Rehashed(table, count))
         /\ writer' = [writer EXCEPT ![w].pc = "retire", ![w].old = table]
  BY <1>1 DEF EnsureShardCapacity
<1>4. CASE Goto(w, IF writer[w].op = "Reserve" THEN "poll" ELSE "chain") /\ UNCHANGED <<heap, table>>
  BY <1>2, <1>4, EnoughCapacityInv
<1>5. CASE /\ ReplaceTable(Rehashed(table, count))
           /\ writer' = [writer EXCEPT ![w].pc = "retire", ![w].old = table]
  <2>1. writer[w].op = "Reserve" => writer[w].val \in Nat BY <1>2, Holder DEF StepsOf
  <2>2. desired \in Int
    <3>1. CASE writer[w].op = "Reserve"
      <4>1. PICK m \in Int : m = writer[w].val BY <2>1, <3>1
      <4>2. Max({m, 1}) \in {m, 1} BY GreatestOfTwo
      <4> QED BY <1>1, <3>1, <4>1, <4>2
    <3>2. CASE writer[w].op # "Reserve" BY <1>1, <3>2 DEF Inv, TypeOK
    <3> QED BY <3>1, <3>2
  <2>3. count \in Nat \ {0} BY <1>1, <2>2, BucketCountPositive
  <2>4. DOMAIN Rehashed(table, count) = 1 .. count BY DEF Rehashed
  <2>5. PICK T, P : Built(T, P) BY <1>5, <2>3, <2>4, ReplaceTableBuilds
  <2>6. Takes(w, "retire") BY <1>5 DEF Takes
  <2> QED BY <1>2, <2>5, <2>6, ReplacedInv
<1> QED BY <1>3, <1>4, <1>5

LEMMA ClearTableInv == ASSUME Inv, NEW w \in Writer, ClearTable(w) PROVE Inv'
<1>1. /\ writer[w].pc = "clear" /\ ReplaceTable([b \in 1 .. BucketCount(table) |-> <<>>])
      /\ writer' = [writer EXCEPT ![w].pc = "uncount", ![w].old = table]
      /\ UNCHANGED <<policy, size, lock, retired, epoch, records, hazard, reader, lost>>
  BY DEF ClearTable
<1>2. table \in Addr /\ IsTable(table) BY <1>1, Holder
<1>3. BucketCount(table) \in Nat \ {0} BY <1>2, BucketsOf
<1>4. DOMAIN [b \in 1 .. BucketCount(table) |-> <<>>] = 1 .. BucketCount(table) OBVIOUS
<1>5. PICK T, P : Built(T, P) BY <1>1, <1>3, <1>4, ReplaceTableBuilds
<1>6. Takes(w, "uncount") BY <1>1 DEF Takes
<1> QED BY <1>1, <1>5, <1>6, ReplacedInv

----------------------------------------------------------------------------
\* Destruction.

\* Destroying a root that nobody holds is safe: its chains hang nowhere else,
\* and who holds one of them holds the root.
LEMMA ReleasedInv ==
    ASSUME Inv, NEW w \in Writer, writer[w].pc # "idle", NEW R \in Addr, Root(R),
           \A r \in Reader : ~Holds(r, R),
           heap' = Release(heap, Owned(R)),
           UNCHANGED <<policy, retired, epoch, records, hazard, reader, lost>>,
           \A x \in Addr : Root(x)' <=> Root(x) /\ x # R,
           table' = Null \/ (table' = table /\ table # R),
           table' = Null => NoReaders,
           writer' = [v \in Writer |-> writer'[v]],
           \A v \in Writer : v # w => writer'[v] = writer[v],
           size' \in Int, WriterType(writer'[w]), LockedBy(w)', StepsOf(w)', lock' \in {w, Nobody},
           ApartOf(w)', Records(writer'[w].scan) \subseteq Records(writer[w].scan),
           writer'[w] = Idle \/ (writer'[w].op = writer[w].op /\ writer'[w].minimum = writer[w].minimum),
           writer'[w].pc = "reclaim" => writer[w].pc = "reclaim", writer'[w].pc # "publish"
    PROVE  Inv'
<1> DEFINE O == Owned(R)
<1>1. lost = {} /\ table \in Addr /\ IsTable(table) BY Holder
<1>2. Null \notin Addr /\ R # Null BY DEF Addr, Null
<1>3. \A a \in Addr : a \in O <=> a = R \/ Parent(R, a)
  <2>1. CASE IsTable(R) BY <1>2, <2>1 DEF Owned, Range, Parent, IsTable, Buckets
  <2>2. CASE ~IsTable(R) BY <1>2, <2>2 DEF Owned, Parent, IsTable
  <2> QED BY <2>1, <2>2
<1>4. heap' = [a \in Addr |-> heap'[a]] /\ \A a \in Addr : heap'[a] = IF a \in O THEN Free ELSE heap[a]
  BY DEF Release
<1> HIDE DEF O
<1>5. \A t \in Addr : ~Parent(t, R) BY DEF Inv, RootsLive
<1>6. \A c \in Addr : Parent(R, c) => IsChain(c) BY DEF Inv, Heads
<1>7. \A t, c \in Addr : Parent(R, c) /\ Parent(t, c) => t = R BY DEF Inv, OneParent, Parent
<1>8. \A a \in Addr : a \in O => ~IsTable(a)' /\ ~IsChain(a)' BY <1>4 DEF IsTable, IsChain, Free
<1>9. \A a \in Addr : a \notin O => /\ IsTable(a)' <=> IsTable(a)
                                    /\ IsChain(a)' <=> IsChain(a)
                                    /\ Buckets(a)' = Buckets(a)
  BY <1>4 DEF IsTable, IsChain, Buckets
<1>10. \A t, c \in Addr : Parent(t, c)' <=> Parent(t, c) /\ t # R
  <2> SUFFICES ASSUME NEW t \in Addr, NEW c \in Addr PROVE Parent(t, c)' <=> Parent(t, c) /\ t # R
    OBVIOUS
  <2>1. CASE t \in O
    <3>1. ~Parent(t, c)' BY <1>8, <2>1 DEF Parent
    <3>2. t = R \/ ~IsTable(t) BY <1>3, <1>6, <2>1 DEF IsTable, IsChain
    <3> QED BY <3>1, <3>2 DEF Parent
  <2>2. CASE t \notin O BY <1>3, <1>9, <2>2 DEF Parent
  <2> QED BY <2>1, <2>2
<1>11. \A x \in Addr : Root(x) /\ x # R => x \notin O BY <1>3 DEF Inv, RootsLive
<1>12. Shapes'
  <2>1. \A a \in Addr : a \notin O =>
           \/ heap'[a] = Free
           \/ IsChain(a)'
           \/ IsTable(a)' /\ heap'[a] = Table(Buckets(a)') /\ Buckets(a)' \in Seq(Place) /\ Buckets(a)' # <<>>
    BY <1>4, <1>9 DEF Inv, Shapes
  <2> QED BY <1>4, <2>1 DEF Shapes
<1>13. Heads'
  <2>1. \A t, c \in Addr : Parent(t, c)' => IsChain(c) /\ c \notin O
    BY <1>3, <1>5, <1>7, <1>10 DEF Inv, Heads
  <2> QED BY <1>9, <2>1 DEF Heads
<1>14. OneParent'
  <2>1. \A a \in Addr : IsTable(a)' => IsTable(a) /\ Buckets(a)' = Buckets(a) BY <1>8, <1>9
  <2> QED BY <2>1 DEF Inv, OneParent
<1>15. RootsLive'
  <2>1. \A x \in Addr : Root(x) => heap[x] # Free /\ \A t \in Addr : ~Parent(t, x) BY DEF Inv, RootsLive
  <2> QED BY <1>4, <1>10, <1>11, <2>1 DEF RootsLive
<1>16. ShardTable'
  <2>1. table' # Null => table \notin O
    <3>1. Root(table) BY DEF Root
    <3> QED BY <1>1, <1>11, <3>1
  <2>2. table' # Null => IsTable(table') /\ table' \in Addr /\ table' \notin O BY <1>1, <2>1
  <2>3. table' # Null => heap'[table'] = heap[table'] BY <1>4, <2>2
  <2> QED BY <2>2, <2>3 DEF ShardTable, IsTable
<1>17. Covered'
  <2> SUFFICES ASSUME NEW x \in Addr, heap'[x] # Free
               PROVE  Root(x)' \/ \E t \in Addr : Parent(t, x)'
    BY DEF Covered
  <2>1. x \notin O /\ heap[x] # Free BY <1>4
  <2>2. Root(x) \/ \E t \in Addr : Parent(t, x) BY <1>1, <2>1 DEF Inv, Covered
  <2> QED BY <1>3, <1>10, <2>1, <2>2
<1>18. Lost' BY <1>1 DEF Lost
<1>19. \A r \in Reader, a \in Addr : Holds(r, a) => a \notin O
  <2> SUFFICES ASSUME NEW r \in Reader, NEW a \in Addr, Holds(r, a), Parent(R, a) PROVE FALSE
    BY <1>3
  <2>1. CASE reader[r].chain = a
    <3>1. R = reader[r].table /\ reader[r].pc = "walk"
      BY <1>2, <2>1 DEF Inv, HeldWithin, HeldWithinBy, Reading, ReadingBy
    <3> QED BY <3>1 DEF Holds
  <2>2. CASE reader[r].table = a /\ reader[r].pc # "leave"
    <3>1. IsTable(a) BY <1>2, <2>2 DEF Inv, Held, HeldBy
    <3> QED BY <1>6, <3>1 DEF IsTable, IsChain
  <2> QED BY <2>1, <2>2 DEF Holds
<1>20. \A r \in Reader, a \in Addr : Holds(r, a) => Kept(a) BY <1>9, <1>19 DEF Kept
<1>21. \A r \in Reader : reader[r].chain # Null =>
          \A t \in Addr : Parent(t, reader[r].chain)' => Parent(t, reader[r].chain)
  BY <1>10, ReaderFields DEF ReaderType, Place
<1>22. table' \in Place /\ table' \notin Objects(retired) /\ lost' \in SUBSET Addr
  <2>1. retired \in Seq(Record) /\ table \notin Objects(retired) BY DEF Inv, TypeOK, RootsApart
  <2>2. Null \notin Objects(retired) BY <1>2, <2>1, RecordsObjects
  <2> QED BY <1>1, <2>1, <2>2 DEF Place
<1> QED BY <1>4, <1>12, <1>13, <1>14, <1>15, <1>16, <1>17, <1>18, <1>20, <1>21, <1>22, HeapStep

\* What a policy lets go no read holds.
LEMMA NobodyHolds ==
    ASSUME Inv, NEW w \in Writer, NEW x \in Records(writer[w].scan), x.object \in Addr, Reclaimable(w, x)
    PROVE  \A r \in Reader : ~Holds(r, x.object)
<1> SUFFICES ASSUME NEW r \in Reader, Holds(r, x.object) PROVE FALSE OBVIOUS
<1>1. CASE writer[w].op \in ending BY <1>1 DEF Inv, Quiet
<1>2. CASE writer[w].op \notin ending /\ policy = "LocalEpoch" /\ x.epoch < writer[w].minimum
  <2>1. reader[r].epoch <= x.epoch BY <1>2 DEF Inv, EpochKept
  <2>2. writer[w].minimum <= reader[r].epoch BY <1>2 DEF Inv, MinimumKept
  <2>3. reader[r].epoch \in Nat /\ writer[w].minimum \in Nat /\ x.epoch \in Nat
    <3>1. x \in Record BY RecordsObjects DEF Inv, TypeOK, WriterType
    <3> QED BY <3>1 DEF Record, Inv, TypeOK, WriterType, ReaderType
  <2> QED BY <1>2, <2>1, <2>2, <2>3
<1>3. CASE policy = "HazardPointers" /\ ~IsHazard(x.object)
  <2>1. r \in records BY HoldsRegistered
  <2>2. x.object # Null BY DEF Addr, Null
  <2>3. hazard[r].table = x.object \/ hazard[r].chain = x.object
    BY <1>3, <2>2 DEF Holds, Inv, HazardKept, HazardKeptBy
  <2> QED BY <1>3, <2>1, <2>3 DEF IsHazard
<1> QED BY <1>1, <1>2, <1>3 DEF Reclaimable, ending

LEMMA ReclaimIfInv == ASSUME Inv, NEW w \in Writer, ReclaimIf(w) PROVE Inv'
<1>1. CASE ~Reclaimable(w, Head(writer[w].scan)) BY <1>1, KeepInv
<1>2. CASE Reclaimable(w, Head(writer[w].scan))
  <2>a. /\ writer[w].pc = "reclaim" /\ writer[w].scan # <<>>
        /\ UNCHANGED <<policy, table, size, lock, retired, epoch, records, hazard, reader, lost>>
    BY <1>2 DEF ReclaimIf
  <2>b. writer' = [writer EXCEPT ![w].scan = Tail(@)] BY DEF ReclaimIf
  <2>c. heap' = Release(heap, Owned(Head(writer[w].scan).object)) BY <1>2 DEF ReclaimIf
  <2>1. /\ lock = w /\ table # Null /\ table \in Addr /\ lost = {}
        /\ \A v \in Writer : v # w => writer[v] = Idle
        /\ WriterType(writer[w]) /\ StepsOf(w) /\ ApartOf(w)
        /\ writer = [v \in Writer |-> writer[v]]
    BY <2>a, Holder
  <2>2. PICK s \in Seq(Record) : s = writer[w].scan BY <2>1 DEF WriterType
  <2>3. PICK x, t, R : x = Head(s) /\ t = Tail(s) /\ R = x.object OBVIOUS
  <2>4. Distinct(s) /\ table \notin Objects(s) /\ Objects(retired) \cap Objects(s) = {}
    BY <2>1, <2>2 DEF ApartOf
  <2>5. /\ x \in Record /\ t \in Seq(Record) /\ Records(s) = {x} \cup Records(t)
        /\ Objects(s) = {R} \cup Objects(t)
        /\ R \notin Objects(t) /\ Distinct(t)
    BY <2>a, <2>2, <2>3, <2>4, WithoutHead
  <2>6. R \in Addr BY <2>3, <2>5 DEF Record
  <2>7. \A r \in Reader : ~Holds(r, R)
    <3>1. Reclaimable(w, x) /\ x \in Records(writer[w].scan) BY <1>2, <2>2, <2>3, <2>5
    <3> QED BY <2>3, <2>6, <3>1, NobodyHolds
  <2>8. writer'[w] = [pc |-> writer[w].pc, op |-> writer[w].op, key |-> writer[w].key, val |-> writer[w].val,
                      old |-> writer[w].old, inserted |-> writer[w].inserted,
                      scan |-> t, minimum |-> writer[w].minimum]
    BY <2>b, <2>1, <2>2, <2>3 DEF WriterType
  <2>9. writer' = [v \in Writer |-> writer'[v]] /\ \A v \in Writer : v # w => writer'[v] = writer[v]
    BY <2>b, <2>1
  <2>10. writer[w].old = Null BY <2>a, <2>1 DEF StepsOf
  <2>11. \A a \in Addr : Root(a) <=> a = table \/ a \in Objects(retired) \/ a \in Objects(s)
    BY <2>1, <2>2, <2>10, RootsInHand DEF Hand
  <2>12. \A a \in Addr : Root(a)' <=> a = table \/ a \in Objects(retired) \/ a \in Objects(t)
    <3>1. /\ Objects(writer'[w].scan) = Objects(t) /\ writer'[w].old = Null
          /\ \A v \in Writer : v # w => Objects(writer'[v].scan) = {} /\ writer'[v].old = Null
      BY <2>1, <2>8, <2>9, <2>10, IdleFields, NoRecords
    <3>2. Null \notin Addr BY DEF Addr, Null
    <3> QED BY <2>a, <3>1, <3>2 DEF Root
  <2>13. \A a \in Addr : Root(a)' <=> Root(a) /\ a # R BY <2>4, <2>5, <2>11, <2>12
  <2>14. Root(R) /\ table # R BY <2>4, <2>5, <2>6, <2>11
  <2>15. WriterType(writer'[w]) BY <2>1, <2>5, <2>8 DEF WriterType
  <2>16. LockedBy(w)' BY <2>a, <2>1, <2>8 DEF LockedBy
  <2>17. StepsOf(w)' BY <2>a, <2>1, <2>8 DEF StepsOf
  <2>18. ApartOf(w)'
    <3>1. Null \notin Objects(retired)
      BY RecordsObjects DEF Null, Addr, Inv, TypeOK
    <3> QED BY <2>a, <2>4, <2>5, <2>8, <2>10, <3>1 DEF ApartOf
  <2>19. Records(writer'[w].scan) \subseteq Records(writer[w].scan) BY <2>2, <2>5, <2>8
  <2>20. heap' = Release(heap, Owned(R)) BY <2>c, <2>2, <2>3
  <2>21. /\ size' \in Int /\ lock' \in {w, Nobody} /\ table' = table /\ table' # Null /\ writer[w].pc # "idle"
         /\ writer'[w].op = writer[w].op /\ writer'[w].minimum = writer[w].minimum /\ writer'[w].pc # "publish"
         /\ UNCHANGED <<policy, retired, epoch, records, hazard, reader, lost>>
    BY <2>a, <2>1, <2>8 DEF Inv, TypeOK
  <2> QED BY <2>a, <2>6, <2>7, <2>9, <2>13, <2>14, <2>15, <2>16, <2>17, <2>18, <2>19, <2>20, <2>21, ReleasedInv
<1> QED BY <1>1, <1>2

LEMMA DestroyInv ==
    ASSUME Inv, NEW w \in Writer, writer[w].pc = "reclaim", writer[w].scan = <<>>, Unlock(w),
           writer[w].op = "Destroy", heap' = Release(heap, Owned(table)), table' = Null, size' = 0,
           UNCHANGED <<policy, retired, epoch, records, hazard, reader, lost>>
    PROVE  Inv'
<1>1. /\ lock = w /\ table # Null /\ table \in Addr /\ lost = {}
      /\ \A v \in Writer : v # w => writer[v] = Idle
      /\ StepsOf(w) /\ ApartOf(w)
      /\ writer = [v \in Writer |-> writer[v]]
  BY Holder
<1>2. PICK R \in Addr : R = table BY <1>1
<1>3. Null \notin Addr BY DEF Addr, Null
<1>4. NoReaders BY DEF Inv, Drained, DrainedOf, NoReaders
<1>5. \A r \in Reader : ~Holds(r, R)
  <2>1. \A r \in Reader : reader[r].table = Null /\ reader[r].chain = Null
    BY <1>4 DEF NoReaders, Inv, Reading, ReadingBy
  <2> QED BY <1>3, <2>1 DEF Holds
<1>6. /\ lock' = Nobody /\ writer' = [v \in Writer |-> writer'[v]] /\ writer'[w] = Idle
      /\ \A v \in Writer : v # w => writer'[v] = writer[v]
  BY <1>1 DEF Unlock
<1>7. /\ writer'[w].pc = "idle" /\ writer'[w].op = "none" /\ writer'[w].old = Null
      /\ writer'[w].scan = <<>> /\ WriterType(writer'[w])
  BY <1>6, IdleFields
<1>8. writer[w].old = Null BY <1>1 DEF StepsOf
<1>9. \A a \in Addr : Root(a) <=> a = R \/ a \in Objects(retired)
  BY <1>1, <1>2, <1>8, RootsInHand, NoRecords DEF Hand
<1>10. \A a \in Addr : Root(a)' <=> a \in Objects(retired)
  <2>1. \A v \in Writer : Objects(writer'[v].scan) = {} /\ writer'[v].old = Null
    BY <1>1, <1>6, IdleFields, NoRecords
  <2> QED BY <1>3, <2>1 DEF Root
<1>11. R \notin Objects(retired) /\ retired \in Seq(Record) BY <1>2 DEF Inv, RootsApart, TypeOK
<1>12. Null \notin Objects(retired) BY <1>3, <1>11, RecordsObjects
<1>13. LockedBy(w)' BY <1>6, <1>7, NobodyAssumption DEF LockedBy
<1>14. StepsOf(w)' BY <1>7 DEF StepsOf, ending, keyed
<1>15. ApartOf(w)' BY <1>7, <1>12, NoRecords DEF ApartOf
<1>16. Records(writer'[w].scan) = {} BY <1>7, NoRecords
<1>17. /\ heap' = Release(heap, Owned(R)) /\ size' \in Int /\ lock' \in {w, Nobody}
       /\ writer'[w].pc # "reclaim" /\ writer'[w].pc # "publish"
  BY <1>2, <1>6, <1>7
<1>18. Root(R) /\ \A a \in Addr : Root(a)' <=> Root(a) /\ a # R BY <1>9, <1>10, <1>11
<1>19. /\ writer' = [v \in Writer |-> writer'[v]] /\ writer'[w] = Idle /\ WriterType(writer'[w])
       /\ \A v \in Writer : v # w => writer'[v] = writer[v]
  BY <1>6, <1>7
<1> QED BY <1>4, <1>5, <1>13, <1>14, <1>15, <1>16, <1>17, <1>18, <1>19, ReleasedInv

LEMMA FinishInv == ASSUME Inv, NEW w \in Writer, Finish(w) PROVE Inv'
<1>1. CASE writer[w].op = "Destroy" BY <1>1, DestroyInv DEF Finish
<1>2. CASE writer[w].op # "Destroy" BY <1>2, FinishedInv DEF Finish
<1> QED BY <1>1, <1>2

----------------------------------------------------------------------------
\* The invariant holds.

LEMMA InitInv == MapInit => Inv
<1> SUFFICES ASSUME MapInit PROVE Inv OBVIOUS
<1>1. PICK n \in Nat \ {0} : n = BucketCountForElements(1) BY BucketCountPositive
<1>2. /\ policy \in Policies /\ table = 1 /\ size = 0 /\ lock = Nobody /\ retired = <<>> /\ epoch = 1
      /\ records = {} /\ hazard = [r \in Reader |-> NoHazard] /\ writer = [w \in Writer |-> Idle]
      /\ reader = [r \in Reader |-> Resting] /\ lost = {}
  BY DEF MapInit
<1>3. 1 \in Addr /\ Null \notin Addr BY ObjectsAssumption DEF Addr, Null
<1> DEFINE B == [b \in 1 .. n |-> Null]
<1>4. heap = [a \in Addr |-> heap[a]] /\ heap[1] = Table(B) /\ \A a \in Addr : a # 1 => heap[a] = Free
  BY <1>1, <1>3 DEF MapInit
<1>5. B \in Seq(Place) /\ B # <<>> /\ \A b \in DOMAIN B : B[b] = Null
  <2>1. B \in [1 .. n -> Place] BY DEF Place
  <2>2. B \in Seq(Place) BY <2>1
  <2>3. 1 \in DOMAIN B OBVIOUS
  <2> QED BY <2>2, <2>3
<1> HIDE DEF B
<1>6. IsTable(1) /\ Buckets(1) = B BY <1>4 DEF IsTable, Buckets, Table, Null
<1>7. \A a \in Addr : a # 1 => ~IsTable(a) /\ ~IsChain(a) BY <1>4 DEF IsTable, IsChain, Free
<1>8. \A t, c \in Addr : ~Parent(t, c) BY <1>3, <1>5, <1>6, <1>7 DEF Parent
<1>9. \A w \in Writer : writer[w] = Idle BY <1>2
<1>10. \A w \in Writer : /\ writer[w].pc = "idle" /\ writer[w].op = "none" /\ writer[w].old = Null
                         /\ writer[w].scan = <<>> /\ WriterType(writer[w])
  BY <1>9, IdleFields
<1>11. \A r \in Reader : /\ reader[r].pc = "idle" /\ reader[r].epoch = 0 /\ reader[r].table = Null
                         /\ reader[r].chain = Null /\ ReaderType(reader[r])
  BY <1>2 DEF Resting, ReaderType, reading, Place
<1>12. \A a \in Addr : Root(a) <=> a = 1 BY <1>2, <1>3, <1>10, NoRecords DEF Root
<1>13. TypeOK
  <2>1. hazard \in [Reader -> [table : Place, chain : Place]] BY <1>2 DEF NoHazard, Place
  <2>2. writer = [w \in Writer |-> writer[w]] /\ reader = [r \in Reader |-> reader[r]] BY <1>2
  <2>3. table \in Place BY <1>2, <1>3 DEF Place
  <2> QED BY <1>2, <1>4, <1>10, <1>11, <2>1, <2>2, <2>3, NoRecords DEF TypeOK
<1>14. Shapes /\ Heads /\ OneParent
  <2>1. Shapes BY <1>4, <1>5, <1>6 DEF Shapes
  <2>2. Heads BY <1>8 DEF Heads
  <2>3. OneParent BY <1>5, <1>6, <1>7 DEF OneParent
  <2> QED BY <2>1, <2>2, <2>3
<1>15. Locked BY <1>2, <1>9, <1>10, NobodyAssumption DEF Locked, LockedBy
<1>16. Steps BY <1>10 DEF Steps, StepsOf, ending, keyed
<1>17. RootsApart BY <1>2, <1>10, NoRecords DEF RootsApart, ApartOf
<1>18. RootsLive
  <2>1. heap[1] # Free BY <1>6 DEF IsTable, Free
  <2> QED BY <1>8, <1>12, <2>1 DEF RootsLive
<1>19. ShardTable BY <1>2, <1>6 DEF ShardTable
<1>20. Covered BY <1>4, <1>12 DEF Covered
<1>21. Lost BY <1>2 DEF Lost
<1>22. Reading /\ Held /\ HeldWithin BY <1>2, <1>11 DEF Reading, ReadingBy, reading, Held, HeldBy, HeldWithin, HeldWithinBy
<1>23. EpochBound BY <1>2, <1>11 DEF EpochBound
<1>24. EpochKept /\ MinimumKept /\ Quiet
  BY <1>2, <1>10, NoRecords DEF EpochKept, MinimumKept, Quiet
<1>25. HazardKept /\ Drained BY <1>10, <1>11 DEF HazardKept, HazardKeptBy, Drained, DrainedOf, ending
<1> QED BY <1>13, <1>14, <1>15, <1>16, <1>17, <1>18, <1>19, <1>20, <1>21, <1>22, <1>23, <1>24, <1>25 DEF Inv

LEMMA StutterInv == ASSUME Inv, UNCHANGED map PROVE Inv'
<1>1. UNCHANGED <<policy, heap, table, size, lock, retired, epoch, records, hazard, writer, reader, lost>>
  BY DEF map
<1>2. CASE Reader # {}
  <2>1. PICK r \in Reader : TRUE BY <1>2
  <2>2. ReaderType(reader[r]) /\ reader = [q \in Reader |-> reader[q]] BY ReaderFields
  <2>3. ReadingBy(r)' BY <1>1 DEF Inv, Reading, ReadingBy
  <2>4. HeldBy(r)' BY <1>1 DEF Inv, Held, HeldBy, IsTable, IsChain, Buckets
  <2>5. HeldWithinBy(r)' BY <1>1 DEF Inv, HeldWithin, HeldWithinBy, Parent, IsTable, Buckets
  <2>6. HazardKeptBy(r)' /\ DrainedOf(r)' BY <1>1 DEF Inv, HazardKept, HazardKeptBy, Drained, DrainedOf
  <2>7. reader[r].epoch <= epoch /\ records \in SUBSET Reader
        /\ hazard \in [Reader -> [table : Place, chain : Place]]
    BY DEF Inv, EpochBound, TypeOK
  <2>8. \A a \in Addr : Holds(r, a)' => Holds(r, a) /\ reader'[r].epoch = reader[r].epoch BY <1>1 DEF Holds
  <2> QED BY <1>1, <2>2, <2>3, <2>4, <2>5, <2>6, <2>7, <2>8, ReadStep
<1>3. CASE Reader = {}
  <2>1. /\ Shapes' /\ Heads' /\ OneParent' /\ Locked' /\ Steps'
        /\ RootsApart' /\ RootsLive' /\ ShardTable' /\ Covered' /\ Lost'
    BY <1>1, ReadFrame
  <2>2. TypeOK' BY <1>1 DEF Inv, TypeOK
  <2>3. Reading' /\ Held' /\ HeldWithin' /\ HazardKept' /\ Drained' /\ EpochBound'
    BY <1>3 DEF Reading, Held, HeldWithin, HazardKept, Drained, EpochBound
  <2>4. EpochKept' /\ MinimumKept' /\ Quiet' BY <1>3 DEF EpochKept, MinimumKept, Quiet
  <2> QED BY <2>1, <2>2, <2>3, <2>4 DEF Inv
<1> QED BY <1>2, <1>3

LEMMA StepInv == Inv /\ [MapNext]_map => Inv'
<1> SUFFICES ASSUME Inv, [MapNext]_map PROVE Inv' OBVIOUS
<1>1. ASSUME NEW w \in Writer, Begin(w) \/ Write(w) PROVE Inv'
  BY <1>1, BeginInv, EnsureShardCapacityInv, ClearTableInv, ClearCountsInv, CloneChainInv, PublishChainInv,
     ThrowInv, RetireInv, RetireFailsInv, CountInv, PollInv, MinimumActiveEpochInv, ReclaimIfInv,
     DrainInv, FinishInv DEF Write
<1>2. ASSUME NEW r \in Reader, BeginRead(r) \/ Read(r) PROVE Inv'
  BY <1>2, BeginReadInv, RegisterInv, LoadInv, StoreHazardInv, ValidateInv, WalkInv, LeaveInv DEF Read
<1>3. CASE UNCHANGED map BY <1>3, StutterInv
<1> QED BY <1>1, <1>2, <1>3 DEF MapNext

LEMMA AlwaysInv == MapSpec => []Inv
BY InitInv, StepInv, PTL DEF MapSpec

----------------------------------------------------------------------------

\* Reclamation is safe (Protect(), Retire(), Poll(), Quiesce() and Drain() of
\* the three reclaimers): whatever the writers do, no table and no chain is
\* destroyed, nor its address used again, before the last look of a read that
\* Protect() gave it to.
THEOREM ReclamationSafe == MapSpec => []NoUseAfterFree
<1>1. Inv => NoUseAfterFree BY DEF Inv, Held, HeldBy, NoUseAfterFree, IsTable, IsChain
<1> QED BY <1>1, AlwaysInv, PTL

\* DestroyTable and DestroyChain meet every object once: when no operation is
\* under way each one on the heap belongs to the shard, to one retired record
\* or to a Retire() that ran out of memory, and to one of them only.
THEOREM OwnedOnce == MapSpec => []OneOwner
<1>1. Inv => OneOwner
  <2> SUFFICES ASSUME Inv, lock = Nobody PROVE OneOwner BY DEF OneOwner
  <2>b. PICK all : all = UNION {Owned(a) : a \in Roots} OBVIOUS
  <2>1. \A w \in Writer : writer[w] = Idle BY NobodyAssumption DEF Inv, Locked, LockedBy
  <2>2. retired \in Seq(Record) /\ table \in Place /\ lost \subseteq Addr BY DEF Inv, TypeOK
  <2>3. Null \notin Addr BY DEF Addr, Null
  <2>4. Roots \subseteq Addr /\ \A a \in Addr : a \in Roots <=> Root(a)
    <3>1. Roots = (IF table = Null THEN {} ELSE {table}) \cup Objects(retired) BY DEF Roots, Objects
    <3>2. Objects(retired) \subseteq Addr BY <2>2, RecordsObjects
    <3>3. \A w \in Writer : Objects(writer[w].scan) = {} /\ writer[w].old = Null
      BY <2>1, IdleFields, NoRecords
    <3> QED BY <2>2, <2>3, <3>1, <3>2, <3>3 DEF Root, Place
  <2>5. \A i, j \in DOMAIN retired : retired[i].object = retired[j].object => i = j
    BY DEF Inv, RootsApart, Distinct
  <2>6. \A a \in Addr : \A c : c \in Owned(a) <=> c = a \/ (c \in Addr /\ Parent(a, c))
    <3> SUFFICES ASSUME NEW a \in Addr, NEW c PROVE c \in Owned(a) <=> c = a \/ (c \in Addr /\ Parent(a, c))
      OBVIOUS
    <3>1. CASE IsTable(a)
      <4>1. \A b \in DOMAIN Buckets(a) : Buckets(a)[b] \in Place BY <3>1, BucketsOf
      <4> QED BY <2>3, <3>1, <4>1 DEF Owned, Range, Parent, IsTable, Buckets, Place
    <3>2. CASE ~IsTable(a) BY <2>3, <3>2 DEF Owned, Parent, IsTable
    <3> QED BY <3>1, <3>2
  <2>7. \A a \in Roots : heap[a] # Free /\ \A t \in Addr : ~Parent(t, a) BY <2>4 DEF Inv, RootsLive
  <2>8. \A s, t, c \in Addr : Parent(s, c) /\ Parent(t, c) => s = t BY DEF Inv, OneParent, Parent
  <2>9. \A a, b \in Roots : a # b => Owned(a) \cap Owned(b) = {}
    <3> SUFFICES ASSUME NEW a \in Roots, NEW b \in Roots, NEW c, c \in Owned(a), c \in Owned(b) PROVE a = b
      OBVIOUS
    <3>1. a \in Addr /\ b \in Addr BY <2>4
    <3> QED BY <2>6, <2>7, <2>8, <3>1
  <2>10. \A t, c \in Addr : Parent(t, c) => IsTable(t) /\ IsChain(c) BY DEF Inv, Heads, Parent
  <2>11. \A a \in Addr : IsTable(a) \/ IsChain(a) => heap[a] # Free BY DEF IsTable, IsChain, Free
  <2>a. \A c : c \in all <=> \E a \in Roots : c \in Owned(a)
    <3>1. \A c : (c \in all <=> \E S \in {Owned(a) : a \in Roots} : c \in S) BY <2>b, Zenon
    <3> QED BY <3>1, Zenon
  <2>12. \A c \in all \cup lost : c \in Addr /\ heap[c] # Free
    <3>1. \A c \in lost : c \in Addr /\ heap[c] # Free BY <2>2 DEF Inv, Lost
    <3>2. \A a \in Roots, c \in Addr : Parent(a, c) => heap[c] # Free BY <2>4, <2>10, <2>11
    <3>3. \A a \in Roots : \A c \in Owned(a) : c \in Addr /\ heap[c] # Free BY <2>4, <2>6, <2>7, <3>2
    <3> QED BY <2>a, <3>1, <3>3
  <2>13. \A c \in Addr : heap[c] # Free => c \in all \cup lost
    <3> SUFFICES ASSUME NEW c \in Addr, heap[c] # Free, c \notin lost PROVE \E a \in Roots : c \in Owned(a)
      BY <2>a
    <3>1. Root(c) \/ \E t \in Addr : Parent(t, c) BY DEF Inv, Covered
    <3>2. CASE Root(c) BY <2>4, <2>6, <3>2
    <3>3. ASSUME NEW t \in Addr, Parent(t, c) PROVE \E a \in Roots : c \in Owned(a)
      <4>1. t \notin lost BY <3>3 DEF Inv, Lost
      <4>2. \A s \in Addr : ~Parent(s, t) BY <2>10, <3>3 DEF IsTable, IsChain
      <4>3. heap[t] # Free BY <2>10, <2>11, <3>3
      <4>4. t \in Roots BY <2>4, <4>1, <4>2, <4>3 DEF Inv, Covered
      <4> QED BY <2>6, <3>3, <4>4
    <3> QED BY <3>1, <3>2, <3>3
  <2>14. all \cup lost = {a \in Addr : heap[a] # Free} BY <2>12, <2>13
  <2>15. (UNION {Owned(a) : a \in Roots}) \cup lost = {a \in Addr : heap[a] # Free}
    BY <2>b, <2>14
  <2> QED BY <2>5, <2>9, <2>15, Zenon DEF OneOwner
<1> QED BY <1>1, AlwaysInv, PTL

=============================================================================
