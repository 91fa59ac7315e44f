----------------------------- MODULE FlatHashMap -----------------------------
(***************************************************************************)
(* Containers::FlatHashMap (Containers/FlatHashMap.hpp): open addressing   *)
(* with linear probing; removal closes the gap by shifting entries back.   *)
(* maps gives for each of the maps "a" and "b" its bucket array (m_buckets *)
(* and m_capacity; <<>> for the null array of a moved-from map) and        *)
(* m_size.  mapref is the reference: a partial function from keys to       *)
(* values.  A bucket is <<occupied, key, value>>; its hash is HashOf[key], *)
(* kept with the entry.  Buckets count from 0.                             *)
(*                                                                         *)
(* Keys and values are constructed one by one and fail once copies of them *)
(* have succeeded; memory says whether arrays can be allocated, and leaked *)
(* counts those that nobody can release any more.  spoiled is what the     *)
(* failures so far must have led to: a bucket without a key, and leaks.    *)
(***************************************************************************)
EXTENDS Naturals, Sequences, FiniteSetsExt, SequencesExt, TLC
CONSTANTS Keys, MapValues, HashOf, kInitialCapacity, Filled, MaxMapOps
VARIABLES maps, mapref, spoiled, mapOps
vars == <<maps, mapref, spoiled, mapOps>>

Names == {"a", "b"}
kNotFound == 1000
Free == <<FALSE, 0, 0>>
\* Occupied, but the key's constructor threw.
Ghost == <<TRUE, 0, 0>>
Throw(m) == [m EXCEPT !.threw = TRUE]
NextPow2(value) == IF value <= 1 THEN 1 ELSE Min({2 ^ k : k \in {k \in 0..6 : 2 ^ k >= value}})
Capacity(m) == Len(m.buckets)
Bucket(m, i) == m.buckets[i + 1]
Home(m, key) == HashOf[key] % Capacity(m)
\* (to - from) & mask
Distance(from, to, m) == (to + Capacity(m) - from) % Capacity(m)
SetBucket(m, i, b) == [m EXCEPT !.buckets = [k \in DOMAIN @ |-> IF k = i + 1 THEN b ELSE @[k]]]
TargetOf(requestedCapacity) == Max({NextPow2(requestedCapacity), kInitialCapacity})
Emptied(m) == [m EXCEPT !.buckets = <<>>, !.size = 0]
Initialize_(m, requestedCapacity) ==
    IF ~m.memory THEN Throw(Emptied(m))
    ELSE [m EXCEPT !.buckets = [i \in 1..TargetOf(requestedCapacity) |-> Free], !.size = 0]

\* The first bucket of the key's probe sequence that is free or holds the key.
FindInsertSlot_(m, key) ==
    LET probe[n \in 0..Capacity(m)] ==
            LET index == (Home(m, key) + n) % Capacity(m)
            IN  IF n = Capacity(m) THEN kNotFound
                ELSE IF ~Bucket(m, index)[1] \/ Bucket(m, index)[2] = key THEN index ELSE probe[n + 1]
    IN  IF Capacity(m) = 0 THEN kNotFound ELSE probe[0]
FindIndex_(m, key) ==
    LET index == FindInsertSlot_(m, key)
    IN  IF index = kNotFound THEN kNotFound ELSE IF Bucket(m, index)[1] THEN index ELSE kNotFound
\* Zero for none.
GetPtr(m, key) == LET index == FindIndex_(m, key) IN IF index = kNotFound THEN 0 ELSE Bucket(m, index)[3]
\* The bucket is marked, then the key is constructed, then the value; only the
\* value's constructor is guarded.
Place(m, index, key, value) ==
    CASE m.copies = 0 -> Throw(SetBucket(m, index, Ghost))
      [] m.copies = 1 -> Throw(m)
      [] OTHER -> [SetBucket(m, index, <<TRUE, key, value>>) EXCEPT !.size = @ + 1, !.copies = @ - 2]
InsertExisting_(m, key, value) ==
    LET index == FindInsertSlot_(m, key) IN IF index = kNotFound THEN Throw(m) ELSE Place(m, index, key, value)
\* The occupied buckets of one array, in order, inserted into another map.
InsertAll(m, buckets) ==
    LET go[i \in 0..Len(buckets)] ==
            IF i = 0 THEN m
            ELSE LET so == go[i - 1] IN IF ~buckets[i][1] \/ so.threw THEN so ELSE InsertExisting_(so, buckets[i][2], buckets[i][3])
    IN  go[Len(buckets)]
Refilled(fresh, buckets) == IF fresh.threw THEN fresh ELSE InsertAll(fresh, buckets)
\* The old array is in a local variable alone from the start.
Leaking(full, m) == IF full.threw /\ Capacity(m) # 0 THEN [full EXCEPT !.leaked = @ + 1] ELSE full
Rehash(m, newBucketCount) ==
    IF TargetOf(newBucketCount) = Capacity(m) THEN m
    ELSE Leaking(Refilled(Initialize_(m, TargetOf(newBucketCount)), m.buckets), m)
\* static_cast<size_type>(count / 0.75) + 1
BucketsFor(count) == NextPow2(Max({(count * 4) \div 3 + 1, kInitialCapacity}))
Reserve(m, count) == IF BucketsFor(count) <= Capacity(m) THEN m ELSE Rehash(m, BucketsFor(count))
MaybeGrow_(m) == IF m.size * 4 <= Capacity(m) * 3 THEN m ELSE Rehash(m, Capacity(m) * 2)
\* A table without a slot for the key grows once more.
Slotted(m, key) ==
    IF m.threw \/ FindInsertSlot_(m, key) # kNotFound THEN m
    ELSE Rehash(m, Max({kInitialCapacity, Capacity(m) * 2}))
InsertInto(m, index, key, value) ==
    IF ~Bucket(m, index)[1] THEN Place(m, index, key, value)
    ELSE IF m.copies = 0 THEN Throw(m) ELSE SetBucket(m, index, <<TRUE, key, value>>)
InsertSlotted(m, key, value) == IF m.threw THEN m ELSE InsertInto(m, FindInsertSlot_(m, key), key, value)
InsertImpl_(m, key, value) == InsertSlotted(Slotted(MaybeGrow_(m), key), key, value)

MoveBucket_(m, dst, src) == SetBucket(SetBucket(m, dst, Bucket(m, src)), src, Free)
\* Mutant: shifting stops at the first entry that is at home.
BackwardShiftUntilHome(m, holeIndex) ==
    LET shift[k \in 1..Capacity(m)] ==
            LET before == IF k = 1 THEN [m |-> m, hole |-> holeIndex, on |-> TRUE] ELSE shift[k - 1]
                next == (holeIndex + k) % Capacity(m)
                b == Bucket(before.m, next)
                moves == before.on /\ b[1] /\ Home(m, b[2]) # next
            IN  IF moves THEN [m |-> MoveBucket_(before.m, before.hole, next), hole |-> next, on |-> TRUE]
                ELSE [before EXCEPT !.on = FALSE]
    IN  shift[Capacity(m)].m
\* An entry moves into the hole when that is nearer to its home.
BackwardShiftFrom_(m, holeIndex) ==
    LET shift[k \in 1..Capacity(m)] ==
            LET before == IF k = 1 THEN [m |-> m, hole |-> holeIndex, on |-> TRUE] ELSE shift[k - 1]
                next == (holeIndex + k) % Capacity(m)
                b == Bucket(before.m, next)
                on == before.on /\ b[1]
            IN  IF on /\ Distance(Home(m, b[2]), before.hole, m) < Distance(Home(m, b[2]), next, m)
                THEN [m |-> MoveBucket_(before.m, before.hole, next), hole |-> next, on |-> TRUE]
                ELSE [before EXCEPT !.on = on]
    IN  shift[Capacity(m)].m
RemoveImpl_(m, key) ==
    LET index == FindIndex_(m, key)
    IN  IF index = kNotFound THEN m
        ELSE BackwardShiftFrom_([SetBucket(m, index, Free) EXCEPT !.size = @ - 1], index)
Clear(m) == [m EXCEPT !.buckets = [i \in DOMAIN @ |-> Free], !.size = 0]
\* Copy assignment lets its own entries go first.  The constructor starts from nothing, and
\* has no destructor when it throws.
CopyFrom(m, other) == Refilled(Initialize_(m, Capacity(other)), other.buckets)
CopyConstruct(m, other) ==
    LET made == CopyFrom(m, other)
    IN  IF ~made.threw THEN made ELSE [Emptied(made) EXCEPT !.leaked = @ + IF m.memory THEN 1 ELSE 0]
\* Without equal allocators the entries are inserted one by one, and an exception ends the program.
MoveAssign(m, other, alwaysEqual) ==
    IF alwaysEqual THEN <<[m EXCEPT !.buckets = other.buckets, !.size = other.size], Emptied(other)>>
    ELSE LET go[i \in 0..Capacity(other)] ==
                 IF i = 0 THEN Reserve(Clear(m), other.size)
                 ELSE IF other.buckets[i][1] THEN InsertImpl_(go[i - 1], other.buckets[i][2], other.buckets[i][3])
                 ELSE go[i - 1]
         IN  <<go[Capacity(other)], Clear(other)>>

\* "a" starts with the keys 1..n.  An operation is given its copies and memory.
Given(m, copies, memory) == [m EXCEPT !.copies = copies, !.memory = memory]
Settle(m) == [m EXCEPT !.copies = 0, !.memory = FALSE, !.threw = FALSE]
Init ==
    /\ \E n \in Filled :
         LET new == [buckets |-> <<>>, size |-> 0, copies |-> 99, memory |-> TRUE, threw |-> FALSE, leaked |-> 0]
             go[i \in 0..n] == IF i = 0 THEN Initialize_(new, kInitialCapacity) ELSE InsertImpl_(go[i - 1], i, 1)
         IN  /\ maps = [s \in Names |-> Settle(IF s = "a" THEN go[n] ELSE go[0])]
             /\ mapref = [s \in Names |-> IF s = "a" THEN [i \in 1..n |-> 1] ELSE <<>>]
    /\ spoiled = [ghost |-> FALSE, leaks |-> 0]
    /\ mapOps = 0
\* A behaviour ends where a map has a bucket without a key.
Does(after, expected, ghost, leaks) ==
    /\ mapOps < MaxMapOps
    /\ ~spoiled.ghost
    /\ mapOps' = mapOps + 1
    /\ maps' = [s \in Names |-> Settle(after[s])]
    /\ mapref' = expected
    /\ spoiled' = [ghost |-> ghost, leaks |-> spoiled.leaks + leaks]
Copies == {0, 1, 5, 14, 99}
\* Copies that succeed; without memory no copy is tried.
Supply == {<<copies, TRUE>> : copies \in Copies} \union {<<99, FALSE>>}
With(f, key, value) == (key :> value) @@ f
Without(f, key) == [k \in DOMAIN f \ {key} |-> f[k]]

\* What the client of a map can say when its entries are copied to an array of target
\* buckets: the entries before the one that fails, in the order of iteration, are there.
Iterated(m) == SelectSeq(m.buckets, LAMBDA b : b[1])
Arrived(m, copies, memory, target) == IF memory THEN Min({m.size, copies \div 2, target}) ELSE 0
Front_(m, n) == [k \in {Iterated(m)[i][2] : i \in 1..n} |-> GetPtr(m, k)]
\* It was a key that failed.
AtKey(m, copies, memory, target) == memory /\ copies % 2 = 0 /\ copies \div 2 < Min({m.size, target})

InsertWith(s, key, value, copies, memory) ==
    LET m == maps[s]
        target == CASE Capacity(m) = 0 -> kInitialCapacity
                    [] Capacity(m) # 0 /\ m.size * 4 > Capacity(m) * 3 -> Capacity(m) * 2
                    [] OTHER -> Capacity(m)
        rebuilt == target # Capacity(m)
        kept == Arrived(m, copies, memory, target)
        left == copies - IF rebuilt THEN 2 * m.size ELSE 0
        new == key \notin DOMAIN mapref[s]
        after == [maps EXCEPT ![s] = InsertImpl_(Given(m, copies, memory), key, value)]
    IN  IF rebuilt /\ (kept < m.size \/ ~memory)
        THEN Does(after, [mapref EXCEPT ![s] = Front_(m, kept)], AtKey(m, copies, memory, target),
                  IF Capacity(m) = 0 THEN 0 ELSE 1)
        ELSE Does(after, [mapref EXCEPT ![s] = IF left < (IF new THEN 2 ELSE 1) THEN @ ELSE With(@, key, value)],
                  new /\ left = 0, 0)
Insert(s) == \E key \in Keys, value \in MapValues, copies \in Copies : InsertWith(s, key, value, copies, TRUE)
\* operator[]: the default value where there is none.
Subscript(s) == \E key \in Keys, memory \in BOOLEAN :
    IF GetPtr(maps[s], key) # 0 THEN Does(maps, mapref, FALSE, 0) ELSE InsertWith(s, key, 9, 99, memory)
Removes(s) == \E key \in Keys :
    Does([maps EXCEPT ![s] = RemoveImpl_(@, key)], [mapref EXCEPT ![s] = Without(@, key)], FALSE, 0)
Rebuilds(s, target, after, copies, memory) ==
    LET m == maps[s]
        kept == Arrived(m, copies, memory, target)
    IN  IF target = Capacity(m) \/ (memory /\ kept = m.size) THEN Does(after, mapref, FALSE, 0)
        ELSE Does(after, [mapref EXCEPT ![s] = Front_(m, kept)], AtKey(m, copies, memory, target),
                  IF Capacity(m) = 0 THEN 0 ELSE 1)
Resizes(s) == \E given \in Supply :
    \/ \E n \in {4, 7} :
         Rebuilds(s, Max({BucketsFor(n), Capacity(maps[s])}), [maps EXCEPT ![s] = Reserve(Given(@, given[1], given[2]), n)],
                  given[1], given[2])
    \/ \E n \in {0, 16} :
         Rebuilds(s, TargetOf(n), [maps EXCEPT ![s] = Rehash(Given(@, given[1], given[2]), n)], given[1], given[2])
Clears(s) == Does([maps EXCEPT ![s] = Clear(@)], [mapref EXCEPT ![s] = <<>>], FALSE, 0)
CopyTo(s, o) == \E given \in Supply :
    LET copies == given[1]
        memory == given[2]
        m == maps[o]
        target == TargetOf(Capacity(m))
        kept == Arrived(m, copies, memory, target)
        done == memory /\ kept = m.size
    IN  /\ s # o
        /\ \/ Does([maps EXCEPT ![s] = CopyFrom(Given(@, copies, memory), m)], [mapref EXCEPT ![s] = Front_(m, kept)],
                   AtKey(m, copies, memory, target), 0)
           \/ Does([maps EXCEPT ![s] = CopyConstruct(Given(@, copies, memory), m)],
                   [mapref EXCEPT ![s] = IF done THEN mapref[o] ELSE <<>>], FALSE, IF memory /\ ~done THEN 1 ELSE 0)
Moves(s, o) ==
    /\ s # o
    /\ \E alwaysEqual \in BOOLEAN :
         LET moved == MoveAssign(Given(maps[s], 99, TRUE), maps[o], alwaysEqual)
         IN  Does([maps EXCEPT ![s] = moved[1], ![o] = moved[2]], [mapref EXCEPT ![s] = mapref[o], ![o] = <<>>], FALSE, 0)
Next ==
    \/ Insert("a") \/ Subscript("a") \/ Removes("a") \/ Resizes("a") \/ Clears("a")
    \/ \E s, o \in Names : CopyTo(s, o) \/ Moves(s, o)
Spec == Init /\ [][Next]_vars

\* After any sequence of operations each key is found with the value last
\* stored under it and no other key is found, every entry is visited once by
\* an iteration, and m_size counts them.  An insertion whose value fails
\* changes nothing, one whose key fails leaves, and only this, a bucket that
\* is occupied without a key (FlatHashMap.hpp:742-745 and :770).  When the
\* allocation or a copy fails in a rehash, explicit or for growth, exactly
\* the entries copied so far are left and the old array is leaked with the
\* others (:385-403); a copy assignment that fails has lost its own entries
\* and has those copied so far, and the copy constructor leaks its array.
EntriesFound ==
    /\ spoiled.ghost <=> \E s \in Names : Ghost \in Range(maps[s].buckets)
    /\ spoiled.leaks = maps["a"].leaked + maps["b"].leaked
    /\ \A s \in Names :
         LET m == maps[s]
             occupied == {i \in DOMAIN m.buckets : m.buckets[i][1] /\ m.buckets[i] # Ghost}
         IN  /\ \A key \in Keys : GetPtr(m, key) = IF key \in DOMAIN mapref[s] THEN mapref[s][key] ELSE 0
             /\ \A i, j \in occupied : m.buckets[i][2] = m.buckets[j][2] => i = j
             /\ m.size = Cardinality(occupied)
             /\ m.size = Cardinality(DOMAIN mapref[s])
=============================================================================
