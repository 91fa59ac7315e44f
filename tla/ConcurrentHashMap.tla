-------------------------- MODULE ConcurrentHashMap --------------------------
(***************************************************************************)
(* Containers/ConcurrentHashMap.hpp and its reclaimers, for one shard (the *)
(* instantiation ShardCount = 1): writers replace whole bucket chains      *)
(* under the shard's lock, readers take no lock, and what a writer unlinks *)
(* waits in the retire list until the reclamation policy lets it go.       *)
(*                                                                         *)
(* The heap is explicit, and an address is reused as soon as it is free.   *)
(* The nodes of a chain are never shared between chains and are destroyed  *)
(* together, so a chain is one object: the sequence of its <<key, value>>  *)
(* pairs.  The atomics are taken as sequentially consistent.               *)
(***************************************************************************)
EXTENDS Integers, FiniteSets, FiniteSetsExt, Sequences, SequencesExt

CONSTANTS Key, Writer, Reader,
          Policies,       \* the reclamation policies to consider
          KeyHash,        \* the hash of each key
          MinBuckets,     \* kMinBucketsPerShard
          Reserved,       \* the capacities given to Reserve()
          MaxOps,         \* bound: operations the writers start
          MaxObjects      \* bound: addresses of the heap

ASSUME HashAssumption == KeyHash \in [Key -> Nat]
ASSUME BucketsAssumption == MinBuckets \in Nat \ {0} /\ Reserved \subseteq Nat
ASSUME PolicyAssumption == Policies \subseteq {"ManualQuiesce", "HazardPointers", "LocalEpoch"}
ASSUME ObjectsAssumption == MaxObjects \in Nat \ {0}

Null == 0                 \* the null pointer; the value of an absent key
Addr == 1 .. MaxObjects
Nobody == "nobody"        \* the lock is free

ASSUME NobodyAssumption == Nobody \notin Writer

VARIABLES
    policy,               \* the reclamation policy of the map
    heap,                 \* Addr -> Free, a table or a chain
    table,                \* Shard::table
    size, total,          \* Shard::size and m_size
    lock,                 \* the holder of Shard::writeLock
    retired,              \* the retire list, newest record first
    epoch,                \* LocalEpoch: m_epoch
    records,              \* the registered readers
    hazard,               \* HazardPointers: the two slots of a reader
    writer,               \* what each writer is doing
    reader,               \* what each reader is doing
    ops,                  \* operations started so far
    content,              \* ghost: the map the published chains stand for
    seen,                 \* ghost: what a read may answer, for each reader
    lost                  \* ghost: objects whose Retire() ran out of memory

map == <<policy, heap, table, size, total, lock, retired, epoch, records, hazard,
          writer, reader, ops, content, seen, lost>>

Free == [kind |-> "free"]
Chain(s) == [kind |-> "chain", nodes |-> s]
Table(b) == [kind |-> "table", buckets |-> b]

----------------------------------------------------------------------------
\* Tables and chains

CeilDivide(n, d) == (n + d - 1) \div d

\* No odd number but one divides a power of two.
IsPowerOfTwo(p) ==
    \A d \in 1 .. p : (\E k \in 1 .. p : p = d * k) => d = 1 \/ \E h \in 1 .. d : d = 2 * h

\* std::bit_ceil: the least power of two that is not less than n.
BitCeil(n) == Min({p \in n .. 2 * n : IsPowerOfTwo(p)})

BucketCountForElements(n) ==
    BitCeil(Max({MinBuckets, IF n = 0 THEN MinBuckets ELSE CeilDivide(n * 4 + 2, 3)}))

BucketCount(t) == Len(heap[t].buckets)

\* Buckets are numbered from 1 here.
BucketIndex(k, count) == (KeyHash[k] % count) + 1

NodesOf(a) == IF a = Null THEN <<>> ELSE heap[a].nodes

\* FindNodeInChain: the first node with the key.
FindNodeInChain(nodes, k) == SelectInSeq(nodes, LAMBDA n : n[1] = k)

CloneChainWithPrepended(nodes, k, v) == <<<<k, v>>>> \o nodes
CloneChainReplacingValue(nodes, k, v) ==
    [i \in DOMAIN nodes |-> IF nodes[i][1] = k THEN <<k, v>> ELSE nodes[i]]
CloneChainWithoutKey(nodes, k) == SelectSeq(nodes, LAMBDA n : n[1] # k)

\* The lowest free addresses, one for each of the given numbers and in their
\* order, if there are so many: a freed address is used again at once.
Fresh(ids) ==
    LET free == {a \in Addr : heap[a] = Free}
    IN  {place \in [ids -> free] :
            /\ \A i, j \in ids : i < j => place[i] < place[j]
            /\ \A a \in free : \A i \in ids : a < place[i] => \E j \in ids : a = place[j]}

\* DestroyChain and DestroyTable: what destroying an object releases.
Owned(a) == IF heap[a].kind = "table"
              THEN {a} \cup (Range(heap[a].buckets) \ {Null})
              ELSE {a}
Release(h, as) == [a \in Addr |-> IF a \in as THEN Free ELSE h[a]]

\* Mutant: the copy starts one bucket late.
Rehashed_SkipsFirst(t, count) ==
    LET all == FlattenSeq([b \in 1 .. BucketCount(t) |->
                             IF b = 1 THEN <<>> ELSE NodesOf(heap[t].buckets[b])])
    IN  [b \in 1 .. count |->
            Reverse(SelectSeq(all, LAMBDA n : BucketIndex(n[1], count) = b))]

\* ResizeTable: every node is copied in front of its new bucket's chain.
Rehashed(t, count) ==
    LET all == FlattenSeq([b \in 1 .. BucketCount(t) |-> NodesOf(heap[t].buckets[b])])
    IN  [b \in 1 .. count |->
            Reverse(SelectSeq(all, LAMBDA n : BucketIndex(n[1], count) = b))]

\* A table of the given chains at fresh addresses: the table's own has the
\* number 0, a chain's that of its bucket.
Used(chains) == {b \in DOMAIN chains : chains[b] # <<>>}
Build(chains, place) ==
    [a \in Addr |->
        IF a = place[0]
          THEN Table([b \in DOMAIN chains |-> IF b \in Used(chains) THEN place[b] ELSE Null])
        ELSE IF \E b \in Used(chains) : place[b] = a
          THEN Chain(chains[CHOOSE b \in Used(chains) : place[b] = a])
        ELSE heap[a]]
ReplaceTable(chains) ==
    \E place \in Fresh({0} \cup Used(chains)) :
        /\ heap' = Build(chains, place)
        /\ table' = place[0]

----------------------------------------------------------------------------
\* Writers

Idle == [pc |-> "idle", op |-> "none", key |-> Null, val |-> Null, old |-> Null,
         inserted |-> FALSE, scan |-> <<>>, minimum |-> 0]

Goto(w, pc) == writer' = [writer EXCEPT ![w].pc = pc]

\* A writer publishes: the abstract map changes, and a read that is under way
\* may answer with the new content from here on.
Publish(c) ==
    /\ content' = c
    /\ seen' = [r \in Reader |->
                  IF reader[r].pc = "idle" THEN seen[r]
                  ELSE seen[r] \cup {<<k, c[k]>> : k \in reader[r].keys}]

Pairs(t) == UNION {Range(NodesOf(heap[t].buckets[b])) : b \in 1 .. BucketCount(t)}

\* The operations; `keyed' ones are given a key, and the number of the
\* operation is the value, so that every value written is different.
keyed == {"InsertOrAssign", "Upsert", "Remove"}
whole == {"Clear", "Quiesce", "Destroy"}

NoReaders == \A r \in Reader : reader[r].pc = "idle"

\* Destruction, and Quiesce() of a map with ManualQuiesce, need a point that
\* the caller establishes: no writer (respectively no read) is under way, and
\* none starts before the call returns.  A read that destruction is to wait
\* for has registered.
Exclusive(op) ==
    /\ op = "Destroy" => /\ \A v \in Writer : writer[v].pc = "idle"
                         /\ \A r \in Reader : reader[r].pc # "register"
    /\ op \in {"Destroy", "Quiesce"} /\ policy = "ManualQuiesce" => NoReaders

FirstStep(op) ==
    CASE op \in {"InsertOrAssign", "Upsert", "Reserve"} -> "capacity"
      [] op = "Remove" -> "chain"
      [] op = "Clear" -> "clear"
      [] op \in {"Quiesce", "Destroy"} -> "drain"

Started(op, k, n) == [Idle EXCEPT !.pc = FirstStep(op), !.op = op, !.key = k, !.val = n]

\* An operation takes effect from where its lock_guard has the lock.
Begin(w) ==
    /\ writer[w].pc = "idle"
    /\ lock = Nobody
    /\ lock' = w
    /\ ops < MaxOps
    /\ table # Null
    /\ lost = {}
    /\ ops' = ops + 1
    /\ \/ \E op \in keyed, k \in Key :
            writer' = [writer EXCEPT ![w] = Started(op, k, ops + 1)]
       \/ \E c \in Reserved :
            writer' = [writer EXCEPT ![w] = Started("Reserve", Null, c)]
       \/ \E op \in whole :
            /\ Exclusive(op)
            /\ writer' = [writer EXCEPT ![w] = Started(op, Null, Null)]
    /\ UNCHANGED <<policy, heap, table, size, total, retired, epoch, records,
                   hazard, reader, content, seen, lost>>

\* lock_guard's destructor: on return and when an exception leaves.
Unlock(w) == lock' = Nobody /\ writer' = [writer EXCEPT ![w] = Idle]

\* EnsureShardCapacity, with ResizeTable: a larger copy of the table is
\* published, and the old one is left to RetireTable.
EnsureShardCapacity(w) ==
    LET desired == IF writer[w].op = "Reserve" THEN Max({writer[w].val, 1}) ELSE size + 1
        count   == BucketCountForElements(desired)
        next    == IF writer[w].op = "Reserve" THEN "poll" ELSE "chain"
    IN  /\ writer[w].pc = "capacity"
        /\ \/ /\ BucketCount(table) >= count
              /\ Goto(w, next)
              /\ UNCHANGED <<heap, table>>
           \/ /\ BucketCount(table) < count
              /\ ReplaceTable(Rehashed(table, count))
              /\ writer' = [writer EXCEPT ![w].pc = "retire", ![w].old = table]
        /\ UNCHANGED <<policy, size, total, lock, retired, epoch, records, hazard,
                       reader, ops, content, seen, lost>>

\* Clear(): an empty table of the same size replaces the current one.
ClearTable(w) ==
    /\ writer[w].pc = "clear"
    /\ ReplaceTable([b \in 1 .. BucketCount(table) |-> <<>>])
    /\ Publish([k \in Key |-> Null])
    /\ writer' = [writer EXCEPT ![w].pc = "uncount", ![w].old = table]
    /\ UNCHANGED <<policy, size, total, lock, retired, epoch, records, hazard,
                   reader, ops, lost>>

\* Clear() settles both counters before it retires the table.
ClearCounts(w) ==
    /\ writer[w].pc = "uncount"
    /\ total' = total - size
    /\ size' = 0
    /\ Goto(w, "retire")
    /\ UNCHANGED <<policy, heap, table, lock, retired, epoch, records, hazard,
                   reader, ops, content, seen, lost>>

\* Upsert's updater sees the current value and the one it was given.
Updated(old, val) == old + val

\* FindNodeInChain, and what the operation makes of the answer.
Replacement(op, nodes, k, v) ==
    LET i == FindNodeInChain(nodes, k) IN
    CASE op = "Remove" -> CloneChainWithoutKey(nodes, k)
      [] i = 0 -> CloneChainWithPrepended(nodes, k, v)
      [] op = "InsertOrAssign" -> CloneChainReplacingValue(nodes, k, v)
      [] op = "Upsert" -> CloneChainReplacingValue(nodes, k, Updated(nodes[i][2], v))

\* The new chain is complete at `at' before anyone can see it.
Cloned(w, at, inserted) ==
    writer' = [writer EXCEPT ![w].pc = "publish", ![w].old = at, ![w].inserted = inserted]

\* An insertion by Upsert() is counted here, before it is published.
CloneChain(w) ==
    LET k     == writer[w].key
        old   == heap[table].buckets[BucketIndex(k, BucketCount(table))]
        found == FindNodeInChain(NodesOf(old), k) # 0
        new   == Replacement(writer[w].op, NodesOf(old), k, writer[w].val)
        count == writer[w].op = "Upsert" /\ ~found
    IN  /\ writer[w].pc = "chain"
        /\ \/ /\ writer[w].op = "Remove" /\ ~found
              /\ Unlock(w)
              /\ UNCHANGED <<heap, size, total>>
           \/ /\ writer[w].op # "Remove" \/ found
              /\ \/ /\ new = <<>>
                    /\ Cloned(w, Null, ~found)
                    /\ UNCHANGED heap
                 \/ /\ new # <<>>
                    /\ \E place \in Fresh({0}) :
                          /\ heap' = [heap EXCEPT ![place[0]] = Chain(new)]
                          /\ Cloned(w, place[0], ~found)
              /\ size' = IF count THEN size + 1 ELSE size
              /\ total' = IF count THEN total + 1 ELSE total
              /\ UNCHANGED lock
        /\ UNCHANGED <<policy, table, retired, epoch, records, hazard,
                       reader, ops, content, seen, lost>>

\* The bucket's head is stored; `old' holds the new head before and the
\* replaced one after.
PublishChain(w) ==
    LET k == writer[w].key
        b == BucketIndex(k, BucketCount(table))
        new == writer[w].old
        i == FindNodeInChain(NodesOf(new), k)
    IN  /\ writer[w].pc = "publish"
        /\ heap' = [heap EXCEPT ![table].buckets[b] = new]
        /\ writer' = [writer EXCEPT ![w].pc = "retire", ![w].old = heap[table].buckets[b]]
        /\ Publish([content EXCEPT ![k] = IF i = 0 THEN Null ELSE heap[new].nodes[i][2]])
        /\ UNCHANGED <<policy, table, size, total, lock, retired, epoch, records,
                       hazard, reader, ops, lost>>

\* An allocation fails, or a copy or the updater throws, before anything is
\* published: what was built is destroyed, the exception leaves.  It is all
\* that is left to do when the heap has no address for what is to be built.
Throw(w) ==
    /\ writer[w].pc \in {"capacity", "clear", "chain"}
    /\ Unlock(w)
    /\ UNCHANGED <<policy, heap, table, size, total, retired, epoch, records, hazard,
                   reader, ops, content, seen, lost>>

\* Mutant: an assignment is counted like an insertion.
AfterRetire_CountsAll(w) ==
    CASE writer[w].op \in {"InsertOrAssign", "Remove"} -> "count"
      [] OTHER -> "poll"

\* RetireTable and RetireChain, with Retire(): a null head is not retired.
\* After the table of a resize the operation goes on with its chain.
AfterRetire(w) ==
    CASE writer[w].op = "InsertOrAssign" /\ writer[w].inserted -> "count"
      [] writer[w].op = "Remove" -> "count"
      [] OTHER -> "poll"

IsTable(a) == a # Null /\ heap[a].kind = "table"

\* Mutant: the table that a resize replaced is forgotten.
Retire_NotTables(w) ==
    /\ writer[w].pc = "retire"
    /\ retired' = IF writer[w].old = Null \/ IsTable(writer[w].old) THEN retired
                  ELSE <<[object |-> writer[w].old, epoch |-> epoch]>> \o retired
    /\ writer' = [writer EXCEPT ![w].old = Null,
                                ![w].pc = IF IsTable(writer[w].old) /\ writer[w].op \in keyed
                                            THEN "chain" ELSE AfterRetire(w)]
    /\ UNCHANGED <<policy, heap, table, size, total, lock, epoch, records, hazard,
                   reader, ops, content, seen, lost>>

Retire(w) ==
    /\ writer[w].pc = "retire"
    /\ retired' = IF writer[w].old = Null THEN retired
                  ELSE <<[object |-> writer[w].old, epoch |-> epoch]>> \o retired
    /\ writer' = [writer EXCEPT ![w].old = Null,
                                ![w].pc = IF IsTable(writer[w].old) /\ writer[w].op \in keyed
                                            THEN "chain" ELSE AfterRetire(w)]
    /\ UNCHANGED <<policy, heap, table, size, total, lock, epoch, records, hazard,
                   reader, ops, content, seen, lost>>

\* The record is allocated after the object was unlinked: when that fails the
\* object is never freed, and an insertion or removal is not counted.
RetireFails(w) ==
    /\ writer[w].pc = "retire"
    /\ writer[w].old # Null
    /\ lost' = lost \cup Owned(writer[w].old)
    /\ Unlock(w)
    /\ UNCHANGED <<policy, heap, table, size, total, retired, epoch, records, hazard,
                   reader, ops, content, seen>>

\* InsertOrAssign() and Remove() count after they retire.
Count(w) ==
    LET d == IF writer[w].op = "Remove" THEN -1 ELSE 1 IN
    /\ writer[w].pc = "count"
    /\ size' = size + d
    /\ total' = total + d
    /\ Goto(w, "poll")
    /\ UNCHANGED <<policy, heap, table, lock, retired, epoch, records, hazard,
                   reader, ops, content, seen, lost>>

----------------------------------------------------------------------------
\* The reclaimers

\* Poll() of LocalEpoch advances the epoch first.
PollEpoch(w) ==
    /\ policy = "LocalEpoch"
    /\ epoch' = epoch + 1
    /\ Goto(w, "minimum")
    /\ UNCHANGED <<lock, retired>>

PollHazards(w) ==
    /\ policy = "HazardPointers"
    /\ writer' = [writer EXCEPT ![w].pc = "reclaim", ![w].scan = retired]
    /\ retired' = <<>>
    /\ UNCHANGED <<epoch, lock>>

\* Poll() of ManualQuiesce does nothing.
PollManual(w) ==
    /\ policy = "ManualQuiesce"
    /\ Unlock(w)
    /\ UNCHANGED <<epoch, retired>>

Poll(w) ==
    /\ writer[w].pc = "poll"
    /\ PollEpoch(w) \/ PollHazards(w) \/ PollManual(w)
    /\ UNCHANGED <<policy, heap, table, size, total, records, hazard,
                   reader, ops, content, seen, lost>>

\* MinimumActiveEpoch, under m_recordsLock.
MinimumActiveEpoch(w) ==
    /\ writer[w].pc = "minimum"
    /\ writer' = [writer EXCEPT
                     ![w].pc = "reclaim", ![w].scan = retired,
                     ![w].minimum = Min({epoch} \cup {reader[r].epoch : r \in records})]
    /\ retired' = <<>>
    /\ UNCHANGED <<policy, heap, table, size, total, lock, epoch, records, hazard,
                   reader, ops, content, seen, lost>>

\* IsHazard, under m_recordsLock.
IsHazard(a) == \E r \in records : a \in {hazard[r].table, hazard[r].chain}

\* Mutant: a record of the oldest reader's own epoch goes too.
Reclaimable_OffByOne(w, record) ==
    \/ writer[w].op \in {"Quiesce", "Destroy"}
    \/ policy = "LocalEpoch" /\ record.epoch <= writer[w].minimum
    \/ policy = "HazardPointers" /\ ~IsHazard(record.object)

\* Whether the policy lets a record go; Quiesce() and Drain() let all go.
Reclaimable(w, record) ==
    \/ writer[w].op \in {"Quiesce", "Destroy"}
    \/ policy = "LocalEpoch" /\ record.epoch < writer[w].minimum
    \/ policy = "HazardPointers" /\ ~IsHazard(record.object)

\* ReclaimIf: record by record; the survivors end in reverse order.
ReclaimIf(w) ==
    /\ writer[w].pc = "reclaim"
    /\ writer[w].scan # <<>>
    /\ LET record == Head(writer[w].scan) IN
       \/ /\ Reclaimable(w, record)
          /\ heap' = Release(heap, Owned(record.object))
          /\ UNCHANGED retired
       \/ /\ ~Reclaimable(w, record)
          /\ retired' = <<record>> \o retired
          /\ UNCHANGED heap
    /\ writer' = [writer EXCEPT ![w].scan = Tail(@)]
    /\ UNCHANGED <<policy, table, size, total, lock, epoch, records, hazard,
                   reader, ops, content, seen, lost>>

\* Quiesce() and Drain() spin, with the shard locked, until no reader is
\* registered; ManualQuiesce does not look.
Drain(w) ==
    /\ writer[w].pc = "drain"
    /\ policy # "ManualQuiesce" => records = {}
    /\ writer' = [writer EXCEPT ![w].pc = "reclaim", ![w].scan = retired]
    /\ retired' = <<>>
    /\ UNCHANGED <<policy, heap, table, size, total, lock, epoch, records, hazard,
                   reader, ops, content, seen, lost>>

\* The operation returns; the destructor takes the table with it.
Finish(w) ==
    /\ writer[w].pc = "reclaim"
    /\ writer[w].scan = <<>>
    /\ Unlock(w)
    /\ \/ /\ writer[w].op = "Destroy"
          /\ heap' = Release(heap, Owned(table))
          /\ table' = Null
          /\ size' = 0
       \/ /\ writer[w].op # "Destroy"
          /\ UNCHANGED <<heap, table, size>>
    /\ UNCHANGED <<policy, total, retired, epoch, records, hazard, reader, ops,
                   content, seen, lost>>

----------------------------------------------------------------------------
\* Readers

Resting == [pc |-> "idle", keys |-> {}, epoch |-> 0, table |-> Null, chain |-> Null,
            candidate |-> Null, bucket |-> 0, visited |-> <<>>]

NoHazard == [table |-> Null, chain |-> Null]

\* Contains, TryGet and GetOptional look for one key, ForEach visits every
\* bucket.  Register() of LocalEpoch loads the epoch before it takes
\* m_recordsLock.
BeginRead(r) ==
    /\ reader[r].pc = "idle"
    /\ table # Null
    /\ \A w \in Writer :
          /\ writer[w].op # "Destroy"
          /\ writer[w].op = "Quiesce" => policy # "ManualQuiesce"
    /\ \E keys \in {{k} : k \in Key} \cup {Key} :
          /\ reader' = [reader EXCEPT ![r] = [Resting EXCEPT !.pc = "register", !.keys = keys,
                            !.epoch = IF policy = "LocalEpoch" THEN epoch ELSE 0]]
          /\ seen' = [seen EXCEPT ![r] = {<<k, content[k]>> : k \in keys}]
    /\ UNCHANGED <<policy, heap, table, size, total, lock, retired, epoch, records,
                   hazard, writer, ops, content, lost>>

Register(r) ==
    /\ reader[r].pc = "register"
    /\ records' = records \cup {r}
    /\ reader' = [reader EXCEPT ![r].pc = "load"]
    /\ UNCHANGED <<policy, heap, table, size, total, lock, retired, epoch, hazard,
                   writer, ops, content, seen, lost>>

\* The pointer Protect() is given: the shard's table, then a bucket of it.
Pointer(r) ==
    IF reader[r].table = Null THEN table ELSE heap[reader[r].table].buckets[reader[r].bucket]

\* Protect() returned p: the table, or the head of a chain.
Protected(r, p) ==
    LET first == IF reader[r].keys = Key THEN 1
                 ELSE BucketIndex(CHOOSE k \in reader[r].keys : TRUE, BucketCount(p))
    IN  reader' = IF reader[r].table = Null
          THEN [reader EXCEPT ![r].pc = "load", ![r].table = p, ![r].bucket = first,
                              ![r].candidate = Null]
          ELSE [reader EXCEPT ![r].pc = "walk", ![r].chain = p, ![r].candidate = Null]

\* Protect(): a plain load, or for HazardPointers the first load of a round.
Load(r) ==
    /\ reader[r].pc = "load"
    /\ \/ /\ policy # "HazardPointers"
          /\ Protected(r, Pointer(r))
       \/ /\ policy = "HazardPointers"
          /\ reader' = [reader EXCEPT ![r].pc = "store", ![r].candidate = Pointer(r)]
    /\ UNCHANGED <<policy, heap, table, size, total, lock, retired, epoch, records,
                   hazard, writer, ops, content, seen, lost>>

\* The first Protect() of a guard uses the table's slot, all others the
\* chain's.
StoreHazard(r) ==
    /\ reader[r].pc = "store"
    /\ hazard' = IF reader[r].table = Null
                   THEN [hazard EXCEPT ![r].table = reader[r].candidate]
                   ELSE [hazard EXCEPT ![r].chain = reader[r].candidate]
    /\ reader' = [reader EXCEPT ![r].pc = "validate"]
    /\ UNCHANGED <<policy, heap, table, size, total, lock, retired, epoch, records,
                   writer, ops, content, seen, lost>>

\* The second load: another pointer starts the round again.
Validate(r) ==
    /\ reader[r].pc = "validate"
    /\ \/ /\ Pointer(r) = reader[r].candidate
          /\ Protected(r, reader[r].candidate)
       \/ /\ Pointer(r) # reader[r].candidate
          /\ reader' = [reader EXCEPT ![r].pc = "load", ![r].candidate = Null]
    /\ UNCHANGED <<policy, heap, table, size, total, lock, retired, epoch, records,
                   hazard, writer, ops, content, seen, lost>>

\* FindNodeInChain, or one round of ForEach's loop over the buckets.
Walk(r) ==
    LET nodes == NodesOf(reader[r].chain)
        found == SelectSeq(nodes, LAMBDA n : n[1] \in reader[r].keys)
        more  == reader[r].keys = Key /\ reader[r].bucket < BucketCount(reader[r].table)
    IN  /\ reader[r].pc = "walk"
        /\ reader' = [reader EXCEPT
                         ![r].visited = @ \o found, ![r].chain = Null,
                         ![r].bucket = IF more THEN @ + 1 ELSE @,
                         ![r].pc = IF more THEN "load" ELSE "leave"]
        /\ UNCHANGED <<policy, heap, table, size, total, lock, retired, epoch, records,
                       hazard, writer, ops, content, seen, lost>>

\* ~ReadGuard: Unregister, and for HazardPointers both slots are cleared.
Leave(r) ==
    /\ reader[r].pc = "leave"
    /\ records' = records \ {r}
    /\ hazard' = [hazard EXCEPT ![r] = NoHazard]
    /\ reader' = [reader EXCEPT ![r] = Resting]
    /\ seen' = [seen EXCEPT ![r] = {}]
    /\ UNCHANGED <<policy, heap, table, size, total, lock, retired, epoch, writer,
                   ops, content, lost>>

----------------------------------------------------------------------------

MapInit ==
    /\ policy \in Policies
    /\ heap = [a \in Addr |-> IF a = 1
                  THEN Table([b \in 1 .. BucketCountForElements(1) |-> Null]) ELSE Free]
    /\ table = 1
    /\ size = 0 /\ total = 0 /\ lock = Nobody /\ retired = <<>> /\ epoch = 1
    /\ records = {}
    /\ hazard = [r \in Reader |-> NoHazard]
    /\ writer = [w \in Writer |-> Idle]
    /\ reader = [r \in Reader |-> Resting]
    /\ ops = 0
    /\ content = [k \in Key |-> Null]
    /\ seen = [r \in Reader |-> {}]
    /\ lost = {}

Write(w) ==
    \/ EnsureShardCapacity(w) \/ ClearTable(w) \/ ClearCounts(w)
    \/ CloneChain(w) \/ PublishChain(w) \/ Throw(w) \/ Retire(w) \/ RetireFails(w)
    \/ Count(w) \/ Poll(w) \/ MinimumActiveEpoch(w) \/ ReclaimIf(w) \/ Drain(w)
    \/ Finish(w)

Read(r) ==
    Register(r) \/ Load(r) \/ StoreHazard(r) \/ Validate(r) \/ Walk(r) \/ Leave(r)

MapNext ==
    \/ \E w \in Writer : Begin(w) \/ Write(w)
    \/ \E r \in Reader : BeginRead(r) \/ Read(r)

MapSpec == MapInit /\ [][MapNext]_map

----------------------------------------------------------------------------

\* Reclamation is safe: no table and no chain is destroyed between the Protect()
\* that returned it to a read and the read's last look at it, whatever the
\* writers, Quiesce() and a reuse of the address do meanwhile.
NoUseAfterFree ==
    \A r \in Reader :
        /\ reader[r].table # Null /\ reader[r].pc # "leave"
              => heap[reader[r].table].kind = "table"
        /\ reader[r].chain # Null => heap[reader[r].chain].kind = "chain"

\* A read answers what the map held at some moment of the read: each pair it
\* visits was there then, a key it does not find was absent then, and ForEach
\* visits no key twice, across resizes, Clear() and replaced chains.
ReadsLinearizable ==
    \A r \in Reader : reader[r].pc = "leave" =>
        LET visited == reader[r].visited IN
        /\ Range(visited) \subseteq seen[r]
        /\ \A i, j \in DOMAIN visited : visited[i][1] = visited[j][1] => i = j
        /\ \A k \in reader[r].keys :
              (\A i \in DOMAIN visited : visited[i][1] # k) => <<k, Null>> \in seen[r]

\* Size() is exact and the table holds what was written whenever no operation
\* is under way, through exceptions too, unless Retire() ran out of memory.
SizeExact ==
    lock = Nobody /\ table # Null =>
        /\ Pairs(table) = {<<k, content[k]>> : k \in {x \in Key : content[x] # Null}}
        /\ lost = {} => size = total /\ total = Cardinality(Pairs(table))

\* What is owned by itself between two operations.
Roots == (IF table = Null THEN {} ELSE {table})
            \cup {retired[i].object : i \in DOMAIN retired}

\* Every object has one owner: the shard, one retired record, or the memory
\* that a failed Retire() lost.  Nothing else is allocated between operations,
\* nothing is destroyed twice, and destruction leaves nothing behind.
OneOwner ==
    lock = Nobody =>
        /\ \A a, b \in Roots : a # b => Owned(a) \cap Owned(b) = {}
        /\ \A i, j \in DOMAIN retired : retired[i].object = retired[j].object => i = j
        /\ (UNION {Owned(a) : a \in Roots}) \cup lost = {a \in Addr : heap[a] # Free}

\* The map's size is what it holds, and each object of it has one owner.
MapConsistent == SizeExact /\ OneOwner

=============================================================================
