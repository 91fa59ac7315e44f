----------------------------- MODULE Allocators -----------------------------
(***************************************************************************)
(* Memory/: the arena and pool allocators, the ones that route or decorate *)
(* others, and the array helpers.  Addresses are numbers and 0 is null.    *)
(* An allocator under test is built from two leaves "a" and "b", each with *)
(* a slab from upstream; `blocks` is what the program was given and still  *)
(* holds, each with the addresses it may touch and the ones the allocator  *)
(* keeps around it.                                                        *)
(***************************************************************************)
EXTENDS Integers, Sequences, FiniteSets, FiniteSetsExt
CONSTANTS Designs,        \* "Linear", "Fixed", "Segregated", "Fallback", "Tagged", "Debug", "Array", "Pool"
          BlockSize, BlockCount, Alignment, Sizes, BlocksPerClass, LinearCapacity, MaxAlign,
          HeaderSize, HeaderAlign, CanarySize, Bases,
          Requests,       \* of [bytes, alignment]
          MaxAllocatorOps
VARIABLES design, leaves, blocks, headers, m_live, m_stats, markers, upstream, expected, allocatorOps
allocatorVars == <<design, leaves, blocks, headers, m_live, m_stats, markers, upstream, expected, allocatorOps>>

Null == 0
Powers == {2 ^ k : k \in 0..8}
IsPowerOfTwo(value) == value \in Powers
Larger(x, y) == IF x > y THEN x ELSE y
\* The next power of two.
NormalizeAlignment(alignment) == Min({p \in Powers : p >= alignment})
AlignUp(address, alignment) == ((address + alignment - 1) \div alignment) * alignment
Cells(first, size) == first..(first + size - 1)

(***************************************************************************)
(* Pools: FixedBlockAllocator is a pool of one class; SegregatedPool-      *)
(* Allocator has one class for each size.  A free list is a sequence of    *)
(* addresses, its head first.                                              *)
(***************************************************************************)
Stride == AlignUp(Larger(BlockSize, HeaderAlign), Alignment)
SlabSize(kind) ==
    CASE kind = "Fixed" -> Stride * BlockCount
      [] kind = "Segregated" -> FoldFunction(LAMBDA size, total : total + size * BlocksPerClass, 0, Sizes)
      [] kind = "Linear" -> LinearCapacity
NoClasses == <<>>
Class(blockSize, offset, count, base) ==
    [blockSize |-> blockSize, offset |-> offset, count |-> count, available |-> count, allocated |-> {},
     free |-> [index \in 1..count |-> base + offset + (index - 1) * blockSize]]
ResetFreeList(base) == <<Class(Stride, 0, BlockCount, base)>>
Initialize(base) ==
    LET offset[k \in DOMAIN Sizes] == IF k = 1 THEN 0 ELSE offset[k - 1] + Sizes[k - 1] * BlocksPerClass
    IN  [k \in DOMAIN Sizes |-> Class(Sizes[k], offset[k], BlocksPerClass, base)]
\* The constructors.  Without a slab every request fails.
Leaf(kind, base) ==
    [kind |-> kind, base |-> base, current |-> base, capacity |-> IF base = Null THEN 0 ELSE SlabSize(kind), invalid |-> 0,
     classes |-> CASE base = Null \/ kind = "Linear" -> NoClasses
                   [] kind = "Fixed" -> ResetFreeList(base)
                   [] kind = "Segregated" -> Initialize(base)]
Empty(leaf) == Leaf(leaf.kind, Null)
Taken(leaf, k, node) ==
    [leaf |-> [leaf EXCEPT !.classes[k].free = Tail(@), !.classes[k].available = @ - 1,
                           !.classes[k].allocated = @ \cup {node}],
     ptr |-> node]
FirstOf(leaf, fits, bytes, alignment) ==
    IF bytes = 0 \/ alignment > Alignment \/ ~IsPowerOfTwo(alignment) \/ fits = {} THEN [leaf |-> leaf, ptr |-> Null]
    ELSE Taken(leaf, Min(fits), Head(leaf.classes[Min(fits)].free))
\* Mutant: the first class that is not exhausted, whatever its size.
PoolAllocateAny(leaf, bytes, alignment) ==
    FirstOf(leaf, {k \in DOMAIN leaf.classes : leaf.classes[k].free # <<>>}, bytes, alignment)
\* Allocate of both pools: the first class that is large enough and not exhausted.
PoolAllocate(leaf, bytes, alignment) ==
    FirstOf(leaf, {k \in DOMAIN leaf.classes :
                     /\ bytes <= IF leaf.kind = "Fixed" THEN BlockSize ELSE leaf.classes[k].blockSize
                     /\ leaf.classes[k].free # <<>>}, bytes, alignment)
\* ClassForPointer, and IsBlockStart of the pool with one class.
StartsBlock(c, begin, pointer) == pointer \in Cells(begin, c.blockSize * c.count) /\ (pointer - begin) % c.blockSize = 0
ClassesFor(leaf, pointer) ==
    {k \in DOMAIN leaf.classes : StartsBlock(leaf.classes[k], leaf.base + leaf.classes[k].offset, pointer)}
\* Deallocate of both pools: anything but a block in use is counted and ignored.
GivenBack(leaf, k, pointer) ==
    [leaf EXCEPT !.classes[k].free = <<pointer>> \o @, !.classes[k].available = @ + 1,
                 !.classes[k].allocated = @ \ {pointer}]
InUse(leaf, found, pointer) == {k \in found : pointer \in leaf.classes[k].allocated}
Release(leaf, found, pointer) ==
    IF found = {} THEN [leaf EXCEPT !.invalid = @ + 1] ELSE GivenBack(leaf, Min(found), pointer)
PoolDeallocate(leaf, pointer) ==
    IF pointer = Null THEN leaf ELSE Release(leaf, InUse(leaf, ClassesFor(leaf, pointer), pointer), pointer)

(***************************************************************************)
(* LinearAllocator.                                                        *)
(***************************************************************************)
LinearAt(leaf, at, bytes) ==
    IF bytes = 0 \/ leaf.base = Null \/ at + bytes > leaf.base + leaf.capacity THEN [leaf |-> leaf, ptr |-> Null]
    ELSE [leaf |-> [leaf EXCEPT !.current = at + bytes], ptr |-> at]
LinearAllocate(leaf, bytes, alignment) ==
    LinearAt(leaf, AlignUp(leaf.current, Larger(NormalizeAlignment(alignment), MaxAlign)), bytes)
RollbackTo(leaf, marker) ==
    IF marker \in leaf.base..(leaf.base + leaf.capacity) THEN [leaf EXCEPT !.current = marker] ELSE leaf

LeafAllocate(leaf, bytes, alignment) ==
    IF leaf.kind = "Linear" THEN LinearAllocate(leaf, bytes, alignment) ELSE PoolAllocate(leaf, bytes, alignment)
LeafDeallocate(leaf, pointer) == IF leaf.kind = "Linear" THEN leaf ELSE PoolDeallocate(leaf, pointer)
\* Owns: anywhere in the slab of an arena or of a pool of one class.
LeafOwns(leaf, pointer) ==
    IF leaf.kind = "Segregated" THEN ClassesFor(leaf, pointer) # {}
    ELSE leaf.base # Null /\ pointer \in Cells(leaf.base, leaf.capacity)

(***************************************************************************)
(* Composition.  An outcome is the leaves after the call and the pointer.  *)
(***************************************************************************)
Updated(s, r) == [leaves |-> [leaves EXCEPT ![s] = r.leaf], ptr |-> r.ptr]
Through(s, bytes, alignment) == Updated(s, LeafAllocate(leaves[s], bytes, alignment))
\* FallbackAllocator.
OrElseThrough(first, bytes, alignment) == IF first.ptr # Null THEN first ELSE Through("b", bytes, alignment)
FallbackAllocate(bytes, alignment) == OrElseThrough(Through("a", bytes, alignment), bytes, alignment)
FallbackDeallocate(pointer) ==
    IF LeafOwns(leaves["a"], pointer) THEN [leaves EXCEPT !["a"] = LeafDeallocate(@, pointer)]
    ELSE [leaves EXCEPT !["b"] = LeafDeallocate(@, pointer)]
Refused == [leaves |-> leaves, ptr |-> Null, header |-> <<>>]
\* A header that remembers the raw pointer and a note, in front of the aligned block.
Headed(raw, alignment, note) ==
    IF raw.ptr = Null THEN Refused
    ELSE [leaves |-> raw.leaves, ptr |-> AlignUp(raw.ptr + HeaderSize, alignment), header |-> <<raw.ptr, note>>]
AllocateTagged(s, bytes, normalized) == Headed(Through(s, bytes + HeaderSize + normalized - 1, normalized), normalized, s)
TaggedOr(first, bytes, normalized) ==
    IF first.ptr # Null THEN first ELSE AllocateTagged("b", bytes, normalized)
TaggedNormalized(bytes, normalized) ==
    IF bytes = 0 THEN Refused ELSE TaggedOr(AllocateTagged("a", bytes, normalized), bytes, normalized)
TaggedAllocate(bytes, alignment) == TaggedNormalized(bytes, Larger(NormalizeAlignment(alignment), HeaderAlign))
TaggedDeallocate(pointer) ==
    LET header == headers[pointer]
    IN  [leaves EXCEPT ![header[2]] = LeafDeallocate(@, header[1])]
\* DebugAllocator over a fallback allocator: a canary behind the block.
DebugEffective(bytes, effective) ==
    Headed(FallbackAllocate(bytes + HeaderSize + CanarySize + effective - 1, effective), effective, "ok")
DebugAllocate(bytes, alignment) ==
    IF bytes = 0 \/ ~IsPowerOfTwo(alignment) THEN Refused ELSE DebugEffective(bytes, Larger(alignment, HeaderAlign))
\* AllocateArrayUninitialized over a fallback allocator.
ArrayAllocate(bytes, alignment) ==
    IF bytes = 0 THEN Refused ELSE Headed(FallbackAllocate(bytes + HeaderSize + alignment - 1, alignment), alignment, "array")
WithHeader == design \in {"Tagged", "Debug", "Array"}
AllocateWith(bytes, alignment) ==
    CASE design = "Tagged" -> TaggedAllocate(bytes, alignment)
      [] design = "Debug" -> DebugAllocate(bytes, alignment)
      [] design = "Array" -> ArrayAllocate(bytes, alignment)
      [] design = "Fallback" -> FallbackAllocate(bytes, alignment)
      [] OTHER -> Through("a", bytes, alignment)

(***************************************************************************)
(* Programs.                                                               *)
(***************************************************************************)
KindOf(s) == IF design \in {"Linear", "Fixed", "Segregated"} THEN design
             ELSE IF design = "Pool" \/ s = "a" THEN "Fixed" ELSE "Linear"
NoStats == [currentBytes |-> 0, currentCount |-> 0, peakBytes |-> 0, invalid |-> 0, corrupted |-> 0]
Init ==
    /\ design \in Designs
    /\ \E x \in Bases["a"], y \in Bases["b"] :
         leaves = [s \in {"a", "b"} |-> Leaf(KindOf(s), IF s = "a" THEN x ELSE y)]
    /\ upstream = {leaves[s].base : s \in {"a", "b"}} \ {Null}
    /\ blocks = {} /\ headers = [p \in {} |-> <<>>] /\ m_live = {} /\ markers = {}
    /\ m_stats = NoStats /\ expected = NoStats
    /\ allocatorOps = 0
Call == allocatorOps < MaxAllocatorOps /\ allocatorOps' = allocatorOps + 1
\* TrackingAllocator around it all.
Tracked(bytes) ==
    LET now == m_stats.currentBytes + bytes
    IN  [m_stats EXCEPT !.currentBytes = now, !.currentCount = @ + 1, !.peakBytes = Larger(@, now)]
Untracked(bytes) ==
    [m_stats EXCEPT !.currentBytes = IF @ >= bytes THEN @ - bytes ELSE 0,
                    !.currentCount = IF @ > 0 THEN @ - 1 ELSE 0]
Granted(r, bytes, alignment) ==
    /\ leaves' = r.leaves
    /\ m_stats' = Tracked(bytes)
    /\ expected' = [expected EXCEPT !.currentBytes = @ + bytes, !.currentCount = @ + 1,
                                    !.peakBytes = Larger(@, expected.currentBytes + bytes)]
    /\ blocks' = blocks \cup {[ptr |-> r.ptr, bytes |-> bytes, alignment |-> alignment]}
    /\ headers' = IF WithHeader THEN [p \in DOMAIN headers \cup {r.ptr} |-> IF p = r.ptr THEN r.header ELSE headers[p]] ELSE headers
    /\ m_live' = IF design = "Debug" THEN m_live \cup {r.ptr} ELSE m_live
Answered(r, bytes, alignment) ==
    IF r.ptr # Null THEN Granted(r, bytes, alignment)
    ELSE leaves' = r.leaves /\ UNCHANGED <<blocks, headers, m_live, m_stats, expected>>
Allocate(bytes, alignment) ==
    /\ Call /\ design # "Pool"
    /\ design = "Array" => IsPowerOfTwo(alignment)
    /\ Answered(AllocateWith(bytes, alignment), bytes, alignment)
    /\ UNCHANGED <<design, markers, upstream>>
\* ObjectPool::Create, AllocateArray and DebugAllocator: a constructor, or the
\* push_back of a record, that throws gives the storage back.
OwnerOf(r, pointer) == IF design = "Pool" \/ LeafOwns(r.leaves["a"], pointer) THEN "a" ELSE "b"
Undone(r, pointer) ==
    r.ptr # Null /\ leaves' = [r.leaves EXCEPT ![OwnerOf(r, pointer)] = LeafDeallocate(@, pointer)]
UndoneRaw(r) == Undone(r, IF design = "Pool" THEN r.ptr ELSE r.header[1])
CreateThrows(bytes, alignment) ==
    /\ Call /\ design \in {"Pool", "Array", "Debug"}
    /\ IsPowerOfTwo(alignment)
    /\ UndoneRaw(AllocateWith(bytes, alignment))
    /\ UNCHANGED <<design, blocks, headers, m_live, m_stats, markers, upstream, expected>>
Made(r) == r.ptr # Null /\ Granted(r, BlockSize, Alignment)
Create ==
    /\ Call /\ design = "Pool"
    /\ Made(Through("a", BlockSize, Alignment))
    /\ UNCHANGED <<design, markers, upstream>>
\* ObjectPool::Destroy is the Pool case: it asks Owns first.
Deallocate(block) ==
    /\ Call
    /\ leaves' = CASE design = "Tagged" -> TaggedDeallocate(block.ptr)
                   [] design \in {"Debug", "Array"} -> FallbackDeallocate(headers[block.ptr][1])
                   [] design = "Fallback" -> FallbackDeallocate(block.ptr)
                   [] design = "Pool" -> IF LeafOwns(leaves["a"], block.ptr)
                                         THEN [leaves EXCEPT !["a"] = LeafDeallocate(@, block.ptr)] ELSE leaves
                   [] OTHER -> [leaves EXCEPT !["a"] = LeafDeallocate(@, block.ptr)]
    /\ m_stats' = [Untracked(block.bytes) EXCEPT !.corrupted = @ + IF design = "Debug" /\ headers[block.ptr][2] # "ok" THEN 1 ELSE 0]
    /\ expected' = [expected EXCEPT !.currentBytes = @ - block.bytes, !.currentCount = @ - 1]
    /\ blocks' = blocks \ {block}
    /\ m_live' = m_live \ {block.ptr}
    /\ UNCHANGED <<design, headers, markers, upstream>>
\* A pointer that is not in use, handed to an allocator that looks: counted, ignored.
DeallocateInvalid(pointer) ==
    /\ Call /\ design \in {"Fixed", "Segregated", "Debug"}
    /\ pointer # Null /\ \A block \in blocks : block.ptr # pointer
    /\ leaves' = IF design = "Debug" THEN leaves ELSE [leaves EXCEPT !["a"] = LeafDeallocate(@, pointer)]
    /\ m_stats' = IF design = "Debug" /\ pointer \notin m_live THEN [m_stats EXCEPT !.invalid = @ + 1] ELSE m_stats
    /\ expected' = [expected EXCEPT !.invalid = @ + 1]
    /\ UNCHANGED <<design, blocks, headers, m_live, markers, upstream>>
\* The program writes past its block.
Overrun(block) ==
    /\ Call /\ design = "Debug" /\ headers[block.ptr][2] = "ok"
    /\ headers' = [headers EXCEPT ![block.ptr][2] = "damaged"]
    /\ expected' = [expected EXCEPT !.corrupted = @ + 1]
    /\ UNCHANGED <<design, leaves, blocks, m_live, m_stats, markers, upstream>>
\* LinearAllocator: Mark, Rollback and Reset end the blocks behind the pointer.
Mark ==
    /\ Call /\ design = "Linear"
    /\ markers' = markers \cup {leaves["a"].current}
    /\ UNCHANGED <<design, leaves, blocks, headers, m_live, m_stats, upstream, expected>>
Rewind(leaf) ==
    /\ leaves' = [leaves EXCEPT !["a"] = leaf]
    /\ blocks' = {block \in blocks : block.ptr + block.bytes <= leaf.current}
    /\ UNCHANGED <<design, headers, m_live, m_stats, markers, upstream, expected>>
Rollback(marker) == Call /\ design = "Linear" /\ Rewind(RollbackTo(leaves["a"], marker))
Reset == Call /\ design = "Linear" /\ Rewind([leaves["a"] EXCEPT !.current = leaves["a"].base])
\* a = std::move(b) once a's blocks have been given back; b is not used again.
MoveAssign ==
    /\ Call /\ design \in {"Linear", "Fixed", "Segregated"}
    /\ blocks = {} /\ expected.invalid = 0
    /\ leaves["b"].base # Null
    /\ upstream' = upstream \ {leaves["a"].base}
    /\ leaves' = [leaves EXCEPT !["a"] = leaves["b"], !["b"] = Empty(leaves["b"])]
    /\ markers' = {}
    /\ UNCHANGED <<design, blocks, headers, m_live, m_stats, expected>>
Next ==
    \/ \E r \in Requests : Allocate(r.bytes, r.alignment) \/ CreateThrows(r.bytes, r.alignment)
    \/ Create
    \/ \E block \in blocks : Deallocate(block) \/ Overrun(block)
    \/ \E pointer \in Cells(leaves["a"].base, leaves["a"].capacity + 1) : DeallocateInvalid(pointer)
    \/ Mark \/ (\E marker \in markers : Rollback(marker)) \/ Reset
    \/ MoveAssign
Spec == Init /\ [][Next]_allocatorVars

\* What a block occupies: its bytes and what the allocator keeps beside them.
Extent(block) ==
    Cells(block.ptr, block.bytes)
      \cup (IF WithHeader THEN Cells(block.ptr - HeaderSize, HeaderSize) ELSE {})
      \cup (IF design = "Debug" THEN Cells(block.ptr + block.bytes, CanarySize) ELSE {})
Slabs == UNION {Cells(leaves[s].base, leaves[s].capacity) : s \in {"a", "b"}}
RawOf(block) == IF WithHeader THEN headers[block.ptr][1] ELSE block.ptr
\* Blocks a program holds are disjoint, headers and canaries included, lie in
\* slabs that are not returned and are aligned as asked; the free lists hold
\* each other block once; and the statistics count what happened, a damaged
\* block when it is released and every release that is none.
BlocksExact ==
    /\ \A x, y \in blocks : x # y => Extent(x) \cap Extent(y) = {}
    /\ \A x \in blocks : /\ Extent(x) \subseteq Slabs
                         /\ x.ptr % (IF design = "Debug" THEN x.alignment ELSE NormalizeAlignment(x.alignment)) = 0
                         /\ \A s \in {"a", "b"} : leaves[s].kind = "Linear" /\ x.ptr \in Cells(leaves[s].base, leaves[s].capacity)
                              => x.ptr + x.bytes <= leaves[s].current
    /\ upstream = {leaves[s].base : s \in {"a", "b"}} \ {Null}
    /\ \A s \in {"a", "b"} : \A k \in DOMAIN leaves[s].classes :
         LET c == leaves[s].classes[k]
             all == {leaves[s].base + c.offset + i * c.blockSize : i \in 0..(c.count - 1)}
             free == {c.free[i] : i \in DOMAIN c.free}
         IN  /\ Len(c.free) = Cardinality(free) /\ c.available = Cardinality(free)
             /\ free = all \ {RawOf(x) : x \in blocks}
             /\ c.allocated = all \ free
    /\ design # "Linear" =>
         /\ m_stats.currentBytes = expected.currentBytes
         /\ m_stats.currentCount = Cardinality(blocks)
         /\ m_stats.peakBytes = expected.peakBytes
    /\ m_stats.corrupted + Cardinality({x \in blocks : design = "Debug" /\ headers[x.ptr][2] # "ok"}) = expected.corrupted
    /\ (IF design = "Debug" THEN m_stats.invalid ELSE leaves["a"].invalid) = expected.invalid
=============================================================================
