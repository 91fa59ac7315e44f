---------------------------- MODULE BasicString ----------------------------
(***************************************************************************)
(* Text::BasicString (Text/BasicString.hpp).  A string keeps its code      *)
(* units in a small buffer inside the object or in a block of its          *)
(* allocator, always followed by a terminator.  Views given to it may lie  *)
(* in its own buffer, allocation may fail and sizes are limited.           *)
(*                                                                         *)
(* w maps the strings "a" and "b" and the temporary "t" to                 *)
(*   heap   m_sizeAndFlags & HeapFlag       size   the other bits          *)
(*   cells  the buffer, one more than the capacity                         *)
(*   alloc  m_allocator                     from   the block's allocator   *)
(*   moved  the buffer was replaced during this operation                  *)
(* and keeps the live blocks of each allocator, the allocations that will  *)
(* succeed, whether an exception is in flight and what must never happen.  *)
(* ref is the reference: the sequence of code units of "a" and "b".        *)
(***************************************************************************)
EXTENDS Naturals, Sequences, FiniteSetsExt, SequencesExt
CONSTANTS sbo_chars, MaxCapacity, smallCapThreshold, SmallCharSetLinearThreshold,
          CharT, Views, ViewLengths, Starts, Needles, TraitSet, MaxStringOps
VARIABLES traits, w, ref, stringOps
vars == <<traits, w, ref, stringOps>>

Names == {"a", "b"}
NUL == 0
Junk == 99
npos == 1000

(***************************************************************************)
(* Capacity.                                                               *)
(***************************************************************************)
NextPow2(value) == IF value <= 1 THEN 1 ELSE Min({2 ^ k : k \in {k \in 0..8 : 2 ^ k >= value}})
Grow(oldCap, required) ==
    IF oldCap < smallCapThreshold THEN NextPow2(required) ELSE Max({oldCap + oldCap \div 2, required})
CheckedGrow(oldCap, required) == Min({Max({Grow(oldCap, required), required}), MaxCapacity})

Capacity(x, s) == Len(x[s].cells) - 1
IsSmall(x, s) == ~x[s].heap
Size(x, s) == x[s].size
Slice(cells, from, count) == SubSeq(cells, from + 1, from + count)
Contents(x, s) == Slice(x[s].cells, 0, Size(x, s))
Throw(x) == [x EXCEPT !.threw = TRUE]
Fault(x, what) == [x EXCEPT !.faults = @ \cup {what}]

\* A view: code units elsewhere, or a part of a string's own buffer.
Outside(chars) == [of |-> "", chars |-> chars, from |-> 0, count |-> Len(chars)]
Within(s, from, count) == [of |-> s, chars |-> <<>>, from |-> from, count |-> count]
ViewOf(x, s) == Within(s, 0, Size(x, s))
\* What is read through a view now.
Read(x, v) ==
    CASE v.of = "" -> v.chars
      [] x[v.of].moved -> [i \in 1..v.count |-> Junk]
      [] OTHER -> Slice(x[v.of].cells, v.from, v.count)
\* CopyChars, MoveChars and FillChars into the string's buffer.
Write(x, s, at, chars) ==
    IF at + Len(chars) > Len(x[s].cells) THEN Fault(x, "written outside the buffer")
    ELSE [x EXCEPT ![s].cells = [i \in DOMAIN @ |-> IF i \in at + 1 .. at + Len(chars) THEN chars[i - at] ELSE @[i]]]
Fill(count, ch) == [i \in 1..count |-> ch]

(***************************************************************************)
(* Storage.                                                                *)
(***************************************************************************)
SetSize(x, s, size) ==
    Write([x EXCEPT ![s].size = size], s, size, <<NUL>>)
CanAllocate(x, capacity) == capacity <= MaxCapacity /\ x.budget > 0
\* The block's cells hold what is copied into it; the rest is undetermined.
Block(capacity, chars) == chars \o Fill(capacity + 1 - Len(chars), Junk)
DestroyHeapIfAny(x, s) ==
    IF IsSmall(x, s) THEN x
    ELSE LET y == [x EXCEPT !.live[x[s].alloc] = @ - 1]
         IN  IF x[s].from = x[s].alloc THEN y ELSE Fault(y, "block of another allocator")
\* Every user of the heap flag and of the buffer starts over from here.
BecomeEmptySmallAfterHeapReleased(x, s) ==
    SetSize([x EXCEPT ![s] = [@ EXCEPT !.heap = FALSE, !.size = 0, !.moved = TRUE,
                              !.cells = IF x[s].heap THEN Fill(sbo_chars + 1, NUL) ELSE @]], s, 0)
DestroyAndBecomeEmptySmall(x, s) == BecomeEmptySmallAfterHeapReleased(DestroyHeapIfAny(x, s), s)
CommitSmall(x, s, chars) ==
    SetSize(Write(DestroyAndBecomeEmptySmall(x, s), s, 0, chars), s, Len(chars))
\* AllocateWith, the copy into the new block and CommitHeap.
CommitHeap(x, s, capacity, chars) ==
    LET y == [x EXCEPT !.budget = @ - 1, !.live[x[s].alloc] = @ + 1]
        z == DestroyHeapIfAny(y, s)
    IN  [z EXCEPT ![s] = [@ EXCEPT !.heap = TRUE, !.size = Len(chars), !.from = x[s].alloc, !.moved = TRUE,
                                   !.cells = Block(capacity, Append(chars, NUL))]]
SwapSmallWithHeap(x, s, h) ==
    [x EXCEPT ![s] = [@ EXCEPT !.heap = TRUE, !.size = x[h].size, !.cells = x[h].cells, !.from = x[h].from],
              ![h] = [@ EXCEPT !.heap = FALSE, !.size = x[s].size, !.cells = x[s].cells]]
SwapValueState(x, s, o) ==
    CASE IsSmall(x, s) /\ ~IsSmall(x, o) -> SwapSmallWithHeap(x, s, o)
      [] ~IsSmall(x, s) /\ IsSmall(x, o) -> SwapSmallWithHeap(x, o, s)
      [] OTHER -> [x EXCEPT ![s] = [@ EXCEPT !.size = x[o].size, !.cells = x[o].cells, !.from = x[o].from],
                            ![o] = [@ EXCEPT !.size = x[s].size, !.cells = x[s].cells, !.from = x[s].from]]

ReallocateTo(x, s, newCapacity) ==
    CASE newCapacity > MaxCapacity -> Throw(x)
      [] newCapacity <= sbo_chars -> IF IsSmall(x, s) THEN x ELSE CommitSmall(x, s, Contents(x, s))
      [] newCapacity > sbo_chars /\ newCapacity <= MaxCapacity ->
           IF CanAllocate(x, newCapacity) THEN CommitHeap(x, s, newCapacity, Contents(x, s)) ELSE Throw(x)
\* CheckedGrow and ReallocateTo where the capacity does not suffice.
EnsureFrom(x, s, oldCap, required) ==
    CASE required <= Capacity(x, s) -> x
      [] required > MaxCapacity -> Throw(x)
      [] OTHER -> ReallocateTo(x, s, CheckedGrow(oldCap, required))
Ensure(x, s, required) == EnsureFrom(x, s, Capacity(x, s), required)
Then(x, y) == IF x.threw THEN x ELSE y

(***************************************************************************)
(* Operations of one string.                                               *)
(***************************************************************************)
Reserve(x, s, newCap) == Ensure(x, s, newCap)
ReserveExact(x, s, newCap) == IF newCap <= Capacity(x, s) THEN x ELSE ReallocateTo(x, s, newCap)
ShrinkToFit(x, s) ==
    CASE IsSmall(x, s) -> x
      [] ~IsSmall(x, s) /\ Size(x, s) <= sbo_chars -> CommitSmall(x, s, Contents(x, s))
      [] OTHER -> IF Size(x, s) < Capacity(x, s) THEN ReallocateTo(x, s, Size(x, s)) ELSE x
Clear(x, s) == SetSize(x, s, 0)
PopBack(x, s) == IF Size(x, s) = 0 THEN x ELSE SetSize(x, s, Size(x, s) - 1)
Resize(x, s, count, ch) ==
    IF count <= Size(x, s) THEN SetSize(x, s, count)
    ELSE LET y == Ensure(x, s, count)
         IN  Then(y, SetSize(Write(y, s, Size(x, s), Fill(count - Size(x, s), ch)), s, count))
PushBack(x, s, ch) ==
    LET y == Ensure(x, s, Size(x, s) + 1)
    IN  Then(y, SetSize(Write(y, s, Size(x, s), <<ch>>), s, Size(x, s) + 1))
AppendFill(x, s, count, ch) ==
    CASE count = 0 -> x
      [] count > MaxCapacity - Size(x, s) -> Throw(x)
      [] OTHER -> LET y == Ensure(x, s, Size(x, s) + count)
                  IN  Then(y, SetSize(Write(y, s, Size(x, s), Fill(count, ch)), s, Size(x, s) + count))

Assign(x, s, v) ==
    CASE v.count <= sbo_chars -> CommitSmall(x, s, Read(x, v))
      [] v.count > sbo_chars /\ ~IsSmall(x, s) /\ v.count <= Capacity(x, s) ->
           SetSize(Write(x, s, 0, Read(x, v)), s, v.count)
      [] OTHER -> IF CanAllocate(x, v.count) THEN CommitHeap(x, s, CheckedGrow(Capacity(x, s), v.count), Read(x, v))
                  ELSE Throw(x)
AppendView(x, s, v) ==
    LET newSize == Size(x, s) + v.count
    IN  CASE v.count = 0 -> x
          [] v.count > MaxCapacity - Size(x, s) -> Throw(x)
          [] v.count \in 1..(MaxCapacity - Size(x, s)) /\ newSize > Capacity(x, s) ->
               IF CanAllocate(x, newSize)
               THEN CommitHeap(x, s, CheckedGrow(Capacity(x, s), newSize), Contents(x, s) \o Read(x, v))
               ELSE Throw(x)
          [] OTHER -> SetSize(Write(x, s, Size(x, s), Read(x, v)), s, newSize)

OverlapsSelf(s, v) == v.count > 0 /\ v.of = s
\* The suffix moves first, so the replacement must not be part of it.
ReplaceRange(x, s, pos, eraseCount, v) ==
    LET suffixCount == Size(x, s) - pos - eraseCount
        newSize == Size(x, s) - eraseCount + v.count
        whole == Slice(x[s].cells, 0, pos) \o Read(x, v) \o Slice(x[s].cells, pos + eraseCount, suffixCount)
        suffixMoved == IF v.count = eraseCount THEN x
                       ELSE Write(x, s, pos + v.count, Slice(x[s].cells, pos + eraseCount, suffixCount))
    IN  CASE v.count > MaxCapacity - (Size(x, s) - eraseCount) -> Throw(x)
          [] newSize <= sbo_chars -> CommitSmall(x, s, whole)
          [] newSize \in (sbo_chars + 1)..MaxCapacity /\ ~IsSmall(x, s) /\ newSize <= Capacity(x, s) ->
               SetSize(Write(suffixMoved, s, pos, Read(suffixMoved, v)), s, newSize)
          [] OTHER -> IF newSize <= MaxCapacity /\ CanAllocate(x, newSize)
                      THEN CommitHeap(x, s, CheckedGrow(Capacity(x, s), newSize), whole) ELSE Throw(x)

\* Mutant: the replacement is not staged.
ReplaceUnstaged(x, s, pos, count, v) ==
    IF pos > Size(x, s) THEN Throw(x) ELSE ReplaceRange(x, s, pos, Min({count, Size(x, s) - pos}), v)
\* The temporary keeps a replacement that lies in the string itself.
Replace(x, s, pos, count, v) ==
    LET eraseCount == Min({count, Size(x, s) - pos})
        staged == Assign([x EXCEPT !.t.alloc = x[s].alloc], "t", v)
        done == IF OverlapsSelf(s, v)
                THEN Then(staged, ReplaceRange(staged, s, pos, eraseCount, [ViewOf(staged, "t") EXCEPT !.of = "", !.chars = Contents(staged, "t")]))
                ELSE ReplaceRange(x, s, pos, eraseCount, v)
    IN  IF pos > Size(x, s) THEN Throw(x) ELSE DestroyAndBecomeEmptySmall(done, "t")
InsertFill(x, s, pos, count, ch) ==
    LET fill == EnsureFrom([x EXCEPT !.t.alloc = x[s].alloc], "t", 0, count)
        filled == SetSize(Write(fill, "t", 0, Fill(count, ch)), "t", count)
    IN  IF count = 0 THEN x
        ELSE Then(fill, DestroyAndBecomeEmptySmall(
                          IF pos > Size(x, s) THEN Throw(filled)
                          ELSE ReplaceRange(filled, s, pos, 0, Outside(Contents(filled, "t"))), "t"))
Erase(x, s, pos, count) == Replace(x, s, pos, count, Outside(<<>>))
RemovePrefix(x, s, count) == IF count > Size(x, s) THEN Throw(x) ELSE Erase(x, s, 0, count)
RemoveSuffix(x, s, count) == IF count > Size(x, s) THEN Throw(x) ELSE Erase(x, s, Size(x, s) - count, count)

\* The callback fills the space it is given, then reports a size or throws.
Overwrite(x, s, at, count, oldSize, ch, written, throws) ==
    LET y == Ensure(x, s, at + count)
        called == Write(y, s, at, Fill(count, ch))
    IN  CASE y.threw -> y
          [] ~y.threw /\ (throws \/ written > count) -> Throw(SetSize(called, s, oldSize))
          [] OTHER -> SetSize(called, s, at + written)
ResizeAndOverwrite(x, s, count, ch, written, throws) == Overwrite(x, s, 0, count, Size(x, s), ch, written, throws)
AppendAndOverwrite(x, s, count, ch, written, throws) ==
    IF count > MaxCapacity - Size(x, s) THEN Throw(x)
    ELSE Overwrite(x, s, Size(x, s), count, Size(x, s), ch, written, throws)

(***************************************************************************)
(* Construction, assignment and exchange.                                  *)
(***************************************************************************)
CopyConstructFrom(x, s, o) ==
    CASE IsSmall(x, o) -> SetSize(Write(x, s, 0, Contents(x, o)), s, Size(x, o))
      [] OTHER -> IF CanAllocate(x, Capacity(x, o)) THEN CommitHeap(x, s, Capacity(x, o), Contents(x, o)) ELSE Throw(x)
MoveConstructFrom(x, s, o) ==
    IF IsSmall(x, o)
    THEN BecomeEmptySmallAfterHeapReleased(SetSize(Write(x, s, 0, Contents(x, o)), s, Size(x, o)), o)
    ELSE BecomeEmptySmallAfterHeapReleased(
           [x EXCEPT ![s] = [@ EXCEPT !.heap = TRUE, !.size = x[o].size, !.cells = x[o].cells, !.from = x[o].from]], o)
TakeAllocator(x, s, o) == [x EXCEPT ![s].alloc = x[o].alloc]
\* The string is replaced by the one constructed in the temporary.
Emplace(x, s) ==
    LET y == DestroyHeapIfAny(x, s)
    IN  IF x.threw THEN DestroyAndBecomeEmptySmall(x, "t")
        ELSE BecomeEmptySmallAfterHeapReleased([y EXCEPT ![s] = y.t], "t")
ConstructView(x, s, v) == Emplace(IF v.count = 0 THEN x ELSE Assign(x, "t", v), s)
InitFilled(x, s, count, ch) ==
    LET y == EnsureFrom(x, "t", 0, count)
    IN  Emplace(Then(y, SetSize(Write(y, "t", 0, Fill(count, ch)), "t", count)), s)
ConstructCopy(x, s, o) == Emplace(CopyConstructFrom(TakeAllocator(x, "t", o), "t", o), s)
ConstructMove(x, s, o) == Emplace(MoveConstructFrom(TakeAllocator(x, "t", o), "t", o), s)
Substr(x, s, o, pos, count) ==
    IF pos > Size(x, o) THEN Throw(x)
    ELSE ConstructView(TakeAllocator(x, "t", o), s, Within(o, pos, Min({count, Size(x, o) - pos})))
\* operator+ of a string and a view, the result becoming s.
Concatenate(x, s, o, v) ==
    LET y == CopyConstructFrom(TakeAllocator(x, "t", o), "t", o)
    IN  Emplace(Then(y, AppendView(y, "t", v)), s)

CopyAssignFrom(x, s, o) ==
    IF traits.propagateOnCopy
    THEN IF traits.nothrowAssign
         THEN LET temp == CopyConstructFrom(TakeAllocator(x, "t", o), "t", o)
                  y == TakeAllocator(DestroyAndBecomeEmptySmall(temp, s), s, o)
              IN  Then(temp, SwapValueState(y, s, "t"))
         ELSE CopyConstructFrom(TakeAllocator(DestroyAndBecomeEmptySmall(x, s), s, o), s, o)
    ELSE Assign(x, s, ViewOf(x, o))
MoveAssignFrom(x, s, o) ==
    CASE traits.propagateOnMove /\ traits.nothrowAssign ->
           LET temp == MoveConstructFrom(TakeAllocator(x, "t", o), "t", o)
           IN  SwapValueState(TakeAllocator(DestroyAndBecomeEmptySmall(temp, s), s, "t"), s, "t")
      [] traits.propagateOnMove /\ ~traits.nothrowAssign ->
           MoveConstructFrom(TakeAllocator(DestroyAndBecomeEmptySmall(x, s), s, o), s, o)
      [] ~traits.propagateOnMove /\ traits.alwaysEqual ->
           SwapValueState(DestroyAndBecomeEmptySmall(x, s), s, o)
      [] OTHER -> LET y == Assign(x, s, ViewOf(x, o)) IN Then(y, Clear(y, o))
\* Without propagation each side is copied with the other's contents first.
Swap(x, s, o) ==
    LET allocators == IF traits.propagateOnSwap
                      THEN [x EXCEPT ![s].alloc = x[o].alloc, ![o].alloc = x[s].alloc] ELSE x
        newThis == Assign(TakeAllocator(x, "t", s), "t", ViewOf(x, o))
        newOther == Assign(TakeAllocator(newThis, "u", o), "u", ViewOf(x, s))
        emptied == DestroyAndBecomeEmptySmall(DestroyAndBecomeEmptySmall(newOther, s), o)
    IN  CASE traits.propagateOnSwap \/ traits.alwaysEqual -> SwapValueState(allocators, s, o)
          [] OTHER -> IF newThis.threw \/ newOther.threw
                      THEN DestroyAndBecomeEmptySmall(DestroyAndBecomeEmptySmall(Then(newThis, newOther), "t"), "u")
                      ELSE SwapValueState(SwapValueState(emptied, s, "t"), o, "u")
CopyAssign(x, s, o) == IF s = o THEN x ELSE CopyAssignFrom(x, s, o)
MoveAssign(x, s, o) == IF s = o THEN x ELSE MoveAssignFrom(x, s, o)

(***************************************************************************)
(* Searches, on the contents.  raw: char with the standard traits.         *)
(***************************************************************************)
ScanUp(P(_), from, to) ==
    LET go[i \in from..(to + 1)] == IF i > to THEN npos ELSE IF P(i) THEN i ELSE go[i + 1]
    IN  IF from > to THEN npos ELSE go[from]
ScanDown(P(_), from) ==
    LET go[i \in 0..from] == IF P(i) THEN i ELSE IF i = 0 THEN npos ELSE go[i - 1] IN go[from]
At(h, i) == h[i + 1]
\* -1, 0 or 1 as 0, 1 or 2.
compare(l, r, count) ==
    LET i == ScanUp(LAMBDA k : At(l, k) # At(r, k), 0, count - 1)
    IN  IF count = 0 \/ i = npos THEN 1 ELSE IF At(l, i) < At(r, i) THEN 0 ELSE 2
Matches(h, value, i) == compare(Slice(h, i, Len(value)), value, Len(value)) = 1
FindSingleRawChar(h, ch, pos) == ScanUp(LAMBDA i : At(h, i) = ch, pos, Len(h) - 1)
FindTwoRawChars(h, first, second, pos) ==
    LET search[p \in 0..Len(h)] ==
            LET hit == IF Len(h) - p < 2 THEN npos ELSE ScanUp(LAMBDA i : At(h, i) = first, p, Len(h) - 2)
            IN  IF hit = npos THEN npos
                ELSE IF At(h, hit + 1) = second THEN hit ELSE search[hit + 1]
    IN  search[pos]
Find(raw, h, value, pos) ==
    IF value = <<>> THEN IF pos <= Len(h) THEN pos ELSE npos
    ELSE IF Len(value) > Len(h) \/ pos + Len(value) > Len(h) THEN npos
    ELSE IF raw /\ Len(value) = 1 THEN FindSingleRawChar(h, value[1], pos)
    ELSE IF raw /\ Len(value) = 2 THEN FindTwoRawChars(h, value[1], value[2], pos)
    ELSE ScanUp(LAMBDA i : Matches(h, value, i), pos, Len(h) - Len(value))
RFindSingleRawChar(h, ch, pos) == ScanDown(LAMBDA i : At(h, i) = ch, pos)
RFindTwoRawChars(h, first, second, pos) ==
    IF Len(h) < 2 THEN npos
    ELSE ScanDown(LAMBDA i : At(h, i) = first /\ At(h, i + 1) = second, Min({pos, Len(h) - 2}))
LastNeedleStart(haystackSize, needleSize, pos) == Min({pos, haystackSize - needleSize})
RFind(raw, h, value, pos) ==
    IF value = <<>> THEN Min({pos, Len(h)})
    ELSE IF Len(value) > Len(h) THEN npos
    ELSE LET index == LastNeedleStart(Len(h), Len(value), pos)
         IN  IF raw /\ Len(value) = 1 THEN RFindSingleRawChar(h, value[1], index)
             ELSE IF raw /\ Len(value) = 2 THEN RFindTwoRawChars(h, value[1], value[2], index)
             ELSE ScanDown(LAMBDA i : Matches(h, value, i), index)
ContainsChar(raw, values, ch) ==
    IF raw /\ Len(values) > SmallCharSetLinearThreshold THEN ch \in ToSet(values)
    ELSE ScanUp(LAMBDA i : At(values, i) = ch, 0, Len(values) - 1) # npos
FindFirstOf(raw, h, values, pos) ==
    IF pos >= Len(h) \/ values = <<>> THEN npos
    ELSE IF raw /\ Len(values) = 1 THEN FindSingleRawChar(h, values[1], pos)
    ELSE ScanUp(LAMBDA i : ContainsChar(raw, values, At(h, i)), pos, Len(h) - 1)
FindLastOf(raw, h, values, pos) ==
    IF h = <<>> \/ values = <<>> THEN npos
    ELSE ScanDown(LAMBDA i : ContainsChar(raw, values, At(h, i)), Min({pos, Len(h) - 1}))
FindFirstNotOf(raw, h, values, pos) ==
    IF pos >= Len(h) THEN npos
    ELSE IF values = <<>> THEN pos
    ELSE ScanUp(LAMBDA i : ~ContainsChar(raw, values, At(h, i)), pos, Len(h) - 1)
FindLastNotOf(raw, h, values, pos) ==
    IF h = <<>> THEN npos
    ELSE IF values = <<>> THEN Min({pos, Len(h) - 1})
    ELSE ScanDown(LAMBDA i : ~ContainsChar(raw, values, At(h, i)), Min({pos, Len(h) - 1}))
Compare(h, rhs) ==
    LET common == compare(h, rhs, Min({Len(h), Len(rhs)}))
    IN  IF common # 1 THEN common ELSE IF Len(h) < Len(rhs) THEN 0 ELSE IF Len(h) > Len(rhs) THEN 2 ELSE 1
Equal(h, rhs) == Len(h) = Len(rhs) /\ (h = <<>> \/ compare(h, rhs, Len(h)) = 1)
StartsWith(h, prefix) == Len(prefix) <= Len(h) /\ (prefix = <<>> \/ Matches(h, prefix, 0))
EndsWith(h, suffix) == Len(suffix) <= Len(h) /\ (suffix = <<>> \/ Matches(h, suffix, Len(h) - Len(suffix)))

(***************************************************************************)
(* The reference: what each operation makes of the sequences.              *)
(***************************************************************************)
Empty(alloc) == [heap |-> FALSE, size |-> 0, cells |-> Fill(sbo_chars + 1, NUL), alloc |-> alloc, from |-> alloc, moved |-> FALSE]
\* What is written past the size stays in the buffer and is nobody's.
Settle(x) ==
    LET settled(t) == [t EXCEPT !.moved = FALSE, !.from = IF t.heap THEN @ ELSE t.alloc,
                                !.cells = [i \in DOMAIN @ |-> IF i <= t.size + 1 THEN @[i] ELSE Junk]]
        empty(t) == IF t.heap \/ t.size # 0 THEN t ELSE Empty(1)
    IN  [x EXCEPT !.a = settled(@), !.b = settled(@), !.t = empty(@), !.u = empty(@), !.budget = 0, !.threw = FALSE]
\* Two strings, each constructed from a view.
Init ==
    /\ traits \in TraitSet
    /\ ref \in Starts
    /\ w = LET x == [a |-> Empty(1), b |-> Empty(IF traits.alwaysEqual THEN 1 ELSE 2), t |-> Empty(1), u |-> Empty(1),
                     live |-> [k \in 1..2 |-> 0], budget |-> 2, threw |-> FALSE, faults |-> {}]
               y == ConstructView(x, "a", Outside(ref["a"]))
           IN  Settle(ConstructView(TakeAllocator(y, "t", "b"), "b", Outside(ref["b"])))
    /\ stringOps = 0

\* An operation that throws leaves the strings as they were.
Does(x, expected, failed) ==
    /\ stringOps < MaxStringOps
    /\ stringOps' = stringOps + 1
    /\ w' = Settle(x)
    /\ ref' = IF x.threw THEN failed ELSE expected
    /\ UNCHANGED traits
Start(budget) == [w EXCEPT !.budget = budget]
Changes(x, s, value) == Does(x, [ref EXCEPT ![s] = value], ref)

Own(s) == {Within(s, from, count) : from \in 0..(MaxCapacity - 1), count \in ViewLengths}
ViewsFor(s) == {Outside(v) : v \in Views} \cup {v \in Own(s) : v.from + v.count <= Len(ref[s])}
Meaning(v) == IF v.of = "" THEN v.chars ELSE Slice(ref[v.of], v.from, v.count)
Cut(q, pos, count, value) ==
    IF pos > Len(q) THEN q
    ELSE SubSeq(q, 1, pos) \o value \o SubSeq(q, pos + Min({count, Len(q) - pos}) + 1, Len(q))
Budgets == {0, 2}
Counts == {sbo_chars + 1, MaxCapacity, MaxCapacity + 1}

Room(s, budget) == \E n \in Counts :
    \/ Changes(Reserve(Start(budget), s, n), s, ref[s])
    \/ Changes(ReserveExact(Start(budget), s, n), s, ref[s])
Shrinks(s, budget) == Changes(ShrinkToFit(Start(budget), s), s, ref[s])
Shortens(s) ==
    \/ Changes(Clear(w, s), s, <<>>)
    \/ Changes(PopBack(w, s), s, IF ref[s] = <<>> THEN <<>> ELSE Front(ref[s]))
    \/ \E n \in 0..2 :
         \/ Changes(RemovePrefix(w, s, n), s, SubSeq(ref[s], n + 1, Len(ref[s])))
         \/ Changes(RemoveSuffix(w, s, n), s, SubSeq(ref[s], 1, Len(ref[s]) - n))
Extends(s, budget) == \E ch \in CharT :
    \/ Changes(PushBack(Start(budget), s, ch), s, Append(ref[s], ch))
    \/ \E n \in {0, 1, 4} :
         \/ Changes(AppendFill(Start(budget), s, n, ch), s, ref[s] \o Fill(n, ch))
         \/ Changes(Resize(Start(budget), s, n, ch), s,
                    IF n <= Len(ref[s]) THEN SubSeq(ref[s], 1, n) ELSE ref[s] \o Fill(n - Len(ref[s]), ch))
Assigns(s, budget) == \E v \in ViewsFor(s) : Changes(Assign(Start(budget), s, v), s, Meaning(v))
Appends(s, budget) == \E v \in ViewsFor(s) : Changes(AppendView(Start(budget), s, v), s, ref[s] \o Meaning(v))
Replaces(s, budget) ==
    \E v \in ViewsFor(s), pos \in 0..Len(ref[s]) + 1, count \in {0, 2, npos} :
        Changes(Replace(Start(budget), s, pos, count, v), s, Cut(ref[s], pos, count, Meaning(v)))
Inserts(s, budget) == \E pos \in 0..Len(ref[s]) + 1, n \in {0, 1, 3}, ch \in CharT :
    Changes(InsertFill(Start(budget), s, pos, n, ch), s, Cut(ref[s], pos, 0, Fill(n, ch)))
Overwrites(s, budget) == \E n \in {0, 1, 4}, written \in 0..5, throws \in BOOLEAN, ch \in CharT :
    LET x == ResizeAndOverwrite(Start(budget), s, n, ch, written, throws)
        y == AppendAndOverwrite(Start(budget), s, n, ch, written, throws)
        kept == [i \in DOMAIN ref[s] |-> IF i <= n THEN ch ELSE ref[s][i]]
        called == n <= Capacity(w, s) \/ (n <= MaxCapacity /\ budget > 0)
    IN  /\ written <= n + 1
        /\ \/ Does(x, [ref EXCEPT ![s] = Fill(written, ch)], IF called THEN [ref EXCEPT ![s] = kept] ELSE ref)
           \/ Changes(y, s, ref[s] \o Fill(written, ch))
Constructs(s, o, budget) ==
    LET x == Start(budget) IN
    \/ \E v \in Views : Changes(ConstructView([x EXCEPT !.t.alloc = w[s].alloc], s, Outside(v)), s, v)
    \/ \E n \in 0..3, ch \in CharT : Changes(InitFilled(x, s, n, ch), s, Fill(n, ch))
    \/ s # o /\ Changes(ConstructCopy(x, s, o), s, ref[o])
    \/ s # o /\ Does(ConstructMove(x, s, o), [ref EXCEPT ![s] = ref[o], ![o] = <<>>], ref)
    \/ \E pos \in 0..2, n \in {1, 2, npos} :
         Changes(Substr(x, s, o, pos, n), s, SubSeq(ref[o], pos + 1, pos + Min({n, Len(ref[o]) - pos})))
    \/ \E v \in ViewsFor(o) : Changes(Concatenate(x, s, o, v), s, ref[o] \o Meaning(v))
Exchanges(s, o, budget) ==
    LET x == Start(budget)
        moved == IF s = o THEN ref ELSE [ref EXCEPT ![s] = ref[o], ![o] = <<>>]
        lost == IF traits.propagateOnCopy /\ ~traits.nothrowAssign THEN [ref EXCEPT ![s] = <<>>] ELSE ref
    IN  \/ Does(CopyAssign(x, s, o), [ref EXCEPT ![s] = ref[o]], lost)
        \/ Does(MoveAssign(x, s, o), moved, ref)
        \/ s # o /\ Does(Swap(x, s, o), [ref EXCEPT ![s] = ref[o], ![o] = ref[s]], ref)
Next ==
    \/ \E s \in {"a"}, budget \in Budgets :
         \/ Room(s, budget) \/ Shrinks(s, budget) \/ Extends(s, budget) \/ Assigns(s, budget) \/ Appends(s, budget)
         \/ Replaces(s, budget) \/ Inserts(s, budget) \/ Overwrites(s, budget)
    \/ Shortens("a")
    \/ \E s, o \in Names, budget \in Budgets : Constructs(s, o, budget) \/ Exchanges(s, o, budget)
Spec == Init /\ [][Next]_vars

\* What a search must return: the first or last place in range that holds.
FirstPlace(places) == IF places = {} THEN npos ELSE Min(places)
LastPlace(places) == IF places = {} THEN npos ELSE Max(places)
Places(h, value) == {i \in 0..(Len(h) - Len(value)) : SubSeq(h, i + 1, i + Len(value)) = value}
Of(h, values) == {i \in 0..(Len(h) - 1) : h[i + 1] \in ToSet(values)}
NotOf(h, values) == (0..(Len(h) - 1)) \ Of(h, values)
SearchesExact(h) ==
    /\ \A raw \in BOOLEAN, value \in Needles, pos \in 0..(Len(h) + 1) \cup {npos} :
         /\ Find(raw, h, value, pos) = FirstPlace({i \in Places(h, value) : i >= pos})
         /\ RFind(raw, h, value, pos) = LastPlace({i \in Places(h, value) : i <= pos})
         /\ FindFirstOf(raw, h, value, pos) = FirstPlace({i \in Of(h, value) : i >= pos})
         /\ FindLastOf(raw, h, value, pos) = LastPlace({i \in Of(h, value) : i <= pos})
         /\ FindFirstNotOf(raw, h, value, pos) = FirstPlace({i \in NotOf(h, value) : i >= pos})
         /\ FindLastNotOf(raw, h, value, pos) = LastPlace({i \in NotOf(h, value) : i <= pos})
    /\ \A value \in Needles :
         /\ StartsWith(h, value) = IsPrefix(value, h)
         /\ EndsWith(h, value) = IsSuffix(value, h)
         /\ Equal(h, value) = (h = value)
         /\ LET d == {i \in 1..Min({Len(h), Len(value)}) : h[i] # value[i]}
            IN  Compare(h, value) = IF h = value THEN 1
                                    ELSE IF IF d = {} THEN Len(h) < Len(value) ELSE h[Min(d)] < value[Min(d)]
                                    THEN 0 ELSE 2
\* Whatever is done to two strings, with views of their own buffers, failing
\* allocations and throwing callbacks, each holds the code units a plain
\* sequence would hold, is terminated and fits; every block is freed once, to
\* the allocator it came from; and every search finds what is there (searches
\* read the contents only: those before the last step are enough of them).
StringsExact ==
    /\ w.faults = {}
    /\ \A s \in Names :
         /\ Contents(w, s) = ref[s]
         /\ w[s].cells[Size(w, s) + 1] = NUL
         /\ Size(w, s) <= Capacity(w, s)
         /\ IsSmall(w, s) <=> Capacity(w, s) = sbo_chars
         /\ s = "a" /\ stringOps < MaxStringOps => SearchesExact(ref[s])
    /\ \A k \in 1..2 : w.live[k] = Cardinality({s \in Names : w[s].heap /\ w[s].from = k})
    /\ ~w.t.heap /\ ~w.u.heap /\ w.t.size = 0 /\ w.u.size = 0
=============================================================================
