------------------------------- MODULE Vector -------------------------------
(***************************************************************************)
(* Containers::Vector (Containers/Vector.hpp): contiguous storage of one   *)
(* allocator, element by element.  A cell of the storage is Raw, a value,  *)
(* or Moved: an object whose value was moved away and that still has to be *)
(* destroyed.  The constructors and assignments of the element type fail   *)
(* once the budget is spent; one that fails leaves both objects as they    *)
(* were.  vw maps the vectors "a" and "b" to                               *)
(*   cells   m_data and m_capacity       size    m_size                    *)
(*   alloc   m_alloc                     from    the storage's allocator   *)
(* and keeps the live blocks, the budget and what must never happen.       *)
(* vref is the reference: the sequence each vector stands for; did is the  *)
(* last operation, and whether it was one of those that spoil a vector.    *)
(***************************************************************************)
EXTENDS Naturals, Sequences, FiniteSetsExt, SequencesExt
CONSTANTS Values, VectorTraits, MaxVectorSize, MaxVectorOps
VARIABLES elements, vw, vref, did, vectorOps
vars == <<elements, vw, vref, did, vectorOps>>

\* elements: how T is relocated ("bitwise", "move", "copy") and what the allocator propagates.
Names == {"a", "b"}
Raw == 0
Moved == 99
Bitwise == elements.kind = "bitwise"
Fault(x, what) == [x EXCEPT !.faults = @ \cup {what}]
Throw(x) == [x EXCEPT !.threw = TRUE]
Capacity(x, s) == Len(x[s].cells)
Fill(count, v) == [i \in 1..count |-> v]
Put(cells, k, v) == [i \in DOMAIN cells |-> IF i = k THEN v ELSE cells[i]]

(***************************************************************************)
(* Objects.  Trivially copyable ones are never destroyed.                  *)
(***************************************************************************)
Destroy(x, s, range) ==
    LET y == [x EXCEPT ![s].cells = [i \in DOMAIN @ |-> IF i \in range THEN Raw ELSE @[i]]]
    IN  IF ~Bitwise /\ \E i \in range : x[s].cells[i] = Raw THEN Fault(y, "destroyed what is not there") ELSE y
\* What is left where a value was moved from.
Left(v) == IF Bitwise THEN v ELSE Moved
\* Copies may throw, and moves of a type that is relocated by copies because they may.
MayThrow(how) == ~Bitwise /\ ~(how = "move" /\ elements.kind = "move")
Relocating == IF elements.kind = "move" THEN "move" ELSE "copy"
\* Of n constructions or assignments, how many succeed.
Succeed(x, n, how) == IF MayThrow(how) THEN Min({n, x.budget}) ELSE n
Spend(x, n, how) == [x EXCEPT !.budget = @ - IF MayThrow(how) THEN n ELSE 0]
ConstructAt(x, s, i, v, how) ==
    LET y == [Spend(x, 1, how) EXCEPT ![s].cells = Put(@, i, v)]
    IN  CASE Succeed(x, 1, how) = 0 -> Throw(x)
          [] ~Bitwise /\ x[s].cells[i] # Raw -> Fault(y, "constructed over an object")
          [] OTHER -> y

(***************************************************************************)
(* Storage.                                                                *)
(***************************************************************************)
DestroyElements(x, s) == Destroy(x, s, 1..x[s].size)
\* Deallocate, to the allocator the storage came from.
Deallocate(x, s) ==
    IF Capacity(x, s) = 0 THEN x
    ELSE LET y == [x EXCEPT !.live[x[s].alloc] = @ - 1, ![s].cells = <<>>]
             z == IF x[s].from = x[s].alloc THEN y ELSE Fault(y, "storage of another allocator")
         IN  IF ~Bitwise /\ \E i \in DOMAIN x[s].cells : x[s].cells[i] # Raw THEN Fault(z, "freed with objects in it") ELSE z
ReleaseStorage(x, s) == [Deallocate(DestroyElements(x, s), s) EXCEPT ![s].size = 0]
\* New storage that holds the given values.
Adopt(x, s, capacity, values) ==
    [x EXCEPT !.live[x[s].alloc] = @ + 1,
              ![s] = [@ EXCEPT !.cells = values \o Fill(capacity - Len(values), Raw), !.from = x[s].alloc]]
\* The elements go to new storage: bytewise, moved, or copied when moving may
\* throw, in which case the old elements are still there if it does.
Relocate(x, s, newCapacity) ==
    IF x.memory = 0 \/ Succeed(x, x[s].size, Relocating) < x[s].size THEN Throw(x)
    ELSE Adopt(Deallocate(DestroyElements(Spend(x, x[s].size, Relocating), s), s),
               s, newCapacity, SubSeq(x[s].cells, 1, x[s].size))
Reserve(x, s, newCapacity) == IF newCapacity <= Capacity(x, s) THEN x ELSE Relocate(x, s, newCapacity)
ShrinkToFit(x, s) ==
    CASE x[s].size = Capacity(x, s) -> x
      [] x[s].size = 0 /\ Capacity(x, s) # 0 -> Deallocate(x, s)
      [] OTHER -> IF Capacity(x, s) < x[s].size * 2 THEN x ELSE Relocate(x, s, x[s].size)
EnsureCapacityForOne(x, s) ==
    IF x[s].size < Capacity(x, s) THEN x
    ELSE Reserve(x, s, IF Capacity(x, s) = 0 THEN 1 ELSE Capacity(x, s) + Capacity(x, s) \div 2 + 1)
Then(x, y) == IF x.threw THEN x ELSE y

(***************************************************************************)
(* Elements.  An argument is a value of the caller's, or a reference to    *)
(* the vector's own element at own, which is read when the new object is   *)
(* constructed: x was the vector at the call, y is it then.                *)
(***************************************************************************)
Read(x, y, s, arg) ==
    CASE arg.own = 0 -> [y EXCEPT !.read = arg.v]
      [] arg.own # 0 /\ Capacity(x, s) # Capacity(y, s) -> Fault([y EXCEPT !.read = Moved], "read from freed storage")
      [] OTHER -> LET v == y[s].cells[arg.own]
                      z == [y EXCEPT !.read = v]
                  IN  IF v = Raw THEN Fault(z, "read what is not there") ELSE z
\* The object is constructed, then counted.
Grow(x, s, y, arg) ==
    LET z == Read(x, y, s, arg)
    IN  [ConstructAt(z, s, y[s].size + 1, z.read, arg.how) EXCEPT ![s].size = @ + 1]
PushBack(x, s, arg) ==
    LET y == EnsureCapacityForOne(x, s)
        z == Grow(x, s, y, arg)
    IN  Then(y, IF z.threw THEN [z EXCEPT ![s].size = y[s].size] ELSE z)
\* Room is made by moving the tail up by one, the last element first: into an
\* object that is new, then by assignment.  moves of them succeed.
ShiftUp(x, s, moves) ==
    LET n == x[s].size
        cell(i) == CASE i \in (n + 2 - moves)..(n + 1) -> x[s].cells[i - 1]
                     [] i = n + 1 - moves /\ moves > 0 -> Left(x[s].cells[i])
                     [] OTHER -> x[s].cells[i]
    IN  Spend([x EXCEPT ![s].cells = [i \in DOMAIN @ |-> cell(i)]], moves, "move")
\* Then the object at the index is destroyed, the new one constructed in its place,
\* and the size counted.
Opened(x, s, index) == IF Bitwise THEN x ELSE Destroy(x, s, {index + 1})
Counted(x, s) == IF x.threw THEN x ELSE [x EXCEPT ![s].size = @ + 1]
Placed(x, s, index, how) == Counted(ConstructAt(x, s, index + 1, x.read, how), s)
\* y is x with room for one.  At the end the size is counted first.
PushInto(x, y, s, index, arg) ==
    LET tail == y[s].size - index
        moves == Succeed(y, tail, "move")
    IN  CASE y.threw -> y
          [] ~y.threw /\ tail = 0 -> Grow(x, s, y, arg)
          [] ~y.threw /\ tail # 0 /\ moves < tail -> Throw(ShiftUp(y, s, moves))
          [] OTHER -> Placed(Read(x, Opened(ShiftUp(y, s, tail), s, index), s, arg), s, index, arg.how)
PushAt(x, s, index, arg) ==
    IF index > x[s].size THEN Throw(x) ELSE PushInto(x, EnsureCapacityForOne(x, s), s, index, arg)
PopBack(x, s) ==
    IF x[s].size = 0 THEN Throw(x) ELSE [Destroy(x, s, {x[s].size}) EXCEPT ![s].size = @ - 1]
\* Mutant: the last element is not destroyed.
EraseKeeping(x, s, index) ==
    IF index >= x[s].size THEN Throw(x)
    ELSE [x EXCEPT ![s] = [@ EXCEPT !.size = @ - 1,
            !.cells = [i \in DOMAIN @ |-> IF i \in (index + 1)..(x[s].size - 1) THEN @[i + 1] ELSE @[i]]]]
Erase(x, s, index) ==
    LET tail == x[s].size - index - 1
        moves == Succeed(x, tail, "move")
        cell(i) == CASE i \in (index + 1)..(index + moves) -> x[s].cells[i + 1]
                     [] i = index + 1 + moves /\ moves > 0 -> Left(x[s].cells[i])
                     [] OTHER -> x[s].cells[i]
        shifted == [x EXCEPT ![s].cells = [i \in DOMAIN @ |-> cell(i)]]
    IN  IF index >= x[s].size THEN Throw(x)
        ELSE IF moves < tail THEN Throw(shifted)
        ELSE [Destroy(shifted, s, {x[s].size}) EXCEPT ![s].size = @ - 1]
Clear(x, s) == [DestroyElements(x, s) EXCEPT ![s].size = 0]

(***************************************************************************)
(* Copies and moves.                                                       *)
(***************************************************************************)
Contents(x, s) == SubSeq(x[s].cells, 1, x[s].size)
\* The first n elements were moved from.
MovedFrom(x, o, n) == [x EXCEPT ![o].cells = [i \in DOMAIN @ |-> IF i <= n THEN Left(@[i]) ELSE @[i]]]
\* ConstructElements(): all of them, or none is left.
Constructs(x, o, how) == x.memory # 0 /\ Succeed(x, x[o].size, how) = x[o].size
\* Fresh storage is filled before the old one is released.
Rebuild(x, s, o, how) ==
    LET source == IF how = "move" THEN MovedFrom(x, o, x[o].size) ELSE x
    IN  IF ~Constructs(x, o, how) THEN Throw(x)
        ELSE [Adopt(ReleaseStorage(source, s), s, x[o].size, Contents(x, o)) EXCEPT ![s].size = x[o].size]
\* Elements are assigned, then constructed, then the rest is destroyed.
Overwrite(x, s, o, how) ==
    LET n == x[o].size
        done == Succeed(x, n, how)
        source == IF how = "move" THEN MovedFrom(x, o, done) ELSE x
        put == [source EXCEPT ![s].cells = [i \in DOMAIN @ |-> IF i <= done THEN x[o].cells[i] ELSE @[i]]]
    IN  IF done < n THEN Throw(put) ELSE [Destroy(put, s, (n + 1)..x[s].size) EXCEPT ![s].size = n]
AssignFromCopy(x, s, o) ==
    IF elements.propagateOnCopy
    THEN LET y == [ReleaseStorage(x, s) EXCEPT ![s].alloc = x[o].alloc]
         IN  IF x[o].size = 0 THEN y
             ELSE IF ~Constructs(x, o, "copy") THEN Throw(y)
             ELSE [Adopt(y, s, x[o].size, Contents(x, o)) EXCEPT ![s].size = x[o].size]
    ELSE IF x[o].size > Capacity(x, s) THEN Rebuild(x, s, o, "copy") ELSE Overwrite(x, s, o, "copy")
AssignFromMoved(x, s, o) ==
    LET y == IF x[o].size > Capacity(x, s) THEN Rebuild(x, s, o, Relocating) ELSE Overwrite(x, s, o, "move")
    IN  Then(y, Clear(y, o))
StealStorageFrom(x, s, o) ==
    [x EXCEPT ![s] = [@ EXCEPT !.cells = x[o].cells, !.size = x[o].size, !.from = x[o].from],
              ![o] = [@ EXCEPT !.cells = <<>>, !.size = 0]]
CanSteal(x, s, o) ==
    elements.propagateOnMove \/ elements.alwaysEqual \/ (elements.comparable /\ x[s].alloc = x[o].alloc)
MoveAssign(x, s, o) ==
    CASE s = o -> x
      [] s # o /\ elements.propagateOnMove ->
           StealStorageFrom([ReleaseStorage(x, s) EXCEPT ![s].alloc = x[o].alloc], s, o)
      [] s # o /\ ~elements.propagateOnMove /\ CanSteal(x, s, o) -> StealStorageFrom(ReleaseStorage(x, s), s, o)
      [] OTHER -> AssignFromMoved(x, s, o)
CopyAssign(x, s, o) == IF s = o THEN x ELSE AssignFromCopy(x, s, o)
\* s is destroyed and constructed again.  A constructor that throws has no destructor:
\* what it allocated stays allocated.
Reconstructed(x, s, o) == [ReleaseStorage(x, s) EXCEPT ![s].alloc = x[o].alloc]
Construct(y, s, values) ==
    CASE values = <<>> -> y
      [] values # <<>> /\ y.memory = 0 -> Throw(y)
      [] values # <<>> /\ y.memory # 0 /\ Succeed(y, Len(values), "copy") < Len(values) ->
           Throw([y EXCEPT !.live[y[s].alloc] = @ + 1])
      [] OTHER -> [Adopt(y, s, Len(values), values) EXCEPT ![s].size = Len(values)]
CopyConstruct(x, s, o) == Construct(Reconstructed(x, s, o), s, Contents(x, o))
MoveConstruct(x, s, o) == StealStorageFrom(Reconstructed(x, s, o), s, o)
ConstructList(x, s, list) == Construct(ReleaseStorage(x, s), s, list)

(***************************************************************************)
(* Programs.  A behaviour ends where a vector is spoiled.                  *)
(***************************************************************************)
Init ==
    /\ elements \in VectorTraits
    /\ vw = [a |-> [cells |-> <<>>, size |-> 0, alloc |-> 1, from |-> 1],
             b |-> [cells |-> <<>>, size |-> 0, alloc |-> IF elements.alwaysEqual THEN 1 ELSE 2, from |-> 1],
             live |-> [k \in 1..2 |-> 0], budget |-> 0, memory |-> 0, read |-> Raw, threw |-> FALSE, faults |-> {}]
    /\ vref = [s \in Names |-> <<>>]
    /\ did = [op |-> "none", threw |-> FALSE, spoiled |-> FALSE]
    /\ vectorOps = 0

\* Without storage there is no allocator it came from.
Settle(x) == [x EXCEPT !.budget = 0, !.memory = 0, !.read = Raw, !.threw = FALSE,
                       !.a.from = IF x.a.cells = <<>> THEN 1 ELSE @, !.b.from = IF x.b.cells = <<>> THEN 1 ELSE @]
Does(op, x, expected, failed, spoiled) ==
    /\ vectorOps < MaxVectorOps
    /\ ~did.spoiled
    /\ vectorOps' = vectorOps + 1
    /\ vw' = Settle(x)
    /\ vref' = IF x.threw THEN failed ELSE expected
    /\ did' = [op |-> op, threw |-> x.threw, spoiled |-> spoiled]
    /\ UNCHANGED elements
\* How many constructors and assignments succeed before one throws; or there is no memory.
Outcomes == {[vw EXCEPT !.budget = n, !.memory = 1] : n \in IF Bitwise THEN {9} ELSE {0, 1, 2, 3, 9}}
            \cup {[vw EXCEPT !.budget = 9]}
Given == {[own |-> 0, v |-> v, how |-> IF v = 1 THEN "copy" ELSE "move"] : v \in Values}
Own(s) == [own : 1..Len(vref[s]), v : {Raw}, how : {"copy"}]
Small(s) == Len(vref[s]) < MaxVectorSize
Reserves(s) == \E x \in Outcomes, n \in 0..4 : Does("Reserve", Reserve(x, s, n), vref, vref, FALSE)
Shrinks(s) == \E x \in Outcomes : Does("ShrinkToFit", ShrinkToFit(x, s), vref, vref, FALSE)

\* The argument is read, after the tail of the given length moved up, and is a reference
\* into storage that was replaced; or to the element that was destroyed to make room.
Dangles(x, s, tail, arg) ==
    LET y == EnsureCapacityForOne(x, s) IN
    /\ ~y.threw /\ Succeed(y, tail, "move") = tail
    /\ arg.own # 0
    /\ \/ Len(vref[s]) = Capacity(x, s)
       \/ ~Bitwise /\ tail # 0 /\ arg.own = Len(vref[s]) - tail + 1
Pushes(s) == Small(s) /\ \E x \in Outcomes, arg \in Given \cup Own(s) :
    Does("PushBack", PushBack(x, s, arg),
         [vref EXCEPT ![s] = Append(@, IF arg.own = 0 THEN arg.v ELSE @[arg.own])], vref, Dangles(x, s, 0, arg))

\* What a reference to the element at own refers to once the tail has moved up.
Referred(s, index, arg) ==
    CASE arg.own = 0 -> arg.v
      [] arg.own > index + 1 -> vref[s][arg.own - 1]
      [] OTHER -> vref[s][arg.own]
\* The insertion throws after it counted an object that is not there yet, or after it moved elements.
Interrupted(x, s, index, threw) ==
    LET y == EnsureCapacityForOne(x, s) IN
    /\ threw /\ ~y.threw
    /\ \/ index = Len(vref[s])
       \/ index < Len(vref[s]) /\ Succeed(y, 1, "move") = 1
PushesAt(s) == Small(s) /\ \E x \in Outcomes, index \in 0..(Len(vref[s]) + 1), arg \in Given \cup Own(s) :
    LET y == PushAt(x, s, index, arg) IN
    Does(IF index = Len(vref[s]) THEN "PushBack" ELSE "PushAt", y,
         [vref EXCEPT ![s] = IF index > Len(@) THEN @ ELSE InsertAt(@, index + 1, Referred(s, index, arg))], vref,
         index <= Len(vref[s]) /\ (Interrupted(x, s, index, y.threw) \/ Dangles(x, s, Len(vref[s]) - index, arg)))

Erased(s, index, moves) ==
    IF moves = 0 THEN vref[s]
    ELSE SubSeq(vref[s], 1, index) \o SubSeq(vref[s], index + 2, index + 1 + moves) \o <<Moved>>
           \o SubSeq(vref[s], index + 2 + moves, Len(vref[s]))
Removes(s) ==
    \/ Does("PopBack", PopBack(vw, s), [vref EXCEPT ![s] = IF @ = <<>> THEN <<>> ELSE Front(@)], vref, FALSE)
    \/ \E x \in Outcomes, index \in 0..Len(vref[s]) :
         LET within == index < Len(vref[s]) IN
         Does("Erase", Erase(x, s, index),
              [vref EXCEPT ![s] = IF within THEN RemoveAt(@, index + 1) ELSE @],
              [vref EXCEPT ![s] = IF within THEN Erased(s, index, x.budget) ELSE @], FALSE)
    \/ Does("Clear", Clear(vw, s), [vref EXCEPT ![s] = <<>>], vref, FALSE)

\* An assignment that throws has assigned a prefix, or nothing; with an allocator that
\* travels it has let its own elements go.
Prefix(s, o, n) == SubSeq(vref[o], 1, n) \o SubSeq(vref[s], n + 1, Len(vref[s]))
InPlace(x, s, o) == Len(vref[o]) <= Capacity(x, s)
\* Objects that were constructed behind the size.
Stranded(x, s, threw) == threw /\ x.budget > Len(vref[s])
Copies(s, o) ==
    \/ \E x \in Outcomes :
         LET y == CopyAssign(x, s, o) IN
         Does("CopyAssign", y, [vref EXCEPT ![s] = vref[o]],
              [vref EXCEPT ![s] = IF elements.propagateOnCopy THEN <<>> ELSE IF InPlace(x, s, o) THEN Prefix(s, o, x.budget) ELSE @],
              ~elements.propagateOnCopy /\ InPlace(x, s, o) /\ Stranded(x, s, y.threw))
    \/ \E x \in Outcomes :
         s # o /\ Does("CopyConstruct", CopyConstruct(x, s, o), [vref EXCEPT ![s] = vref[o]], [vref EXCEPT ![s] = <<>>],
                       CopyConstruct(x, s, o).threw /\ x.memory # 0)
    \/ \E x \in Outcomes :
         s = o /\ Does("ConstructList", ConstructList(x, s, <<1, 2>>), [vref EXCEPT ![s] = <<1, 2>>], [vref EXCEPT ![s] = <<>>],
              ConstructList(x, s, <<1, 2>>).threw /\ x.memory # 0)
Moves(s, o) ==
    LET taken == [vref EXCEPT ![s] = vref[o], ![o] = <<>>]
        away(n) == [i \in DOMAIN vref[o] |-> IF i <= n THEN Moved ELSE vref[o][i]]
    IN
    \/ \E x \in Outcomes :
         LET y == MoveAssign(x, s, o) IN
         Does("MoveAssign", y, IF s = o THEN vref ELSE taken,
              IF InPlace(x, s, o) THEN [vref EXCEPT ![s] = Prefix(s, o, x.budget), ![o] = away(x.budget)] ELSE vref,
              InPlace(x, s, o) /\ Stranded(x, s, y.threw))
    \/ s # o /\ Does("MoveConstruct", MoveConstruct(vw, s, o), taken, vref, FALSE)
Next == \E s \in Names :
    \/ Reserves(s) \/ Shrinks(s) \/ Pushes(s) \/ PushesAt(s) \/ Removes(s)
    \/ \E o \in Names : Copies(s, o) \/ Moves(s, o)
Spec == Init /\ [][Next]_vars

\* Every object below the size was constructed once and is not destroyed, there is none
\* above it, and what is allocated is the storage of a vector, of its own allocator.
Intact ==
    /\ vw.faults = {}
    /\ \A s \in Names :
         /\ vw[s].size <= Capacity(vw, s)
         /\ ~Bitwise => \A i \in DOMAIN vw[s].cells : (vw[s].cells[i] = Raw) <=> i > vw[s].size
    /\ \A k \in 1..2 : vw.live[k] = Cardinality({s \in Names : vw[s].cells # <<>> /\ vw[s].from = k})

\* Whatever is done to two vectors, and whichever constructor, assignment or allocation
\* fails in it, each holds what a plain sequence would and is Intact, except exactly
\* after the operations that spoil one: an insertion that throws after it counted or
\* moved elements (Vector.hpp:166, :181-186), an assignment in place that throws after
\* it constructed objects behind the size (:608, :645), a copying or list constructor
\* that throws after it allocated (:54, :63), and a push of an element of the vector
\* itself that replaces the storage or destroys it first (:139, :184).  An operation
\* that throws without spoiling leaves its vector as it was, or a prefix assigned, or,
\* with an allocator that travels, empty; and the insertion of an element behind the
\* index inserts its predecessor (Referred).
ElementsExact ==
    /\ Intact <=> ~did.spoiled
    /\ ~did.spoiled => \A s \in Names : Contents(vw, s) = vref[s]

\* "Create space at end then shift via move assignment (basic guarantee)."
\* (Vector.hpp:180): an exception that interrupts the insertion of an element before
\* another one leaves vectors that can be used and destroyed.
BasicGuarantee == did.op = "PushAt" /\ did.threw => Intact
=============================================================================
