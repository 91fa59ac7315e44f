------------------------------ MODULE Lifetimes ------------------------------
(***************************************************************************)
(* The classes of NGIN.Base that keep an object of the caller's in their   *)
(* own storage and so have to construct and destroy it by hand: Expected   *)
(* and its void specialisation, Optional, Any, Callable, WorkItem with its *)
(* pool of jobs, and Scoped.                                               *)
(*                                                                         *)
(* Memory is a set of places: the inline storage of the two holders "a"    *)
(* and "b", a temporary, the caller's argument, and heap blocks.  A place  *)
(* holds an object of some type, or none.  An operation is a function of   *)
(* the world: placement new, destructor calls, allocations and flag        *)
(* updates in the order of the code.  What C++ leaves undefined -- to use  *)
(* an object that is not there, to build one over another, to free a block *)
(* twice -- is a fault of the world.                                       *)
(***************************************************************************)
EXTENDS Naturals, FiniteSets

CONSTANTS Classes,       \* the classes that are explored
          PayloadTypes,  \* a class -> the types it is used with
          ThrowingTypes, \* types whose copy constructor may throw
          MaxOps         \* a class -> operations of a behaviour

VARIABLES cls, world, ref, doomed, steps
vars == <<cls, world, ref, doomed, steps>>

Holder == {"a", "b"}
Block == {"p", "q", "r", "s"}
\* A temporary Any or Callable: "copy".
Slot == Holder \cup {"copy"}
Place == Slot \cup Block \cup {"tmp", "arg"}
Values == {"1", "2"}

\* What the traits say of a type.  "rigid" cannot be assigned, "unique" and
\* "bigUnique" cannot be copied, the "big" ones are not kept inline.
IsCopyConstructible(t) == t \notin {"unique", "bigUnique"}
IsAssignable(t) == t # "rigid"
FitsInline(t) == t \notin {"big", "huge", "bigUnique"}
IsTrivial(t) == t = "trivial"

NoObject == [type |-> "none", val |-> "none"]
Object(t, v) == [type |-> t, val |-> v]
\* What the callbacks of the monadic operations compute.
Fn(v) == CASE v = "1" -> "2" [] v = "2" -> "1" [] OTHER -> v

-----------------------------------------------------------------------------
(* Storage.                                                                *)

Fault(w, what) == [w EXCEPT !.faults = @ \cup {what}]
Throw(w) == [w EXCEPT !.status = "threw"]
Failed(w) == w.status # "ok"

Construct(w, at, x) ==
    IF w.mem[at] = NoObject \/ IsTrivial(w.mem[at].type) THEN [w EXCEPT !.mem[at] = x] ELSE Fault(w, "overwritten")

Destroy(w, at, t) ==
    IF IsTrivial(t) THEN w
    ELSE IF w.mem[at].type = t THEN [w EXCEPT !.mem[at] = NoObject] ELSE Fault(w, "destroyed twice")

MovedFrom(w, at) == IF IsTrivial(w.mem[at].type) THEN w ELSE [w EXCEPT !.mem[at].val = "moved"]

\* Construct at a place from the object of type t at another, copying or moving it.
ConstructFrom(w, at, from, t, how) ==
    IF w.mem[from].type # t THEN Fault(w, "no object to read")
    ELSE IF how = "copy" /\ w.throws /\ t \in ThrowingTypes THEN Throw(w)
    ELSE Construct(IF how = "move" THEN MovedFrom(w, from) ELSE w, at, w.mem[from])

\* The payload's own assignment operator.
AssignFrom(w, at, from, t, how) ==
    IF w.mem[from].type # t \/ w.mem[at].type # t THEN Fault(w, "no object to assign")
    ELSE IF how = "copy" /\ w.throws /\ t \in ThrowingTypes THEN Throw(w)
    ELSE [IF how = "move" THEN MovedFrom(w, from) ELSE w EXCEPT !.mem[at] = w.mem[from]]

\* The allocator may refuse, and memory ends.
Fresh(w) == IF Block \subseteq w.heap THEN "null" ELSE CHOOSE b \in Block \ w.heap : TRUE
Allocate(w) == IF w.refuses \/ Fresh(w) = "null" THEN Throw(w) ELSE [w EXCEPT !.heap = @ \cup {Fresh(w)}]
Deallocate(w, b) ==
    IF b \notin w.heap \/ b \in w.pool THEN Fault(w, "freed twice")
    ELSE IF w.mem[b] # NoObject /\ ~IsTrivial(w.mem[b].type) THEN Fault(w, "freed alive")
    ELSE [w EXCEPT !.heap = @ \ {b}, !.mem[b] = NoObject]

-----------------------------------------------------------------------------
(* Expected<T, E>.  kind is m_hasValue.                                    *)

TypeOf(w, kind) == IF kind = "value" THEN w.T ELSE w.E
AbortOnThrow(w) == IF w.status = "threw" THEN [w EXCEPT !.status = "aborted"] ELSE w
DestroyActive(w, x) == Destroy(w, x, TypeOf(w, w.h[x].kind))

\* Construct<T> or Construct<E>, with the flag.
ExpectedSet(w, x, kind, from, how) ==
    [AbortOnThrow(ConstructFrom(w, x, from, TypeOf(w, kind), how)) EXCEPT !.h[x].kind = kind]

Alive(w, x) == [w EXCEPT !.h[x].alive = TRUE]
NoHolder == [alive |-> FALSE, kind |-> "none", ptr |-> "null"]
Ended(w, x) == [w EXCEPT !.h[x] = NoHolder]

ExpectedConstruct(w, x, kind, how) == ExpectedSet(Alive(w, x), x, kind, "arg", how)
ExpectedCopyMove(w, x, y, how) == ExpectedSet(Alive(w, x), x, w.h[y].kind, y, how)

ExpectedAssign(w, x, y, how) ==
    LET kind == w.h[y].kind IN
    CASE x = y -> w
      [] w.h[x].kind = kind /\ IsAssignable(TypeOf(w, kind)) -> AssignFrom(w, x, y, TypeOf(w, kind), how)
      [] OTHER -> ExpectedSet(DestroyActive(w, x), x, kind, y, how)

ExpectedDestructor(w, x) == DestroyActive(w, x)

\* Value() and Error() abort when the other one is held; TakeValue() and TakeError() move it out.
ExpectedTake(w, x, kind) ==
    IF w.h[x].kind # kind THEN [w EXCEPT !.status = "aborted"]
    ELSE Destroy(ConstructFrom(w, "tmp", x, TypeOf(w, kind), "move"), "tmp", TypeOf(w, kind))

\* ValueOr() and ErrorOr() on an rvalue: the payload or the fallback moves out.
ExpectedOr(w, x, kind) ==
    LET from == IF w.h[x].kind = kind THEN x ELSE "arg" IN
    Destroy(ConstructFrom(w, "tmp", from, TypeOf(w, kind), "move"), "tmp", TypeOf(w, kind))

\* A callback is given the payload; on an rvalue it takes it.
Call(w, x, how) ==
    IF w.mem[x].type # TypeOf(w, w.h[x].kind) THEN Fault(w, "no object to read")
    ELSE IF how = "move" THEN MovedFrom(w, x) ELSE w
\* The Expected a callback returns.
Result(w, y, kind, v) == [Construct(Alive(w, y), y, Object(TypeOf(w, kind), v)) EXCEPT !.h[y].kind = kind]

\* An error travels through an Unexpected<E>.
Unexpected(w, from, how) == ConstructFrom(w, "tmp", from, w.E, how)
FromUnexpected(w, y) ==
    IF Failed(w) THEN w ELSE Destroy(ExpectedSet(Alive(w, y), y, "error", "tmp", "move"), "tmp", w.E)

ExpectedTransform(w, x, y, how) ==
    IF w.h[x].kind = "value" THEN Result(Call(w, x, how), y, "value", Fn(w.mem[x].val))
    ELSE FromUnexpected(Unexpected(w, x, how), y)

ExpectedAndThen(w, x, y, how, kind) ==
    IF w.h[x].kind = "value" THEN Result(Call(w, x, how), y, kind, Fn(w.mem[x].val))
    ELSE FromUnexpected(Unexpected(w, x, how), y)

ExpectedOrElse(w, x, y, how, kind) ==
    IF w.h[x].kind = "value" THEN ExpectedSet(Alive(w, y), y, "value", x, how)
    ELSE Result(Call(w, x, how), y, kind, Fn(w.mem[x].val))

ExpectedTransformError(w, x, y, how) ==
    IF w.h[x].kind = "value" THEN ExpectedSet(Alive(w, y), y, "value", x, how)
    ELSE FromUnexpected(Construct(Call(w, x, how), "tmp", Object(w.E, Fn(w.mem[x].val))), y)

ExpectedSwap(w, x, y) ==
    LET kx == w.h[x].kind
        ky == w.h[y].kind
        w1 == ConstructFrom(w, "tmp", x, TypeOf(w, kx), "move")
        w2 == ExpectedSet(DestroyActive(w1, x), x, ky, y, "move")
        w3 == ExpectedSet(Destroy(w2, y, TypeOf(w, ky)), y, kx, "tmp", "move")
    IN IF x = y THEN w ELSE Destroy(w3, "tmp", TypeOf(w, kx))

ExpectedEmplace(w, x, kind, how) == ExpectedSet(DestroyActive(w, x), x, kind, "arg", how)

-----------------------------------------------------------------------------
(* Expected<void, E>: a value is no object.                                *)

VoidDestroyActive(w, x) == IF w.h[x].kind = "error" THEN Destroy(w, x, w.E) ELSE w
VoidSet(w, x, kind, from, how) ==
    IF kind = "value" THEN [w EXCEPT !.h[x].kind = "value"] ELSE ExpectedSet(w, x, "error", from, how)

VoidConstruct(w, x, kind, how) == VoidSet(Alive(w, x), x, kind, "arg", how)
VoidCopyMove(w, x, y, how) == VoidSet(Alive(w, x), x, w.h[y].kind, y, how)

VoidAssign(w, x, y, how) ==
    LET kind == w.h[y].kind IN
    CASE x = y \/ (w.h[x].kind = "value" /\ kind = "value") -> w
      [] w.h[x].kind = "error" /\ kind = "error" /\ IsAssignable(w.E) -> AssignFrom(w, x, y, w.E, how)
      [] OTHER -> VoidSet(VoidDestroyActive(w, x), x, kind, y, how)

VoidTake(w, x, kind) ==
    IF w.h[x].kind # kind THEN [w EXCEPT !.status = "aborted"]
    ELSE IF kind = "value" THEN w ELSE Destroy(ConstructFrom(w, "tmp", x, w.E, "move"), "tmp", w.E)

VoidOr(w, x) == Destroy(ConstructFrom(w, "tmp", IF w.h[x].kind = "error" THEN x ELSE "arg", w.E, "move"), "tmp", w.E)

VoidResult(w, y, kind, v) == IF kind = "value" THEN [Alive(w, y) EXCEPT !.h[y].kind = "value"] ELSE Result(w, y, "error", v)

VoidTransform(w, x, y, how) ==
    IF w.h[x].kind = "value" THEN VoidResult(w, y, "value", "none") ELSE FromUnexpected(Unexpected(w, x, how), y)

VoidAndThen(w, x, y, how, kind) ==
    IF w.h[x].kind = "value" THEN VoidResult(w, y, kind, "1") ELSE FromUnexpected(Unexpected(w, x, how), y)

VoidOrElse(w, x, y, how, kind) ==
    IF w.h[x].kind = "value" THEN VoidResult(w, y, "value", "none")
    ELSE VoidResult(Call(w, x, how), y, kind, Fn(w.mem[x].val))

VoidTransformError(w, x, y, how) ==
    IF w.h[x].kind = "value" THEN VoidResult(w, y, "value", "none")
    ELSE FromUnexpected(Construct(Call(w, x, how), "tmp", Object(w.E, Fn(w.mem[x].val))), y)

VoidSwap(w, x, y) ==
    LET kx == w.h[x].kind
        ky == w.h[y].kind
        Over(from, to) ==     \* the error of one goes to the other, which has none
            LET w1 == ConstructFrom(w, "tmp", from, w.E, "move")
                w2 == [VoidDestroyActive(w1, from) EXCEPT !.h[from].kind = "value"]
            IN Destroy(VoidSet(VoidDestroyActive(w2, to), to, "error", "tmp", "move"), "tmp", w.E)
        s1 == ConstructFrom(w, "tmp", x, w.E, "move")
        s2 == ExpectedSet(Destroy(s1, x, w.E), x, "error", y, "move")
        s3 == ExpectedSet(Destroy(s2, y, w.E), y, "error", "tmp", "move")
    IN CASE x = y \/ (kx = "value" /\ ky = "value") -> w
         [] kx = "error" /\ ky = "error" -> Destroy(s3, "tmp", w.E)
         [] kx = "error" /\ ky = "value" -> Over(x, y)
         [] OTHER -> Over(y, x)

VoidEmplace(w, x, kind, how) == VoidSet(VoidDestroyActive(w, x), x, kind, "arg", how)

-----------------------------------------------------------------------------
(* Optional<T>.  kind "none" is empty.  Exceptions reach the caller.       *)

OptionalReset(w, x) ==
    IF w.h[x].kind = "value" THEN [Destroy(w, x, w.T) EXCEPT !.h[x].kind = "none"] ELSE w

Engage(w, x, from, how) ==
    LET w1 == ConstructFrom(w, x, from, w.T, how) IN IF Failed(w1) THEN w1 ELSE [w1 EXCEPT !.h[x].kind = "value"]

OptionalEmplace(w, x, how) == Engage(OptionalReset(w, x), x, "arg", how)

\* A constructor that throws leaves no holder.
Constructed(w, x) == IF Failed(w) THEN Ended(w, x) ELSE w

OptionalConstruct(w, x, kind, how) ==
    IF kind = "none" THEN Alive(w, x) ELSE Constructed(OptionalEmplace(Alive(w, x), x, how), x)

OptionalCopyMove(w, x, y, how) ==
    IF w.h[y].kind = "value" THEN Constructed(Engage(Alive(w, x), x, y, how), x) ELSE Alive(w, x)

OptionalAssign(w, x, y, how) ==
    CASE x = y -> w
      [] w.h[y].kind = "none" -> OptionalReset(w, x)
      [] w.h[x].kind = "none" -> Engage(w, x, y, how)
      [] IsAssignable(w.T) -> AssignFrom(w, x, y, w.T, how)
      [] OTHER -> ConstructFrom(Destroy(w, x, w.T), x, y, w.T, how)    \* m_hasValue is not cleared

\* Value() and operator* abort on an empty one; ValueOr() on an rvalue moves.
OptionalTake(w, x) ==
    CASE w.h[x].kind = "none" -> [w EXCEPT !.status = "aborted"]
      [] w.mem[x].type # w.T -> Fault(w, "no object to read")
      [] OTHER -> w
OptionalOr(w, x) ==
    Destroy(ConstructFrom(w, "tmp", IF w.h[x].kind = "value" THEN x ELSE "arg", w.T, "move"), "tmp", w.T)

OptionalSwap(w, x, y) ==
    LET s1 == ConstructFrom(w, "tmp", x, w.T, "move")
        s2 == AssignFrom(s1, x, y, w.T, "move")
    IN CASE w.h[x].kind = "value" /\ w.h[y].kind = "value" ->
              Destroy(AssignFrom(s2, y, "tmp", w.T, "move"), "tmp", w.T)
         [] w.h[x].kind = "value" /\ w.h[y].kind = "none" -> OptionalReset(Engage(w, y, x, "move"), x)
         [] w.h[x].kind = "none" /\ w.h[y].kind = "value" -> OptionalReset(Engage(w, x, y, "move"), y)
         [] OTHER -> w

-----------------------------------------------------------------------------
(* Any.  kind is the type its descriptor is of.                            *)

\* Where the payload is: inline, or behind the heap pointer.
At(w, x) == IF FitsInline(w.h[x].kind) THEN x ELSE w.h[x].ptr

AnyDestroy(w, x) ==
    IF FitsInline(w.h[x].kind) THEN Destroy(w, x, w.h[x].kind)
    ELSE [Deallocate(Destroy(w, At(w, x), w.h[x].kind), At(w, x)) EXCEPT !.h[x].ptr = "null"]

AnyReset(w, x) ==
    IF w.h[x].kind = "none" THEN w ELSE [AnyDestroy(w, x) EXCEPT !.h[x].kind = "none", !.h[x].ptr = "null"]

AnyEmplace(w, x, t, how) ==
    LET w0 == AnyReset(w, x)
        w1 == IF FitsInline(t) THEN w0 ELSE Allocate(w0)
        at == IF FitsInline(t) THEN x ELSE Fresh(w0)
        w2 == ConstructFrom(IF FitsInline(t) THEN w1 ELSE [w1 EXCEPT !.h[x].ptr = at], at, "arg", t, how)
    IN CASE Failed(w1) -> w1
         [] Failed(w2) -> IF FitsInline(t) THEN w2 ELSE [Deallocate(w2, at) EXCEPT !.h[x].ptr = "null"]
         [] OTHER -> [w2 EXCEPT !.h[x].kind = t]

\* AnyDescriptorProvider::Copy.  A heap payload that cannot be copied is
\* deallocated before bad_any_cast is thrown, and again by the handler.
AnyCopy(w, x, y) ==
    LET t == w.h[y].kind
        w1 == Allocate(w)
        at == Fresh(w)
        w2 == ConstructFrom(w1, at, At(w, y), t, "copy")
    IN CASE FitsInline(t) -> IF IsCopyConstructible(t) THEN ConstructFrom(w, x, y, t, "copy") ELSE Throw(w)
         [] Failed(w1) -> w1
         [] ~IsCopyConstructible(t) -> Throw(Deallocate(Deallocate(w1, at), at))
         [] Failed(w2) -> Deallocate(w2, at)
         [] OTHER -> [w2 EXCEPT !.h[x].ptr = at]

\* AnyDescriptorProvider::Move ends the life of an inline source; a heap payload changes hands.
AnyMove(w, x, y, t) ==
    IF FitsInline(t) THEN Destroy(ConstructFrom(w, x, y, t, "move"), y, t)
    ELSE [w EXCEPT !.h[x].ptr = w.h[y].ptr, !.h[y].ptr = "null"]

AnyMoveFrom(w, x, y) ==
    LET t == w.h[y].kind IN
    IF t = "none" THEN [w EXCEPT !.h[x].kind = t]
    ELSE [AnyMove(w, x, y, t) EXCEPT !.h[x].kind = t, !.h[y].kind = "none"]

AnyConstruct(w, x, t, how) ==
    IF t = "none" THEN Alive(w, x) ELSE Constructed(AnyEmplace(Alive(w, x), x, t, how), x)

AnyCopyConstruct(w, x, y) ==
    LET w1 == AnyCopy(Alive(w, x), x, y) IN
    IF w.h[y].kind = "none" THEN Alive(w, x)
    ELSE IF Failed(w1) THEN Constructed(w1, x) ELSE [w1 EXCEPT !.h[x].kind = w.h[y].kind]

\* Copy assignment makes a temporary and moves it in.
AnyAssign(w, x, y, how) ==
    LET w1 == AnyCopyConstruct(w, "copy", y)
        w2 == AnyMoveFrom(AnyReset(w1, x), x, "copy")
    IN CASE x = y -> w
         [] how = "move" -> AnyMoveFrom(AnyReset(w, x), x, y)
         [] Failed(w1) -> w1
         [] OTHER -> Ended(AnyReset(w2, "copy"), "copy")

\* TryCast() compares the type's identifier and gives the payload's address.
AnyTryCast(w, x, t) == IF w.h[x].kind = t THEN At(w, x) ELSE "null"
Read(w, at, t) == IF w.mem[at].type = t THEN w ELSE Fault(w, "no object to read")
AnyCast(w, x, t) ==
    LET ptr == AnyTryCast(w, x, t) IN IF ptr = "null" THEN Throw(w) ELSE Read(w, ptr, t)

\* A view has the address and the type; Visit() throws on an empty one.
MakeView(w, x) == [data |-> IF w.h[x].kind = "none" THEN "null" ELSE At(w, x), type |-> w.h[x].kind]
ViewCast(w, view, t) == IF view.type # t THEN Throw(w) ELSE Read(w, view.data, t)
AnyVisit(w, x) == IF w.h[x].kind = "none" THEN Throw(w) ELSE ViewCast(w, MakeView(w, x), w.h[x].kind)

-----------------------------------------------------------------------------
(* Callable.  kind is the type of its vtable; ptr is set with m_usingHeap. *)

\* VTableFor<T, IsHeap>: what is done with a target of type t.
VTableInvoke(w, ptr, t) == IF w.mem[ptr].type = t THEN w ELSE Fault(w, "no object to call")
VTableCopy(w, dest, src, t) == ConstructFrom(w, dest, src, t, "copy")
VTableMove(w, dest, src, t) == ConstructFrom(w, dest, src, t, "move")
VTableDestroy(w, ptr, t, isHeap) ==
    IF isHeap THEN Deallocate(Destroy(w, ptr, t), ptr) ELSE Destroy(w, ptr, t)

GetPtr(w, x) == IF w.h[x].ptr = "null" THEN x ELSE w.h[x].ptr

CallableReset(w, x) ==
    IF w.h[x].kind = "none" THEN w
    ELSE [VTableDestroy(w, GetPtr(w, x), w.h[x].kind, w.h[x].ptr # "null")
            EXCEPT !.h[x].kind = "none", !.h[x].ptr = "null"]

CallableInit(w, x, t, how) ==
    LET w1 == Allocate(w)
        at == IF FitsInline(t) THEN x ELSE Fresh(w)
        w2 == ConstructFrom(IF FitsInline(t) THEN w ELSE w1, at, "arg", t, how)
    IN CASE ~FitsInline(t) /\ Failed(w1) -> w1
         [] Failed(w2) -> IF FitsInline(t) THEN w2 ELSE Deallocate(w2, at)
         [] OTHER -> [w2 EXCEPT !.h[x].kind = t, !.h[x].ptr = IF FitsInline(t) THEN "null" ELSE at]

CallableCopyFrom(w, x, y) ==
    LET t == w.h[y].kind
        w1 == Allocate(w)
        at == IF w.h[y].ptr = "null" THEN x ELSE Fresh(w)
        w2 == VTableCopy(IF w.h[y].ptr = "null" THEN w ELSE w1, at, GetPtr(w, y), t)
    IN CASE t = "none" -> w
         [] ~IsCopyConstructible(t) -> Throw(w)
         [] w.h[y].ptr # "null" /\ Failed(w1) -> w1
         [] Failed(w2) -> IF at = x THEN w2 ELSE Deallocate(w2, at)
         [] OTHER -> [w2 EXCEPT !.h[x].kind = t, !.h[x].ptr = IF at = x THEN "null" ELSE at]

\* Mutant: the source of a heap target keeps it.
CallableMoveShared(w, x, y) ==
    LET t == w.h[y].kind
        w1 == IF w.h[y].ptr # "null" THEN w ELSE VTableDestroy(VTableMove(w, x, GetPtr(w, y), t), GetPtr(w, y), t, FALSE)
    IN IF t = "none" THEN w
       ELSE [w1 EXCEPT !.h[x].kind = t, !.h[x].ptr = w.h[y].ptr, !.h[y].kind = IF w.h[y].ptr # "null" THEN @ ELSE "none"]

CallableMoveFrom(w, x, y) ==
    LET t == w.h[y].kind
        w1 == IF w.h[y].ptr # "null" THEN w ELSE VTableDestroy(VTableMove(w, x, GetPtr(w, y), t), GetPtr(w, y), t, FALSE)
    IN IF t = "none" THEN w
       ELSE [w1 EXCEPT !.h[x].kind = t, !.h[x].ptr = w.h[y].ptr, !.h[y].kind = "none", !.h[y].ptr = "null"]

CallableSwap(w, x, y) ==
    LET w1 == CallableMoveFrom(Alive(w, "tmp"), "tmp", y)
        w2 == CallableMoveFrom(CallableReset(w1, y), y, x)
        w3 == CallableMoveFrom(CallableReset(w2, x), x, "tmp")
    IN CASE x = y -> w
         [] w.h[x].ptr # "null" /\ w.h[y].ptr # "null" ->
              [w EXCEPT !.h[x] = [@ EXCEPT !.kind = w.h[y].kind, !.ptr = w.h[y].ptr],
                        !.h[y] = [@ EXCEPT !.kind = w.h[x].kind, !.ptr = w.h[x].ptr]]
         [] OTHER -> Ended(CallableReset(w3, "tmp"), "tmp")

CallableConstruct(w, x, t, how) ==
    IF t = "none" THEN Alive(w, x) ELSE Constructed(CallableInit(Alive(w, x), x, t, how), x)

\* Copy assignment swaps with a temporary, which then holds what is to go.
CallableAssign(w, x, y, how) ==
    LET w1 == Constructed(CallableCopyFrom(Alive(w, "copy"), "copy", y), "copy") IN
    CASE x = y -> w
      [] how = "move" -> CallableMoveFrom(CallableReset(w, x), x, y)
      [] Failed(w1) -> w1
      [] OTHER -> Ended(CallableReset(CallableSwap(w1, x, "copy"), "copy"), "copy")

CallableEmplace(w, x, t, how) ==
    IF t = "none" THEN CallableReset(w, x) ELSE CallableInit(CallableReset(w, x), x, t, how)

\* operator() throws bad_function_call on an empty one.
CallableInvoke(w, x) ==
    IF w.h[x].kind = "none" THEN Throw(w) ELSE VTableInvoke(w, GetPtr(w, x), w.h[x].kind)

-----------------------------------------------------------------------------
(* WorkItem.  kind is "coroutine" or the type of the job.  "huge" jobs are *)
(* beyond the size classes of the pool.                                    *)

\* Blocks per slab: 64 in the code.
SlabBlocks == 2

Refill(w) ==
    LET slab == CHOOSE S \in SUBSET (Block \ w.heap) : Cardinality(S) = SlabBlocks IN
    IF w.refuses \/ Cardinality(Block \ w.heap) < SlabBlocks THEN Throw(w)
    ELSE [w EXCEPT !.heap = @ \cup slab, !.slabs = @ \cup slab, !.pool = @ \cup slab]

\* The block handed out, with the world after it.
JobPoolAllocate(w, t) ==
    LET w1 == IF w.pool = {} THEN Refill(w) ELSE w
        b == CHOOSE b \in w1.pool : TRUE
    IN IF t = "huge" THEN <<Fresh(w), Allocate(w)>>
       ELSE IF Failed(w1) THEN <<"null", w1>> ELSE <<b, [w1 EXCEPT !.pool = @ \ {b}]>>

JobPoolDeallocate(w, b, t) ==
    CASE t = "huge" -> IF b \in w.slabs THEN Fault(w, "freed a part of a slab") ELSE Deallocate(w, b)
      [] b \in w.pool \/ b \notin w.heap -> Fault(w, "freed twice")
      [] w.mem[b] # NoObject -> Fault(w, "freed alive")
      [] OTHER -> [w EXCEPT !.pool = @ \cup {b}]

\* A job whose constructor throws keeps its block from everyone.
JobInit(w, x, t, how) ==
    LET got == JobPoolAllocate(w, t)
        at == IF FitsInline(t) THEN x ELSE got[1]
        w1 == IF FitsInline(t) THEN w ELSE got[2]
        w2 == ConstructFrom(w1, at, "arg", t, how)
    IN CASE Failed(w1) -> w1
         [] Failed(w2) -> IF FitsInline(t) THEN w2 ELSE [w2 EXCEPT !.lost = @ \cup {at}]
         [] OTHER -> [w2 EXCEPT !.h[x].kind = t, !.h[x].ptr = IF FitsInline(t) THEN "null" ELSE at]

\* The functions of GetVTable<T, Heap>(): a heap job gives its block back, or hands it over.
JobInvoke(w, x, t) == IF w.mem[At(w, x)].type = t THEN w ELSE Fault(w, "no object to call")
JobDestroy(w, x, t) ==
    LET gone == Destroy(w, At(w, x), t) IN
    IF FitsInline(t) THEN gone ELSE JobPoolDeallocate(gone, w.h[x].ptr, t)
JobMove(w, x, y, t) ==
    IF FitsInline(t) THEN Destroy(ConstructFrom(w, x, y, t, "move"), y, t)
    ELSE [w EXCEPT !.h[x].ptr = w.h[y].ptr, !.h[y].ptr = "null"]

JobReset(w, x) == JobDestroy(w, x, w.h[x].kind)
JobMoveFrom(w, x, y) ==
    LET t == w.h[y].kind IN [JobMove(w, x, y, t) EXCEPT !.h[x].kind = t, !.h[y].kind = "none"]

WorkItemReset(w, x) ==
    [IF w.h[x].kind \in {"none", "coroutine"} THEN w ELSE JobReset(w, x) EXCEPT !.h[x].kind = "none", !.h[x].ptr = "null"]

\* An empty Callable is no job.
WorkItemConstruct(w, x, kind, how) ==
    CASE kind = "none" -> Throw(w)
      [] kind = "coroutine" -> [Alive(w, x) EXCEPT !.h[x].kind = kind]
      [] OTHER -> Constructed(JobInit(Alive(w, x), x, kind, how), x)

WorkItemMoveFrom(w, x, y) ==
    IF w.h[y].kind \in {"none", "coroutine"} THEN [w EXCEPT !.h[x].kind = w.h[y].kind, !.h[y].kind = "none"]
    ELSE JobMoveFrom(w, x, y)

WorkItemAssign(w, x, y) == IF x = y THEN w ELSE WorkItemMoveFrom(WorkItemReset(w, x), x, y)

WorkItemInvoke(w, x) ==
    IF w.h[x].kind \in {"none", "coroutine"} THEN w ELSE JobInvoke(w, x, w.h[x].kind)

-----------------------------------------------------------------------------
(* Scoped<T>: the object is always on the heap; raw is the pointer that    *)
(* Release() gave to the caller.                                           *)

AllocateObject(w, how) ==
    LET w1 == Allocate(w)
        w2 == ConstructFrom(w1, Fresh(w), "arg", w.T, how)
    IN IF Failed(w1) THEN w1 ELSE IF Failed(w2) THEN Deallocate(w2, Fresh(w)) ELSE w2

DeallocateObject(w, b) == IF b = "null" THEN w ELSE Deallocate(Destroy(w, b, w.T), b)

ScopedReset(w, x, newPtr) == [DeallocateObject(w, w.h[x].ptr) EXCEPT !.h[x].ptr = newPtr]
Owner(w, x) == [w EXCEPT !.h[x].kind = IF w.h[x].ptr = "null" THEN "none" ELSE "value"]

MakeScoped(w, x, kind, how) ==
    LET w1 == AllocateObject(w, how) IN
    IF kind = "none" THEN Alive(w, x)
    ELSE IF Failed(w1) THEN w1 ELSE Owner([Alive(w1, x) EXCEPT !.h[x].ptr = Fresh(w)], x)

ScopedMoveFrom(w, x, y) == Owner(Owner([w EXCEPT !.h[x].ptr = w.h[y].ptr, !.h[y].ptr = "null"], x), y)
ScopedAssign(w, x, y) == IF x = y THEN w ELSE ScopedMoveFrom(ScopedReset(w, x, "null"), x, y)
ScopedRelease(w, x) == Owner([w EXCEPT !.raw = w.h[x].ptr, !.h[x].ptr = "null"], x)
ScopedAdopt(w, x) == Owner([ScopedReset(w, x, w.raw) EXCEPT !.raw = "null"], x)
ScopedSwap(w, x, y) == Owner(Owner([w EXCEPT !.h[x].ptr = w.h[y].ptr, !.h[y].ptr = w.h[x].ptr], x), y)

-----------------------------------------------------------------------------
(* The operations of the classes, by what they are.                        *)

DoConstruct(w, x, kind, how) ==
    CASE cls = "Expected" -> ExpectedConstruct(w, x, kind, how)
      [] cls = "ExpectedVoid" -> VoidConstruct(w, x, kind, how)
      [] cls = "Optional" -> OptionalConstruct(w, x, kind, how)
      [] cls = "Any" -> AnyConstruct(w, x, kind, how)
      [] cls = "Callable" -> CallableConstruct(w, x, kind, how)
      [] cls = "WorkItem" -> WorkItemConstruct(w, x, kind, how)
      [] OTHER -> MakeScoped(w, x, kind, how)

DoCopyMove(w, x, y, how) ==
    CASE cls = "Expected" -> ExpectedCopyMove(w, x, y, how)
      [] cls = "ExpectedVoid" -> VoidCopyMove(w, x, y, how)
      [] cls = "Optional" -> OptionalCopyMove(w, x, y, how)
      [] cls = "Any" -> IF how = "copy" THEN AnyCopyConstruct(w, x, y) ELSE AnyMoveFrom(Alive(w, x), x, y)
      [] cls = "Callable" -> IF how = "copy" THEN Constructed(CallableCopyFrom(Alive(w, x), x, y), x)
                             ELSE CallableMoveFrom(Alive(w, x), x, y)
      [] cls = "WorkItem" -> WorkItemMoveFrom(Alive(w, x), x, y)
      [] OTHER -> ScopedMoveFrom(Alive(w, x), x, y)

DoAssign(w, x, y, how) ==
    CASE cls = "Expected" -> ExpectedAssign(w, x, y, how)
      [] cls = "ExpectedVoid" -> VoidAssign(w, x, y, how)
      [] cls = "Optional" -> OptionalAssign(w, x, y, how)
      [] cls = "Any" -> AnyAssign(w, x, y, how)
      [] cls = "Callable" -> CallableAssign(w, x, y, how)
      [] cls = "WorkItem" -> WorkItemAssign(w, x, y)
      [] OTHER -> ScopedAssign(w, x, y)

DoEmplace(w, x, kind, how) ==
    CASE cls = "Expected" -> ExpectedEmplace(w, x, kind, how)
      [] cls = "ExpectedVoid" -> VoidEmplace(w, x, kind, how)
      [] cls = "Optional" -> IF kind = "none" THEN OptionalReset(w, x) ELSE OptionalEmplace(w, x, how)
      [] cls = "Any" -> IF kind = "none" THEN AnyReset(w, x) ELSE AnyEmplace(w, x, kind, how)
      [] OTHER -> CallableEmplace(w, x, kind, how)

DoSwap(w, x, y) ==
    CASE cls = "Expected" -> ExpectedSwap(w, x, y)
      [] cls = "ExpectedVoid" -> VoidSwap(w, x, y)
      [] cls = "Optional" -> OptionalSwap(w, x, y)
      [] cls = "Callable" -> CallableSwap(w, x, y)
      [] OTHER -> ScopedSwap(w, x, y)

DoDestroy(w, x) ==
    CASE cls = "Expected" -> ExpectedDestructor(w, x)
      [] cls = "ExpectedVoid" -> VoidDestroyActive(w, x)
      [] cls = "Optional" -> OptionalReset(w, x)
      [] cls = "Any" -> AnyReset(w, x)
      [] cls = "Callable" -> CallableReset(w, x)
      [] cls = "WorkItem" -> WorkItemReset(w, x)
      [] OTHER -> ScopedReset(w, x, "null")

DoTake(w, x, kind) ==
    CASE cls = "Expected" -> ExpectedTake(w, x, kind)
      [] cls = "ExpectedVoid" -> VoidTake(w, x, kind)
      [] cls = "Optional" -> OptionalTake(w, x)
      [] cls = "Any" -> IF kind = "none" THEN AnyVisit(w, x) ELSE AnyCast(w, x, kind)
      [] cls = "Callable" -> CallableInvoke(w, x)
      [] OTHER -> WorkItemInvoke(w, x)

DoOr(w, x, kind) ==
    CASE cls = "Expected" -> ExpectedOr(w, x, kind)
      [] cls = "ExpectedVoid" -> VoidOr(w, x)
      [] OTHER -> OptionalOr(w, x)

DoChain(w, op, x, y, how, kind) ==
    CASE op = "Transform" -> IF cls = "Expected" THEN ExpectedTransform(w, x, y, how) ELSE VoidTransform(w, x, y, how)
      [] op = "AndThen" -> IF cls = "Expected" THEN ExpectedAndThen(w, x, y, how, kind) ELSE VoidAndThen(w, x, y, how, kind)
      [] op = "OrElse" -> IF cls = "Expected" THEN ExpectedOrElse(w, x, y, how, kind) ELSE VoidOrElse(w, x, y, how, kind)
      [] OTHER -> IF cls = "Expected" THEN ExpectedTransformError(w, x, y, how) ELSE VoidTransformError(w, x, y, how)

-----------------------------------------------------------------------------
(* The behaviours, next to what a value type promises (ref).               *)

Nothing == <<"none", "none">>
Erased == {"Any", "Callable", "WorkItem", "Scoped"}
Kinds == CASE cls \in {"Expected", "ExpectedVoid"} -> {"value", "error"}
           [] cls \in {"Optional", "Scoped"} -> {"value", "none"}
           [] cls = "WorkItem" -> PayloadTypes[cls] \cup {"none", "coroutine"}
           [] OTHER -> PayloadTypes[cls] \cup {"none"}
\* The type of the payload a kind stands for; "none" if there is none.
PayloadOf(kind) ==
    CASE kind \in {"none", "coroutine"} \/ (cls = "ExpectedVoid" /\ kind = "value") -> "none"
      [] kind = "error" -> world.E
      [] kind = "value" -> world.T
      [] OTHER -> kind
Copies == IF cls \in {"WorkItem", "Scoped"} THEN {"move"} ELSE {"copy", "move"}
CanCopy(kind) == PayloadOf(kind) = "none" \/ IsCopyConstructible(PayloadOf(kind))
\* Copying a payload that cannot be copied compiles only where it is erased.
Offered(how) == how = "move" \/ cls \in Erased \/ (IsCopyConstructible(world.E) /\ (cls = "ExpectedVoid" \/ IsCopyConstructible(world.T)))

\* The value of a holder, read through its storage.
ValueOf(w, x) ==
    LET kind == w.h[x].kind
        at == IF cls = "Scoped" THEN w.h[x].ptr ELSE IF cls \in Erased THEN At(w, x) ELSE x
    IN IF PayloadOf(kind) = "none" THEN <<kind, "none">> ELSE <<kind, w.mem[at].val>>

\* What is left of a value that was moved away.
Left(v) ==
    CASE cls \in Erased -> Nothing
      [] PayloadOf(v[1]) = "none" \/ IsTrivial(PayloadOf(v[1])) -> v
      [] OTHER -> <<v[1], "moved">>
Given(kind, v) == IF PayloadOf(kind) = "none" THEN <<kind, "none">> ELSE <<kind, v>>

Init ==
    /\ cls \in Classes
    /\ \E t, e \in IF cls \in {"Any", "Callable", "WorkItem"} THEN {"none"} ELSE PayloadTypes[cls] :
         world = [mem |-> [p \in Place |-> NoObject], heap |-> {}, pool |-> {}, slabs |-> {}, lost |-> {},
                  h |-> [x \in Slot \cup {"tmp"} |-> NoHolder], raw |-> "null",
                  T |-> t, E |-> IF cls \in {"Expected", "ExpectedVoid"} THEN e ELSE t,
                  throws |-> FALSE, refuses |-> FALSE, status |-> "ok", faults |-> {}]
    /\ ref = [x \in Holder |-> Nothing]
    /\ doomed = FALSE
    /\ steps = 0

\* The caller's argument, and whether a constructor or the allocator fails this time.
Begin(t, v, throws, refuses) ==
    [world EXCEPT !.mem["arg"] = IF t = "none" THEN NoObject ELSE Object(t, v), !.throws = throws, !.refuses = refuses]

\* The operation is over: temporaries are gone, the caller destroys its argument.
Finish(w) ==
    LET left == {p \in {"tmp"} \cup {x \in Slot : ~w.h[x].alive} : w.mem[p] # NoObject /\ ~IsTrivial(w.mem[p].type)}
    IN [IF left = {} THEN w ELSE Fault(w, "left alive")
          EXCEPT !.mem = [p \in Place |-> IF p \in {"arg", "tmp"} \cup {x \in Slot : ~w.h[x].alive} THEN NoObject ELSE w.mem[p]],
                 !.status = IF w.status = "aborted" THEN "aborted" ELSE "ok", !.throws = FALSE, !.refuses = FALSE]

\* An operation that returns has the promised effect; one that throws has one of the others.
Perform(w, promised, thrown, undefined) ==
    /\ steps < MaxOps[cls]
    /\ steps' = steps + 1
    /\ doomed' = undefined
    /\ world' = Finish(w)
    /\ ref' = IF w.status = "aborted" THEN ref
              ELSE IF w.status = "threw" THEN IF \E r \in thrown : \A x \in Holder : w.h[x].alive => ValueOf(w, x) = r[x]
                                              THEN CHOOSE r \in thrown : \A x \in Holder : w.h[x].alive => ValueOf(w, x) = r[x]
                                              ELSE ref
              ELSE promised
    /\ UNCHANGED cls

Running == world.status = "ok" /\ world.faults = {}
IsAlive(x) == world.h[x].alive

\* An engaged Optional without an object, which an assignment left that destroyed the
\* old one and whose constructor threw (Optional.hpp:151 and :203).
Hollow(x) == cls = "Optional" /\ ref[x] = <<"value", "none">>
\* A heap payload that cannot be copied: the block that was to hold the copy is freed
\* twice (Any.hpp:191 and :196).
FreedTwice(y, how, refuses) == cls = "Any" /\ how = "copy" /\ ref[y][1] = "bigUnique" /\ ~refuses

New(x, kind, how, v, throws, refuses) ==
    /\ Running /\ ~IsAlive(x) /\ kind \in Kinds
    /\ how = "copy" => CanCopy(kind)
    /\ Perform(DoConstruct(Begin(PayloadOf(kind), v, throws, refuses), x, kind, how),
               [ref EXCEPT ![x] = Given(kind, v)], {ref}, FALSE)

NewFrom(x, y, how, throws, refuses) ==
    /\ Running /\ ~IsAlive(x) /\ IsAlive(y) /\ how \in Copies /\ Offered(how)
    /\ Perform(DoCopyMove(Begin("none", "none", throws, refuses), x, y, how),
               [ref EXCEPT ![x] = ref[y], ![y] = IF how = "move" THEN Left(@) ELSE @], {ref},
               Hollow(y) \/ FreedTwice(y, how, refuses))

Assign(x, y, how, throws, refuses) ==
    /\ Running /\ IsAlive(x) /\ IsAlive(y) /\ how \in Copies /\ Offered(how)
    /\ Perform(DoAssign(Begin("none", "none", throws, refuses), x, y, how),
               IF x = y THEN ref ELSE [ref EXCEPT ![x] = ref[y], ![y] = IF how = "move" THEN Left(@) ELSE @],
               {IF cls = "Optional" /\ ref[x][1] = "value" /\ ~IsAssignable(world.T)
                THEN [ref EXCEPT ![x] = <<"value", "none">>] ELSE ref},
               x # y /\ (Hollow(x) \/ Hollow(y) \/ FreedTwice(y, how, refuses)))

Emplace(x, kind, how, v, throws, refuses) ==
    /\ Running /\ IsAlive(x) /\ kind \in Kinds /\ cls \notin {"WorkItem", "Scoped"}
    /\ how = "copy" => CanCopy(kind)
    /\ Perform(DoEmplace(Begin(PayloadOf(kind), v, throws, refuses), x, kind, how),
               [ref EXCEPT ![x] = Given(kind, v)], {[ref EXCEPT ![x] = Nothing]}, Hollow(x))

Swap(x, y) ==
    /\ Running /\ IsAlive(x) /\ IsAlive(y) /\ cls \notin {"Any", "WorkItem"}
    /\ cls = "Optional" => IsAssignable(world.T)
    /\ Perform(DoSwap(world, x, y), [ref EXCEPT ![x] = ref[y], ![y] = ref[x]], {}, FALSE)

Destruct(x) ==
    /\ Running /\ IsAlive(x)
    /\ Perform(Ended(DoDestroy(world, x), x), [ref EXCEPT ![x] = Nothing], {}, Hollow(x))

\* Checked accessors; the payload of an rvalue Expected moves out, an Any is cast, a callable is called.
Take(x, kind) ==
    /\ Running /\ IsAlive(x) /\ cls # "Scoped" /\ kind \in Kinds
    /\ Perform(DoTake(world, x, kind),
               IF cls \in {"Expected", "ExpectedVoid"} THEN [ref EXCEPT ![x] = Left(@)] ELSE ref, {ref}, Hollow(x))

ValueOr(x, kind, v) ==
    /\ Running /\ IsAlive(x) /\ cls \in {"Expected", "ExpectedVoid", "Optional"}
    /\ kind \in (CASE cls = "Optional" -> {"value"} [] cls = "ExpectedVoid" -> {"error"} [] OTHER -> Kinds)
    /\ Perform(DoOr(Begin(PayloadOf(kind), v, FALSE, FALSE), x, kind),
               IF ref[x][1] = kind THEN [ref EXCEPT ![x] = Left(@)] ELSE ref, {}, Hollow(x))

\* Transform, AndThen, OrElse and TransformError return a new Expected.
Chain(op, x, y, how, kind, throws) ==
    /\ Running /\ IsAlive(x) /\ ~IsAlive(y) /\ cls \in {"Expected", "ExpectedVoid"} /\ kind \in Kinds /\ Offered(how)
    /\ op \in {"Transform", "TransformError"} => kind = "value"
    /\ LET hit == (op \in {"Transform", "AndThen"}) = (ref[x][1] = "value")
           made == CASE op = "Transform" -> "value" [] op = "TransformError" -> "error" [] OTHER -> kind
           arg == IF PayloadOf(ref[x][1]) = "none" THEN "1" ELSE Fn(ref[x][2])
       IN Perform(DoChain(Begin("none", "none", throws, FALSE), op, x, y, how, kind),
                  [ref EXCEPT ![y] = IF hit THEN Given(made, arg) ELSE ref[x],
                              ![x] = IF how = "move" THEN Left(@) ELSE @], {ref}, FALSE)

Release(x) ==
    /\ Running /\ IsAlive(x) /\ cls = "Scoped" /\ world.raw = "null"
    /\ Perform(ScopedRelease(world, x), [ref EXCEPT ![x] = Nothing], {}, FALSE)
Adopt(x) ==
    /\ Running /\ IsAlive(x) /\ cls = "Scoped" /\ world.raw # "null"
    /\ Perform(ScopedAdopt(world, x), [ref EXCEPT ![x] = <<"value", world.mem[world.raw].val>>], {}, FALSE)

Next ==
    \/ \E x \in Holder, how \in {"copy", "move"}, throws, refuses \in BOOLEAN :
         \/ \E v \in Values, kind \in Kinds : New(x, kind, how, v, throws, refuses) \/ Emplace(x, kind, how, v, throws, refuses)
         \/ \E y \in Holder : NewFrom(x, y, how, throws, refuses) \/ Assign(x, y, how, throws, refuses)
    \/ \E x, y \in Holder : Swap(x, y)
    \/ \E x \in Holder, kind \in Kinds : Take(x, kind) \/ \E v \in Values : ValueOr(x, kind, v)
    \/ \E op \in {"Transform", "AndThen", "OrElse", "TransformError"}, x, y \in Holder, how \in {"copy", "move"},
          kind \in Kinds, throws \in BOOLEAN : Chain(op, x, y, how, kind, throws)
    \/ \E x \in Holder : Destruct(x) \/ Release(x) \/ Adopt(x)

Spec == Init /\ [][Next]_vars

-----------------------------------------------------------------------------

\* Whatever copies and allocations fail (a move does not), an object is destroyed
\* once, not built over and not used before or after its life, and a block is freed
\* once -- with two exceptions, and in these always: an Optional of a type that cannot
\* be assigned stays engaged without an object when the constructor in its copy
\* assignment throws, and whatever uses it next, its destructor too, is undefined
\* (Hollow); and copying an Any whose heap payload cannot be copied frees a block
\* twice (FreedTwice).  Nothing is lost: what is on the heap has one owner, except
\* the blocks a throwing job keeps (WorkItem.hpp:363).  And the holder is a value:
\* after any sequence of constructions, assignments (to itself, too), moves, swaps
\* and failures it holds what the sequence says.
HoldersExact ==
    /\ world.faults # {} <=> doomed
    /\ Running =>
         /\ ({world.h[x].ptr : x \in Holder} \cup {world.raw}) \ {"null"} = world.heap \ (world.pool \cup world.lost)
         /\ \A x \in Holder : IsAlive(x) => ValueOf(world, x) = ref[x]
         /\ world.h["a"].ptr = world.h["b"].ptr => world.h["a"].ptr = "null"
=============================================================================
