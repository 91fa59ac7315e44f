-------------------------------- MODULE Simd --------------------------------
(***************************************************************************)
(* NGIN::SIMD: vectors and masks over the SSE2, AVX2 and NEON backends, as *)
(* their structures in BackendTraits.hpp spell them, next to the ScalarTag *)
(* reference.  A lane is the set of its one bits, a mask the set of its    *)
(* true lanes.  A float has a sign bit, one exponent bit and fraction      *)
(* bits, which gives zeros, subnormals, infinities and NaNs.  A machine    *)
(* holds two vectors, a mask and an array, and knows which elements of the *)
(* array the last operation has accessed; a twin does with the scalar      *)
(* reference whatever the machine does with its backend.  Floating-point   *)
(* arithmetic is left out: one IEEE operation on every side, but for Fma,  *)
(* which rounds once on AVX2 with FMA and on NEON and twice elsewhere.     *)
(***************************************************************************)
EXTENDS Integers, FiniteSets, FiniteSetsExt

CONSTANTS Lanes,        \* native_lanes, even
          Width,        \* bits of a lane
          Cells,        \* elements of memory that can be accessed
          ScanMin,      \* kSimdScanMinBytes
          Tags,         \* <<backend, element type>> pairs
          Operands,     \* initial pairs of vectors
          MaxSteps      \* operations in a behaviour

VARIABLES tag,          \* backend and element type of Vec<T, Backend>
          vec,          \* the machine: a, b, mask, memory, found, reach
          ref,          \* its twin on BackendTraits<ScalarTag, T>
          apart,        \* the places in which they must differ
          steps
vars == <<tag, vec, ref, apart, steps>>

Lane == 0..(Lanes - 1)
Bit == 0..(Width - 1)
Pattern == SUBSET Bit
Sign == Width - 1
\* Bit i of a number, also of a negative one in two's complement.
BitOf(n, i) == (n \div 2^i) % 2 = 1
Unsigned(x) == CHOOSE n \in 0..(2^Width - 1) : \A i \in Bit : BitOf(n, i) <=> i \in x
Signed(x) == Unsigned(x) - (IF Sign \in x THEN 2^Width ELSE 0)
Wrap(n) == {i \in Bit : BitOf(n, i)}
IsFloat(type) == type \in {"float", "double"}

\* Floating-point patterns: the magnitude bits order the finite values.
Exponent == Width - 2
IsNaN(x) == Exponent \in x /\ x \ {Sign, Exponent} # {}
Magnitude(x) == Unsigned(x \ {Sign})
Real(x) == IF Sign \in x THEN -Magnitude(x) ELSE Magnitude(x)
FloatLess(x, y) == ~IsNaN(x) /\ ~IsNaN(y) /\ Real(x) < Real(y)
FloatEqual(x, y) == ~IsNaN(x) /\ ~IsNaN(y) /\ Real(x) = Real(y)

\* The C++ operators < and == on an element type.
Less(type, x, y) ==
    IF IsFloat(type) THEN FloatLess(x, y)
    ELSE IF type = "uint8" THEN Unsigned(x) < Unsigned(y) ELSE Signed(x) < Signed(y)
Equal(type, x, y) == IF IsFloat(type) THEN FloatEqual(x, y) ELSE x = y

----------------------------------------------------------------------------
\* Instructions.
Xor(x, y) == (x \union y) \ (x \intersect y)
AndI(a, b) == [l \in Lane |-> a[l] \intersect b[l]]
OrI(a, b) == [l \in Lane |-> a[l] \union b[l]]
XorI(a, b) == [l \in Lane |-> Xor(a[l], b[l])]
AndNotI(a, b) == [l \in Lane |-> b[l] \ a[l]]
NotI(a) == [l \in Lane |-> Bit \ a[l]]
Set1(x) == [l \in Lane |-> x]
AddI(a, b) == [l \in Lane |-> Wrap(Unsigned(a[l]) + Unsigned(b[l]))]
SubI(a, b) == [l \in Lane |-> Wrap(Unsigned(a[l]) - Unsigned(b[l]))]
MulI(a, b) == [l \in Lane |-> Wrap(Unsigned(a[l]) * Unsigned(b[l]))]
Ones(test) == [l \in Lane |-> IF test[l] THEN Bit ELSE {}]
CmpEqI(a, b) == Ones([l \in Lane |-> a[l] = b[l]])
CmpGtS(a, b) == Ones([l \in Lane |-> Signed(a[l]) > Signed(b[l])])
CmpGtU(a, b) == Ones([l \in Lane |-> Unsigned(a[l]) > Unsigned(b[l])])
CmpF(op, a, b) ==
    Ones([l \in Lane |-> CASE op = "Eq" -> FloatEqual(a[l], b[l])
                           [] op = "Lt" -> FloatLess(a[l], b[l])
                           [] op = "Le" -> FloatLess(a[l], b[l]) \/ FloatEqual(a[l], b[l])
                           [] op = "Gt" -> FloatLess(b[l], a[l])
                           [] op = "Ge" -> FloatLess(b[l], a[l]) \/ FloatEqual(a[l], b[l])])
MinX86(a, b) == [l \in Lane |-> IF FloatLess(a[l], b[l]) THEN a[l] ELSE b[l]]
MaxX86(a, b) == [l \in Lane |-> IF FloatLess(b[l], a[l]) THEN a[l] ELSE b[l]]
\* A NaN wins, the first of two; the zeros are ordered by their signs.
MinNeon(a, b) ==
    [l \in Lane |-> IF IsNaN(a[l]) \/ FloatLess(a[l], b[l]) \/ (FloatEqual(a[l], b[l]) /\ Sign \in a[l]) THEN a[l] ELSE b[l]]
MaxNeon(a, b) ==
    [l \in Lane |-> IF IsNaN(a[l]) \/ FloatLess(b[l], a[l]) \/ (FloatEqual(a[l], b[l]) /\ Sign \notin a[l]) THEN a[l] ELSE b[l]]
MoveMask(a) == {l \in Lane : Sign \in a[l]}

----------------------------------------------------------------------------
(***************************************************************************)
(* BackendTraits<ScalarTag, T>::Ops, which every other structure inherits. *)
(***************************************************************************)
ScalarBitwise(op, a, b) ==
    [l \in Lane |-> CASE op = "And" -> a[l] \intersect b[l]
                      [] op = "Or" -> a[l] \union b[l]
                      [] op = "Xor" -> Xor(a[l], b[l])
                      [] op = "AndNot" -> a[l] \intersect (Bit \ b[l])]
ScalarArithmetic(type, op, a, b) ==
    [l \in Lane |-> CASE op = "Add" -> Wrap(Unsigned(a[l]) + Unsigned(b[l]))
                      [] op = "Sub" -> Wrap(Unsigned(a[l]) - Unsigned(b[l]))
                      [] op = "Mul" -> Wrap(Unsigned(a[l]) * Unsigned(b[l]))]
ScalarMinMax(type, op, a, b) ==
    [l \in Lane |-> CASE op = "Min" -> IF Less(type, b[l], a[l]) THEN b[l] ELSE a[l]
                      [] op = "Max" -> IF Less(type, a[l], b[l]) THEN b[l] ELSE a[l]
                      [] op = "Abs" -> IF type = "uint8" \/ ~Less(type, a[l], {}) THEN a[l]
                                       ELSE IF IsFloat(type) THEN Xor(a[l], {Sign}) ELSE Wrap(-Signed(a[l]))]
Bitwise == {"And", "Or", "Xor", "AndNot"}
Arithmetic == {"Add", "Sub", "Mul"}
MinMax == {"Min", "Max", "Abs"}
ScalarValues(type, op, a, b) ==
    IF op \in Bitwise THEN ScalarBitwise(op, a, b)
    ELSE IF op \in Arithmetic THEN ScalarArithmetic(type, op, a, b) ELSE ScalarMinMax(type, op, a, b)

Shl(a, amount) == [l \in Lane |-> {i + amount : i \in a[l]} \intersect Bit]
Shr(type, a, amount) ==
    [l \in Lane |-> {i \in Bit : i + amount \in a[l] \/ (type # "uint8" /\ Sign \in a[l] /\ i + amount > Sign)}]
ReduceAdd(a) == Wrap(MapThenSumSet(LAMBDA l : Unsigned(a[l]), Lane))
Reduce(type, op, a) ==
    LET go[l \in Lane] ==
            IF l = 0 THEN a[0]
            ELSE LET so == go[l - 1]
                 IN  IF IF op = "Min" THEN Less(type, a[l], so) ELSE Less(type, so, a[l]) THEN a[l] ELSE so
    IN  go[Lanes - 1]

ScalarCompare(type, op, a, b) ==
    {l \in Lane : CASE op = "Eq" -> Equal(type, a[l], b[l])
                    [] op = "Ne" -> ~Equal(type, a[l], b[l])
                    [] op = "Lt" -> Less(type, a[l], b[l])
                    [] op = "Le" -> Less(type, a[l], b[l]) \/ Equal(type, a[l], b[l])
                    [] op = "Gt" -> Less(type, b[l], a[l])
                    [] op = "Ge" -> Less(type, b[l], a[l]) \/ Equal(type, a[l], b[l])}
ScalarMask(op, m, n) ==
    CASE op = "MaskNot" -> Lane \ m
      [] op = "MaskAnd" -> m \intersect n
      [] op = "MaskOr" -> m \union n
      [] op = "MaskXor" -> Xor(m, n)
ScalarAny(m) == \E l \in Lane : l \in m
ScalarAll(m) == \A l \in Lane : l \in m

Load(memory, p) == [l \in Lane |-> memory[p + l]]
Store(memory, p, a) == [i \in DOMAIN memory |-> IF i - p \in Lane THEN a[i - p] ELSE memory[i]]
ScalarLoadMasked(memory, p, mask, fill) == [l \in Lane |-> IF l \in mask THEN memory[p + l] ELSE fill]
ScalarStoreMasked(memory, p, mask, a) == [i \in DOMAIN memory |-> IF i - p \in mask THEN a[i - p] ELSE memory[i]]
ScalarGather(memory, index, mask, fill) == [l \in Lane |-> IF l \in mask THEN memory[index[l]] ELSE fill]
\* The lanes store in order: the last one to name an element wins.
Scatter(memory, index, mask, a) ==
    [i \in DOMAIN memory |-> LET writers == {l \in mask : index[l] = i}
                             IN  IF writers = {} THEN memory[i] ELSE a[Max(writers)]]

----------------------------------------------------------------------------
(***************************************************************************)
(* BackendTraits<SSE2Tag, T>::Ops<native_lanes>.  MakeMask spreads a mask  *)
(* over whole lanes, _mm_movemask reads the sign bits back.                *)
(***************************************************************************)
MakeMask(m) == [l \in Lane |-> IF l \in m THEN Bit ELSE {}]
Blend(m, yes, no) == OrI(AndI(m, yes), AndNotI(m, no))
\* Mutant: the top bit is left as it is.
FlipKept(a) == a
Flip(a) == XorI(a, Set1({Sign}))

Sse2Int32Values(op, a, b) ==
    CASE op = "Add" -> AddI(a, b)
      [] op = "Sub" -> SubI(a, b)
      [] op = "And" -> AndI(a, b)
      [] op = "Or" -> OrI(a, b)
      [] op = "Xor" -> XorI(a, b)
      [] op = "AndNot" -> AndNotI(b, a)
      [] OTHER -> ScalarValues("int32", op, a, b)
Sse2Int32Compare(op, a, b) ==
    CASE op = "Eq" -> MoveMask(CmpEqI(a, b))
      [] op = "Lt" -> MoveMask(CmpGtS(b, a))
      [] op = "Le" -> MoveMask(OrI(CmpGtS(b, a), CmpEqI(a, b)))
      [] op = "Gt" -> MoveMask(CmpGtS(a, b))
      [] op = "Ge" -> MoveMask(OrI(CmpGtS(a, b), CmpEqI(a, b)))
      [] OTHER -> ScalarCompare("int32", op, a, b)
Sse2Int32Mask(op, m, n) ==
    CASE op = "MaskNot" -> MoveMask(XorI(MakeMask(m), Set1(Bit)))
      [] op = "MaskAnd" -> MoveMask(AndI(MakeMask(m), MakeMask(n)))
      [] op = "MaskOr" -> MoveMask(OrI(MakeMask(m), MakeMask(n)))
      [] op = "MaskXor" -> MoveMask(XorI(MakeMask(m), MakeMask(n)))

Sse2Uint8Values(op, a, b) ==
    CASE op = "And" -> AndI(a, b)
      [] op = "Or" -> OrI(a, b)
      [] op = "Xor" -> XorI(a, b)
      [] op = "AndNot" -> AndNotI(b, a)
      [] OTHER -> ScalarValues("uint8", op, a, b)
\* Only signed comparisons exist: flipping the top bit orders unsigned bytes.
Sse2Uint8Compare(op, a, b) ==
    CASE op = "Eq" -> MoveMask(CmpEqI(a, b))
      [] op = "Lt" -> MoveMask(CmpGtS(Flip(b), Flip(a)))
      [] op = "Le" -> MoveMask(OrI(CmpEqI(a, b), CmpGtS(Flip(b), Flip(a))))
      [] op = "Gt" -> MoveMask(CmpGtS(Flip(a), Flip(b)))
      [] op = "Ge" -> MoveMask(OrI(CmpEqI(a, b), CmpGtS(Flip(a), Flip(b))))
      [] OTHER -> ScalarCompare("uint8", op, a, b)

Sse2Int8Values(op, a, b) ==
    CASE op = "And" -> AndI(a, b)
      [] op = "Or" -> OrI(a, b)
      [] op = "Xor" -> XorI(a, b)
      [] op = "AndNot" -> AndNotI(b, a)
      [] OTHER -> ScalarValues("int8", op, a, b)
Sse2Int8Compare(op, a, b) ==
    CASE op = "Eq" -> MoveMask(CmpEqI(a, b))
      [] op = "Lt" -> MoveMask(CmpGtS(b, a))
      [] op = "Le" -> MoveMask(OrI(CmpEqI(a, b), CmpGtS(b, a)))
      [] op = "Gt" -> MoveMask(CmpGtS(a, b))
      [] op = "Ge" -> MoveMask(OrI(CmpEqI(a, b), CmpGtS(a, b)))
      [] OTHER -> ScalarCompare("int8", op, a, b)

Sse2FloatLoadMasked(memory, p, mask, fill) == Blend(MakeMask(mask), Load(memory, p), Set1(fill))
Sse2FloatStoreMasked(memory, p, mask, a) == Store(memory, p, Blend(MakeMask(mask), a, Load(memory, p)))
Sse2FloatValues(op, a, b) ==
    CASE op = "Min" -> MinX86(a, b)
      [] op = "Max" -> MaxX86(a, b)
      [] op = "Abs" -> AndI(a, Set1(Bit \ {Sign}))
      [] op = "And" -> AndI(a, b)
      [] op = "Or" -> OrI(a, b)
      [] op = "Xor" -> XorI(a, b)
      [] op = "AndNot" -> AndNotI(b, a)
Sse2FloatCompare(op, a, b) == IF op = "Ne" THEN ScalarCompare("float", op, a, b) ELSE MoveMask(CmpF(op, a, b))
Sse2FloatMask(op, m, n) ==
    CASE op = "MaskNot" -> MoveMask(XorI(MakeMask(m), Set1(Bit)))
      [] op = "MaskAnd" -> MoveMask(AndI(MakeMask(m), MakeMask(n)))
      [] op = "MaskOr" -> MoveMask(OrI(MakeMask(m), MakeMask(n)))
      [] op = "MaskXor" -> MoveMask(XorI(MakeMask(m), MakeMask(n)))
Sse2FloatAny(m) == MoveMask(MakeMask(m)) # {}
Sse2FloatAll(m) == MoveMask(MakeMask(m)) = Lane

Sse2DoubleLoadMasked(memory, p, mask, fill) == Blend(MakeMask(mask), Load(memory, p), Set1(fill))
Sse2DoubleStoreMasked(memory, p, mask, a) == Store(memory, p, Blend(MakeMask(mask), a, Load(memory, p)))
Sse2DoubleValues(op, a, b) ==
    CASE op = "Min" -> MinX86(a, b)
      [] op = "Max" -> MaxX86(a, b)
      [] op = "Abs" -> AndI(a, Set1(Bit \ {Sign}))
      [] OTHER -> ScalarValues("double", op, a, b)
Sse2DoubleCompare(op, a, b) == IF op = "Ne" THEN ScalarCompare("double", op, a, b) ELSE MoveMask(CmpF(op, a, b))
Sse2DoubleMask(op, m, n) ==
    CASE op = "MaskNot" -> MoveMask(XorI(MakeMask(m), Set1(Bit)))
      [] op = "MaskAnd" -> MoveMask(AndI(MakeMask(m), MakeMask(n)))
      [] op = "MaskOr" -> MoveMask(OrI(MakeMask(m), MakeMask(n)))
      [] op = "MaskXor" -> MoveMask(XorI(MakeMask(m), MakeMask(n)))

----------------------------------------------------------------------------
(***************************************************************************)
(* BackendTraits<AVX2Tag, T>::Ops<native_lanes>: the order comparisons     *)
(* have only "greater than".                                               *)
(***************************************************************************)
Avx2Uint8Values(op, a, b) ==
    CASE op = "And" -> AndI(a, b)
      [] op = "Or" -> OrI(a, b)
      [] op = "Xor" -> XorI(a, b)
      [] op = "AndNot" -> AndNotI(b, a)
      [] OTHER -> ScalarValues("uint8", op, a, b)
Avx2Uint8Compare(op, a, b) ==
    CASE op = "Eq" -> MoveMask(CmpEqI(a, b))
      [] op = "Lt" -> MoveMask(CmpGtS(Flip(b), Flip(a)))
      [] op = "Le" -> MoveMask(OrI(CmpEqI(a, b), CmpGtS(Flip(b), Flip(a))))
      [] op = "Gt" -> MoveMask(CmpGtS(Flip(a), Flip(b)))
      [] op = "Ge" -> MoveMask(OrI(CmpEqI(a, b), CmpGtS(Flip(a), Flip(b))))
      [] OTHER -> ScalarCompare("uint8", op, a, b)

Avx2Int8Values(op, a, b) ==
    CASE op = "And" -> AndI(a, b)
      [] op = "Or" -> OrI(a, b)
      [] op = "Xor" -> XorI(a, b)
      [] op = "AndNot" -> AndNotI(b, a)
      [] OTHER -> ScalarValues("int8", op, a, b)
Avx2Int8Compare(op, a, b) ==
    CASE op = "Eq" -> MoveMask(CmpEqI(a, b))
      [] op = "Lt" -> MoveMask(CmpGtS(b, a))
      [] op = "Le" -> MoveMask(OrI(CmpEqI(a, b), CmpGtS(b, a)))
      [] op = "Gt" -> MoveMask(CmpGtS(a, b))
      [] op = "Ge" -> MoveMask(OrI(CmpEqI(a, b), CmpGtS(a, b)))
      [] OTHER -> ScalarCompare("int8", op, a, b)

Avx2FloatLoadMasked(memory, p, mask, fill) == Blend(MakeMask(mask), Load(memory, p), Set1(fill))
Avx2FloatStoreMasked(memory, p, mask, a) == Store(memory, p, Blend(MakeMask(mask), a, Load(memory, p)))
\* The gather instruction tests the sign bit of each mask lane.
Avx2FloatGather(memory, index, mask, fill) ==
    [l \in Lane |-> IF Sign \in MakeMask(mask)[l] THEN memory[index[l]] ELSE fill]
Avx2FloatValues(op, a, b) ==
    CASE op = "Min" -> MinX86(a, b)
      [] op = "Max" -> MaxX86(a, b)
      [] op = "Abs" -> AndI(a, Set1(Bit \ {Sign}))
      [] op = "And" -> AndI(a, b)
      [] op = "Or" -> OrI(a, b)
      [] op = "Xor" -> XorI(a, b)
      [] op = "AndNot" -> AndNotI(b, a)
Avx2FloatCompare(op, a, b) == IF op = "Ne" THEN ScalarCompare("float", op, a, b) ELSE MoveMask(CmpF(op, a, b))
Avx2FloatMask(op, m, n) ==
    CASE op = "MaskNot" -> MoveMask(XorI(MakeMask(m), Set1(Bit)))
      [] op = "MaskAnd" -> MoveMask(AndI(MakeMask(m), MakeMask(n)))
      [] op = "MaskOr" -> MoveMask(OrI(MakeMask(m), MakeMask(n)))
      [] op = "MaskXor" -> MoveMask(XorI(MakeMask(m), MakeMask(n)))

Avx2DoubleLoadMasked(memory, p, mask, fill) == Blend(MakeMask(mask), Load(memory, p), Set1(fill))
Avx2DoubleStoreMasked(memory, p, mask, a) == Store(memory, p, Blend(MakeMask(mask), a, Load(memory, p)))
Avx2DoubleGather(memory, index, mask, fill) ==
    [l \in Lane |-> IF Sign \in MakeMask(mask)[l] THEN memory[index[l]] ELSE fill]
Avx2DoubleValues(op, a, b) ==
    CASE op = "Min" -> MinX86(a, b)
      [] op = "Max" -> MaxX86(a, b)
      [] op = "Abs" -> AndI(a, Set1(Bit \ {Sign}))
      [] OTHER -> ScalarValues("double", op, a, b)
Avx2DoubleCompare(op, a, b) == IF op = "Ne" THEN ScalarCompare("double", op, a, b) ELSE MoveMask(CmpF(op, a, b))
Avx2DoubleMask(op, m, n) ==
    CASE op = "MaskNot" -> MoveMask(XorI(MakeMask(m), Set1(Bit)))
      [] op = "MaskAnd" -> MoveMask(AndI(MakeMask(m), MakeMask(n)))
      [] op = "MaskOr" -> MoveMask(OrI(MakeMask(m), MakeMask(n)))
      [] op = "MaskXor" -> MoveMask(XorI(MakeMask(m), MakeMask(n)))

Avx2Int32Values(op, a, b) ==
    CASE op = "Add" -> AddI(a, b)
      [] op = "Sub" -> SubI(a, b)
      [] op = "Mul" -> MulI(a, b)
      [] op = "And" -> AndI(a, b)
      [] op = "Or" -> OrI(a, b)
      [] op = "Xor" -> XorI(a, b)
      [] op = "AndNot" -> AndNotI(b, a)
      [] OTHER -> ScalarValues("int32", op, a, b)
Avx2Int32Compare(op, a, b) ==
    CASE op = "Eq" -> MoveMask(CmpEqI(a, b))
      [] op = "Lt" -> MoveMask(CmpGtS(b, a))
      [] op = "Le" -> MoveMask(OrI(CmpGtS(b, a), CmpEqI(a, b)))
      [] op = "Gt" -> MoveMask(CmpGtS(a, b))
      [] op = "Ge" -> MoveMask(OrI(CmpGtS(a, b), CmpEqI(a, b)))
      [] OTHER -> ScalarCompare("int32", op, a, b)
Avx2Int32Mask(op, m, n) ==
    CASE op = "MaskNot" -> MoveMask(XorI(MakeMask(m), Set1(Bit)))
      [] op = "MaskAnd" -> MoveMask(AndI(MakeMask(m), MakeMask(n)))
      [] op = "MaskOr" -> MoveMask(OrI(MakeMask(m), MakeMask(n)))
      [] op = "MaskXor" -> MoveMask(XorI(MakeMask(m), MakeMask(n)))
Avx2Int32Gather(memory, index, mask, fill) ==
    [l \in Lane |-> IF Sign \in MakeMask(mask)[l] THEN memory[index[l]] ELSE fill]

----------------------------------------------------------------------------
(***************************************************************************)
(* BackendTraits<NeonTag, T>::Ops<native_lanes>: masks are read back as    *)
(* lanes that are not zero; vbicq clears the bits of its second operand.   *)
(***************************************************************************)
MaskFromRegister(a) == {l \in Lane : a[l] # {}}
BlendNeon(m, yes, no) == OrI(AndI(m, yes), AndI(NotI(m), no))

NeonFloatLoadMasked(memory, p, mask, fill) == BlendNeon(MakeMask(mask), Load(memory, p), Set1(fill))
NeonFloatStoreMasked(memory, p, mask, a) == Store(memory, p, BlendNeon(MakeMask(mask), a, Load(memory, p)))
NeonFloatValues(op, a, b) ==
    CASE op = "Min" -> MinNeon(a, b)
      [] op = "Max" -> MaxNeon(a, b)
      [] op = "Abs" -> AndI(a, Set1(Bit \ {Sign}))
      [] OTHER -> ScalarValues("float", op, a, b)
NeonFloatCompare(op, a, b) == IF op = "Ne" THEN ScalarCompare("float", op, a, b) ELSE MaskFromRegister(CmpF(op, a, b))
NeonFloatMask(op, m, n) ==
    CASE op = "MaskNot" -> MaskFromRegister(NotI(MakeMask(m)))
      [] op = "MaskAnd" -> MaskFromRegister(AndI(MakeMask(m), MakeMask(n)))
      [] op = "MaskOr" -> MaskFromRegister(OrI(MakeMask(m), MakeMask(n)))
      [] op = "MaskXor" -> MaskFromRegister(XorI(MakeMask(m), MakeMask(n)))
NeonFloatAny(m) == \E l \in Lane : MakeMask(m)[l] # {}
NeonFloatAll(m) == ~\E l \in Lane : MakeMask(m)[l] = {}

NeonDoubleLoadMasked(memory, p, mask, fill) == BlendNeon(MakeMask(mask), Load(memory, p), Set1(fill))
NeonDoubleStoreMasked(memory, p, mask, a) == Store(memory, p, BlendNeon(MakeMask(mask), a, Load(memory, p)))
NeonDoubleValues(op, a, b) ==
    CASE op = "Min" -> MinNeon(a, b)
      [] op = "Max" -> MaxNeon(a, b)
      [] op = "Abs" -> AndI(a, Set1(Bit \ {Sign}))
      [] OTHER -> ScalarValues("double", op, a, b)
NeonDoubleCompare(op, a, b) ==
    IF op = "Eq" THEN MaskFromRegister(CmpF(op, a, b)) ELSE ScalarCompare("double", op, a, b)
NeonDoubleMask(op, m, n) ==
    CASE op = "MaskNot" -> MaskFromRegister(NotI(MakeMask(m)))
      [] op = "MaskAnd" -> MaskFromRegister(AndI(MakeMask(m), MakeMask(n)))
      [] op = "MaskOr" -> MaskFromRegister(OrI(MakeMask(m), MakeMask(n)))
      [] op = "MaskXor" -> MaskFromRegister(XorI(MakeMask(m), MakeMask(n)))

NeonUint8Values(op, a, b) ==
    CASE op = "And" -> AndI(a, b)
      [] op = "Or" -> OrI(a, b)
      [] op = "Xor" -> XorI(a, b)
      [] op = "AndNot" -> AndNotI(b, a)
      [] OTHER -> ScalarValues("uint8", op, a, b)
NeonUint8Compare(op, a, b) ==
    CASE op = "Eq" -> MaskFromRegister(CmpEqI(a, b))
      [] op = "Lt" -> MaskFromRegister(CmpGtU(b, a))
      [] op = "Le" -> MaskFromRegister(OrI(CmpEqI(a, b), CmpGtU(b, a)))
      [] op = "Gt" -> MaskFromRegister(CmpGtU(a, b))
      [] op = "Ge" -> MaskFromRegister(OrI(CmpEqI(a, b), CmpGtU(a, b)))
      [] OTHER -> ScalarCompare("uint8", op, a, b)

NeonInt8Values(op, a, b) ==
    CASE op = "And" -> AndI(a, b)
      [] op = "Or" -> OrI(a, b)
      [] op = "Xor" -> XorI(a, b)
      [] op = "AndNot" -> AndNotI(b, a)
      [] OTHER -> ScalarValues("int8", op, a, b)
NeonInt8Compare(op, a, b) ==
    CASE op = "Eq" -> MaskFromRegister(CmpEqI(a, b))
      [] op = "Lt" -> MaskFromRegister(CmpGtS(b, a))
      [] op = "Le" -> MaskFromRegister(OrI(CmpEqI(a, b), CmpGtS(b, a)))
      [] op = "Gt" -> MaskFromRegister(CmpGtS(a, b))
      [] op = "Ge" -> MaskFromRegister(OrI(CmpEqI(a, b), CmpGtS(a, b)))
      [] OTHER -> ScalarCompare("int8", op, a, b)

NeonInt32LoadMasked(memory, p, mask, fill) == BlendNeon(MakeMask(mask), Load(memory, p), Set1(fill))
NeonInt32StoreMasked(memory, p, mask, a) == Store(memory, p, BlendNeon(MakeMask(mask), a, Load(memory, p)))
NeonInt32Values(op, a, b) ==
    CASE op = "Add" -> AddI(a, b)
      [] op = "Sub" -> SubI(a, b)
      [] op = "Mul" -> MulI(a, b)
      [] op = "And" -> AndI(a, b)
      [] op = "Or" -> OrI(a, b)
      [] OTHER -> ScalarValues("int32", op, a, b)
NeonInt32Compare(op, a, b) ==
    CASE op = "Eq" -> MaskFromRegister(CmpEqI(a, b))
      [] op = "Lt" -> MaskFromRegister(CmpGtS(b, a))
      [] op = "Le" -> MaskFromRegister(OrI(CmpGtS(b, a), CmpEqI(a, b)))
      [] op = "Gt" -> MaskFromRegister(CmpGtS(a, b))
      [] op = "Ge" -> MaskFromRegister(OrI(CmpGtS(a, b), CmpEqI(a, b)))
      [] OTHER -> ScalarCompare("int32", op, a, b)
NeonInt32Mask(op, m, n) ==
    CASE op = "MaskNot" -> MaskFromRegister(NotI(MakeMask(m)))
      [] op = "MaskAnd" -> MaskFromRegister(AndI(MakeMask(m), MakeMask(n)))
      [] op = "MaskOr" -> MaskFromRegister(OrI(MakeMask(m), MakeMask(n)))
      [] op = "MaskXor" -> MaskFromRegister(XorI(MakeMask(m), MakeMask(n)))

----------------------------------------------------------------------------
(***************************************************************************)
(* Vec, Mask and Scan: the operations of the tag's structure.              *)
(***************************************************************************)
Values(op, a, b) ==
    CASE tag = <<"SSE2", "int32">> -> Sse2Int32Values(op, a, b)
      [] tag = <<"SSE2", "uint8">> -> Sse2Uint8Values(op, a, b)
      [] tag = <<"SSE2", "int8">> -> Sse2Int8Values(op, a, b)
      [] tag = <<"SSE2", "float">> -> Sse2FloatValues(op, a, b)
      [] tag = <<"SSE2", "double">> -> Sse2DoubleValues(op, a, b)
      [] tag = <<"AVX2", "uint8">> -> Avx2Uint8Values(op, a, b)
      [] tag = <<"AVX2", "int8">> -> Avx2Int8Values(op, a, b)
      [] tag = <<"AVX2", "float">> -> Avx2FloatValues(op, a, b)
      [] tag = <<"AVX2", "double">> -> Avx2DoubleValues(op, a, b)
      [] tag = <<"AVX2", "int32">> -> Avx2Int32Values(op, a, b)
      [] tag = <<"NEON", "float">> -> NeonFloatValues(op, a, b)
      [] tag = <<"NEON", "double">> -> NeonDoubleValues(op, a, b)
      [] tag = <<"NEON", "uint8">> -> NeonUint8Values(op, a, b)
      [] tag = <<"NEON", "int8">> -> NeonInt8Values(op, a, b)
      [] tag = <<"NEON", "int32">> -> NeonInt32Values(op, a, b)
Compares(op, a, b) ==
    CASE tag = <<"SSE2", "int32">> -> Sse2Int32Compare(op, a, b)
      [] tag = <<"SSE2", "uint8">> -> Sse2Uint8Compare(op, a, b)
      [] tag = <<"SSE2", "int8">> -> Sse2Int8Compare(op, a, b)
      [] tag = <<"SSE2", "float">> -> Sse2FloatCompare(op, a, b)
      [] tag = <<"SSE2", "double">> -> Sse2DoubleCompare(op, a, b)
      [] tag = <<"AVX2", "uint8">> -> Avx2Uint8Compare(op, a, b)
      [] tag = <<"AVX2", "int8">> -> Avx2Int8Compare(op, a, b)
      [] tag = <<"AVX2", "float">> -> Avx2FloatCompare(op, a, b)
      [] tag = <<"AVX2", "double">> -> Avx2DoubleCompare(op, a, b)
      [] tag = <<"AVX2", "int32">> -> Avx2Int32Compare(op, a, b)
      [] tag = <<"NEON", "float">> -> NeonFloatCompare(op, a, b)
      [] tag = <<"NEON", "double">> -> NeonDoubleCompare(op, a, b)
      [] tag = <<"NEON", "uint8">> -> NeonUint8Compare(op, a, b)
      [] tag = <<"NEON", "int8">> -> NeonInt8Compare(op, a, b)
      [] tag = <<"NEON", "int32">> -> NeonInt32Compare(op, a, b)
Masks(op, m, n) ==
    CASE tag = <<"SSE2", "int32">> -> Sse2Int32Mask(op, m, n)
      [] tag = <<"SSE2", "double">> -> Sse2DoubleMask(op, m, n)
      [] tag = <<"AVX2", "float">> -> Avx2FloatMask(op, m, n)
      [] tag = <<"AVX2", "double">> -> Avx2DoubleMask(op, m, n)
      [] tag = <<"AVX2", "int32">> -> Avx2Int32Mask(op, m, n)
      [] tag = <<"NEON", "float">> -> NeonFloatMask(op, m, n)
      [] tag = <<"NEON", "double">> -> NeonDoubleMask(op, m, n)
      [] tag = <<"NEON", "int32">> -> NeonInt32Mask(op, m, n)
      [] tag[1] = "SSE2" /\ tag[2] \in {"float", "uint8", "int8"} -> Sse2FloatMask(op, m, n)
      [] OTHER -> ScalarMask(op, m, n)
Any(m) ==
    CASE tag[1] = "SSE2" -> Sse2FloatAny(m) [] tag[1] = "NEON" -> NeonFloatAny(m) [] OTHER -> ScalarAny(m)
All(m) ==
    CASE tag[1] = "SSE2" -> Sse2FloatAll(m) [] tag[1] = "NEON" -> NeonFloatAll(m) [] OTHER -> ScalarAll(m)
LoadMasked(memory, p, mask, fill) ==
    CASE tag = <<"SSE2", "float">> -> Sse2FloatLoadMasked(memory, p, mask, fill)
      [] tag = <<"SSE2", "double">> -> Sse2DoubleLoadMasked(memory, p, mask, fill)
      [] tag = <<"AVX2", "float">> -> Avx2FloatLoadMasked(memory, p, mask, fill)
      [] tag = <<"AVX2", "double">> -> Avx2DoubleLoadMasked(memory, p, mask, fill)
      [] tag = <<"NEON", "float">> -> NeonFloatLoadMasked(memory, p, mask, fill)
      [] tag = <<"NEON", "double">> -> NeonDoubleLoadMasked(memory, p, mask, fill)
      [] tag = <<"NEON", "int32">> -> NeonInt32LoadMasked(memory, p, mask, fill)
      [] OTHER -> ScalarLoadMasked(memory, p, mask, fill)
StoreMasked(memory, p, mask, a) ==
    CASE tag = <<"SSE2", "float">> -> Sse2FloatStoreMasked(memory, p, mask, a)
      [] tag = <<"SSE2", "double">> -> Sse2DoubleStoreMasked(memory, p, mask, a)
      [] tag = <<"AVX2", "float">> -> Avx2FloatStoreMasked(memory, p, mask, a)
      [] tag = <<"AVX2", "double">> -> Avx2DoubleStoreMasked(memory, p, mask, a)
      [] tag = <<"NEON", "float">> -> NeonFloatStoreMasked(memory, p, mask, a)
      [] tag = <<"NEON", "double">> -> NeonDoubleStoreMasked(memory, p, mask, a)
      [] tag = <<"NEON", "int32">> -> NeonInt32StoreMasked(memory, p, mask, a)
      [] OTHER -> ScalarStoreMasked(memory, p, mask, a)
\* The structures whose masked loads and stores access the whole vector.
WholeVector ==
    {<<"SSE2", "float">>, <<"SSE2", "double">>, <<"AVX2", "float">>, <<"AVX2", "double">>,
     <<"NEON", "float">>, <<"NEON", "double">>, <<"NEON", "int32">>}
Reach(p, mask) == {p + l : l \in IF tag \in WholeVector THEN Lane ELSE mask}
Gather(memory, index, mask, fill) ==
    CASE tag = <<"AVX2", "float">> -> Avx2FloatGather(memory, index, mask, fill)
      [] tag = <<"AVX2", "double">> -> Avx2DoubleGather(memory, index, mask, fill)
      [] tag = <<"AVX2", "int32">> -> Avx2Int32Gather(memory, index, mask, fill)
      [] OTHER -> ScalarGather(memory, index, mask, fill)

\* operator> and operator>= swap the operands of < and <=.
VecCompare(op, a, b) ==
    Compares(CASE op = "Gt" -> "Lt" [] op = "Ge" -> "Le" [] OTHER -> op,
             IF op \in {"Gt", "Ge"} THEN b ELSE a, IF op \in {"Gt", "Ge"} THEN a ELSE b)
MaskToBits(m) == CHOOSE bits \in 0..(2^Lanes - 1) : \A l \in Lane : BitOf(bits, l) <=> l \in m
Select(m, a, b) == [l \in Lane |-> IF l \in m THEN a[l] ELSE b[l]]
Reverse(a) == [l \in Lane |-> a[Lanes - 1 - l]]
ZipLo(a, b) == [l \in Lane |-> IF l % 2 = 0 THEN a[l \div 2] ELSE b[l \div 2]]
ZipHi(a, b) == [l \in Lane |-> IF l % 2 = 0 THEN a[l \div 2 + Lanes \div 2] ELSE b[l \div 2 + Lanes \div 2]]
FirstNMask(count) == {l \in Lane : l < count}

\* Whole vectors first, then a masked tail.
WholeVectors(memory, count, op, b) ==
    LET run[k \in 0..(count \div Lanes)] ==
            IF k = 0 THEN memory
            ELSE Store(run[k - 1], (k - 1) * Lanes, Values(op, Load(run[k - 1], (k - 1) * Lanes), b))
    IN  run[count \div Lanes]
MaskedTail(memory, index, mask, op, b) ==
    IF mask = {} THEN memory ELSE StoreMasked(memory, index, mask, Values(op, LoadMasked(memory, index, mask, {}), b))
ForEachSimd(memory, count, op, b) ==
    MaskedTail(WholeVectors(memory, count, op, b), (count \div Lanes) * Lanes, FirstNMask(count % Lanes), op, b)

First(found, length) == IF found = {} THEN length ELSE Min(found)
CountrZero(bits) == Max({z \in Lane : bits % 2^z = 0})
\* The search compares bytes.
CompareBytes(a, needle) ==
    CASE tag[1] = "SSE2" -> Sse2Uint8Compare("Eq", a, Set1(needle))
      [] tag[1] = "AVX2" -> Avx2Uint8Compare("Eq", a, Set1(needle))
      [] tag[1] = "NEON" -> NeonUint8Compare("Eq", a, Set1(needle))
\* The first bit of the first vector with one; then the elements behind the vectors.
FirstBit(bits, tail, length) ==
    IF \E k \in DOMAIN bits : bits[k] # 0
    THEN LET k == Min({j \in DOMAIN bits : bits[j] # 0}) IN k * Lanes + CountrZero(bits[k])
    ELSE First(tail, length)
Vectors(length) == IF length < ScanMin THEN {} ELSE 0..((length \div Lanes) - 1)
Behind(length) == IF length < ScanMin THEN 0..(length - 1) ELSE ((length \div Lanes) * Lanes)..(length - 1)
FindEqByte(memory, length, needle) ==
    FirstBit([k \in Vectors(length) |-> MaskToBits(CompareBytes(Load(memory, k * Lanes), needle))],
             {i \in Behind(length) : memory[i] = needle}, length)
FindAnyByte(memory, length, x, y) ==
    FirstBit([k \in Vectors(length) |-> MaskToBits(Masks("MaskOr", CompareBytes(Load(memory, k * Lanes), x),
                                                         CompareBytes(Load(memory, k * Lanes), y)))],
             {i \in Behind(length) : memory[i] \in {x, y}}, length)

----------------------------------------------------------------------------
(***************************************************************************)
(* Lane conversions.  An integral kind has a signedness and a number of    *)
(* bits; the narrow kinds promote to int.  A floating value is a number of  *)
(* halves, or NaN, or an infinity.                                         *)
(***************************************************************************)
Kind == [signed : BOOLEAN, bits : {2, 3}]
Lowest(k) == IF k.signed THEN -(2^(k.bits - 1)) ELSE 0
Highest(k) == IF k.signed THEN 2^(k.bits - 1) - 1 ELSE 2^k.bits - 1
Cast(k, n) == ((n - Lowest(k)) % 2^k.bits) + Lowest(k)
Clamp(n, low, high) == IF n < low THEN low ELSE IF high < n THEN high ELSE n
Common(from, to) ==
    LET int == [signed |-> TRUE, bits |-> 3]
        promoted == {IF k.bits < 3 THEN int ELSE k : k \in {from, to}}
    IN  [int EXCEPT !.signed = \A k \in promoted : k.signed]
ClampIntegral(to, from, n) ==
    LET c == Common(from, to)
    IN  Cast(to, Clamp(Cast(c, n), Cast(c, Lowest(to)), Cast(c, Highest(to))))
ExactConvertLane(to, from, n) ==
    LET c == Common(from, to)
        outside == ~(Cast(c, n) >= Cast(c, Lowest(to)) /\ Cast(c, n) <= Cast(c, Highest(to)))
    IN  IF outside THEN Cast(to, Clamp(Cast(c, n), Cast(c, Lowest(to)), Cast(c, Highest(to)))) ELSE Cast(to, n)
NearbyInt(h) == IF h % 2 = 0 THEN h \div 2 ELSE LET f == h \div 2 IN IF f % 2 = 0 THEN f ELSE f + 1
Trunc(h) == IF h >= 0 THEN h \div 2 ELSE -((-h) \div 2)
SaturateConvertLane(to, v) ==
    CASE v.is = "NaN" -> 0
      [] v.is = "-Inf" -> Lowest(to)
      [] v.is = "+Inf" -> Highest(to)
      [] OTHER -> Clamp(NearbyInt(v.half), Lowest(to), Highest(to))
TruncateConvertLane(to, v) ==
    CASE v.is = "NaN" -> 0
      [] v.is = "-Inf" -> Lowest(to)
      [] v.is = "+Inf" -> Highest(to)
      [] OTHER -> Clamp(Trunc(v.half), Lowest(to), Highest(to))
Amount == {[is |-> "finite", half |-> h] : h \in -11..11} \union {[is |-> i, half |-> 0] : i \in {"NaN", "-Inf", "+Inf"}}

----------------------------------------------------------------------------
(***************************************************************************)
(* The machine and its twin.                                               *)
(***************************************************************************)
Machine(a, b) == [a |-> a, b |-> b, mask |-> {0}, memory |-> [i \in 0..(Cells - 1) |-> IF i % 3 = 0 THEN a[i % Lanes] ELSE b[i % Lanes]],
                  found |-> <<>>, reach |-> {}]
Init ==
    /\ tag \in Tags
    /\ \E p \in Operands : vec = Machine(p[1], p[2])
    /\ ref = vec
    /\ apart = {}
    /\ steps = 0

Type == tag[2]
\* A behaviour ends where the contents differ.
Step ==
    /\ steps < MaxSteps
    /\ \A place \in apart : place[1] = "reach"
    /\ steps' = steps + 1
    /\ UNCHANGED tag
Apart(v, r, places) == vec' = v /\ ref' = r /\ apart' = places
Both(v, r) == Apart([v EXCEPT !.reach = {}], [r EXCEPT !.reach = {}], {})

\* Signed overflow of int32 is undefined in the scalar loop.
InRange(n) == n >= -(2^Sign) /\ n < 2^Sign
NoOverflow(op, x, y) ==
    Type = "int32" => InRange(CASE op = "Add" -> Signed(x) + Signed(y)
                                [] op = "Sub" -> Signed(x) - Signed(y)
                                [] op = "Mul" -> Signed(x) * Signed(y))
Defined(op, a, b) ==
    /\ op \in Arithmetic => ~IsFloat(Type) /\ \A l \in Lane : NoOverflow(op, a[l], b[l])
    /\ op = "Abs" /\ Type = "int32" => \A l \in Lane : a[l] # {Sign}

\* Where a backend's result is another: std::min and std::max keep their first argument when
\* neither is less, x86 takes the second, NEON a NaN and the zero with the right sign; the
\* scalar Abs changes what is less than zero, the others clear the sign.
Deviates(op, x, y) ==
    /\ IsFloat(Type)
    /\ \/ op = "Abs" /\ Sign \in x /\ (IsNaN(x) \/ Real(x) = 0)
       \/ /\ op \in {"Min", "Max"} /\ tag[1] # "NEON"
          /\ x # y /\ (IsNaN(x) \/ IsNaN(y) \/ FloatEqual(x, y))
       \/ /\ op \in {"Min", "Max"} /\ tag[1] = "NEON"
          /\ \/ ~IsNaN(x) /\ IsNaN(y)
             \/ x # y /\ FloatEqual(x, y) /\ (Sign \in x <=> op = "Max")
\* A masked access reaches past its mask.
Overreaches == IsFloat(Type) \/ tag = <<"NEON", "int32">>
Past(p, mask) == {<<"reach", p + l>> : l \in IF Overreaches THEN Lane \ mask ELSE {}}

Operate(op) ==
    /\ Step
    /\ Defined(op, vec.a, vec.b)
    /\ Apart([vec EXCEPT !.a = Values(op, @, vec.b), !.reach = {}], [ref EXCEPT !.a = ScalarValues(Type, op, @, ref.b), !.reach = {}],
             {<<"a", l>> : l \in {l \in Lane : Deviates(op, vec.a[l], vec.b[l])}})
Compare(op) ==
    /\ Step
    /\ Both([vec EXCEPT !.mask = Compares(op, vec.a, vec.b)], [ref EXCEPT !.mask = ScalarCompare(Type, op, ref.a, ref.b)])
CompareVec(op) ==
    /\ Step
    /\ Both([vec EXCEPT !.mask = VecCompare(op, vec.a, vec.b)], [ref EXCEPT !.mask = ScalarCompare(Type, op, ref.a, ref.b)])
Combine(op, n) ==
    /\ Step
    /\ Both([vec EXCEPT !.mask = Masks(op, @, n)], [ref EXCEPT !.mask = ScalarMask(op, @, n)])
Test ==
    /\ Step
    /\ Both([vec EXCEPT !.found = <<All(vec.mask), Any(vec.mask)>>],
            [ref EXCEPT !.found = <<ScalarAll(ref.mask), ScalarAny(ref.mask)>>])
\* The twin's value is what the shift means as a multiplication or a division.
Shift(amount) ==
    /\ Step /\ ~IsFloat(Type)
    /\ \/ Both([vec EXCEPT !.a = Shl(@, amount)], [ref EXCEPT !.a = [l \in Lane |-> Wrap(Unsigned(@[l]) * 2^amount)]])
       \/ Both([vec EXCEPT !.a = Shr(Type, @, amount)],
               [ref EXCEPT !.a = [l \in Lane |-> Wrap((IF Type = "uint8" THEN Unsigned(@[l]) ELSE Signed(@[l])) \div 2^amount)]])
\* A NaN in the first lane stays, others are passed over.
Reducing(op) ==
    /\ Step
    /\ IF op = "Add" THEN ~IsFloat(Type) /\ Both([vec EXCEPT !.b = Set1(ReduceAdd(vec.a))], [ref EXCEPT !.b = Set1(ReduceAdd(vec.a))])
       ELSE LET counts == {l \in Lane : ~IsFloat(Type) \/ ~IsNaN(ref.a[l])}
                least == {l \in counts : \A m \in counts :
                            ~IF op = "Min" THEN Less(Type, ref.a[m], ref.a[l]) ELSE Less(Type, ref.a[l], ref.a[m])}
            IN  Both([vec EXCEPT !.b = Set1(Reduce(Type, op, vec.a))],
                     [ref EXCEPT !.b = Set1(IF 0 \in counts THEN ref.a[Min(least)] ELSE ref.a[0])])
Loading(p, m) ==
    /\ Step
    /\ Apart([vec EXCEPT !.a = LoadMasked(vec.memory, p, m, vec.b[0]), !.reach = Reach(p, m)],
             [ref EXCEPT !.a = ScalarLoadMasked(ref.memory, p, m, ref.b[0]), !.reach = {p + l : l \in m}], Past(p, m))
Storing(p, m) ==
    /\ Step
    /\ Apart([vec EXCEPT !.memory = StoreMasked(@, p, m, vec.a), !.reach = Reach(p, m)],
             [ref EXCEPT !.memory = ScalarStoreMasked(@, p, m, ref.a), !.reach = {p + l : l \in m}], Past(p, m))
Gathering(index) ==
    /\ Step
    /\ Both([vec EXCEPT !.a = Gather(vec.memory, index, vec.mask, vec.b[0])],
            [ref EXCEPT !.a = ScalarGather(ref.memory, index, ref.mask, ref.b[0])])
Scattering(index) ==
    /\ Step
    /\ Both([vec EXCEPT !.memory = Scatter(@, index, vec.mask, vec.a)], [ref EXCEPT !.memory = Scatter(@, index, ref.mask, ref.a)])
Arrange ==
    /\ Step
    /\ \/ Both([vec EXCEPT !.a = Select(vec.mask, @, vec.b)], [ref EXCEPT !.a = Select(ref.mask, @, ref.b)])
       \/ Both([vec EXCEPT !.a = Reverse(@)], [ref EXCEPT !.a = Reverse(@)])
       \/ Both([vec EXCEPT !.a = ZipLo(@, vec.b), !.b = ZipHi(vec.a, @)], [ref EXCEPT !.a = ZipLo(@, ref.b), !.b = ZipHi(ref.a, @)])
\* The twin applies the operation to the first count elements one by one.
ForEach(op, count) ==
    LET tail == (count \div Lanes) * Lanes
        mask == FirstNMask(count % Lanes)
    IN  /\ Step
        /\ \A i \in 0..(Cells - 1) : Defined(op, Set1(vec.memory[i]), Set1(vec.b[0]))
        /\ Apart([vec EXCEPT !.memory = ForEachSimd(@, count, op, Set1(vec.b[0])),
                             !.reach = 0..(tail - 1) \union IF mask = {} THEN {} ELSE Reach(tail, mask)],
                 [ref EXCEPT !.memory = [i \in DOMAIN @ |-> IF i < count THEN ScalarValues(Type, op, Set1(@[i]), Set1(ref.b[0]))[0] ELSE @[i]],
                             !.reach = 0..(count - 1)],
                 {<<"memory", i>> : i \in {i \in 0..(count - 1) : Deviates(op, vec.memory[i], vec.b[0])}}
                     \union IF mask = {} THEN {} ELSE Past(tail, mask))
Scan(length, x, y) ==
    /\ Step /\ Type = "uint8"
    /\ Both([vec EXCEPT !.found = <<IF x = y THEN FindEqByte(vec.memory, length, x) ELSE FindAnyByte(vec.memory, length, x, y)>>],
            [ref EXCEPT !.found = <<First({i \in 0..(length - 1) : ref.memory[i] \in {x, y}}, length)>>])

\* The common type holds every value of both.
Sound(from, to) == \A k \in {from, to} : Lowest(Common(from, to)) <= Lowest(k) /\ Highest(k) <= Highest(Common(from, to))
Distance(m, n) == IF m < n THEN n - m ELSE m - n
Nearest(k, h) == CHOOSE m \in Lowest(k)..Highest(k) :
                    \A o \in Lowest(k)..Highest(k) : \/ Distance(2 * m, h) < Distance(2 * o, h)
                                                     \/ Distance(2 * m, h) = Distance(2 * o, h) /\ (o = m \/ m % 2 = 0)
Inside(h, m) == IF h < 0 THEN 2 * m >= h /\ m <= 0 ELSE 2 * m <= h /\ m >= 0
TowardZero(k, h) == CHOOSE m \in Lowest(k)..Highest(k) :
                       /\ Inside(h, m)
                       /\ \A o \in Lowest(k)..Highest(k) : Inside(h, o) => Distance(2 * m, h) <= Distance(2 * o, h)
\* Otherwise it is unsigned: a negative value has become a large one, or the lowest
\* value of the target has, and whatever is less is raised to it.
Misread(from, to, n) == ~Sound(from, to) /\ n < IF from.signed THEN 0 ELSE Lowest(to) + 2^Common(from, to).bits
ConvertIntegral(from, to) ==
    /\ Step
    /\ \E n \in Lowest(from)..Highest(from) :
          Apart([vec EXCEPT !.found = <<ClampIntegral(to, from, n), ExactConvertLane(to, from, n)>>, !.reach = {}],
                [ref EXCEPT !.found = <<Nearest(to, 2 * n), Nearest(to, 2 * n)>>, !.reach = {}],
                {<<"found", i>> : i \in IF Misread(from, to, n) THEN {1, 2} ELSE {}})
ConvertFloat(to, v) ==
    /\ Step
    /\ Both([vec EXCEPT !.found = <<SaturateConvertLane(to, v), TruncateConvertLane(to, v)>>],
            [ref EXCEPT !.found = IF v.is = "finite" THEN <<Nearest(to, v.half), TowardZero(to, v.half)>>
                                  ELSE LET end == CASE v.is = "NaN" -> 0 [] v.is = "-Inf" -> Lowest(to) [] v.is = "+Inf" -> Highest(to)
                                       IN  <<end, end>>])

Next ==
    \/ \E op \in Bitwise \union Arithmetic \union MinMax : Operate(op)
    \/ \E op \in {"Eq", "Ne", "Lt", "Le", "Gt", "Ge"} : Compare(op) \/ CompareVec(op)
    \/ \E op \in {"MaskNot", "MaskAnd", "MaskOr", "MaskXor"}, n \in SUBSET Lane : Combine(op, n)
    \/ Test \/ Arrange
    \/ \E amount \in 0..(Width - 1) : Shift(amount)
    \/ \E op \in {"Add", "Min", "Max"} : Reducing(op)
    \/ \E p \in 0..(Cells - Lanes), m \in SUBSET Lane : Loading(p, m) \/ Storing(p, m)
    \/ \E index \in [Lane -> 0..(Cells - 1)] : Gathering(index) \/ Scattering(index)
    \/ \E op \in {"Xor", "Max", "Abs"}, count \in 0..(Cells - Lanes + 1) : ForEach(op, count)
    \/ \E length \in 0..Cells, x, y \in {vec.a[0], vec.b[0]} : Scan(length, x, y)
    \/ vec.found = <<>> /\ \E from, to \in Kind : ConvertIntegral(from, to)
    \/ vec.found = <<>> /\ \E to \in Kind, v \in Amount : ConvertFloat(to, v)
Spec == Init /\ [][Next]_vars

(***************************************************************************)
(* docs/SIMD.md:8-10: "The scalar path defines semantics and portability.  *)
(* Architecture-specialized paths must produce the same results for empty  *)
(* input, unaligned input, tail elements, NaNs, infinities, and signed     *)
(* zero where applicable."  Whatever sequence of vector operations a       *)
(* program performs, a backend leaves it the vectors, the mask, the array  *)
(* and the search result of the scalar reference, an array loop transforms *)
(* exactly its count elements, a search reports the first match, and a     *)
(* conversion gives the closest value of the target type, but for three    *)
(* disagreements, which are pinned to the lane.  Min, Max and Abs of float *)
(* and double give another result on every backend exactly for the NaNs    *)
(* and the zeros that Deviates names (BackendTraits.hpp:1285-1308 against  *)
(* :307-337).  The masked loads and stores of float and double, and of     *)
(* int32 on NEON, access every element of the vector, not only the masked  *)
(* ones (:1222-1241), so that the tail of ForEachSimd goes past the count  *)
(* elements that Vec.hpp:1695 asks for.  And a conversion whose common     *)
(* type is unsigned while the source or the target is signed misses where  *)
(* Misread says (Vec.hpp:45-51).                                           *)
(***************************************************************************)
SameResults ==
    /\ apart = {<<"a", l>> : l \in {l \in Lane : vec.a[l] # ref.a[l]}}
               \union {<<"memory", i>> : i \in {i \in 0..(Cells - 1) : vec.memory[i] # ref.memory[i]}}
               \union {<<"reach", i>> : i \in Xor(vec.reach, ref.reach)}
               \union {<<"found", i>> : i \in {i \in DOMAIN ref.found : vec.found[i] # ref.found[i]}}
    /\ vec.b = ref.b
    /\ vec.mask = ref.mask
    /\ DOMAIN vec.found = DOMAIN ref.found
=============================================================================
