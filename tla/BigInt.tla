------------------------------- MODULE BigInt -------------------------------
(***************************************************************************)
(* NGIN::Math::BigInt: sign and magnitude, the digits least significant    *)
(* first in base BASE.  A behaviour makes two numbers in the ways the      *)
(* class offers and computes with them; ref is the integer that the last   *)
(* operation, did, should have made of the values it found.  The sizes at  *)
(* which the code changes its algorithm are parameters, so that small      *)
(* numbers reach every one of them.                                        *)
(***************************************************************************)
EXTENDS Integers, Sequences, FiniteSetsExt
CONSTANTS Radix, BASE_DIGITS, \* numerals, and how many of them a digit holds: 10 and 9
          Word,               \* values of an element of m_digits: 2^32
          KaratsubaMin, NaiveMax, KnuthMax, FastMin, FastMinDivisor, \* 32, 4, 256, 512, 32
          Integer,            \* the integers that behaviours start from
          MaxBigOps           \* operations of a behaviour
VARIABLES x, y, ref, did, bigOps
vars == <<x, y, ref, did, bigOps>>

BASE == Radix^BASE_DIGITS
Absolute(n) == IF n < 0 THEN -n ELSE n

-----------------------------------------------------------------------------
(* Construction                                                            *)

\* value % BASE, value /= BASE, until nothing is left.
RECURSIVE Limbs(_)
Limbs(value) == IF value < BASE THEN <<value>> ELSE <<value % BASE>> \o Limbs(value \div BASE)

Number(digits, negative) == [digits |-> digits, negative |-> negative]
FromUInt32(value) == Number(Limbs(value), FALSE)
FromInt(value) == Number(Limbs(Absolute(value)), value < 0)
FromUInt64(value) == Number(Limbs(value), FALSE)
\* The lowest Int64 has no positive counterpart: one is added before the sign changes, and one after.
FromInt64(value) == Number(Limbs(IF value < 0 THEN -(value + 1) + 1 ELSE value), value < 0)

IsZero(a) == a.digits = <<0>>
\* Leading zeros go, the last digit stays.
Strip(digits) == SubSeq(digits, 1, Min({Len(digits), Max({1} \cup {i \in DOMAIN digits : digits[i] # 0})}))
Trim(a) == [a EXCEPT !.digits = Strip(@)]

\* Blocks of BASE_DIGITS numerals, from the end of the text.
Block(str, from, to) ==
    LET value[i \in (from - 1)..to] == IF i < from THEN 0 ELSE value[i - 1] * Radix + str[i] IN value[to]
FromString(minus, str) ==
    LET blocks == (Len(str) + BASE_DIGITS - 1) \div BASE_DIGITS
        last(k) == Len(str) - (k - 1) * BASE_DIGITS
        a == Trim(Number([k \in 1..blocks |-> Block(str, Max({1, last(k) - BASE_DIGITS + 1}), last(k))], minus))
    IN  IF str = <<>> THEN Number(<<0>>, FALSE) ELSE [a EXCEPT !.negative = @ /\ ~IsZero(a)]

\* The numerals of a number; at least k of them.
RECURSIVE Numerals(_, _)
Numerals(n, k) == (IF n >= Radix \/ k > 1 THEN Numerals(n \div Radix, k - 1) ELSE <<>>) \o <<n % Radix>>
\* operator<<: the first block without leading zeros, the others with them.
Printed(a) ==
    LET text[i \in 1..Len(a.digits)] ==
            IF i = 1 THEN Numerals(a.digits[Len(a.digits)], 1)
            ELSE text[i - 1] \o Numerals(a.digits[Len(a.digits) + 1 - i], BASE_DIGITS)
    IN  [minus |-> a.negative /\ ~IsZero(a), text |-> text[Len(a.digits)]]

-----------------------------------------------------------------------------
(* Digits                                                                  *)

DigitOf(s, i) == IF i \in DOMAIN s THEN s[i] ELSE 0

AddDigits(a, b) ==
    LET n == Max({Len(a), Len(b)})
        carry[i \in 0..n] == IF i = 0 THEN 0 ELSE (DigitOf(a, i) + DigitOf(b, i) + carry[i - 1]) \div BASE
    IN  [i \in 1..n |-> (DigitOf(a, i) + DigitOf(b, i) + carry[i - 1]) % BASE]
            \o (IF carry[n] > 0 THEN <<carry[n]>> ELSE <<>>)

SubtractDigits(a, b) ==
    LET borrow[i \in 0..Len(a)] == IF i = 0 THEN 0 ELSE IF a[i] - DigitOf(b, i) - borrow[i - 1] < 0 THEN 1 ELSE 0
    IN  Strip([i \in DOMAIN a |-> (a[i] - DigitOf(b, i) - borrow[i - 1]) % BASE])

\* One row of the grade-school product: the digit at i of a times b, added to result at i.
MultiplyRow(result, digit, i, b) ==
    LET cur(j, carry) == result[i + j - 1] + digit * DigitOf(b, j) + carry
        carry[j \in 0..(Len(result) - i + 1)] == IF j = 0 THEN 0 ELSE cur(j, carry[j - 1]) \div BASE
    IN  SubSeq(result, 1, i - 1) \o [j \in 1..(Len(result) - i + 1) |-> cur(j, carry[j - 1]) % BASE]
GradeSchool(a, b) ==
    LET rows[i \in 0..Len(a)] ==
            IF i = 0 THEN [k \in 1..(Len(a) + Len(b)) |-> 0] ELSE MultiplyRow(rows[i - 1], a[i], i, b)
    IN  Strip(rows[Len(a)])

\* Mutant: the upper product stays in the middle one.
CrossTerms_Upper(z1, z0, z2) == SubtractDigits(z1, z0)
CrossTerms(z1, z0, z2) == SubtractDigits(SubtractDigits(z1, z0), z2)

\* The three products, each at its place; three digits must fit an element before the carries are propagated.
Recombine(size, half, z0, z1, z2) ==
    LET sum == [k \in 1..size |-> (DigitOf(z0, k) + DigitOf(z1, k - half) + DigitOf(z2, k - 2 * half)) % Word]
        carry[k \in 0..size] == IF k = 0 THEN 0 ELSE (sum[k] + carry[k - 1]) \div BASE
    IN  Strip([k \in 1..size |-> (sum[k] + carry[k - 1]) % BASE])

RECURSIVE MultiplyDigits(_, _)
MultiplyDigits(a, b) ==
    IF a = <<0>> \/ b = <<0>> THEN <<0>>
    ELSE IF Len(a) < KaratsubaMin \/ Len(b) < KaratsubaMin THEN GradeSchool(a, b)
    ELSE LET half == Max({Len(a), Len(b)}) \div 2
             low(v) == SubSeq(v, 1, Min({half, Len(v)}))
             high(v) == SubSeq(v, Min({half, Len(v)}) + 1, Len(v))
             join(z0, z1, z2) == Recombine(Len(a) + Len(b), half, z0, CrossTerms(z1, z0, z2), z2)
         IN  join(MultiplyDigits(low(a), low(b)),
                  MultiplyDigits(AddDigits(low(a), high(a)), AddDigits(low(b), high(b))),
                  MultiplyDigits(high(a), high(b)))

-----------------------------------------------------------------------------
(* Comparison                                                              *)

AbsLess(a, b) ==
    IF Len(a.digits) # Len(b.digits) THEN Len(a.digits) < Len(b.digits)
    ELSE LET differ == {i \in DOMAIN a.digits : a.digits[i] # b.digits[i]}
         IN  differ # {} /\ a.digits[Max(differ)] < b.digits[Max(differ)]
Abs(a) == [a EXCEPT !.negative = FALSE]
Equal(a, b) == a = b
Less(a, b) ==
    IF a.negative # b.negative THEN a.negative ELSE IF a.negative THEN AbsLess(b, a) ELSE AbsLess(a, b)
LessEqual(a, b) == ~Less(b, a)

-----------------------------------------------------------------------------
(* Arithmetic                                                              *)

Negate(a) == [a EXCEPT !.negative = ~IsZero(a) /\ ~@]

RECURSIVE Subtract(_, _)
Add(a, b) ==
    IF a.negative = b.negative THEN Trim(Number(AddDigits(a.digits, b.digits), a.negative))
    ELSE IF a.negative THEN Subtract(b, Negate(a)) ELSE Subtract(a, Negate(b))
\* The difference of two equal negative numbers keeps the sign.
Subtract(a, b) ==
    IF a.negative = b.negative
      THEN IF AbsLess(a, b) THEN Trim(Number(SubtractDigits(b.digits, a.digits), ~a.negative))
           ELSE Trim(Number(SubtractDigits(a.digits, b.digits), a.negative))
      ELSE IF a.negative THEN Negate(Add(Negate(a), b)) ELSE Add(a, Negate(b))
\* So does a negative number times zero.
Multiply(a, b) == Trim(Number(MultiplyDigits(a.digits, b.digits), a.negative # b.negative))

Division(q, r) == [q |-> q, r |-> r]

\* The quotient by one digit, and what is left.
DivByUInt32(a, divisor) ==
    LET n == Len(a.digits)
        rem[i \in 1..(n + 1)] == IF i > n THEN 0 ELSE (a.digits[i] + rem[i + 1] * BASE) % divisor
    IN  Division(Trim(Number([i \in 1..n |-> (a.digits[i] + rem[i + 1] * BASE) \div divisor], a.negative)),
                 rem[1])
DivModBySingleLimb(a, digit) ==
    LET d == DivByUInt32(Abs(a), digit) IN Division(d.q, FromUInt32(d.r))

RECURSIVE SubtractWhile(_, _, _)
SubtractWhile(q, r, divisor) ==
    IF AbsLess(r, divisor) THEN Division(q, r) ELSE SubtractWhile(Add(q, FromInt(1)), Subtract(r, divisor), divisor)
NaiveDivMod(a, b) == SubtractWhile(FromInt(0), Abs(a), Abs(b))

\* The largest digit whose product with the divisor is not above rem, by bisection.
RECURSIVE Bisect(_, _, _, _, _)
Bisect(low, high, qd, divisor, rem) ==
    IF low > high THEN qd
    ELSE LET mid == low + (high - low) \div 2 IN
         IF LessEqual(Multiply(divisor, FromUInt32(mid)), rem) THEN Bisect(mid + 1, high, mid, divisor, rem)
         ELSE Bisect(low, mid - 1, qd, divisor, rem)
KnuthDivMod(a, b) ==
    LET n == Len(a.digits)
        divisor == Abs(b)
        put(q, rem, qd) ==
            Division(<<qd>> \o q, IF qd = 0 THEN rem ELSE Subtract(rem, Multiply(divisor, FromUInt32(qd))))
        digit(q, rem) == put(q, rem, Bisect(0, BASE - 1, 0, divisor, rem))
        under(above, limb) == digit(above.q, Trim(Number(<<limb>> \o above.r.digits, FALSE)))
        step[i \in 1..(n + 1)] ==       \* the quotient's digits from i on, and the remainder
            IF i > n THEN Division(<<>>, FromInt(0)) ELSE under(step[i + 1], a.digits[i])
        whole(d) == [d EXCEPT !.q = Trim(Number(@, FALSE))]
    IN  whole(step[1])

\* Blocks of half the divisor's digits: the shifted divisor comes down one block at a time.
ShiftLeftLimbs(a, limbs) == IF IsZero(a) THEN a ELSE [a EXCEPT !.digits = [i \in 1..limbs |-> 0] \o @]
ShiftRightLimbs(a, limbs) ==
    IF Len(a.digits) > limbs THEN Trim([a EXCEPT !.digits = SubSeq(@, limbs + 1, Len(@))]) ELSE FromInt(0)
FastDivMod(a, b) ==
    LET k == (Len(b.digits) + 1) \div 2
        blocks(v) == (Len(v.digits) + k - 1) \div k
        t == blocks(a) - blocks(b)
        down(s, d) == [q |-> Add(ShiftLeftLimbs(s.q, k), d.q), rem |-> d.r, hat |-> ShiftRightLimbs(s.hat, k)]
        turn(s) == down(s, KnuthDivMod(s.rem, s.hat))
        step[i \in 0..(t + 1)] ==
            IF i = 0 THEN [q |-> FromInt(0), rem |-> Abs(a), hat |-> ShiftLeftLimbs(Abs(b), t * k)]
            ELSE turn(step[i - 1])
        whole(last) == Division(Trim(last.q), last.rem)
    IN  IF Len(a.digits) < FastMin \/ Len(b.digits) < FastMinDivisor THEN KnuthDivMod(a, b)
        ELSE whole(step[t + 1])

\* The sign of the remainder is set only where a is returned as it is.
DivMod(a, b) ==
    LET n == Len(a.digits)
        m == Len(b.digits)
        divided ==
            CASE m = 1 -> DivModBySingleLimb(a, b.digits[1])
               [] m > 1 /\ n <= NaiveMax /\ m <= NaiveMax -> NaiveDivMod(a, b)
               [] m > 1 /\ (n > NaiveMax \/ m > NaiveMax) /\ n < KnuthMax /\ m < KnuthMax -> KnuthDivMod(a, b)
               [] OTHER -> FastDivMod(a, b)
        signed(d) == [d EXCEPT !.q.negative = (a.negative # b.negative) /\ ~IsZero(d.q)]
    IN  IF IsZero(a) THEN Division(FromInt(0), FromInt(0))
        ELSE IF AbsLess(Abs(a), Abs(b)) THEN Division(FromInt(0), a)
        ELSE signed(divided)
Divide(a, b) == DivMod(a, b).q
\* The sign is turned for a negative dividend, once more where DivMod() returned the dividend itself.
Modulo(a, b) == LET turned(r) == IF a.negative /\ ~IsZero(r) THEN Negate(r) ELSE r IN turned(DivMod(a, b).r)

-----------------------------------------------------------------------------
(* The behaviours, next to the integers                                    *)

Sign(n) == IF n < 0 THEN -1 ELSE 1
Quotient(a, b) == Sign(a) * Sign(b) * (Absolute(a) \div Absolute(b))
\* C++'s remainder, which has the dividend's sign, as the comment in DivMod() wants it.
Remainder(a, b) == Sign(a) * (Absolute(a) % Absolute(b))

Init ==
    /\ \E n \in Integer : /\ ref = n
                          /\ x = FromString(n < 0, Numerals(Absolute(n), 1))
    /\ \E n \in Integer : y \in {FromInt64(n), FromInt(n)} \cup (IF n < 0 THEN {} ELSE {FromUInt64(n)})
    /\ did = [op |-> "make", a |-> x]
    /\ bigOps = 0

\* The integer that a number stands for.
Value(a) ==
    LET value[i \in 1..(Len(a.digits) + 1)] == IF i > Len(a.digits) THEN 0 ELSE a.digits[i] + BASE * value[i + 1]
    IN  IF a.negative THEN -value[1] ELSE value[1]

\* Division and modulo by zero throw, and nothing changes.
Operate(op) ==
    /\ bigOps < MaxBigOps
    /\ bigOps' = bigOps + 1
    /\ op \in {"/", "%"} => ~IsZero(y)
    /\ x' = CASE op = "+" -> Add(x, y) [] op = "-" -> Subtract(x, y) [] op = "*" -> Multiply(x, y)
              [] op = "/" -> Divide(x, y) [] op = "%" -> Modulo(x, y) [] op = "neg" -> Negate(x)
    /\ ref' = LET a == Value(x)
                  b == Value(y)
              IN  CASE op = "+" -> a + b [] op = "-" -> a - b [] op = "*" -> a * b
                    [] op = "/" -> Quotient(a, b) [] op = "%" -> Remainder(a, b) [] op = "neg" -> -a
    /\ did' = [op |-> op, a |-> x]
    /\ UNCHANGED y

Next == \E op \in {"+", "-", "*", "/", "%", "neg"} : Operate(op)
Spec == Init /\ [][Next]_vars

-----------------------------------------------------------------------------

\* The remainder of a negative dividend below the divisor: DivMod() returns the
\* dividend itself, and operator% turns its sign once more.
TurnedTwice == did.op = "%" /\ did.a.negative /\ AbsLess(Abs(did.a), Abs(y))
\* The results that are zero and keep a minus sign: a negative number less itself,
\* and zero times a number of the other sign.
NegativeZero ==
    \/ did.op = "-" /\ did.a = y /\ y.negative
    \/ did.op = "*" /\ (IsZero(did.a) \/ IsZero(y)) /\ did.a.negative # y.negative

\* An operation makes the integer of its operands' values that arithmetic makes, in
\* canonical digits, whichever algorithm the sizes select (TurnedTwice is the one
\* exception, and there the result is exactly the negative: BigInt.hpp:238 wants the
\* remainder to "match dividend"); it is printed as that integer and read back
\* without loss; exactly the results NegativeZero names are zeros with a sign; and
\* comparison is that of the integers, except that a zero with a sign is below the
\* zero without one and differs from it.
BigIntExact ==
    LET value == IF TurnedTwice THEN -ref ELSE ref IN
    /\ Value(x) = value
    /\ x.digits = Limbs(Absolute(value))
    /\ Printed(x) = [minus |-> value < 0, text |-> Numerals(Absolute(value), 1)]
    /\ FromString(Printed(x).minus, Printed(x).text) = FromInt64(value)
    /\ (x.negative /\ IsZero(x)) <=> NegativeZero
    /\ Less(x, y) <=> \/ value < Value(y)
                      \/ value = Value(y) /\ NegativeZero
    /\ Equal(x, y) <=> value = Value(y) /\ ~NegativeZero
=============================================================================
