------------------------------ MODULE Checksum ------------------------------
(***************************************************************************)
(* Hashing/CRC.hpp and Hashing/Checksum.hpp: CRC engines (table, sliced    *)
(* tables, bit by bit), running checksums and decimal check digits.  A     *)
(* byte has ByteBits bits here; every width is a number of bytes, as in    *)
(* the code.  A behaviour feeds one algorithm piece by piece, or builds a  *)
(* decimal string; what Finalize() returns is compared with a definition   *)
(* over everything that was fed.                                           *)
(***************************************************************************)
EXTENDS Integers, Sequences, SequencesExt, Bitwise
CONSTANTS ByteBits, Models, Sums, Pieces, Modulus, NMax, FletcherModulus,
          MaxPieces, MaxDigits
VARIABLES algorithm, sum, fed, digits
vars == <<algorithm, sum, fed, digits>>

Width(bytes) == 2 ^ (bytes * ByteBits)
Bytes == 0..(Width(1) - 1)
Bit(value, k) == (value \div 2 ^ k) % 2
ByteAt(value, k) == (value \div Width(k)) % Width(1)

(***************************************************************************)
(* CRC.  A model is a record of bytes, poly, init, refin, refout, xorout   *)
(* and the number of sliced tables.                                        *)
(***************************************************************************)
Bits(m) == m.bytes * ByteBits
BitReverse(value, bits) ==
    FoldLeft(LAMBDA r, k : 2 * r + Bit(value, k - 1), 0, [k \in 1..bits |-> k])
\* One bit of division, towards the low or the high end.
ShiftBit(m, crc) ==
    IF m.refin
    THEN IF Bit(crc, 0) = 1 THEN (crc \div 2) ^^ m.poly ELSE crc \div 2
    ELSE IF Bit(crc, Bits(m) - 1) = 1 THEN ((crc * 2) % (2 ^ Bits(m))) ^^ m.poly ELSE (crc * 2) % (2 ^ Bits(m))
ShiftByte(m, crc) == FoldLeft(LAMBDA c, k : ShiftBit(m, c), crc, [k \in 1..ByteBits |-> k])
\* The byte at the end of the register where the division starts.
Raised(m, byte) == IF m.refin THEN byte ELSE byte * 2 ^ (Bits(m) - ByteBits)
MakeTable0(m) == [n \in Bytes |-> ShiftByte(m, Raised(m, n))]
MakeTables(m) ==
    LET table0 == MakeTable0(m)
        tables[slice \in 0..(m.slices - 1)] ==
            IF slice = 0 THEN table0
            ELSE [n \in Bytes |-> table0[ByteAt(tables[slice - 1][n], 0)] ^^ (tables[slice - 1][n] \div Width(1))]
    IN  tables
TableByteUpdate(m, table, crc, byte) ==
    IF m.bytes = 1 THEN table[crc ^^ byte]
    ELSE IF m.refin THEN table[ByteAt(crc, 0) ^^ byte] ^^ (crc \div Width(1))
    ELSE table[ByteAt(crc, m.bytes - 1) ^^ byte] ^^ ((crc * Width(1)) % (2 ^ Bits(m)))
BitwiseByteUpdate(m, crc, byte) == ShiftByte(m, crc ^^ Raised(m, byte))
LoadLittleEndian(data) == FoldRight(LAMBDA byte, v : v * Width(1) + byte, data, 0)
\* Eight bytes at once: the ones the register covers go through it.
SliceUpdate(m, tables, crc, data) ==
    LET mixed == crc ^^ LoadLittleEndian(SubSeq(data, 1, m.bytes))
        index(k) == IF k <= m.bytes THEN ByteAt(mixed, k - 1) ELSE data[k]
    IN  FoldLeft(LAMBDA c, k : c ^^ tables[8 - k][index(k)], 0, [k \in 1..8 |-> k])
ByteByByte(m, tables, crc, data) == FoldLeft(LAMBDA c, byte : TableByteUpdate(m, tables[0], c, byte), crc, data)
ReflectedSlicingUpdate(m, tables, crc, data) ==
    LET whole == Len(data) \div 8
        go[k \in 0..whole] == IF k = 0 THEN crc ELSE SliceUpdate(m, tables, go[k - 1], SubSeq(data, 8 * k - 7, 8 * k))
    IN  ByteByByte(m, tables, go[whole], SubSeq(data, 8 * whole + 1, Len(data)))
TableUpdate(m, crc, data) ==
    IF data = <<>> THEN crc
    ELSE IF m.slices = 1 THEN ByteByByte(m, MakeTables(m), crc, data)
    ELSE ReflectedSlicingUpdate(m, MakeTables(m), crc, data)
BitwiseUpdate(m, crc, data) == FoldLeft(LAMBDA c, byte : BitwiseByteUpdate(m, c, byte), crc, data)
CrcFinalize(m, crc) == (IF m.refin # m.refout THEN BitReverse(crc, Bits(m)) ELSE crc) ^^ m.xorout

(***************************************************************************)
(* Running checksums.  a and b are the accumulators, odd the byte that     *)
(* waits for its other half (-1 for none).                                 *)
(***************************************************************************)
Fold(value) == LET go[s \in 0..(Width(4) - 1)] == IF s < Width(2) THEN s ELSE go[(s % Width(2)) + (s \div Width(2))] IN go[value]
Start(kind) == [a |-> IF kind = "Adler32" THEN 1 ELSE 0, b |-> 0, odd |-> -1]
BSD(s, byte) == [s EXCEPT !.a = ((@ \div 2) + (@ % 2) * (Width(2) \div 2) + byte) % Width(2)]
SYSV(s, byte) == [s EXCEPT !.a = (@ + byte) % Width(4)]
Sum8(s, byte) == [s EXCEPT !.a = (@ + byte) % Width(1)]
Sum24(s, byte) == [s EXCEPT !.a = ((@ + byte) % Width(4)) % Width(3)]
Sum32(s, byte) == [s EXCEPT !.a = (@ + byte) % Width(4)]
Xor8(s, byte) == [s EXCEPT !.a = @ ^^ byte]
Fletcher16(s, byte) ==
    LET a == (s.a + byte) % FletcherModulus IN [s EXCEPT !.a = a, !.b = (@ + a) % FletcherModulus]
\* AddWord of the Internet checksum keeps the carries; the one of Fletcher32 does not.
InternetAddWord(s, word) ==
    LET a == (s.a + word) % Width(4) IN [s EXCEPT !.a = (a % Width(2)) + (a \div Width(2))]
FletcherAddWord(s, word) ==
    LET a == (s.a + word) % (Width(2) - 1) IN [s EXCEPT !.a = a, !.b = (@ + a) % (Width(2) - 1)]
AddWord(kind, s, word) == IF kind = "Internet" THEN InternetAddWord(s, word) ELSE FletcherAddWord(s, word)
\* Mutant: the waiting byte is not cleared once its other half has come.
WordsKeepingOdd(kind, s, data) ==
    LET all == IF s.odd >= 0 THEN <<s.odd>> \o data ELSE data
        n == Len(all) \div 2
        go[k \in 0..n] == IF k = 0 THEN s ELSE AddWord(kind, go[k - 1], all[2 * k - 1] * Width(1) + all[2 * k])
    IN  [go[n] EXCEPT !.odd = IF Len(all) % 2 = 1 THEN all[Len(all)] ELSE @]
\* A waiting byte takes the first of the new ones; then pairs; then one may be left.
UpdateWords(kind, s, data) ==
    LET joined == IF s.odd >= 0 /\ data # <<>>
                  THEN [AddWord(kind, s, s.odd * Width(1) + data[1]) EXCEPT !.odd = -1] ELSE s
        rest == IF s.odd >= 0 /\ data # <<>> THEN Tail(data) ELSE data
        n == Len(rest) \div 2
        go[k \in 0..n] == IF k = 0 THEN joined ELSE AddWord(kind, go[k - 1], rest[2 * k - 1] * Width(1) + rest[2 * k])
    IN  IF Len(rest) % 2 = 1 THEN [go[n] EXCEPT !.odd = rest[Len(rest)]] ELSE go[n]
\* The remainders are taken once for every NMax bytes, which the accumulators must hold.
UpdateAdler(s, data) ==
    LET n == (Len(data) + NMax - 1) \div NMax
        add(t, byte) == LET a == (t.a + byte) % Width(4) IN [t EXCEPT !.a = a, !.b = (@ + a) % Width(4)]
        reduce(t) == [t EXCEPT !.a = @ % Modulus, !.b = @ % Modulus]
        go[k \in 0..n] ==
            IF k = 0 THEN s
            ELSE reduce(FoldLeft(add, go[k - 1], SubSeq(data, (k - 1) * NMax + 1, IF k * NMax < Len(data) THEN k * NMax ELSE Len(data))))
    IN  go[n]
AdlerByte(s, byte) == LET a == (s.a + byte) % Modulus IN [s EXCEPT !.a = a, !.b = (@ + a) % Modulus]

UpdateByte(kind, s, byte) ==
    CASE kind = "BSD" -> BSD(s, byte)
      [] kind = "SYSV" -> SYSV(s, byte)
      [] kind = "Sum8" -> Sum8(s, byte)
      [] kind = "Sum24" -> Sum24(s, byte)
      [] kind = "Sum32" -> Sum32(s, byte)
      [] kind = "Xor8" -> Xor8(s, byte)
      [] kind = "Fletcher16" -> Fletcher16(s, byte)
      [] kind = "Adler32" -> AdlerByte(s, byte)
      [] OTHER -> UpdateWords(kind, s, <<byte>>)
Update(kind, s, data) ==
    CASE kind \in {"Internet", "Fletcher32"} -> UpdateWords(kind, s, data)
      [] kind = "Adler32" -> UpdateAdler(s, data)
      [] OTHER -> FoldLeft(LAMBDA t, byte : UpdateByte(kind, t, byte), s, data)
FinalizeWords(s) ==
    LET padded == s.odd * Width(1)
        a == (s.a + padded) % (Width(2) - 1)
    IN  [internet |-> Width(2) - 1 - Fold(IF s.odd >= 0 THEN (s.a + padded) % Width(4) ELSE s.a),
         fletcher |-> IF s.odd >= 0 THEN ((s.b + a) % (Width(2) - 1)) * Width(2) + a ELSE s.b * Width(2) + s.a]
Finalize(kind, s) ==
    CASE kind = "SYSV" -> Fold(s.a)
      [] kind = "Internet" -> FinalizeWords(s).internet
      [] kind = "Fletcher32" -> FinalizeWords(s).fletcher
      [] kind = "Fletcher16" -> s.b * Width(1) + s.a
      [] kind = "Adler32" -> s.b * Width(2) + s.a
      [] OTHER -> s.a

(***************************************************************************)
(* Decimal check digits.                                                   *)
(***************************************************************************)
Luhn(d) ==
    LET value(i) == LET twice == 2 * d[i]
                    IN  IF (Len(d) - i) % 2 = 1 THEN d[i] ELSE IF twice > 9 THEN twice - 9 ELSE twice
        total[i \in 0..Len(d)] == IF i = 0 THEN 0 ELSE total[i - 1] + value(i)
    IN  (10 - (total[Len(d)] % 10)) % 10
VerhoeffD == <<<<0, 1, 2, 3, 4, 5, 6, 7, 8, 9>>, <<1, 2, 3, 4, 0, 6, 7, 8, 9, 5>>, <<2, 3, 4, 0, 1, 7, 8, 9, 5, 6>>,
               <<3, 4, 0, 1, 2, 8, 9, 5, 6, 7>>, <<4, 0, 1, 2, 3, 9, 5, 6, 7, 8>>, <<5, 9, 8, 7, 6, 0, 4, 3, 2, 1>>,
               <<6, 5, 9, 8, 7, 1, 0, 4, 3, 2>>, <<7, 6, 5, 9, 8, 2, 1, 0, 4, 3>>, <<8, 7, 6, 5, 9, 3, 2, 1, 0, 4>>,
               <<9, 8, 7, 6, 5, 4, 3, 2, 1, 0>>>>
VerhoeffP == <<<<0, 1, 2, 3, 4, 5, 6, 7, 8, 9>>, <<1, 5, 7, 6, 2, 8, 3, 0, 9, 4>>, <<5, 8, 0, 3, 7, 9, 6, 1, 4, 2>>,
               <<8, 9, 1, 6, 0, 4, 3, 5, 2, 7>>, <<9, 4, 5, 3, 1, 2, 6, 8, 7, 0>>, <<4, 2, 8, 6, 5, 7, 3, 9, 0, 1>>,
               <<2, 7, 9, 3, 8, 0, 6, 4, 1, 5>>, <<7, 0, 4, 6, 9, 1, 3, 2, 5, 8>>>>
VerhoeffInv == <<0, 4, 3, 2, 1, 5, 6, 7, 8, 9>>
\* From the first digit to the last.
Verhoeff(d) ==
    LET c[i \in 0..Len(d)] == IF i = 0 THEN 0 ELSE VerhoeffD[c[i - 1] + 1][VerhoeffP[((Len(d) - i + 1) % 8) + 1][d[i] + 1] + 1]
    IN  VerhoeffInv[c[Len(d)] + 1]
DammTable == <<<<0, 3, 1, 7, 5, 9, 8, 6, 4, 2>>, <<7, 0, 9, 2, 1, 5, 4, 8, 6, 3>>, <<4, 2, 0, 6, 8, 7, 1, 3, 5, 9>>,
               <<1, 7, 5, 0, 9, 8, 3, 4, 2, 6>>, <<6, 1, 2, 3, 0, 4, 5, 9, 7, 8>>, <<3, 6, 7, 4, 2, 0, 9, 5, 8, 1>>,
               <<5, 8, 6, 9, 7, 2, 0, 1, 3, 4>>, <<8, 9, 4, 5, 3, 6, 2, 0, 1, 7>>, <<9, 4, 3, 8, 6, 1, 7, 2, 0, 5>>,
               <<2, 5, 8, 1, 4, 3, 6, 7, 9, 0>>>>
Damm(d) == FoldLeft(LAMBDA interim, digit : DammTable[interim + 1][digit + 1], 0, d)

(***************************************************************************)
(* Programs.                                                               *)
(***************************************************************************)
Init ==
    /\ algorithm \in Models \cup {[kind |-> k] : k \in Sums \cup {"decimal"}}
    /\ sum = IF "bytes" \in DOMAIN algorithm THEN [table |-> algorithm.init, bitwise |-> algorithm.init]
             ELSE Start(algorithm.kind)
    /\ fed = <<>>
    /\ digits = <<>>
IsCrc == "bytes" \in DOMAIN algorithm
\* CRCState::Update with either engine.
UpdateCrc(piece) ==
    /\ IsCrc /\ Len(fed) < MaxPieces
    /\ sum' = [table |-> TableUpdate(algorithm, sum.table, piece), bitwise |-> BitwiseUpdate(algorithm, sum.bitwise, piece)]
    /\ fed' = Append(fed, piece)
    /\ UNCHANGED <<algorithm, digits>>
UpdateSum(piece) ==
    /\ ~IsCrc /\ algorithm.kind \in Sums /\ Len(fed) < MaxPieces
    /\ sum' = Update(algorithm.kind, sum, piece)
    /\ fed' = Append(fed, piece)
    /\ UNCHANGED <<algorithm, digits>>
\* Text known at compile time is fed byte by byte.
UpdateText(piece) ==
    /\ ~IsCrc /\ algorithm.kind \in Sums /\ Len(fed) < MaxPieces
    /\ sum' = FoldLeft(LAMBDA s, byte : UpdateByte(algorithm.kind, s, byte), sum, piece)
    /\ fed' = Append(fed, piece)
    /\ UNCHANGED <<algorithm, digits>>
Reset ==
    /\ sum' = IF IsCrc THEN [table |-> algorithm.init, bitwise |-> algorithm.init] ELSE Start(algorithm.kind)
    /\ fed' = <<>>
    /\ UNCHANGED <<algorithm, digits>>
AddDigit == \E digit \in 0..9 :
    /\ ~IsCrc /\ algorithm.kind = "decimal" /\ Len(digits) < MaxDigits
    /\ digits' = Append(digits, digit)
    /\ UNCHANGED <<algorithm, sum, fed>>
Next == (\E piece \in Pieces : UpdateCrc(piece) \/ UpdateSum(piece) \/ UpdateText(piece)) \/ Reset \/ AddDigit
Spec == Init /\ [][Next]_vars

\* The CRC of the whole message, by its definition: the message, each byte
\* reflected or not, divides into the register from the high end.
CrcOf(m, message) ==
    LET bits == Bits(m)
        poly == IF m.refin THEN BitReverse(m.poly, bits) ELSE m.poly
        init == IF m.refin THEN BitReverse(m.init, bits) ELSE m.init
        stream == FlattenSeq([i \in DOMAIN message |->
                     [k \in 1..ByteBits |-> Bit(message[i], IF m.refin THEN k - 1 ELSE ByteBits - k)]])
        step(r, b) == LET out == (Bit(r, bits - 1) + b) % 2
                          next == (2 * r) % (2 ^ bits)
                      IN  IF out = 1 THEN next ^^ poly ELSE next
        remainder == FoldLeft(step, init, stream)
    IN  (IF m.refout THEN BitReverse(remainder, bits) ELSE remainder) ^^ m.xorout
Total(q) == FoldLeft(LAMBDA t, v : t + v, 0, q)
Padded(q) == IF Len(q) % 2 = 0 THEN q ELSE Append(q, 0)
WordsOf(q) == [i \in 1..(Len(Padded(q)) \div 2) |-> Padded(q)[2 * i - 1] * Width(1) + Padded(q)[2 * i]]
\* The sum of the running sums.
Weighted(q, start) == Total([i \in DOMAIN q |-> start + Total(SubSeq(q, 1, i))])
SumOf(kind, q) ==
    CASE kind = "BSD" -> FoldLeft(LAMBDA s, v : (BitReverse(1, 2 * ByteBits) * (s % 2) + (s \div 2) + v) % Width(2), 0, q)
      [] kind \in {"SYSV"} -> IF Total(q) = 0 THEN 0 ELSE ((Total(q) - 1) % (Width(2) - 1)) + 1
      [] kind = "Sum8" -> Total(q) % Width(1)
      [] kind = "Sum24" -> Total(q) % Width(3)
      [] kind = "Sum32" -> Total(q) % Width(4)
      [] kind = "Xor8" -> Total([k \in 1..ByteBits |-> 2 ^ (k - 1) * (Total([i \in DOMAIN q |-> Bit(q[i], k - 1)]) % 2)])
      [] kind = "Fletcher16" -> (Weighted(q, 0) % FletcherModulus) * Width(1) + (Total(q) % FletcherModulus)
      [] kind = "Adler32" -> ((Weighted(q, 1) % Modulus) * Width(2) + ((1 + Total(q)) % Modulus))
      [] kind = "Internet" -> LET t == Total(WordsOf(q))
                              IN  Width(2) - 1 - IF t = 0 THEN 0 ELSE ((t - 1) % (Width(2) - 1)) + 1
      [] kind = "Fletcher32" -> (Weighted(WordsOf(q), 0) % (Width(2) - 1)) * Width(2) + (Total(WordsOf(q)) % (Width(2) - 1))
Changed(d, i, digit) == [d EXCEPT ![i] = digit]
Exchanged(d, i) == [d EXCEPT ![i] = d[i + 1], ![i + 1] = d[i]]

\* However a message is cut into pieces, every engine returns what the
\* definition gives for the whole of it; and a wrong digit, and with Damm two
\* neighbours exchanged (with Luhn unless 0 and 9), changes the check digit.
\* (Verhoeff's own check digit does, too; this one, which folds from the first
\* digit to the last, misses exchanges such as 03 and 30.)
ChecksumsExact ==
    CASE IsCrc -> /\ CrcFinalize(algorithm, sum.table) = CrcOf(algorithm, FlattenSeq(fed))
                  /\ CrcFinalize(algorithm, sum.bitwise) = CrcOf(algorithm, FlattenSeq(fed))
      [] ~IsCrc /\ algorithm.kind \in Sums -> Finalize(algorithm.kind, sum) = SumOf(algorithm.kind, FlattenSeq(fed))
      [] OTHER -> /\ \A i \in DOMAIN digits, digit \in 0..9 : digit # digits[i] =>
                       /\ Luhn(Changed(digits, i, digit)) # Luhn(digits)
                       /\ Verhoeff(Changed(digits, i, digit)) # Verhoeff(digits)
                       /\ Damm(Changed(digits, i, digit)) # Damm(digits)
                  /\ \A i \in 1..(Len(digits) - 1) : digits[i] # digits[i + 1] =>
                       /\ Damm(Exchanged(digits, i)) # Damm(digits)
                       /\ {digits[i], digits[i + 1]} # {0, 9} => Luhn(Exchanged(digits, i)) # Luhn(digits)
=============================================================================
