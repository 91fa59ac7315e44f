---------------------------- MODULE MCFoundation ----------------------------
(***************************************************************************)
(* The foundation side by side: a behaviour is one of the concurrent map,  *)
(* of shared pointers, of the holders of one object, of allocators, of a   *)
(* string, of a vector, of the flat map, of SIMD vectors, of a checksum,   *)
(* of big integers or of string interners.                                 *)
(***************************************************************************)
EXTENDS ConcurrentHashMap, TLC
CONSTANTS None, Components, k1, k2, Thread, Ctrl
VARIABLES component,
          strong, weak, object, block, shared, tickets, doing, made, fault,
          cls, world, held, doomed, steps,
          design, leaves, blocks, headers, m_live, m_stats, markers, upstream, expected, allocatorOps,
          traits, w, sref, stringOps,
          elements, vw, vref, vdid, vectorOps,
          maps, mapref, spoiled, mapOps,
          tag, vec, twin, apart, vecOps,
          algorithm, sum, fed, digits,
          bx, by, bref, bdone, bigOps,
          interner, strings, answer, outstanding, internOps
owners == <<strong, weak, object, block, shared, tickets, doing, made, fault>>
holders == <<cls, world, held, doomed, steps>>
allocators == <<design, leaves, blocks, headers, m_live, m_stats, markers, upstream, expected, allocatorOps>>
string == <<traits, w, sref, stringOps>>
vector == <<elements, vw, vref, vdid, vectorOps>>
flat == <<maps, mapref, spoiled, mapOps>>
simd == <<tag, vec, twin, apart, vecOps>>
checksum == <<algorithm, sum, fed, digits>>
bigint == <<bx, by, bref, bdone, bigOps>>
interners == <<interner, strings, answer, outstanding, internOps>>
vars == <<component, map, owners, holders, allocators, string, vector, flat, simd, checksum, bigint, interners>>

TwoKeys == {k1, k2}
FirstCapacity == {2}
AllPolicies == {"ManualQuiesce", "HazardPointers", "LocalEpoch"}
\* Two keys that share a bucket until the table grows.
Hashes == [k \in TwoKeys |-> IF k = k1 THEN 0 ELSE 2]
Symmetry == Permutations(Writer)

\* Types that are copied, only moved, only held, or nothing to destroy.
MCPayloadTypes ==
    [c \in {"Expected", "ExpectedVoid", "Optional", "Any", "Callable", "WorkItem", "Scoped"} |->
        CASE c = "Any" -> {"small", "big", "unique", "bigUnique"}
          [] c = "Callable" -> {"small", "big"}
          [] c = "WorkItem" -> {"small", "big", "huge", "bigUnique"}
          [] c = "Scoped" -> {"small"}
          [] OTHER -> {"small", "rigid", "unique", "trivial"}]

\* An Optional that an assignment spoils takes three operations to make and one to use.
MCHolderOps == [c \in DOMAIN MCPayloadTypes |-> IF c = "Optional" THEN 4 ELSE 3]

Request(bytes, alignment) == [bytes |-> bytes, alignment |-> alignment]
MCRequests == {Request(0, 1), Request(1, 1), Request(3, 2), Request(4, 4), Request(5, 3), Request(6, 8),
               Request(14, 4), Request(2, 0)}
MCBases == [a |-> {0, 16}, b |-> {64, 68}]

StringTraits(copy, move, equal, nothrow) ==
    [propagateOnCopy |-> copy, propagateOnMove |-> move, propagateOnSwap |-> move, alwaysEqual |-> equal, nothrowAssign |-> nothrow]
MCTraitSet == {StringTraits(FALSE, FALSE, TRUE, TRUE), StringTraits(FALSE, FALSE, FALSE, TRUE),
               StringTraits(TRUE, TRUE, FALSE, FALSE)}
Long == <<2, 2, 1, 1, 2>>
MCStarts == {[a |-> x, b |-> <<1, 2, 1>>] : x \in {<<>>, Long}}
MCViews == {<<>>, <<1, 2, 1>>, Long}
MCNeedles == {<<>>, <<1>>, <<1, 2>>, <<2, 1, 1>>, <<1, 3>>}

\* How elements are relocated, and how an allocator travels.
MCVectorTraits ==
    {[kind |-> p[1], propagateOnCopy |-> p[2], propagateOnMove |-> p[2], alwaysEqual |-> p[3], comparable |-> TRUE] :
        p \in {<<"bitwise", FALSE, TRUE>>, <<"copy", FALSE, TRUE>>, <<"move", TRUE, FALSE>>, <<"copy", FALSE, FALSE>>}}

\* Hashes that meet at the end of the table and wrap.
MCHashOf == <<6, 6, 7, 0, 14, 15, 1, 3, 7>>

MCTags == {"SSE2", "AVX2", "NEON"} \X {"float", "double", "int32", "uint8", "int8"}
\* Every bit pattern against a zero of each sign, a subnormal, a NaN and an infinity.
MCOperands == {<<[l \in 0..1 |-> IF l = 0 THEN x ELSE {0, 1}], [l \in 0..1 |-> IF l = 0 THEN y ELSE {1}]>> :
                 x \in SUBSET (0..2), y \in {{}, {0}, {2}, {0, 1}, {1, 2}}}

\* Bytes have two bits; NMax is the largest that four of them allow.
Crc(bytes, poly, init, refin, refout, xorout, slices) ==
    [bytes |-> bytes, poly |-> poly, init |-> init, refin |-> refin, refout |-> refout, xorout |-> xorout, slices |-> slices]
MCModels == {Crc(1, 3, 0, FALSE, FALSE, 0, 1), Crc(1, 2, 3, TRUE, TRUE, 0, 1), Crc(2, 3, 15, FALSE, FALSE, 0, 1),
             Crc(2, 9, 6, TRUE, FALSE, 15, 1), Crc(4, 173, 255, TRUE, TRUE, 255, 8), Crc(4, 29, 0, FALSE, TRUE, 0, 1),
             Crc(8, 40961, 65535, TRUE, TRUE, 65535, 8), Crc(8, 4129, 0, FALSE, FALSE, 0, 1)}
MCSums == {"BSD", "SYSV", "Sum8", "Sum24", "Sum32", "Xor8", "Internet", "Adler32", "Fletcher16", "Fletcher32"}
MCPieces == {<<>>, <<1>>, <<2, 0, 3>>, [i \in 1..9 |-> (i * 7) % 4], [i \in 1..10 |-> 3], [i \in 1..17 |-> (i * i) % 4]}

\* Numbers of up to four digits of base four; Word is the least that Karatsuba's sums fit.
MCInteger == {n * s : n \in (0..8) \cup {15, 16, 27, 64, 170, 255}, s \in {1, -1}}

\* Strings that share a bucket, and one that fills the largest page.
MCText == {<<>>, <<1>>, <<1, 2>>, <<2, 1, 1, 1, 2>>, [i \in 1..15 |-> 1]}
MCTextHash(text) == IF text \in {<<1>>, <<>>} THEN 0 ELSE 1

O == INSTANCE SharedPointers WITH MaxHandles <- 3, MaxMade <- 4
H == INSTANCE Lifetimes WITH Classes <- DOMAIN MCPayloadTypes, PayloadTypes <- MCPayloadTypes,
       ThrowingTypes <- {"small", "rigid", "big", "huge"}, MaxOps <- MCHolderOps, ref <- held
A == INSTANCE Allocators WITH Designs <- {"Linear", "Fixed", "Segregated", "Fallback", "Tagged", "Debug", "Array", "Pool"},
       BlockSize <- 14, BlockCount <- 2, Alignment <- 4, Sizes <- <<4, 8>>, BlocksPerClass <- 2, LinearCapacity <- 28,
       MaxAlign <- 4, HeaderSize <- 4, HeaderAlign <- 2, CanarySize <- 2, Bases <- MCBases, Requests <- MCRequests,
       MaxAllocatorOps <- 4
S == INSTANCE BasicString WITH sbo_chars <- 2, MaxCapacity <- 7, smallCapThreshold <- 4, SmallCharSetLinearThreshold <- 4,
       CharT <- {2}, Views <- MCViews, Starts <- MCStarts, ViewLengths <- {2}, Needles <- MCNeedles, TraitSet <- MCTraitSet, MaxStringOps <- 2,
       ref <- sref
V == INSTANCE Vector WITH Values <- {1, 2}, VectorTraits <- MCVectorTraits, MaxVectorSize <- 4, MaxVectorOps <- 3, did <- vdid
F == INSTANCE FlatHashMap WITH Keys <- 1..8, MapValues <- {2}, HashOf <- MCHashOf, kInitialCapacity <- 8,
       Filled <- {4, 7}, MaxMapOps <- 3
X == INSTANCE Simd WITH Lanes <- 2, Width <- 3, Cells <- 5, ScanMin <- 3, Tags <- MCTags, Operands <- MCOperands,
       MaxSteps <- 1, ref <- twin, steps <- vecOps
K == INSTANCE Checksum WITH ByteBits <- 2, Models <- MCModels, Sums <- MCSums, Pieces <- MCPieces, Modulus <- 13,
       NMax <- 9, FletcherModulus <- 3, MaxPieces <- 2, MaxDigits <- 3
B == INSTANCE BigInt WITH Radix <- 2, BASE_DIGITS <- 2, Word <- 17, KaratsubaMin <- 4, NaiveMax <- 2, KnuthMax <- 4,
       FastMin <- 4, FastMinDivisor <- 2, Integer <- MCInteger, MaxBigOps <- 2, x <- bx, y <- by, ref <- bref, did <- bdone
T == INSTANCE StringInterner WITH Text <- MCText, HashOf <- MCTextHash, MinPageCapacity <- 2, Word <- 16, MaxInternOps <- 4

Init ==
    /\ component \in Components
    /\ MapInit
    /\ component # "map" => policy = "ManualQuiesce"
    /\ IF component = "owners" THEN O!Init
       ELSE strong = None /\ weak = None /\ object = None /\ block = None /\ shared = None /\ tickets = None
            /\ doing = None /\ made = None /\ fault = None
    /\ IF component = "holders" THEN H!Init ELSE cls = None /\ world = None /\ held = None /\ doomed = None /\ steps = None
    /\ IF component = "allocators" THEN A!Init
       ELSE design = None /\ leaves = None /\ blocks = None /\ headers = None /\ m_live = None /\ m_stats = None
            /\ markers = None /\ upstream = None /\ expected = None /\ allocatorOps = None
    /\ IF component = "string" THEN S!Init ELSE traits = None /\ w = None /\ sref = None /\ stringOps = None
    /\ IF component = "vector" THEN V!Init ELSE elements = None /\ vw = None /\ vref = None /\ vdid = None /\ vectorOps = None
    /\ IF component = "flat" THEN F!Init ELSE maps = None /\ mapref = None /\ spoiled = None /\ mapOps = None
    /\ IF component = "simd" THEN X!Init ELSE tag = None /\ vec = None /\ twin = None /\ apart = None /\ vecOps = None
    /\ IF component = "checksum" THEN K!Init ELSE algorithm = None /\ sum = None /\ fed = None /\ digits = None
    /\ IF component = "bigint" THEN B!Init ELSE bx = None /\ by = None /\ bref = None /\ bdone = None /\ bigOps = None
    /\ IF component = "interners" THEN T!Init
       ELSE interner = None /\ strings = None /\ answer = None /\ outstanding = None /\ internOps = None

MapSteps == component = "map" /\ MapNext
           /\ UNCHANGED <<component, owners, holders, allocators, string, vector, flat, simd, checksum, bigint, interners>>
OwnersNext == component = "owners" /\ O!Next
           /\ UNCHANGED <<component, map, holders, allocators, string, vector, flat, simd, checksum, bigint, interners>>
HoldersNext == component = "holders" /\ H!Next
           /\ UNCHANGED <<component, map, owners, allocators, string, vector, flat, simd, checksum, bigint, interners>>
AllocatorsNext == component = "allocators" /\ A!Next
           /\ UNCHANGED <<component, map, owners, holders, string, vector, flat, simd, checksum, bigint, interners>>
StringNext == component = "string" /\ S!Next
           /\ UNCHANGED <<component, map, owners, holders, allocators, vector, flat, simd, checksum, bigint, interners>>
VectorNext == component = "vector" /\ V!Next
           /\ UNCHANGED <<component, map, owners, holders, allocators, string, flat, simd, checksum, bigint, interners>>
FlatNext == component = "flat" /\ F!Next
           /\ UNCHANGED <<component, map, owners, holders, allocators, string, vector, simd, checksum, bigint, interners>>
SimdNext == component = "simd" /\ X!Next
           /\ UNCHANGED <<component, map, owners, holders, allocators, string, vector, flat, checksum, bigint, interners>>
ChecksumNext == component = "checksum" /\ K!Next
           /\ UNCHANGED <<component, map, owners, holders, allocators, string, vector, flat, simd, bigint, interners>>
BigIntNext == component = "bigint" /\ B!Next
           /\ UNCHANGED <<component, map, owners, holders, allocators, string, vector, flat, simd, checksum, interners>>
InternersNext == component = "interners" /\ T!Next
           /\ UNCHANGED <<component, map, owners, holders, allocators, string, vector, flat, simd, checksum, bigint>>
Next ==
    \/ MapSteps \/ OwnersNext \/ HoldersNext \/ AllocatorsNext \/ StringNext \/ VectorNext
    \/ FlatNext \/ SimdNext \/ ChecksumNext \/ BigIntNext \/ InternersNext
Spec == Init /\ [][Next]_vars

\* Objects die once, with their last owner, and memory is given out and taken
\* back once, but for the failed constructions after which Any frees and Optional
\* destroys a second time (SharedPointers.tla, Lifetimes.tla, Allocators.tla).
LifetimesExact ==
    /\ component = "owners" => O!OwnersExact
    /\ component = "holders" => H!HoldersExact
    /\ component = "allocators" => A!BlocksExact
\* A string, a vector, the flat map and a string interner hold what their operations
\* say; a vector and the flat map are spoiled by exactly the exceptions and references
\* that their modules name (BasicString.tla, Vector.tla, FlatHashMap.tla,
\* StringInterner.tla).
ContainersExact ==
    /\ component = "string" => S!StringsExact
    /\ component = "vector" => V!ElementsExact
    /\ component = "flat" => F!EntriesFound
    /\ component = "interners" => T!InternerExact
\* "basic guarantee" (Vector.hpp:180): an insertion that is interrupted by an exception
\* leaves a vector that can be used and destroyed (Vector.tla).
BasicGuarantee == component = "vector" => V!BasicGuarantee
\* Every backend computes what the scalar one does, but for the named results for NaN and
\* zeros and for masked loads that read a whole vector (Simd.tla).
SameResults == component = "simd" => X!SameResults
\* A checksum does not depend on how the data is cut, and a big integer is the number it
\* should be whichever algorithm its size selects, but for the named signs of a remainder
\* and of zero (Checksum.tla, BigInt.tla).
NumbersExact ==
    /\ component = "checksum" => K!ChecksumsExact
    /\ component = "bigint" => B!BigIntExact
=============================================================================
