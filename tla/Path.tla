-------------------------------- MODULE Path --------------------------------
(***************************************************************************)
(* NGIN::IO::Path: the lexical operations on a path kept as text.  A text   *)
(* is the sequence of its characters.  A program builds a path from pieces, *)
(* normalizes it, takes it apart and changes its extension.                *)
(***************************************************************************)
EXTENDS Naturals, Sequences, SequencesExt, FiniteSetsExt
CONSTANTS Pieces,      \* texts a program appends
          Letters,     \* characters isalpha() accepts
          MaxLength    \* longest path
VARIABLE m_path

Separators == {"/", "\\"}
IsSeparator(c) == c \in Separators
IsDrivePrefix(p) == Len(p) >= 2 /\ p[1] \in Letters /\ p[2] = ":"
IsAbsolute(p) == IF IsDrivePrefix(p) THEN Len(p) >= 3 /\ IsSeparator(p[3]) ELSE p # <<>> /\ IsSeparator(p[1])
From(p, i) == SubSeq(p, i, Len(p))

\* The text without the separators it ends in; where the last name in it starts.
Trimmed(p) == SubSeq(p, 1, Max({0} \cup {i \in 1..Len(p) : ~IsSeparator(p[i])}))
FindFilenameStart(p) == Max({1} \cup {i + 1 : i \in {j \in 1..Len(p) : IsSeparator(p[j])}})
Filename(p) == From(Trimmed(p), FindFilenameStart(Trimmed(p)))
\* The last dot of a name, when it is not its first character.
Dot(name) == Max({0} \cup {i \in 2..Len(name) : name[i] = "."})
Stem(p) == IF Dot(Filename(p)) = 0 THEN Filename(p) ELSE SubSeq(Filename(p), 1, Dot(Filename(p)) - 1)
Extension(p) == IF Dot(Filename(p)) = 0 THEN <<>> ELSE From(Filename(p), Dot(Filename(p)) + 1)

Parent(p) ==
    LET end == Trimmed(p)
        start == FindFilenameStart(end) - 1
        least == IF IsDrivePrefix(p) /\ IsAbsolute(p) THEN 3 ELSE IF IsSeparator(p[1]) THEN 1 ELSE 0
        parentEnd == Max({least} \cup {i \in 1..start : ~IsSeparator(p[i])})
    IN  CASE p = <<>> -> <<>>
          [] p # <<>> /\ end = <<>> -> <<p[1]>>
          [] end # <<>> /\ start = 0 ->
               IF IsDrivePrefix(p) THEN SubSeq(p, 1, IF IsAbsolute(p) THEN 3 ELSE 2) ELSE <<>>
          [] OTHER -> SubSeq(p, 1, parentEnd)

\* The names between the separators.
Split(p) == SelectSeq(FoldLeft(LAMBDA out, c : IF IsSeparator(c) THEN Append(out, <<>>)
                                               ELSE Append(Front(out), Append(Last(out), c)), <<<<>>>>, p),
                      LAMBDA name : name # <<>>)
JoinNames(names) == FoldLeft(LAMBDA out, name : IF out = <<>> THEN name ELSE out \o <<"/">> \o name, <<>>, names)
Prefix(p) == IF IsDrivePrefix(p) THEN SubSeq(p, 1, 2) ELSE <<>>
SplitNormalizedComponents(p) == Split(From(p, Len(Prefix(p)) + 1))
Up == <<".", ".">>
\* Mutant: ".." takes away a ".." before it.
SegmentUnguarded(segments, name, absolute) ==
    CASE name = <<".">> -> segments
      [] name = Up /\ segments # <<>> -> Front(segments)
      [] name = Up /\ segments = <<>> /\ absolute -> segments
      [] OTHER -> Append(segments, name)
Segment(segments, name, absolute) ==
    CASE name = <<".">> -> segments
      [] name = Up /\ segments # <<>> /\ Last(segments) # Up -> Front(segments)
      [] name = Up /\ (segments = <<>> \/ Last(segments) = Up) /\ absolute -> segments
      [] OTHER -> Append(segments, name)
Normalized(p) ==
    LET segments == FoldLeft(LAMBDA out, name : Segment(out, name, IsAbsolute(p)), <<>>, SplitNormalizedComponents(p))
    IN  Prefix(p) \o (IF IsAbsolute(p) THEN <<"/">> ELSE <<>>) \o JoinNames(segments)

Common(a, b) == Max({n \in 0..Min({Len(a), Len(b)}) : SubSeq(a, 1, n) = SubSeq(b, 1, n)})
RelativeNames(lhs, rhs) == [i \in 1..(Len(rhs) - Common(lhs, rhs)) |-> Up] \o From(lhs, Common(lhs, rhs) + 1)
\* Between two normalized paths; a path to itself is ".".
RelativeFrom(a, b) ==
    IF IsAbsolute(a) # IsAbsolute(b) \/ IsDrivePrefix(a) # IsDrivePrefix(b) \/ Prefix(a) # Prefix(b) THEN a
    ELSE LET names == RelativeNames(SplitNormalizedComponents(a), SplitNormalizedComponents(b))
         IN  IF names = <<>> THEN <<".">> ELSE JoinNames(names)
LexicallyRelativeTo(p, base) == RelativeFrom(Normalized(p), Normalized(base))

StartsWith(p, prefix) ==
    \/ prefix = <<>>
    \/ IsPrefix(prefix, p) /\ (Len(prefix) = Len(p) \/ IsSeparator(p[Len(prefix) + 1]) \/ IsSeparator(Last(prefix)))
EndsWith(p, suffix) == IsSuffix(suffix, p)
Appended(p, segment) ==
    CASE segment = <<>> -> p
      [] segment # <<>> /\ p # <<>> /\ ~IsSeparator(Last(p)) -> p \o <<"/">> \o segment
      [] OTHER -> p \o segment
ReplacedExtension(p, extension) ==
    LET name == Filename(p)
        start == Len(p) - Len(name)
        stem == IF Dot(name) = 0 THEN p ELSE SubSeq(p, 1, start + Dot(name) - 1)
        dotted == IF extension = <<>> \/ extension[1] = "." THEN extension ELSE <<".">> \o extension
    IN  IF name = <<>> THEN p ELSE stem \o dotted

Init == m_path = <<>>
Put(p) == Len(p) <= MaxLength /\ m_path' = p
PutPiece == \E s \in Pieces : Put(m_path \o s)
AppendSegment == \E s \in Pieces : Put(Appended(m_path, s))
Normalize == Put(Normalized(m_path))
RemoveFilename == Put(Parent(m_path))
ReplaceExtension == \E s \in Pieces : Put(ReplacedExtension(m_path, s))
RelativeTo == \E s \in Pieces : Put(LexicallyRelativeTo(m_path, s))
Next == PutPiece \/ AppendSegment \/ Normalize \/ RemoveFilename \/ ReplaceExtension \/ RelativeTo
Spec == Init /\ [][Next]_m_path

----------------------------------------------------------------------------
(* Properties *)

\* Reference: the place a walk over the names of a path reaches, from a working
\* directory whose ancestors are numbered.  The names are taken last to first.
Place(p) ==
    LET names == SplitNormalizedComponents(p)
        back == FoldRight(LAMBDA name, w :
                  CASE name = <<".">> -> w
                    [] name = Up -> [w EXCEPT !.up = @ + 1]
                    [] name \notin {Up, <<".">>} /\ w.up > 0 -> [w EXCEPT !.up = @ - 1]
                    [] OTHER -> [w EXCEPT !.names = <<name>> \o @], names, [up |-> 0, names |-> <<>>])
    IN  [drive |-> Prefix(p), absolute |-> IsAbsolute(p), up |-> IF IsAbsolute(p) THEN 0 ELSE back.up, names |-> back.names]
\* A name that looks like a drive becomes one when it comes first.
NoHiddenDrive(p) == \A i \in DOMAIN Split(p) : i > 1 => ~IsDrivePrefix(Split(p)[i])
Plain(p) == NoHiddenDrive(p) /\ (Split(p) # <<>> => ~IsDrivePrefix(Split(p)[1]) \/ IsDrivePrefix(p))

\* The parts of PathKeepsPlace: about the path alone, with a base, and its extension.
Led(p, n, name, place) ==
    /\ Place(n) = place /\ Normalized(n) = n
    /\ name # <<>> /\ ~IsDrivePrefix(name) => Place(Appended(Parent(p), name)) = place
Related(p, n, b, base, place) ==
    /\ ~(\E i \in DOMAIN Split(base) : Split(base)[i] = Up) /\ IsAbsolute(b) = IsAbsolute(p) /\ Prefix(b) = Prefix(p)
         => Place(Appended(b, LexicallyRelativeTo(p, b))) = place
    /\ StartsWith(n, base) <=>
         (base = <<>> \/ (IsAbsolute(n) = IsAbsolute(b) /\ Prefix(n) = Prefix(b)
                          /\ IsPrefix(SplitNormalizedComponents(base), SplitNormalizedComponents(n))))
Extended(p, q, s) == Extension(q) = s /\ Stem(q) = Stem(p) /\ Parent(q) = Parent(p)
\* Normalize() leads to the same place and is idempotent; Parent() and Filename()
\* take a path apart so that joining them leads back; and the result of
\* LexicallyRelativeTo(), joined to its base, leads to the path, unless the base starts outside.
\* StartsWith() is a comparison of names, and ReplaceExtension() changes the extension only,
\* for a path that does not end in a separator.
PathKeepsPlace ==
    Plain(m_path) =>
      LET n == Normalized(m_path)
          name == Filename(m_path)
      IN  /\ Led(m_path, n, name, Place(m_path))
          /\ \A b \in {b \in Pieces : Plain(b)} : Related(m_path, n, b, Normalized(b), Place(m_path))
          /\ name \notin {<<>>, <<".">>, Up} /\ Trimmed(m_path) = m_path =>
               \A s \in {t \in Pieces : \A i \in DOMAIN t : t[i] \notin Separators \cup {".", ":"}} :
                 Extended(m_path, ReplacedExtension(m_path, s), s)
=============================================================================
