-------------------------------- MODULE Json --------------------------------
(***************************************************************************)
(* The two JSON parsers of NGIN.Serialization over one token sequence: the *)
(* semantic parser (JsonParser.cpp), which builds a document, and the      *)
(* event parser (JsonEventParser.cpp), which calls a handler as it goes    *)
(* and never has a document.  They are two implementations of one grammar  *)
(* with their own bookkeeping of depth, nodes, members and duplicate keys. *)
(* The JSON writer, which must write back what was parsed, follows at the  *)
(* end.                                                                    *)
(***************************************************************************)
EXTENDS ParseCore

Plain   == {"a", "b"}            \* strings without escapes
Escaped == {"a\\", "n\\"}        \* strings with escapes: of a, and of a line end
BadString == "\\"               \* a string with an invalid escape
Strings == Plain \cup Escaped \cup {BadString}
Scalars == {"1", "1.0", "1.5"}   \* a literal or an integer, and two numbers with a fraction
BadNumber == "1."                \* a number cut short
Space   == " "
Comment == "#"
OpenComment == "/*"              \* a block comment without an end

\* The decoded text of a string token, the bytes between its quotes and the
\* bytes of its decoded text.
Decode(t) == CASE t = "a\\" -> "a" [] t = "n\\" -> "n" [] OTHER -> t
RawLength     == 6
DecodedLength == 1

RECURSIVE SkipTrivia(_, _)
SkipTrivia(p, c) ==
    CASE Peek(p, c) \in {Comment, OpenComment} /\ ~p.o.comments -> Fail(c, "InvalidToken")
      [] Peek(p, c) \in {Comment, Space} -> SkipTrivia(p, Advance(c))
      [] Peek(p, c) = OpenComment -> Fail([c EXCEPT !.i = Len(p.s) + 1], "UnexpectedEnd")
      [] OTHER -> Yield(c, "trivia")

\* Both parsers decode a string only when it has escapes, and only then it
\* counts against the limit of decoded bytes.
ParseString(p, c) ==
    LET t == Peek(p, c)
    IN  CASE t \in Plain -> Yield(Advance(c), t)
          [] t \in Escaped /\ RawLength > p.l.decoded - c.decoded -> Fail(c, "LimitExceeded")
          [] t \in Escaped -> Yield([Advance(c) EXCEPT !.decoded = @ + DecodedLength], Decode(t))
          [] t = BadString -> Fail(c, "InvalidStringEscape")
          [] OTHER -> Fail(c, "InvalidToken")

\* The spelling decides the kind; the text of a number is the shortest one for its value.
NumberOf(t) == [kind |-> IF t = "1" THEN "Int64" ELSE "Double", text |-> IF t = "1.0" THEN "1" ELSE t]

\* A number cut short is the token BadNumber; literals read like integers.
ParseNumber(p, c) ==
    IF Peek(p, c) = BadNumber THEN Fail(c, "InvalidNumber") ELSE Yield(Advance(c), NumberOf(Peek(p, c)))

Unexpected(p, c) == Fail(c, IF Peek(p, c) = Eof THEN "UnexpectedEnd" ELSE "UnexpectedCharacter")

-----------------------------------------------------------------------------
(* The semantic parser. *)

AddNode(p, c, v) == CountNode(p, c, v)

\* The position of the member of ms with key k, 0 if there is none.
FindKey(ms, k) == IF \E j \in DOMAIN ms : ms[j][1] = k
                  THEN CHOOSE j \in DOMAIN ms :
                           ms[j][1] = k /\ \A h \in 1 .. j - 1 : ms[h][1] # k
                  ELSE 0

\* What becomes of the members when <<k, v>> is read, by duplicate policy.
AddMember(p, ms, k, v) ==
    LET j == FindKey(ms, k)
    IN  CASE j = 0 \/ p.o.dup = "Preserve" -> Append(ms, <<k, v>>)
          [] p.o.dup = "KeepFirst" -> ms
          [] OTHER -> [ms EXCEPT ![j] = <<k, v>>]

\* After an element or a member: the end, or a comma and what follows it.
Separator(p, c, close) ==
    Bind(SkipTrivia(p, c), LAMBDA d, u :
      CASE Peek(p, d) = close -> Yield(Advance(d), "end")
        [] Peek(p, d) = "," ->
             Bind(SkipTrivia(p, Advance(d)), LAMBDA e, w :
               CASE Peek(p, e) # close -> Yield(e, "more")
                 [] p.o.trailing -> Yield(Advance(e), "end")
                 [] OTHER -> Fail(e, "InvalidToken"))
        [] OTHER -> Fail(d, "UnexpectedCharacter"))

RECURSIVE ParseValue(_, _), ParseElements(_, _, _), ParseMembers(_, _, _)

ParseElements(p, c, vs) ==
    Bind(ParseValue(p, c), LAMBDA d, v :
      Bind(Separator(p, d, "]"), LAMBDA e, more :
        IF more = "end" THEN Yield(e, Append(vs, v)) ELSE ParseElements(p, e, Append(vs, v))))

ParseMembers(p, c, ms) ==
    Bind(ParseString(p, c), LAMBDA d, k :
      Bind(SkipTrivia(p, d), LAMBDA e, u :
        IF Peek(p, e) # ":" THEN Fail(e, "UnexpectedCharacter")
        ELSE Bind(ParseValue(p, Advance(e)), LAMBDA f, v :
          IF p.o.dup = "Reject" /\ FindKey(ms, k) # 0 THEN Fail(f, "DuplicateName")
          ELSE Bind(Separator(p, f, "}"), LAMBDA g, more :
            IF more = "end" THEN Yield(g, AddMember(p, ms, k, v))
            ELSE ParseMembers(p, g, AddMember(p, ms, k, v))))))

Enter(c) == [Advance(c) EXCEPT !.depth = @ + 1]
Leave(c) == [c EXCEPT !.depth = @ - 1]

ParseArray(p, c) ==
    IF c.depth >= p.l.depth THEN Fail(c, "DepthExceeded")
    ELSE Bind(SkipTrivia(p, Enter(c)), LAMBDA d, u :
           Bind(IF Peek(p, d) = "]" THEN Yield(Advance(d), <<>>) ELSE ParseElements(p, d, <<>>),
             LAMBDA e, vs :
               LET f == [Leave(e) EXCEPT !.elements = @ + Len(vs)]
               IN  IF f.elements > p.l.members THEN Fail(f, "LimitExceeded")
                   ELSE AddNode(p, f, [kind |-> "Array", items |-> vs])))

ParseObject(p, c) ==
    IF c.depth >= p.l.depth THEN Fail(c, "DepthExceeded")
    ELSE Bind(SkipTrivia(p, Enter(c)), LAMBDA d, u :
           Bind(IF Peek(p, d) = "}" THEN Yield(Advance(d), <<>>) ELSE ParseMembers(p, d, <<>>),
             LAMBDA e, ms :
               IF Len(ms) > p.l.members - e.members THEN Fail(e, "LimitExceeded")
               ELSE AddNode(p, [Leave(e) EXCEPT !.members = @ + Len(ms)],
                            [kind |-> "Object", items |-> ms])))

ParseValue(p, c) ==
    Bind(SkipTrivia(p, c), LAMBDA d, u :
      LET t == Peek(p, d)
      IN  CASE t = "{" -> ParseObject(p, d)
            [] t = "[" -> ParseArray(p, d)
            [] t \in Strings -> Bind(ParseString(p, d), LAMBDA e, v :
                                  AddNode(p, e, [kind |-> "String", text |-> v]))
            [] t \in Scalars \cup {BadNumber} -> Bind(ParseNumber(p, d), LAMBDA e, v : AddNode(p, e, v))
            [] OTHER -> Unexpected(p, d))

\* The end of a parse: only trivia may follow the value.
AtEnd(p, r) ==
    Bind(r, LAMBDA c, v :
      Bind(SkipTrivia(p, c), LAMBDA d, u :
        IF Peek(p, d) = Eof THEN Yield(d, v) ELSE Fail(d, "TrailingCharacters")))

ParseDocument(p) ==
    IF Len(p.s) > p.l.input THEN Fail(Context, "LimitExceeded")
    ELSE AtEnd(p, ParseValue(p, Context))

-----------------------------------------------------------------------------
(* Events, and the events of a document. *)

Event(kind, text) == <<kind, text>>

RECURSIVE Emit(_)
Emit(v) ==
    CASE v.kind = "Array" ->
           <<Event("StartArray", "")>> \o FlattenSeq([j \in DOMAIN v.items |-> Emit(v.items[j])])
           \o <<Event("EndArray", "")>>
      [] v.kind = "Object" ->
           <<Event("StartObject", "")>>
           \o FlattenSeq([j \in DOMAIN v.items |->
                <<Event("Key", v.items[j][1])>> \o Emit(v.items[j][2])])
           \o <<Event("EndObject", "")>>
      [] OTHER -> <<Event(v.kind, v.text)>>

-----------------------------------------------------------------------------
(* The event parser.  emit is FALSE inside a value whose key was dropped.  *)

\* JsonEventParser.cpp has its own copies of the lexical functions.
StreamTrivia(p, c) == SkipTrivia(p, c)
StreamString(p, c) == ParseString(p, c)
StreamNumber(p, c) == ParseNumber(p, c)

BeginValue(p, c) == CountNode(p, c, "counted")

\* Mutant: the value of a dropped key is delivered.
DeliverIf_Always(c, e, emit) == Deliver(c, e)

DeliverIf(c, e, emit) == IF emit THEN Deliver(c, e) ELSE Yield(c, "dropped")

RECURSIVE StreamValue(_, _, _), StreamElements(_, _, _), StreamMembers(_, _, _, _)

\* As Separator, but the closing token is left for the caller.
StreamSeparator(p, c, close) ==
    Bind(StreamTrivia(p, c), LAMBDA d, u :
      CASE Peek(p, d) = close -> Yield(d, "end")
        [] Peek(p, d) = "," ->
             Bind(StreamTrivia(p, Advance(d)), LAMBDA e, w :
               CASE Peek(p, e) # close -> Yield(e, "more")
                 [] p.o.trailing -> Yield(e, "end")
                 [] OTHER -> Fail(e, "InvalidToken"))
        [] OTHER -> Fail(d, "UnexpectedCharacter"))

StreamElements(p, c, emit) ==
    Bind(StreamValue(p, c, emit), LAMBDA d, v :
      Bind(StreamSeparator(p, d, "]"), LAMBDA e, more :
        IF more = "end" THEN Yield(e, v) ELSE StreamElements(p, e, emit)))

\* keys: the keys seen in this object, kept unless the policy is Preserve.
StreamMembers(p, c, keys, emit) ==
    Bind(StreamString(p, c), LAMBDA d, k :
      LET duplicate == p.o.dup # "Preserve" /\ k \in keys
          keep      == ~duplicate
          counted   == IF keep THEN [d EXCEPT !.members = @ + 1] ELSE d
      IN  CASE duplicate /\ p.o.dup = "Reject" -> Fail(d, "DuplicateName")
            [] keep /\ d.members >= p.l.members -> Fail(d, "LimitExceeded")
            [] OTHER ->
                 Bind(StreamTrivia(p, counted), LAMBDA e, u :
                   IF Peek(p, e) # ":" THEN Fail(e, "UnexpectedCharacter")
                   ELSE Bind(DeliverIf(Advance(e), Event("Key", k), emit /\ keep), LAMBDA f, w :
                     Bind(StreamValue(p, f, emit /\ keep), LAMBDA g, v :
                       Bind(StreamSeparator(p, g, "}"), LAMBDA h, more :
                         IF more = "end" THEN Yield(h, v)
                         ELSE StreamMembers(p, h, keys \cup {k}, emit))))))

\* Mutant: one level more than the limit.
TooDeep_ByOne(p, c) == c.depth > p.l.depth
TooDeep(p, c) == c.depth >= p.l.depth

\* StartArray or StartObject, the contents, EndArray or EndObject.
StreamContainer(p, c, close, start, end, emit) ==
    Bind(BeginValue(p, c), LAMBDA d, n :
      IF TooDeep(p, d) THEN Fail(d, "LimitExceeded")
      ELSE Bind(DeliverIf(Enter(d), Event(start, ""), emit), LAMBDA e, s :
        Bind(StreamTrivia(p, e), LAMBDA f, u :
          Bind(CASE Peek(p, f) = close -> Yield(f, "empty")
                 [] close = "]" -> StreamElements(p, f, emit)
                 [] OTHER -> StreamMembers(p, f, {}, emit),
            LAMBDA g, v : DeliverIf(Leave(Advance(g)), Event(end, ""), emit)))))

StreamValue(p, c, emit) ==
    Bind(StreamTrivia(p, c), LAMBDA d, u :
      LET t == Peek(p, d)
      IN  CASE t = "{" -> StreamContainer(p, d, "}", "StartObject", "EndObject", emit)
            [] t = "[" -> StreamContainer(p, d, "]", "StartArray", "EndArray", emit)
            [] OTHER ->
                 Bind(BeginValue(p, d), LAMBDA e, n :
                   CASE t \in Strings -> Bind(StreamString(p, e), LAMBDA f, v :
                                           DeliverIf(f, Event("String", v), emit))
                     [] t \in Scalars \cup {BadNumber} -> Bind(StreamNumber(p, e), LAMBDA f, v :
                                           DeliverIf(f, Event(v.kind, v.text), emit))
                     [] OTHER -> Unexpected(p, e)))

ParseEventsContiguous(p) ==
    IF Len(p.s) > p.l.input THEN Fail(Context, "LimitExceeded")
    ELSE AtEnd(p, StreamValue(p, Context, TRUE))

\* EventParser::ParseContiguous: KeepLast goes through the document.
ParseContiguous(p) ==
    IF p.o.dup = "KeepLast"
    THEN Bind(ParseDocument(p), LAMBDA c, v : Yield([c EXCEPT !.events = Emit(v)], "emitted"))
    ELSE ParseEventsContiguous(p)

-----------------------------------------------------------------------------
(* JSON::Writer: a document becomes text, here the tokens above.           *)
(* r is the text so far, and whether a limit has stopped the writing.      *)
(* Options: [pretty, sortObjectKeys, maxDepth, maxOutputBytes].            *)

Written(out) == [ok |-> TRUE, out |-> out]

\* Every token counts as one byte.
Put(r, t, o) ==
    IF ~r.ok \/ Len(r.out) >= o.maxOutputBytes THEN [r EXCEPT !.ok = FALSE]
    ELSE [r EXCEPT !.out = Append(@, t)]

AppendIndent(r, o) == IF o.pretty THEN Put(r, Space, o) ELSE r
AppendEscaped(r, text, o) == Put(r, IF text = "n" THEN "n\\" ELSE text, o)

\* stable_sort by key; the keys that occur, in their order.
KeyOrder == <<"a", "b", "n">>
SortMembers(ms) ==
    FlattenSeq([k \in DOMAIN KeyOrder |-> SelectSeq(ms, LAMBDA m : m[1] = KeyOrder[k])])

RECURSIVE WriteValue(_, _, _, _)
WriteValue(r, v, depth, o) ==
    LET Separated(x, i)  == AppendIndent(IF i = 1 THEN x ELSE Put(x, ",", o), o)
        Closed(x, close) == Put(IF v.items = <<>> THEN x ELSE AppendIndent(x, o), close, o)
        members          == IF o.sortObjectKeys THEN SortMembers(v.items) ELSE v.items
        Member(x, i)     == WriteValue(Put(AppendEscaped(Separated(x, i), members[i][1], o), ":", o),
                                       members[i][2], depth + 1, o)
        Element(x, i)    == WriteValue(Separated(x, i), v.items[i], depth + 1, o)
    IN  CASE ~r.ok \/ depth > o.maxDepth -> [r EXCEPT !.ok = FALSE]
          [] v.kind \in {"Int64", "Double"} -> Put(r, v.text, o)
          [] v.kind = "String" -> AppendEscaped(r, v.text, o)
          [] v.kind = "Array"  -> Closed(FoldLeftDomain(Element, Put(r, "[", o), v.items), "]")
          [] v.kind = "Object" -> Closed(FoldLeftDomain(Member, Put(r, "{", o), members), "}")

Write(v, o) == WriteValue(Written(<<>>), v, 0, o)

\* What a number reads as when it is written: std::to_chars writes 1.0 as 1.
RereadKind(kind, text) == IF kind = "Double" /\ text = "1" THEN "Int64" ELSE kind
RECURSIVE Reread(_)
Reread(v) ==
    CASE v.kind = "Array" -> [v EXCEPT !.items = [i \in DOMAIN @ |-> Reread(@[i])]]
      [] v.kind = "Object" -> [v EXCEPT !.items = [i \in DOMAIN @ |-> <<@[i][1], Reread(@[i][2])>>]]
      [] OTHER -> [v EXCEPT !.kind = RereadKind(@, v.text)]

\* What WriteCanonical makes of a document.
RECURSIVE Sorted(_)
Sorted(v) ==
    CASE v.kind = "Array" -> [v EXCEPT !.items = [i \in DOMAIN @ |-> Sorted(@[i])]]
      [] v.kind = "Object" ->
           [v EXCEPT !.items = SortMembers([i \in DOMAIN @ |-> <<@[i][1], Sorted(@[i][2])>>])]
      [] OTHER -> v
=============================================================================
