-------------------------------- MODULE Xml ---------------------------------
(***************************************************************************)
(* The two XML parsers of NGIN.Serialization: the semantic parser          *)
(* (XmlParser.cpp) and the event parser (XmlEventParser.cpp).  The XML     *)
(* writer follows at the end.                                              *)
(*                                                                         *)
(* Tokens: "<a" and "<b" open a start tag, " " is white space, "x=1" is an *)
(* attribute, ">" and "/>" end a tag, "</a>" and "</b>" are end tags, "t"  *)
(* is plain text, "&lt;" an entity, "&" text with a malformed entity, "]]>"*)
(* the CDATA end where it may not be, and markup declarations are one      *)
(* token each.                                                             *)
(***************************************************************************)
EXTENDS ParseCore

Space     == " "
\* Line ends: a line feed, a carriage return, and both.
LF   == "\\n"
CR   == "\\r"
CRLF == "\\r\\n"
White == {Space, LF, CR, CRLF}
StartTags == {"<a", "<b"}
EndTags   == {"</a>", "</b>"}
TagName(t) == IF t \in {"<a", "</a>"} THEN "a" ELSE "b"

\* Attribute tokens: x='1', x='<' and x=CR spelled as entities, x=CR and x=LF raw, y='1'.
Attributes == {"x=1", "x=&lt;", "x=&#13;", "x=\\r", "x=\\n", "y=1"}
BadAttribute == "x"                \* a name without a value
AttributeName(t) == IF t = "y=1" THEN "y" ELSE "x"
AttributeValue(t) == CASE t = "x=&lt;" -> <<"&lt;">> [] t = "x=&#13;" -> <<"&#13;">> [] t = "x=\\r" -> <<CR>>
                       [] t = "x=\\n" -> <<LF>> [] OTHER -> <<"1">>

Comment == "<!---->"
BadComment == "<!-- -- -->"
\* Processing instructions: what follows the target is their text.  Xml is a reserved target.
Instructions == {"<?i?>", "<?i d?>", "<?id?>", "<?Xml?>"}
TargetOf(t) == CASE t = "<?id?>" -> "id" [] t = "<?Xml?>" -> "Xml" [] OTHER -> "i"
BodyOf(t) == IF t = "<?i d?>" THEN " d" ELSE ""
Declaration == "<?xml version?>"
\* CDATA sections: of t, and the two that ]]> is split into.
CDatas == {"<![CDATA[t]]>", "<![CDATA[]]]]>", "<![CDATA[>]]>"}
CDataText(t) == CASE t = "<![CDATA[t]]>" -> <<"t">>
                  [] t = "<![CDATA[]]]]>" -> <<"]]">>
                  [] OTHER -> <<">">>
Doctype == "<!DOCTYPE>"
ExternalDoctype == "<!DOCTYPE SYSTEM>"
BadMarkup == "<!"
\* Markup whose end is missing: a comment, an instruction, a CDATA section.
OpenMarkup == {"<!--", "<?i", "<![CDATA["}
\* A byte that XML 1.0 does not allow, by itself and in markup.
Forbidden == {"\\0", "<!--\\0-->", "<?i \\0?>"}

Markup == StartTags \cup EndTags \cup OpenMarkup \cup CDatas
          \cup Instructions
          \cup {Comment, BadComment, Declaration, Doctype, ExternalDoctype, BadMarkup}

Exhausted(p, c) == [c EXCEPT !.i = Len(p.s) + 1]
Expect(p, c, code) == Fail(c, IF Peek(p, c) = Eof THEN "UnexpectedEnd" ELSE code)

\* What text stands for when decoded; a piece of text is one byte.
Entities == {"&lt;", "&gt;", "/&gt;", "x=&lt;", "&#13;"}
Decode(t) == CASE t = "&lt;" -> "<" [] t = "&gt;" -> ">" [] t = "/&gt;" -> "/>"
               [] t = "x=&lt;" -> "x=<" [] t = "&#13;" -> CR [] OTHER -> t
NeedsDecode(raw) == ToSet(raw) \cap (Entities \cup {"&", CR, CRLF}) # {}
\* A carriage return, with the line feed behind it if there is one, is a line feed.
OneLineEnd(s, t) ==
    CASE t = LF /\ s.afterCR -> [s EXCEPT !.afterCR = FALSE]
      [] t \in {CR, CRLF} -> [text |-> Append(s.text, LF), afterCR |-> t = CR]
      [] OTHER -> [text |-> Append(s.text, t), afterCR |-> FALSE]
LineEnds(raw) == FoldLeft(OneLineEnd, [text |-> <<>>, afterCR |-> FALSE], raw).text

\* DecodeText: entities are replaced, and only then the limit is looked at.
DecodeText(p, c, raw) ==
    CASE ~NeedsDecode(raw) -> Yield(c, raw)
      [] "&" \in ToSet(raw) -> Fail(c, "InvalidEntity")
      [] Len(LineEnds(raw)) > p.l.decoded - c.decoded -> Fail(c, "LimitExceeded")
      [] OTHER -> LET lines == LineEnds(raw)
                  IN  Yield([c EXCEPT !.decoded = @ + Len(lines)], [j \in DOMAIN lines |-> Decode(lines[j])])

IsWhitespaceOnly(raw) == ToSet(raw) \subseteq White

CountChild(p, c, v) ==
    IF c.members >= p.l.members THEN Fail(c, "LimitExceeded")
    ELSE Yield([c EXCEPT !.members = @ + 1], v)

CountAttribute(p, c, v) ==
    IF c.elements >= p.l.members THEN Fail(c, "LimitExceeded")
    ELSE Yield([c EXCEPT !.elements = @ + 1], v)

\* Markup that both parsers read alike, wherever it stands; the caller keeps
\* or drops it.
ParseComment(p, c) ==
    IF Peek(p, c) = BadComment THEN Fail(c, "InvalidToken") ELSE Yield(Advance(c), "Comment")

ParseProcessingInstruction(p, c, declaration) ==
    IF Peek(p, c) \in {Declaration, "<?Xml?>"} /\ ~declaration THEN Fail(c, "InvalidToken")
    ELSE Yield(Advance(c), "ProcessingInstruction")

ParseDoctype(p, c) ==
    CASE ~p.o.doctype -> Fail(c, "UnsupportedConstruct")
      [] Peek(p, c) = ExternalDoctype -> Fail(Advance(c), "UnsupportedConstruct")
      [] OTHER -> Yield(Advance(c), "Doctype")

-----------------------------------------------------------------------------
(* The start tag.  The event parser delivers an attribute as it reads it;  *)
(* the semantic parser, which has no use for the events field, keeps the   *)
(* attributes of the element there until it makes its node.                *)

Event(kind, name, value) == <<kind, name, value>>

RECURSIVE ParseAttributes(_, _, _)
ParseAttributes(p, c, seen) ==
    LET d == Skip(p, c, White)
        t == Peek(p, d)
    IN  CASE t = "/>" -> Yield(Advance(d), "empty")
          [] t = ">"  -> Yield(Advance(d), "content")
          [] d = c -> Fail(d, "InvalidToken")
          [] t = Eof -> Fail(d, "UnexpectedEnd")
          [] t \in Attributes /\ AttributeName(t) \in seen -> Fail(d, "DuplicateName")
          [] t \in Attributes ->
               Bind(DecodeText(p, d, AttributeValue(t)), LAMBDA e, v :
                 Bind(CountAttribute(p, Advance(e), "counted"), LAMBDA f, n :
                   Bind(Deliver(f, Event("Attribute", AttributeName(t), v)), LAMBDA g, w :
                     ParseAttributes(p, g, seen \cup {AttributeName(t)}))))
          [] OTHER -> Fail(d, "InvalidToken")

\* A run of text up to the next markup.
TextEnd(p, c) == LET ends == {j \in c.i .. Len(p.s) : p.s[j] \in Markup}
                 IN  IF ends = {} THEN Len(p.s) + 1 ELSE CHOOSE j \in ends : \A k \in ends : j <= k
RawText(p, c) == SubSeq(p.s, c.i, TextEnd(p, c) - 1)

-----------------------------------------------------------------------------
(* The semantic parser. *)

Keeps(p) == p.o.trivia = "Preserve"

RECURSIVE ParseElement(_, _), ParseContent(_, _, _, _)

\* A node, and the node as a child of the element being read.
AddLeaf(p, c, kids, kind, text, Rest(_, _)) ==
    Bind(CountNode(p, c, "node"), LAMBDA d, n :
      Bind(CountChild(p, d, "child"), LAMBDA e, m :
        Rest(e, Append(kids, [kind |-> kind, text |-> text]))))

ParseContent(p, c, name, kids) ==
    LET t == Peek(p, c)
        Rest(d, ks) == ParseContent(p, d, name, ks)
    IN  CASE t = Eof -> Fail(c, "UnexpectedEnd")
          [] t \in EndTags -> IF TagName(t) = name THEN Yield(Advance(c), kids)
                              ELSE Fail(Advance(c), "MismatchedTag")
          [] t \in {Comment, BadComment} ->
               Bind(ParseComment(p, c), LAMBDA d, k :
                 IF Keeps(p) THEN AddLeaf(p, d, kids, k, <<>>, Rest) ELSE Rest(d, kids))
          [] t \in CDatas -> AddLeaf(p, Advance(c), kids, "CData", CDataText(t), Rest)
          [] t \in Instructions \cup {Declaration} ->
               Bind(ParseProcessingInstruction(p, c, FALSE), LAMBDA d, k :
                 IF Keeps(p) THEN AddLeaf(p, d, kids, k, <<TargetOf(t), BodyOf(t)>>, Rest) ELSE Rest(d, kids))
          [] t \in OpenMarkup -> Fail(Exhausted(p, c), "UnexpectedEnd")
          [] t \in {BadMarkup, Doctype, ExternalDoctype} -> Fail(c, "UnsupportedConstruct")
          [] t \in StartTags ->
               Bind(ParseElement(p, c), LAMBDA d, child :
                 Bind(CountChild(p, d, "child"), LAMBDA e, m : Rest(e, Append(kids, child))))
          [] OTHER ->
               LET raw == RawText(p, c)
                   d   == [c EXCEPT !.i = TextEnd(p, c)]
               IN  CASE "]]>" \in ToSet(raw) -> Fail(d, "InvalidToken")
                     [] ~Keeps(p) /\ IsWhitespaceOnly(raw) -> Rest(d, kids)
                     [] OTHER -> Bind(DecodeText(p, d, raw), LAMBDA e, text :
                                   AddLeaf(p, e, kids, "Text", text, Rest))

ParseElement(p, c) ==
    IF c.depth >= p.l.depth THEN Fail(c, "DepthExceeded")
    ELSE LET name == TagName(Peek(p, c))
             in   == [Advance(c) EXCEPT !.depth = @ + 1, !.events = <<>>]
         IN  Bind(ParseAttributes(p, in, {}), LAMBDA d, form :
               LET attributes == d.events
               IN  Bind(IF form = "empty" THEN Yield(d, <<>>) ELSE ParseContent(p, d, name, <<>>),
                     LAMBDA e, kids :
                       CountNode(p, [e EXCEPT !.depth = @ - 1],
                                 [kind |-> "Element", name |-> name,
                                  attributes |-> attributes, kids |-> kids])))

-----------------------------------------------------------------------------
(* Prolog, root, epilog: the same steps in both parsers.                   *)

RECURSIVE ParseMisc(_, _, _, _)
ParseMisc(p, c, prolog, sawDoctype) ==
    LET d == Skip(p, c, White)
        t == Peek(p, d)
    IN  CASE t \in {Comment, BadComment} ->
               Bind(ParseComment(p, d), LAMBDA e, k : ParseMisc(p, e, prolog, sawDoctype))
          [] t \in Instructions \cup {Declaration} ->
               Bind(ParseProcessingInstruction(p, d, FALSE), LAMBDA e, k :
                 ParseMisc(p, e, prolog, sawDoctype))
          [] prolog /\ t \in {Doctype, ExternalDoctype} /\ sawDoctype ->
               Fail(d, "InvalidDocumentStructure")
          [] prolog /\ t \in {Doctype, ExternalDoctype} ->
               Bind(ParseDoctype(p, d), LAMBDA e, k : ParseMisc(p, e, prolog, TRUE))
          [] t \in {"<!--", "<?i"} -> Fail(Exhausted(p, d), "UnexpectedEnd")
          [] OTHER -> Yield(d, "misc")

ParseAround(p, Root(_, _)) ==
    CASE Len(p.s) > p.l.input -> Fail(Context, "LimitExceeded")
      [] Forbidden \cap ToSet(p.s) # {} -> Fail(Context, "InvalidEncoding")
      [] OTHER ->
           Bind(IF Peek(p, Context) = Declaration
                THEN ParseProcessingInstruction(p, Context, TRUE) ELSE Yield(Context, "none"),
             LAMBDA c, x :
               Bind(ParseMisc(p, c, TRUE, FALSE), LAMBDA d, y :
                 CASE Peek(p, d) \notin Markup \ EndTags -> Fail(d, "InvalidDocumentStructure")
                   [] Peek(p, d) \notin StartTags -> Fail(d, "InvalidToken")
                   [] OTHER ->
                        Bind(Root(p, d), LAMBDA e, v :
                          Bind(ParseMisc(p, e, FALSE, FALSE), LAMBDA f, z :
                            IF Peek(p, f) = Eof THEN Yield(f, v)
                            ELSE Fail(f, "InvalidDocumentStructure")))))

ParseDocument(p) == ParseAround(p, ParseElement)

-----------------------------------------------------------------------------
(* The event parser. *)

\* XmlEventParser.cpp has its own copies of what reads the parts of a tag and
\* of markup.
StreamText(p, c, raw) == DecodeText(p, c, raw)
StreamAttributes(p, c, seen) == ParseAttributes(p, c, seen)
StreamComment(p, c) == ParseComment(p, c)
StreamInstruction(p, c, declaration) == ParseProcessingInstruction(p, c, declaration)

RECURSIVE StreamElement(_, _), StreamContent(_, _, _)

StreamLeaf(p, c, event, Rest(_)) ==
    Bind(CountNode(p, c, "node"), LAMBDA d, n :
      Bind(CountChild(p, d, "child"), LAMBDA e, m :
        Bind(Deliver(e, event), LAMBDA f, w : Rest(f))))

StreamContent(p, c, name) ==
    LET t == Peek(p, c)
        Rest(d) == StreamContent(p, d, name)
    IN  CASE t = Eof -> Fail(c, "UnexpectedEnd")
          [] t \in EndTags -> IF TagName(t) = name
                              THEN Deliver(Advance(c), Event("EndElement", name, <<>>))
                              ELSE Fail(Advance(c), "MismatchedTag")
          [] t \in {Comment, BadComment} ->
               Bind(StreamComment(p, c), LAMBDA d, k :
                 IF Keeps(p) THEN StreamLeaf(p, d, Event(k, "", <<>>), Rest) ELSE Rest(d))
          [] t \in CDatas -> StreamLeaf(p, Advance(c), Event("CData", "", CDataText(t)), Rest)
          [] t \in Instructions \cup {Declaration} ->
               Bind(StreamInstruction(p, c, FALSE), LAMBDA d, k :
                 IF Keeps(p) THEN StreamLeaf(p, d, Event(k, "", <<TargetOf(t), BodyOf(t)>>), Rest) ELSE Rest(d))
          [] t \in OpenMarkup -> Fail(Exhausted(p, c), "UnexpectedEnd")
          [] t \in {BadMarkup, Doctype, ExternalDoctype} -> Fail(c, "UnsupportedConstruct")
          [] t \in StartTags ->
               Bind(CountChild(p, c, "child"), LAMBDA d, m :
                 Bind(StreamElement(p, d), LAMBDA e, v : Rest(e)))
          [] OTHER ->
               LET raw == RawText(p, c)
                   d   == [c EXCEPT !.i = TextEnd(p, c)]
               IN  CASE "]]>" \in ToSet(raw) -> Fail(d, "InvalidToken")
                     [] ~Keeps(p) /\ IsWhitespaceOnly(raw) -> Rest(d)
                     [] OTHER -> Bind(StreamText(p, d, raw), LAMBDA e, text :
                                   StreamLeaf(p, e, Event("Text", "", text), Rest))

StreamElement(p, c) ==
    IF c.depth >= p.l.depth THEN Fail(c, "DepthExceeded")
    ELSE LET name == TagName(Peek(p, c))
         IN  Bind(CountNode(p, c, "node"), LAMBDA d, n :
               Bind(Deliver([Advance(d) EXCEPT !.depth = @ + 1], Event("StartElement", name, <<>>)),
                 LAMBDA e, w :
                   Bind(StreamAttributes(p, e, {}), LAMBDA f, form :
                     Bind(IF form = "empty" THEN Deliver(f, Event("EndElement", name, <<>>))
                          ELSE StreamContent(p, f, name), LAMBDA g, v :
                       Yield([g EXCEPT !.depth = @ - 1], v)))))

ParseEventsContiguous(p) == ParseAround(p, StreamElement)
ParseContiguous(p) == ParseEventsContiguous(p)

-----------------------------------------------------------------------------
(* XML::Writer: a document becomes text, here the tokens above.            *)
(* Options: [pretty, includeDeclaration, maxDepth, maxOutputBytes].        *)

Written(out) == [ok |-> TRUE, out |-> out]

\* Every token counts as one byte.
Put(r, t, o) ==
    IF ~r.ok \/ Len(r.out) >= o.maxOutputBytes THEN [r EXCEPT !.ok = FALSE]
    ELSE [r EXCEPT !.out = Append(@, t)]

Indent(r, o) == IF o.pretty THEN Put(r, Space, o) ELSE r

\* Text is escaped character by character; a carriage return is written as it is.
EscapePiece(t) ==
    LET escapes == {e \in Entities \ {"&#13;"} : Decode(e) = t} IN IF escapes = {} THEN t ELSE CHOOSE e \in escapes : TRUE
Escape(r, text, o) == FoldLeft(LAMBDA x, t : Put(x, EscapePiece(t), o), r, text)

WriteAttribute(r, a, o) ==
    Put(Put(r, Space, o), CHOOSE t \in Attributes :
            AttributeName(t) = a[2] /\ [j \in DOMAIN a[3] |-> EscapePiece(a[3][j])] = AttributeValue(t), o)

\* Mutant: mixed content is indented too.
HasTextChildren_Ignored(v) == \E i \in DOMAIN v.kids : v.kids[i].kind = "CData"

HasTextChildren(v) == \E i \in DOMAIN v.kids : v.kids[i].kind \in {"Text", "CData"}

RECURSIVE WriteElement(_, _, _, _)
WriteElement(r, v, depth, o) ==
    LET tag(T)  == CHOOSE t \in T : TagName(t) = v.name
        opened  == FoldLeft(LAMBDA x, a : WriteAttribute(x, a, o), Put(r, tag(StartTags), o), v.attributes)
        mixed   == HasTextChildren(v)
        Line(x) == IF mixed THEN x ELSE Indent(x, o)
        Child(x, k) ==
            CASE k.kind = "Element" -> WriteElement(Line(x), k, depth + 1, o)
              [] k.kind = "Text" -> Escape(Line(x), k.text, o)
              [] k.kind = "CData" -> Put(Line(x), CHOOSE t \in CDatas : CDataText(t) = k.text, o)
              [] k.kind = "Comment" -> Put(Line(x), Comment, o)
              [] k.kind = "ProcessingInstruction" ->
                   Put(Line(x), CHOOSE t \in Instructions : <<TargetOf(t), BodyOf(t)>> = k.text, o)
    IN  CASE ~r.ok \/ depth > o.maxDepth -> [r EXCEPT !.ok = FALSE]
          [] v.kids = <<>> -> Put(opened, "/>", o)
          [] OTHER -> Put(Line(FoldLeft(Child, Put(opened, ">", o), v.kids)), tag(EndTags), o)

Write(v, o) ==
    WriteElement(IF o.includeDeclaration THEN Put(Written(<<>>), Declaration, o) ELSE Written(<<>>),
                 v, 0, o)

\* What can be told of a document from its text: neighbouring texts are one.
RECURSIVE Coalesced(_)
Coalesced(v) ==
    LET Join(ks, k) == IF ks # <<>> /\ k.kind = "Text" /\ Last(ks).kind = "Text"
                       THEN Append(Front(ks), [k EXCEPT !.text = Last(ks).text \o @])
                       ELSE Append(ks, Coalesced(k))
    IN  IF v.kind # "Element" THEN v ELSE [v EXCEPT !.kids = FoldLeft(Join, <<>>, @)]

\* What is left of a document's line ends when its text is read again.
RECURSIVE Reread(_, _)
Reread(o, v) ==
    LET Blank(k) == o.trivia = "Discard" /\ k.kind = "Text" /\ IsWhitespaceOnly(k.text)
    IN  CASE v.kind = "Text" -> [v EXCEPT !.text = LineEnds(@)]
          [] v.kind = "Element" ->
               [v EXCEPT !.attributes = [i \in DOMAIN @ |-> <<@[i][1], @[i][2], LineEnds(@[i][3])>>],
                         !.kids = LET kept == SelectSeq(@, LAMBDA k : ~Blank(k)) IN [i \in DOMAIN kept |-> Reread(o, kept[i])]]
          [] OTHER -> v
=============================================================================
