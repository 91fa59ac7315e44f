-------------------------- MODULE XmlStreamWriter --------------------------
(***************************************************************************)
(* XML::StreamWriter.  As JsonStreamWriter: w is the writer with its sink, *)
(* out what the sink has got, as tokens of Xml.  A name, a value or  *)
(* a section that is written in several pieces is one piece here, except   *)
(* that an attribute's name goes out before its value is looked at.        *)
(***************************************************************************)
EXTENDS Integers, Sequences
CONSTANTS Options,       \* [pretty, indentWidth, declaration, maxDepth, maxOutputBytes, room]
          MaxTokens      \* length of the output from which on elements are only closed
P == INSTANCE Xml

VARIABLES options, w,
          calls,         \* the calls that returned without an error, as events
          spoiled,       \* the output can no longer become a document
          finished       \* Finish() returned without an error
vars == <<options, w, calls, spoiled, finished>>

Fresh == [ok |-> TRUE, stack |-> <<>>, bytes |-> 0, rootCount |-> 0, failed |-> FALSE,
          out |-> <<>>]

Init == options \in Options /\ w = Fresh /\ calls = <<>> /\ spoiled = FALSE /\ finished = FALSE

Refuse(u) == [u EXCEPT !.ok = FALSE]
Break(u)  == [u EXCEPT !.ok = FALSE, !.failed = TRUE]
Then(u, F(_)) == IF u.ok THEN F(u) ELSE u

\* Every piece counts as one byte; the sink takes options.room of them.
AppendPiece(u, t) ==
    CASE ~u.ok -> u
      [] u.failed -> Refuse(u)
      [] u.bytes >= options.maxOutputBytes -> Break(u)
      [] Len(u.out) >= options.room -> Break(u)
      [] OTHER -> [u EXCEPT !.bytes = @ + 1, !.out = Append(@, t)]

\* Texts: t and white space stand for themselves, a carriage return too, "<" is
\* escaped, and invalid holds a character XML does not allow.
Texts == {"t", " ", P!CR, "<", "invalid"}
Pairs == {<<"x", "<">>, <<"x", P!CR>>, <<"y", "1">>, <<"y", "invalid">>}
Escape(u, text) ==
    CASE ~u.ok -> u
      [] text = "invalid" -> Refuse(u)
      [] OTHER -> AppendPiece(u, P!EscapePiece(text))

\* The newline is out before the width is looked at; then the spaces, if there are any.
Indent(u, depth) ==
    IF ~options.pretty THEN u
    ELSE Then(AppendPiece(u, P!Space), LAMBDA v :
           CASE depth > options.maxOutputBytes \div options.indentWidth -> Refuse(v)
             [] depth = 0 -> v
             [] OTHER -> AppendPiece(v, P!Space))

StartTag(name) == CHOOSE t \in P!StartTags : P!TagName(t) = name
EndTag(name)   == CHOOSE t \in P!EndTags : P!TagName(t) = name
Attributed(name, value) ==
    CHOOSE t \in P!Attributes : P!AttributeName(t) = name /\ P!AttributeValue(t)[1] = P!EscapePiece(value)

Top(u) == u.stack[Len(u.stack)]
SetTop(u, frame) == [u EXCEPT !.stack[Len(u.stack)] = frame]
Open(u) == u.stack # <<>>

\* Mutant: the start tag is closed, but still marked open.
CloseStart_Again(u) == IF ~Open(u) \/ ~Top(u).startOpen THEN u ELSE AppendPiece(u, ">")

CloseStart(u) ==
    IF ~Open(u) \/ ~Top(u).startOpen THEN u
    ELSE Then(AppendPiece(u, ">"), LAMBDA v : SetTop(v, [Top(v) EXCEPT !.startOpen = FALSE]))

BeforeMarkup(u) ==
    IF ~Open(u) THEN u
    ELSE Then(CloseStart(u), LAMBDA v :
           Then(IF ~Top(v).hasText THEN Indent(v, Len(v.stack)) ELSE v, LAMBDA x :
             SetTop(x, [Top(x) EXCEPT !.hasContent = TRUE])))

Textual(u) == SetTop(u, [Top(u) EXCEPT !.hasContent = TRUE, !.hasText = TRUE])

\* The XML declaration goes out with the root element.
BeforeRoot(u) ==
    LET declared == IF options.declaration THEN AppendPiece(u, P!Declaration) ELSE u
        ended    == IF options.declaration THEN Indent(declared, 0) ELSE declared
    IN  Then(ended, LAMBDA v : [v EXCEPT !.rootCount = @ + 1])

WriteElement(u, name) ==
    IF \/ name = "invalid"
       \/ Len(u.stack) >= options.maxDepth
       \/ ~Open(u) /\ u.rootCount # 0
    THEN Refuse(u)
    ELSE Then(AppendPiece(IF Open(u) THEN BeforeMarkup(u) ELSE BeforeRoot(u), StartTag(name)),
              LAMBDA v : [v EXCEPT !.stack = Append(@, [name |-> name, attributeNames |-> {},
                                startOpen |-> TRUE, hasContent |-> FALSE, hasText |-> FALSE])])

\* The name is taken and written before the value is looked at.
WriteAttribute(u, name, value) ==
    IF ~Open(u) \/ ~Top(u).startOpen \/ name \in Top(u).attributeNames THEN Refuse(u)
    ELSE LET named == AppendPiece(SetTop(u, [Top(u) EXCEPT !.attributeNames = @ \cup {name}]),
                                  P!Space)
         IN  CASE ~named.ok -> named
               [] value = "invalid" -> Refuse(AppendPiece(named, P!BadAttribute))
               [] OTHER -> AppendPiece(named, Attributed(name, value))

WriteText(u, text) ==
    IF ~Open(u) THEN Refuse(u) ELSE Then(Escape(CloseStart(u), text), Textual)

\* A section that holds ]]> is split in two.
WriteCData(u, text) ==
    IF ~Open(u) \/ text = "invalid" THEN Refuse(u)
    ELSE Then(IF text = "]]>"
              THEN AppendPiece(AppendPiece(CloseStart(u), "<![CDATA[]]]]>"), "<![CDATA[>]]>")
              ELSE AppendPiece(CloseStart(u), "<![CDATA[t]]>"), Textual)

\* Comment() and ProcessingInstruction() look for the end of the markup in the content and
\* for the targets xml and XML; forbidden characters and other spellings of xml pass, and
\* nothing separates a target from its content.
WriteMarkup(u, t) == IF t \in {P!BadComment, P!Declaration} THEN Refuse(u) ELSE AppendPiece(BeforeMarkup(u), t)
Instructions == {"<?i d?>", "<?id?>", "<?Xml?>", P!Declaration, "<?i \\0?>"}

WriteEnd(u) ==
    IF ~Open(u) THEN Refuse(u)
    ELSE LET frame == Top(u)
             v     == [u EXCEPT !.stack = P!Front(@)]
         IN  IF frame.startOpen THEN AppendPiece(v, "/>")
             ELSE AppendPiece(IF frame.hasContent /\ ~frame.hasText
                              THEN Indent(v, Len(v.stack)) ELSE v, EndTag(frame.name))

\* What a call that comes to v leaves behind it: the start of an attribute whose value was
\* refused, markup that no reader accepts, or a declaration that is not the first thing.
LeavesGap(v) ==
    LET added == P!ToSet(SubSeq(v.out, Len(w.out) + 1, Len(v.out)))
    IN  \/ added \cap (P!Forbidden \cup {P!BadAttribute, "<?Xml?>"}) # {}
        \/ P!Declaration \in added /\ w.out # <<>>

\* A call of the writer comes to v, and is described by event if it is not
\* refused.
Answer(v, event) ==
    /\ w' = [v EXCEPT !.ok = TRUE]
    /\ calls' = IF v.ok THEN calls \o event ELSE calls
    /\ spoiled' = (spoiled \/ LeavesGap(v))
    /\ UNCHANGED <<options, finished>>
\* Callers stop at the bound, except that they may still close what is open.
Call(v, event) == Len(w.out) < MaxTokens /\ Answer(v, event)

BeginElement(name) == Call(WriteElement(w, name), <<P!Event("StartElement", name, <<>>)>>)
Attribute(name, value) ==
    Call(WriteAttribute(w, name, value), <<P!Event("Attribute", name, <<value>>)>>)
Text(text)  == Call(WriteText(w, text), <<P!Event("Text", "", <<text>>)>>)
CData(text) == Call(WriteCData(w, text),
                    <<P!Event("CData", "", IF text = "]]>" THEN <<"]]", ">">> ELSE <<text>>)>>)
Comment(t) == Call(WriteMarkup(w, t), <<P!Event("Comment", "", <<>>)>>)
\* i with the content d is written as the instruction id.
ProcessingInstruction(t) ==
    Call(WriteMarkup(w, t), <<P!Event("ProcessingInstruction", "",
                                      IF t = "<?id?>" THEN <<"i", "d">> ELSE <<P!TargetOf(t), P!BodyOf(t)>>)>>)
EndElement == Answer(WriteEnd(w), <<P!Event("EndElement", IF Open(w) THEN Top(w).name ELSE "", <<>>)>>)

Complete == ~w.failed /\ w.stack = <<>> /\ w.rootCount = 1
Finish ==
    /\ finished' = Complete
    /\ UNCHANGED <<options, w, calls, spoiled>>

Reset == w' = Fresh /\ calls' = <<>> /\ spoiled' = FALSE /\ finished' = FALSE /\ UNCHANGED options

Next ==
    \/ ~finished /\ (\/ \E name \in {"a", "b", "invalid"} : BeginElement(name)
                     \/ \E pair \in Pairs : Attribute(pair[1], pair[2])
                     \/ \E text \in Texts : Text(text)
                     \/ \E text \in {"t", "]]>", "invalid"} : CData(text)
                     \/ \E t \in {P!Comment, P!BadComment, "<!--\\0-->"} : Comment(t)
                     \/ \E t \in Instructions : ProcessingInstruction(t)
                     \/ EndElement \/ Finish)
    \/ Reset
Spec == Init /\ [][Next]_vars

-----------------------------------------------------------------------------
(* Properties *)

Wide == [depth |-> 99, nodes |-> 99, members |-> 99, decoded |-> 999, input |-> 99]
Output(trivia) == [s |-> w.out, l |-> Wide, o |-> [trivia |-> trivia, doctype |-> FALSE]]

\* What a reader tells apart: neighbouring text is one text, neighbouring
\* sections one section, text of white space counts only if kept; comments
\* and instructions only if kept, and outside the root not at all.
Merge(s, e) ==
    IF s # <<>> /\ e[1] \in {"Text", "CData"} /\ s[Len(s)][1] = e[1]
    THEN [s EXCEPT ![Len(s)] = <<e[1], "", @[3] \o e[3]>>]
    ELSE Append(s, e)
Merged(es) == P!FoldLeft(Merge, <<>>, es)
Normal(es, trivia) ==
    LET noise == {"Comment", "ProcessingInstruction"}
        bare(e) == e[1] = "Text" /\ P!IsWhitespaceOnly(e[3])
    IN  IF trivia = "Preserve" THEN Merged(es)
        ELSE Merged(SelectSeq(Merged(es), LAMBDA e : e[1] \notin noise /\ ~bare(e)))
Inner(es) ==
    LET starts == {i \in DOMAIN es : es[i][1] = "StartElement"}
        ends   == {i \in DOMAIN es : es[i][1] = "EndElement"}
    IN  IF starts = {} \/ ends = {} THEN <<>> ELSE SubSeq(es, P!Min(starts), P!Max(ends))

\* What a reader makes of what a call described.
AsRead(e) ==
    CASE e[1] = "ProcessingInstruction" /\ e[3] = <<"i", "d">> -> <<e[1], e[2], <<"id", "">>>>
      [] e[1] \in {"Text", "Attribute"} -> <<e[1], e[2], P!LineEnds(e[3])>>
      [] OTHER -> e

\* Finish() "Validates that exactly one complete root element was written"
\* (XmlStreamWriter.hpp:43), of names, sections, comments and instructions
\* that are "validated" (:23-38).  Unless the sink or a limit has failed, it
\* accepts exactly when the output is one document, but for four gaps after
\* each of which it always accepts what no reader does: the start of an
\* attribute whose value was refused (XmlStreamWriter.cpp:250-257), a comment
\* or instruction with a forbidden character, an instruction with the target
\* Xml (:313-345), and a declaration behind a comment or instruction
\* (:191-204).  Reading the document gives back what the calls described, but
\* that a carriage return has become a line feed and an instruction whose
\* content does not begin with a space has it as part of its target.
RoundTrip ==
    LET trivia == IF options.pretty THEN "Discard" ELSE "Preserve"
        parsed == P!ParseContiguous(Output(trivia))
        read   == [i \in DOMAIN calls |-> AsRead(calls[i])]
    IN  ~w.failed =>
          /\ parsed.ok <=> Complete /\ ~spoiled
          /\ parsed.ok => Normal(parsed.c.events, trivia) = Normal(Inner(read), trivia)
=============================================================================
