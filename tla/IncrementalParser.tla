------------------------- MODULE IncrementalParser -------------------------
(***************************************************************************)
(* JSON::IncrementalEventParser and XML::IncrementalEventParser: chunks of *)
(* input are retained, and Finish() parses them twice, with the semantic   *)
(* parser to validate and with the event parser to call the handler.  The  *)
(* promise "validated, then emitted exactly once" rests on two parsers,    *)
(* written separately, accepting the same input and seeing the same        *)
(* values in it.                                                           *)
(*                                                                         *)
(* A setup is a parser with its format, options and limits, a handler that *)
(* stops at event number stop (never if 0), the tokens callers feed and    *)
(* max, the bound on their number.                                         *)
(***************************************************************************)
EXTENDS Integers, Sequences
CONSTANTS Setups,      \* the parsers to look at
          None
J == INSTANCE Json
X == INSTANCE Xml

VARIABLES setup, m_buffer, m_complete, m_error, m_diagnostic,
          events       \* what the handler was called with for this document
vars == <<setup, m_buffer, m_complete, m_error, m_diagnostic, events>>

Input == [s |-> m_buffer, o |-> setup.o, l |-> setup.l]

ParseBorrowed(p) == IF setup.format = "json" THEN J!ParseDocument(p) ELSE X!ParseDocument(p)
ParseContiguous(p) == IF setup.format = "json" THEN J!ParseContiguous(p) ELSE X!ParseContiguous(p)

Init ==
    /\ setup \in Setups
    /\ m_buffer = <<>> /\ m_complete = FALSE /\ m_error = FALSE
    /\ m_diagnostic = None /\ events = <<>>

FailWith(code) == m_error' = TRUE /\ m_diagnostic' = code

\* Callers feed any token of the setup, as long as the input could still be
\* the beginning of a document for one of the parsers.
CanExtend == LET more(r) == r.ok \/ X!WantsMore(Input, r)
             IN  more(ParseBorrowed(Input)) \/ more(ParseContiguous(Input))

Feed(t) ==
    /\ ~m_complete /\ ~m_error /\ Len(m_buffer) < setup.max /\ CanExtend
    /\ IF Len(m_buffer) + 1 > setup.l.input
       THEN FailWith("LimitExceeded") /\ UNCHANGED m_buffer
       ELSE m_buffer' = Append(m_buffer, t) /\ UNCHANGED <<m_error, m_diagnostic>>
    /\ UNCHANGED <<setup, m_complete, events>>

FeedInvalidState ==
    /\ m_complete \/ m_error
    /\ FailWith("InvalidDocumentStructure")
    /\ UNCHANGED <<setup, m_buffer, m_complete, events>>

\* What the handler has seen when the event parser comes back, and with what.
Delivered(r) == IF setup.stop # 0 /\ Len(r.c.events) >= setup.stop
                THEN [seen |-> SubSeq(r.c.events, 1, setup.stop), code |-> "HandlerRejected"]
                ELSE [seen |-> r.c.events, code |-> IF r.ok THEN None ELSE r.code]

\* Mutant: the handler is called while the input is being validated.
TryComplete_EmitsFirst ==
    /\ ~m_complete /\ ~m_error
    /\ LET emitted == Delivered(ParseContiguous(Input))
       IN  /\ events' = emitted.seen
           /\ IF emitted.code = None
              THEN m_complete' = TRUE /\ UNCHANGED <<m_error, m_diagnostic>>
              ELSE FailWith(emitted.code) /\ UNCHANGED m_complete
    /\ UNCHANGED <<setup, m_buffer>>

\* Finish() of a document that is neither complete nor failed; otherwise it
\* changes nothing.
TryComplete ==
    /\ ~m_complete /\ ~m_error
    /\ LET validated == ParseBorrowed(Input)
           emitted   == Delivered(ParseContiguous(Input))
       IN  IF ~validated.ok
           THEN FailWith(validated.code) /\ UNCHANGED <<m_complete, events>>
           ELSE /\ events' = emitted.seen
                /\ IF emitted.code = None
                   THEN m_complete' = TRUE /\ UNCHANGED <<m_error, m_diagnostic>>
                   ELSE FailWith(emitted.code) /\ UNCHANGED m_complete
    /\ UNCHANGED <<setup, m_buffer>>

Reset ==
    /\ m_buffer # <<>> \/ m_complete \/ m_error
    /\ m_buffer' = <<>> /\ m_complete' = FALSE /\ m_error' = FALSE
    /\ m_diagnostic' = None
    /\ events' = <<>>
    /\ UNCHANGED setup

Next == (\E t \in setup.tokens : Feed(t)) \/ FeedInvalidState \/ TryComplete \/ Reset
Spec == Init /\ [][Next]_vars

-----------------------------------------------------------------------------
(* Properties *)

\* The events that a document calls for, in document order.
RECURSIVE XmlEvents(_)
XmlEvents(v) ==
    IF v.kind # "Element" THEN <<X!Event(v.kind, "", v.text)>>
    ELSE <<X!Event("StartElement", v.name, <<>>)>> \o v.attributes
         \o X!FlattenSeq([j \in DOMAIN v.kids |-> XmlEvents(v.kids[j])])
         \o <<X!Event("EndElement", v.name, <<>>)>>
Events(v) == IF setup.format = "json" THEN J!Emit(v) ELSE XmlEvents(v)

\* r is what the semantic parser makes of the input.
SeenWhole(r) == r.ok /\ events = Events(r.v)
SeenInPart(r) == r.ok /\ Len(events) = setup.stop /\ X!IsPrefix(events, Events(r.v))
\* A document that completed was seen by the handler whole, once and in
\* document order; of any other document the handler saw nothing, unless it
\* stopped itself, and then a beginning of it.
Transactional ==
    m_complete \/ events # <<>> =>
      IF m_complete THEN SeenWhole(ParseBorrowed(Input)) ELSE SeenInPart(ParseBorrowed(Input))

Agree(d, e) ==
    /\ d.ok => e.ok /\ e.c.events = Events(d.v)
    /\ e.ok /\ ~d.ok => /\ setup.format = "json" /\ d.code = "LimitExceeded"
                       /\ d.c.elements > setup.l.members
\* Whatever the semantic parser accepts the event parser accepts, with the
\* events of the document.  It accepts more in one case alone: the elements
\* of the arrays of a JSON document, which the semantic parser holds against
\* maxMembers (JsonParser.cpp:558) and the event parser does not count, are
\* more than that limit.
ParsersAgree == Agree(ParseBorrowed(Input), ParseContiguous(Input))

\* A document written as t reads as v.
Reads(r, v) == r.ok /\ r.v = v
JsonReads(t, v) ==
    t.ok /\ Reads(J!ParseDocument([s |-> t.out, l |-> [setup.l EXCEPT !.input = 99],
                                   o |-> [comments |-> FALSE, trailing |-> FALSE, dup |-> "Preserve"]]), v)
XmlReads(t, v) ==
    t.ok /\ Reads(X!ParseDocument([s |-> t.out, l |-> [setup.l EXCEPT !.input = 99],
                                   o |-> [setup.o EXCEPT !.doctype = FALSE]]), v)
JsonBack(v, pretty, sorted) ==
    JsonReads(J!Write(v, [pretty |-> pretty, sortObjectKeys |-> sorted,
                          maxDepth |-> setup.l.depth, maxOutputBytes |-> 99]),
              J!Reread(IF sorted THEN J!Sorted(v) ELSE v))
XmlBack(v, pretty, declared) ==
    XmlReads(X!Write(v, [pretty |-> pretty, includeDeclaration |-> declared,
                         maxDepth |-> setup.l.depth, maxOutputBytes |-> 99]),
             X!Reread(setup.o, X!Coalesced(v)))
Back(d) ==
    d.ok => IF setup.format = "json" THEN \A pretty, sorted \in BOOLEAN : JsonBack(d.v, pretty, sorted)
            ELSE \A pretty \in {FALSE, setup.o.trivia = "Discard"}, declared \in BOOLEAN :
                     XmlBack(d.v, pretty, declared)
\* What a document is written as reads as the document again: with line
\* breaks and without, and with sorted keys as the document with its members
\* sorted, and XML with neighbouring texts as one.  Two things are lost, and
\* nothing else: a JSON Double without a fraction is written without one and
\* comes back as an Int64 of the same value (JsonWriter.cpp:144-153), and a
\* carriage return in an XML text or attribute, which only "&#13;" can have
\* put there, is written raw (XmlWriter.cpp:49-87) and comes back as a line
\* feed (XmlParser.cpp:235), or not at all when blank text is discarded.
\* The writer does not refuse what the parser accepted with the same limit
\* on depth.
WrittenBack == Back(ParseBorrowed(Input))
=============================================================================
