-------------------------- MODULE JsonStreamWriter --------------------------
(***************************************************************************)
(* JSON::StreamWriter: a document is written call by call to a sink; a     *)
(* stack of frames knows what may come next.  w is the writer's state with *)
(* its sink: ok says whether the call under way has failed yet, out what   *)
(* the sink has got, as tokens of Json.                              *)
(*                                                                         *)
(* A string is written as one piece: when it does not fit, the writer has  *)
(* failed, whichever part of it went out.                                  *)
(***************************************************************************)
EXTENDS Integers, Sequences
CONSTANTS Options,       \* [pretty, indentWidth, maxDepth, maxOutputBytes, room]
          MaxTokens      \* length of the output from which on values are only closed
P == INSTANCE Json

VARIABLES options, w,
          calls,         \* the calls that returned without an error, as events
          spoiled,       \* a call that returned an error has left a gap in the output
          finished       \* Finish() returned without an error
vars == <<options, w, calls, spoiled, finished>>

Fresh == [ok |-> TRUE, stack |-> <<>>, bytes |-> 0, hasRoot |-> FALSE, failed |-> FALSE,
          out |-> <<>>]

Init == options \in Options /\ w = Fresh /\ calls = <<>> /\ spoiled = FALSE /\ finished = FALSE

Refuse(u) == [u EXCEPT !.ok = FALSE]
Break(u)  == [u EXCEPT !.ok = FALSE, !.failed = TRUE]
Then(u, F(_)) == IF u.ok THEN F(u) ELSE u

\* The sink takes options.room pieces and rejects what follows.
AppendPiece(u, t, size) ==
    CASE ~u.ok -> u
      [] u.failed -> Refuse(u)
      [] size > options.maxOutputBytes - u.bytes -> Break(u)
      [] Len(u.out) >= options.room -> Break(u)
      [] OTHER -> [u EXCEPT !.bytes = @ + size, !.out = Append(@, t)]

\* The newline is out before the width is looked at.
AppendIndent(u, depth) ==
    IF ~options.pretty THEN u
    ELSE Then(AppendPiece(u, P!Space, 1), LAMBDA v :
           CASE options.indentWidth # 0
                  /\ depth > options.maxOutputBytes \div options.indentWidth -> Refuse(v)
             [] depth * options.indentWidth = 0 -> v
             [] OTHER -> AppendPiece(v, P!Space, depth * options.indentWidth))

\* Texts: a needs no escape, n does, and invalid is not UTF-8.
Texts == {"a", "n", "invalid"}
AppendEscaped(u, text) ==
    Then(u, LAMBDA v : IF text = "invalid" THEN Refuse(v)
                       ELSE AppendPiece(v, IF text = "n" THEN "n\\" ELSE text, 3))

Top(u) == u.stack[Len(u.stack)]
SetTop(u, frame) == [u EXCEPT !.stack[Len(u.stack)] = frame]
InObject(u) == u.stack # <<>> /\ Top(u).kind = "Object"
InArray(u)  == u.stack # <<>> /\ Top(u).kind = "Array"
Counted(u)  == SetTop(u, [Top(u) EXCEPT !.count = @ + 1, !.awaitingValue = FALSE])
Comma(u)    == IF Top(u).count # 0 THEN AppendPiece(u, ",", 1) ELSE u

BeforeValue(u) ==
    CASE u.stack = <<>> /\ u.hasRoot -> Refuse(u)
      [] u.stack = <<>> -> [u EXCEPT !.hasRoot = TRUE]
      [] InObject(u) -> IF Top(u).awaitingValue THEN Counted(u) ELSE Refuse(u)
      [] OTHER -> Then(AppendIndent(Comma(u), Len(u.stack)), Counted)

\* The value is announced before the depth is looked at.
Begin(u, kind, open) ==
    Then(BeforeValue(u), LAMBDA v :
      IF Len(v.stack) >= options.maxDepth THEN Refuse(v)
      ELSE Then(AppendPiece(v, open, 1), LAMBDA x :
        [x EXCEPT !.stack = Append(@, [kind |-> kind, count |-> 0, awaitingValue |-> FALSE])]))

End(u, kind, close) ==
    IF u.stack = <<>> \/ Top(u).kind # kind \/ Top(u).awaitingValue THEN Refuse(u)
    ELSE Then(IF Top(u).count # 0 THEN AppendIndent(u, Len(u.stack) - 1) ELSE u, LAMBDA v :
           AppendPiece([v EXCEPT !.stack = P!Front(@)], close, 1))

WriteKey(u, text) ==
    IF ~InObject(u) \/ Top(u).awaitingValue THEN Refuse(u)
    ELSE Then(AppendPiece(AppendEscaped(AppendIndent(Comma(u), Len(u.stack)), text), ":",
                          IF options.pretty THEN 2 ELSE 1),
              LAMBDA v : SetTop(v, [Top(v) EXCEPT !.awaitingValue = TRUE]))

\* What a call that comes to v leaves behind it.  A refused one may have written the comma
\* before its key or value, or have counted its value as the root, as the value of a key, or
\* as the first element of an array, which shows when a comma follows.
LastToken(out) == LET seen == SelectSeq(out, LAMBDA t : t # P!Space) IN IF seen = <<>> THEN P!Eof ELSE P!Last(seen)
Added(v) == SubSeq(v.out, Len(w.out) + 1, Len(v.out))
LeavesGap(v) ==
    /\ ~v.ok /\ ~v.failed
    /\ \/ "," \in P!ToSet(Added(v))
       \/ v.hasRoot /\ ~w.hasRoot
       \/ InObject(w) /\ Top(w).awaitingValue /\ ~Top(v).awaitingValue
ShowsGap(v) == LastToken(w.out) = "[" /\ "," \in P!ToSet(Added(v))

\* A call of the writer comes to v, and is event if it is not refused.
Answer(v, event) ==
    /\ w' = [v EXCEPT !.ok = TRUE]
    /\ calls' = IF v.ok THEN Append(calls, event) ELSE calls
    /\ spoiled' = (spoiled \/ LeavesGap(v) \/ ShowsGap(v))
    /\ UNCHANGED <<options, finished>>
\* Callers stop at the bound, except that they may still close what is open.
Call(v, event) == Len(w.out) < MaxTokens /\ Answer(v, event)

BeginObject == Call(Begin(w, "Object", "{"), P!Event("StartObject", ""))
EndObject   == Answer(End(w, "Object", "}"), P!Event("EndObject", ""))
BeginArray  == Call(Begin(w, "Array", "["), P!Event("StartArray", ""))
EndArray    == Answer(End(w, "Array", "]"), P!Event("EndArray", ""))
Key(text)   == Call(WriteKey(w, text), P!Event("Key", text))
\* Null, Bool, Int64, UInt64, and Double of a finite number: its shortest text.
Scalar      == Call(AppendPiece(BeforeValue(w), "1", 1), P!Event("Int64", "1"))
Double(text) == Call(AppendPiece(BeforeValue(w), text, IF text = "1" THEN 1 ELSE 3), P!Event("Double", text))
String(text) == Call(AppendEscaped(BeforeValue(w), text), P!Event("String", text))
DoubleNotFinite == Call(Refuse(w), P!Event("Double", "1"))

Complete == ~w.failed /\ w.hasRoot /\ w.stack = <<>>
Finish ==
    /\ finished' = Complete
    /\ UNCHANGED <<options, w, calls, spoiled>>

Reset == w' = Fresh /\ calls' = <<>> /\ spoiled' = FALSE /\ finished' = FALSE /\ UNCHANGED options

Next ==
    \/ ~finished /\ (\/ BeginObject \/ EndObject \/ BeginArray \/ EndArray \/ Scalar
                     \/ DoubleNotFinite \/ Finish \/ \E text \in {"1", "1.5"} : Double(text)
                     \/ \E text \in Texts : Key(text) \/ String(text))
    \/ Reset
Spec == Init /\ [][Next]_vars

-----------------------------------------------------------------------------
(* Properties *)

Wide == [depth |-> 99, nodes |-> 99, members |-> 99, decoded |-> 999, input |-> 99]
Output == [s |-> w.out, l |-> Wide,
           o |-> [comments |-> FALSE, trailing |-> FALSE, dup |-> "Preserve"]]
Parsed == P!ParseDocument(Output)

\* Finish() "Validates that exactly one complete root value was written"
\* (JsonStreamWriter.hpp:48).  It accepts exactly when the output is one
\* complete document, unless a call that was refused had already written or
\* counted a part of its value: the depth, the width of an indentation and
\* the encoding of a string are looked at after BeforeValue() or the comma
\* (JsonStreamWriter.cpp:162-166, :61-63, :80), m_failed stays unset, and
\* Finish() then accepts an output that is no document, always and only when
\* the gap shows.  The document is the one the calls described, but that a
\* Double without a fraction reads as an Int64 (:298).
RoundTrip ==
    /\ Parsed.ok <=> Complete /\ ~spoiled
    /\ Parsed.ok => P!Emit(Parsed.v) = [i \in DOMAIN calls |-> P!Event(P!RereadKind(calls[i][1], calls[i][2]), calls[i][2])]
=============================================================================
