----------------------------- MODULE ParseCore -----------------------------
(***************************************************************************)
(* What the JSON and the XML parsers of NGIN.Serialization share: a cursor *)
(* over the input, a context with the counters the limits are about, and   *)
(* results that are a value or a diagnostic.                               *)
(*                                                                         *)
(* The input is a sequence of tokens.  A token is a lexeme: whatever a     *)
(* scan of bytes can come to is a token of its own, the scans that fail    *)
(* included.  A parse is about p = [s |-> tokens, o |-> options,           *)
(* l |-> limits].                                                          *)
(***************************************************************************)
EXTENDS Integers, Sequences, SequencesExt

Eof == "eof"

Context == [i |-> 1, depth |-> 0, nodes |-> 0, members |-> 0, elements |-> 0,
            decoded |-> 0, events |-> <<>>]

Peek(p, c) == IF c.i > Len(p.s) THEN Eof ELSE p.s[c.i]
Advance(c) == [c EXCEPT !.i = @ + 1]

\* The rest of the input up to the first token that is not in T.
RECURSIVE Skip(_, _, _)
Skip(p, c, T) == IF Peek(p, c) \in T THEN Skip(p, Advance(c), T) ELSE c

Yield(c, v)   == [ok |-> TRUE,  c |-> c, v |-> v]
Fail(c, code) == [ok |-> FALSE, c |-> c, code |-> code]
Bind(r, F(_, _)) == IF r.ok THEN F(r.c, r.v) ELSE r

\* A parse that failed for want of input: one more token might mend it.
WantsMore(p, r) == ~r.ok /\ r.c.i > Len(p.s)

\* A counter of the context against its limit.
CountNode(p, c, v) ==
    IF c.nodes >= p.l.nodes THEN Fail(c, "LimitExceeded")
    ELSE Yield([c EXCEPT !.nodes = @ + 1], v)

Deliver(c, e) == Yield([c EXCEPT !.events = Append(@, e)], "delivered")
=============================================================================
