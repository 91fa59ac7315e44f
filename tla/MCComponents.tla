---------------------------- MODULE MCComponents ----------------------------
(***************************************************************************)
(* Components that do not meet, side by side: a behaviour is one of the    *)
(* incremental parser, of a stream writer, of a builder, of a part of      *)
(* MCFileSystem or of the timers of a thread pool.                         *)
(***************************************************************************)
EXTENDS XmlBuilder
CONSTANTS None, MaxJsonTokens, MaxXmlTokens,
          Volumes, Umask, MaxHops, MaxOps, MaxHandles, MaxLength, MaxRequests, MaxTime,
          Client, Item
VARIABLES component,
          setup, m_buffer, m_complete, m_error, m_diagnostic, events,
          options, w, calls, spoiled, finished,
          values, arrays, members, valueViews, top, frozen, gave,
          io, m_path, backend, canceled, faults, ops, fd, fds, closure,
          m_pending, sq, kernel, cq, m_inFlight, m_submittedSinceEnter, m_stopping, worker,
          proc, arguments,
          local, injection, timers, clock, stop, current, pc, hand, scan, ready, nextWake,
          status, deadline, cancels, doomed
parser == <<setup, m_buffer, m_complete, m_error, m_diagnostic, events>>
writer == <<options, w, calls, spoiled, finished>>
builder == <<values, arrays, members, valueViews, top, frozen, gave>>
files == <<io, m_path, backend, canceled, faults, ops, fd, fds, closure,
           m_pending, sq, kernel, cq, m_inFlight, m_submittedSinceEnter, m_stopping, worker,
           proc, arguments>>
pool == <<local, injection, timers, clock, stop, current, pc, hand, scan, ready, nextWake,
          status, deadline, cancels, doomed>>

Components == {"parser", "json", "xml", "xml builder", "json builder",
               "files", "path", "async", "process", "timers", "cancel"}

Limits == [depth |-> 3, nodes |-> 9, members |-> 9, decoded |-> 99, input |-> 12]
Tight  == [depth |-> 2, nodes |-> 3, members |-> 2, decoded |-> 7, input |-> 6]
Setup(format, o, l, stopsAt, max, tokens) ==
    [format |-> format, o |-> o, l |-> l, stop |-> stopsAt, max |-> max, tokens |-> tokens]

Policies == {"Reject", "Preserve", "KeepFirst", "KeepLast"}
Json(comments, trailing, dup) == [comments |-> comments, trailing |-> trailing, dup |-> dup]
JsonSetups ==
    \* objects with two members, under each duplicate policy
    {Setup("json", Json(FALSE, FALSE, dup), Limits, 0, 9, {"{", "}", "a", "a\\", ":", ",", "1"})
       : dup \in Policies}
    \cup {Setup("json", Json(FALSE, FALSE, dup), Limits, 3, 6, {"{", "}", "a", ":", "1"}) : dup \in Policies}
    \* limits
    \cup {Setup("json", Json(FALSE, trailing, "KeepFirst"), Tight, 0, 7, {"[", "]", "1", "a\\", ","})
            : trailing \in BOOLEAN}
    \cup {Setup("json", Json(FALSE, FALSE, dup), [Tight EXCEPT !.members = 1, !.input = 12], 0, 9,
                {"{", "}", "a", "b", ":", ",", "1"}) : dup \in {"Preserve", "KeepFirst"}}
    \* trivia and errors
    \cup {Setup("json", Json(comments, TRUE, "Reject"), Limits, 0, 5,
                {"[", "]", "1", ",", "#", "/*", " "}) : comments \in BOOLEAN}
    \cup {Setup("json", Json(FALSE, FALSE, "Reject"), Limits, 0, 4, {"[", "]", "1.", "\\", "?", "b"}),
          Setup("json", Json(FALSE, FALSE, "Reject"), Limits, 0, 5, {"[", "]", "1", "1.0", "1.5", ","})}

Xml(trivia, doctype) == [trivia |-> trivia, doctype |-> doctype]
Trivia == {"Preserve", "Discard"}
XmlSetups ==
    {Setup("xml", Xml("Preserve", FALSE), Limits, 4, 7, {"<a", "<b", ">", "/>", "</a>", "</b>"})}
    \cup {Setup("xml", Xml("Preserve", FALSE), Limits, 0, 6, {"<a", " ", "x=1", "x=&lt;", "y=1", "x", "/>", ">"})}
    \cup {Setup("xml", Xml("Preserve", FALSE), l, 0, 6, {"<a", " ", "x=1", "x=&lt;", "y=1", "/>"})
            : l \in {Tight, [Limits EXCEPT !.decoded = 0]}}
    \cup {Setup("xml", Xml(trivia, FALSE), Limits, 0, 5,
                {"<a", ">", "</a>", " ", "t", "&lt;", "&", "]]>", "<![CDATA[t]]>", "<!---->"})
            : trivia \in Trivia}
    \cup {Setup("xml", Xml(trivia, FALSE), Limits, 0, 5,
                {"<a", ">", "</a>", " ", "x=&#13;", "x=\\r", "\\r", "\\r\\n", "&#13;"}) : trivia \in Trivia}
    \* what may stand before and after the root, and errors
    \cup {Setup("xml", Xml(trivia, doctype), Limits, 0, 4,
                {"<?xml version?>", "<!---->", "<?i?>", "<?i d?>", "<!DOCTYPE>", "<!DOCTYPE SYSTEM>", "<a", "/>", " ", "t"})
            : trivia \in Trivia, doctype \in BOOLEAN}
    \cup {Setup("xml", Xml(trivia, FALSE), Limits, 0, 4,
                {"<a", ">", "/>", "</a>", "<!-- -- -->", "<?Xml?>", "<!--", "<![CDATA[", "<!", "\\0"})
            : trivia \in Trivia}
    \cup {Setup("xml", Xml("Preserve", FALSE), Tight, 0, 7, {"<a", ">", "/>", "</a>", "<?i?>"})}

JsonOptions ==
    LET o == [pretty |-> FALSE, indentWidth |-> 2, maxDepth |-> 2, maxOutputBytes |-> 99, room |-> 99]
    IN  {o, [o EXCEPT !.pretty = TRUE], [o EXCEPT !.room = 4], [o EXCEPT !.maxOutputBytes = 7],
         [o EXCEPT !.pretty = TRUE, !.maxOutputBytes = 3]}
XmlOptions ==
    LET o == [pretty |-> FALSE, indentWidth |-> 2, declaration |-> FALSE, maxDepth |-> 2, maxOutputBytes |-> 99, room |-> 99]
    IN  {o, [o EXCEPT !.pretty = TRUE], [o EXCEPT !.pretty = TRUE, !.indentWidth = 60, !.declaration = TRUE], [o EXCEPT !.room = 4],
         [o EXCEPT !.pretty = TRUE, !.maxOutputBytes = 3]}

I == INSTANCE IncrementalParser WITH Setups <- JsonSetups \cup XmlSetups
J == INSTANCE JsonStreamWriter WITH Options <- JsonOptions, MaxTokens <- MaxJsonTokens
X == INSTANCE XmlStreamWriter WITH Options <- XmlOptions, MaxTokens <- MaxXmlTokens

B == INSTANCE JsonBuilder WITH Keys <- {"a", "b"}, MaxArity <- 2, MaxNodes <- MaxNodes - 1,
       nodes <- values, elements <- arrays, root <- top, done <- frozen, given <- gave
OneName == {"x"}

D == INSTANCE MCFileSystem
\* Two deadlines that differ, and CancelAll().
T == INSTANCE ThreadPoolScheduler WITH NumWorkers <- 1, MaxTime <- 2, MaxCancels <- 0
U == INSTANCE ThreadPoolScheduler WITH NumWorkers <- 1, MaxTime <- 0, MaxCancels <- 1

Begin ==
    /\ component \in Components
    /\ IF component = "parser" THEN I!Init
       ELSE setup = None /\ m_buffer = None /\ m_complete = None /\ m_error = None
            /\ m_diagnostic = None /\ events = None
    /\ CASE component = "json" -> J!Init
         [] component = "xml" -> X!Init
         [] OTHER -> options = None /\ w = None /\ calls = None /\ spoiled = None /\ finished = None
    /\ Init /\ B!Init /\ D!Init /\ T!Init

ParserNext == component = "parser" /\ I!Next /\ UNCHANGED <<component, writer, vars, builder, files, pool>>
JsonNext   == component = "json" /\ J!Next /\ UNCHANGED <<component, parser, vars, builder, files, pool>>
XmlNext    == component = "xml" /\ X!Next /\ UNCHANGED <<component, parser, vars, builder, files, pool>>
XmlBuilderNext  == component = "xml builder" /\ Next /\ UNCHANGED <<component, parser, writer, builder, files, pool>>
JsonBuilderNext == component = "json builder" /\ B!Next /\ UNCHANGED <<component, parser, writer, vars, files, pool>>
FilesNext  == D!Next /\ UNCHANGED <<parser, writer, vars, builder, pool>>
TimersNext == component = "timers" /\ T!Next /\ UNCHANGED <<component, parser, writer, vars, builder, files>>
CancelNext == component = "cancel" /\ U!Next /\ UNCHANGED <<component, parser, writer, vars, builder, files>>
Behaviour ==
    /\ Begin
    /\ [][\/ ParserNext \/ JsonNext \/ XmlNext \/ XmlBuilderNext \/ JsonBuilderNext
          \/ FilesNext \/ TimersNext \/ CancelNext]_<<component, parser, writer, vars, builder, files, pool>>

\* The handler sees a complete document whole and once, or nothing
\* (IncrementalParser.tla).
Transactional == component = "parser" => I!Transactional
\* The semantic and the event parser see the same values, and accept the same
\* input but for arrays of more than maxMembers elements (IncrementalParser.tla).
ParsersAgree == component = "parser" => I!ParsersAgree
\* A document that is written reads as the same document, but that 1.0 has
\* become the integer 1 and a carriage return a line feed (IncrementalParser.tla).
WrittenBack == component = "parser" => I!WrittenBack
\* Finish() of a stream writer accepts exactly the complete documents, and
\* the outputs spoiled by a call that went wrong and set no failure; documents
\* are what the calls described, but for the same losses (JsonStreamWriter.tla,
\* XmlStreamWriter.tla).  What JSON::Builder built reads as it was built
\* (JsonBuilder.tla).
RoundTrip == /\ component = "json" => J!RoundTrip
             /\ component = "xml" => X!RoundTrip
             /\ B!BuiltDocument

\* No item given to ExecuteAt() leaves the timer heap early, and the timer thread does
\* not sleep past one (ThreadPoolScheduler.tla).
TimersExact == component \in {"timers", "cancel"} => T!TimersExact
\* What a copy, a move or a helper reports is what it did, but for an error of
\* readdir() and three failures after which a copy is not cleaned up (FileSystem.tla).
TransferSound == D!TransferSound
\* An operation changes nothing but what it is about, and below a read-only mount
\* only OpenFile for reading makes or empties a file (FileSystem.tla).
ChangesConfined == D!ChangesConfined
\* After a crash a replaced file has its old or its new contents (FileSystem.tla).
AtomicReplacement == D!AtomicReplacement
\* The operations on a path keep the place it leads to (Path.tla).
PathKeepsPlace == D!PathKeepsPlace
\* A descriptor has one owner, with the exceptions that MCFileSystem names
\* (FileSystem.tla, AsyncFile.tla).
DescriptorsSound == D!DescriptorsSound
\* A coroutine is resumed once for what it awaits (AsyncFile.tla).
ResumedOnce == D!ResumedOnce
\* A child reads the arguments it was given, Wait() returns what it wrote, and it is asked
\* before it is killed and is reaped (Process.tla).
ProcessSound == D!ProcessSound
=============================================================================
