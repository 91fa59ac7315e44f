------------------------------ MODULE Process ------------------------------
(***************************************************************************)
(* NGIN::IO::Process: a child process is started, its captured output is   *)
(* drained while Wait() polls for its end, and a timeout, a cancellation or *)
(* too much output terminate it.  The child, its descendant and the clock   *)
(* run beside Wait(); any call of Start() may fail.                        *)
(*                                                                         *)
(* Handles are named by what they are for.  Output is counted in units.    *)
(* While nothing runs the arguments of a Windows command line are built up  *)
(* character by character.                                                 *)
(***************************************************************************)
EXTENDS Integers, Sequences, SequencesExt, FiniteSets, FiniteSetsExt
CONSTANTS Platforms,     \* subset of {"posix", "windows"}
          OptionSet,     \* [limit, timeout, grace, isolate, in, out, err]; timeout = -1 when absent
          Characters,    \* characters of arguments
          MaxTime, MaxWrites, Buffer, PipeSize, MaxCharacters, MaxArguments
VARIABLES proc, arguments
vars == <<proc, arguments>>

Streams == {"out", "err"}
NoResult == [out |-> 0, err |-> 0, canceled |-> FALSE, timedOut |-> FALSE, outputLimitExceeded |-> FALSE, status |-> "none"]
Idle(platform, o) ==
    [platform |-> platform, o |-> o, at |-> "idle", handles |-> {},
     child |-> "none", ignores |-> FALSE, pending |-> {}, status |-> "none", descendant |-> FALSE,
     pipe |-> [s \in Streams |-> 0], wrote |-> [s \in Streams |-> 0],
     now |-> 0, cancel |-> FALSE, started |-> 0, terminationStarted |-> -1, forceKilled |-> FALSE,
     waited |-> FALSE, result |-> NoResult, stray |-> FALSE]
Init == /\ \E platform \in Platforms, o \in OptionSet : proc = Idle(platform, o)
        /\ arguments = <<>>

----------------------------------------------------------------------------
(* Start *)

Mode(s) == IF s = "out" THEN proc.o.out ELSE proc.o.err
ReadEnd(s) == s \o ".read"
ChildEnd(s) == s \o ".child"
ReadEnds(hs) == hs \cap {ReadEnd(s) : s \in Streams}
\* The child's descriptors of a stream, and the read end of a captured one.
Opens(s, mode) ==
    CASE mode = "Inherit" -> {}
      [] mode = "Capture" -> {ReadEnd(s), ChildEnd(s)}
      [] OTHER -> {ChildEnd(s)}
\* OpenStreams(): the handles that are open when the stream "upto" fails; none when it is captured input.
OpenStreams(o, upto) ==
    LET in == IF o.in \in {"Discard", "File"} THEN {ChildEnd("in")} ELSE {}
    IN  CASE upto = "in" -> {}
          [] upto = "out" -> in
          [] upto = "err" -> in \cup Opens("out", o.out)
          [] OTHER -> in \cup Opens("out", o.out) \cup Opens("err", o.err)
ErrorPipe == {"error.read", "error.child"}
\* ~StartupStreams closes everything but the read ends that were taken over.
CloseStreams(hs) == hs \ ({ChildEnd(s) : s \in {"in"} \cup Streams} \cup {ReadEnd(s) : s \in Streams})
AfterFork(hs) == hs \ ErrorPipe
Validates(o) == o.in # "Capture" /\ o.timeout >= -1 /\ o.grace >= 0
CanFail(o, s) == CASE s = "in" -> o.in \in {"Discard", "File"}
                   [] s = "out" -> o.out # "Inherit"
                   [] OTHER -> o.err # "Inherit"
Failing(open) == [proc EXCEPT !.at = "gone", !.handles = CloseStreams(open)]
Running == [proc EXCEPT !.at = "started", !.child = "run", !.handles = ReadEnds(OpenStreams(proc.o, "none"))]

Invalid == ~Validates(proc.o) /\ proc' = [proc EXCEPT !.at = "gone"]
StreamFails == \E s \in {"in"} \cup Streams :
    Validates(proc.o) /\ CanFail(proc.o, s) /\ proc' = Failing(OpenStreams(proc.o, s))
\* POSIX: the error channel, fork(), and in the child setpgid(), dup2(), chdir() or execve().
ForkFails == Validates(proc.o) /\ proc' = Failing(AfterFork(OpenStreams(proc.o, "none") \cup ErrorPipe))
ChildFails == /\ Validates(proc.o)
              /\ proc' = [Failing(AfterFork(OpenStreams(proc.o, "none") \cup ErrorPipe)) EXCEPT !.child = "reaped"]
StartPosix ==
    \/ ForkFails \/ ChildFails
    \/ \E ignores, descendant \in BOOLEAN :
         Validates(proc.o) /\ proc' = [Running EXCEPT !.ignores = ignores, !.descendant = descendant]
\* Windows: the process starts suspended, and is terminated when its job cannot be set up or its thread not resumed.
JobFails == Validates(proc.o) /\ proc.o.isolate /\ proc' = [Failing(OpenStreams(proc.o, "none")) EXCEPT !.child = "reaped"]
ResumeFails == Validates(proc.o) /\ proc' = [Failing(OpenStreams(proc.o, "none")) EXCEPT !.child = "reaped"]
StartWindows ==
    \/ ForkFails \/ JobFails \/ ResumeFails
    \/ \E descendant \in BOOLEAN :
         /\ Validates(proc.o)
         /\ proc' = [Running EXCEPT !.descendant = descendant,
                       !.handles = @ \cup {"process"} \cup (IF proc.o.isolate THEN {"job"} ELSE {})]
Start == /\ proc.at = "idle" /\ arguments = <<>>
         /\ Invalid \/ StreamFails \/ (proc.platform = "posix" /\ StartPosix) \/ (proc.platform = "windows" /\ StartWindows)
         /\ UNCHANGED arguments

----------------------------------------------------------------------------
(* The child and the clock *)

Alive == proc.child = "run"
ChildWrite == \E s \in Streams :
    /\ Alive /\ Mode(s) = "Capture" /\ proc.pipe[s] < PipeSize /\ proc.wrote["out"] + proc.wrote["err"] < MaxWrites
    /\ proc' = [proc EXCEPT !.pipe[s] = @ + 1, !.wrote[s] = @ + 1]
    /\ UNCHANGED arguments
ChildExit == Alive /\ proc' = [proc EXCEPT !.child = "zombie", !.status = "exit"] /\ UNCHANGED arguments
\* A handler may ignore SIGTERM.
Deliver == \E sig \in proc.pending :
    /\ Alive
    /\ proc' = IF sig = "TERM" /\ proc.ignores THEN [proc EXCEPT !.pending = @ \ {sig}]
               ELSE [proc EXCEPT !.pending = {}, !.child = "zombie", !.status = sig]
    /\ UNCHANGED arguments
DescendantExit == proc.descendant /\ proc' = [proc EXCEPT !.descendant = FALSE] /\ UNCHANGED arguments
Tick == /\ proc.at \notin {"idle", "gone"} /\ proc.now < MaxTime
        /\ proc' = [proc EXCEPT !.now = @ + 1] /\ UNCHANGED arguments
CancelToken == /\ proc.at \notin {"idle", "gone"} /\ ~proc.cancel
               /\ proc' = [proc EXCEPT !.cancel = TRUE] /\ UNCHANGED arguments

\* kill() of the process group or the process; TerminateJobObject() or TerminateProcess(), which
\* Windows does through a handle, so that it never reaches another process.
Signal(p, sig) ==
    [p EXCEPT !.pending = IF p.child = "run" THEN @ \cup {sig} ELSE @,
              !.descendant = @ /\ ~(p.o.isolate /\ (sig = "KILL" \/ p.platform = "windows")),
              !.stray = @ \/ (p.platform = "posix" /\ p.child = "reaped" /\ (p.o.isolate => ~p.descendant))]

----------------------------------------------------------------------------
(* Wait *)

\* One read(): what does not fit under the limit is dropped, and the child killed for it.
Captured(p) == p.result.out + p.result.err
Drained(p, s, n) ==
    LET available == IF p.o.limit > Captured(p) THEN p.o.limit - Captured(p) ELSE 0
        accepted == Min({available, n})
        q == [p EXCEPT !.pipe[s] = @ - n, !.result[s] = @ + accepted]
        over == [q EXCEPT !.result.outputLimitExceeded = TRUE, !.forceKilled = TRUE]
    IN  IF accepted = n THEN q
        ELSE IF p.forceKilled THEN over ELSE Signal(over, "KILL")
DrainDescriptor(s, at, next) ==
    /\ proc.at = at
    /\ IF ReadEnd(s) \in proc.handles /\ proc.pipe[s] > 0
       THEN proc' = Drained(proc, s, Min({proc.pipe[s], Buffer}))
       ELSE proc' = [proc EXCEPT !.at = next]
    /\ UNCHANGED arguments
BeginWait == /\ proc.at = "started"
             /\ proc' = [proc EXCEPT !.at = "drain out", !.started = proc.now]
             /\ UNCHANGED arguments
\* waitpid(WNOHANG), or WaitForSingleObject for 10 ms; a Windows process is reaped when its handle is closed.
Reap(p) == IF p.platform = "posix" THEN [p EXCEPT !.child = "reaped"] ELSE p
\* Mutant: output written after the last look at the pipes is lost.
ReapLast(p) == [Reap(p) EXCEPT !.at = "status"]
ReapThenDrain(p) == [Reap(p) EXCEPT !.at = "rest out"]
Poll == /\ proc.at = "poll"
        /\ \/ proc.child = "zombie" /\ proc' = ReapThenDrain(proc)
           \/ proc.child = "run" /\ proc' = [proc EXCEPT !.at = "check"]
        /\ UNCHANGED arguments
\* Windows has one kind of termination; POSIX asks first and kills after the grace period.
Terminating(p) == IF p.platform = "posix" THEN p.terminationStarted >= 0 ELSE p.terminationStarted >= 0 \/ p.forceKilled
Ask(p) == Signal([p EXCEPT !.terminationStarted = p.now], IF p.platform = "posix" THEN "TERM" ELSE "KILL")
CheckCancel(p) == IF ~Terminating(p) /\ p.cancel THEN Ask([p EXCEPT !.result.canceled = TRUE]) ELSE p
CheckTimeout(p) == IF ~Terminating(p) /\ p.o.timeout >= 0 /\ p.now - p.started >= p.o.timeout
                   THEN Ask([p EXCEPT !.result.timedOut = TRUE]) ELSE p
\* Mutant: the grace period is not waited for.
CheckGraceAtOnce(p) == IF p.platform = "posix" /\ p.terminationStarted >= 0 /\ ~p.forceKilled
                       THEN Signal([p EXCEPT !.forceKilled = TRUE], "KILL") ELSE p
CheckGrace(p) == IF p.platform = "posix" /\ p.terminationStarted >= 0 /\ ~p.forceKilled
                    /\ p.now - p.terminationStarted >= p.o.grace
                 THEN Signal([p EXCEPT !.forceKilled = TRUE], "KILL") ELSE p
Check == /\ proc.at = "check"
         /\ proc' = [CheckGrace(CheckTimeout(CheckCancel(proc))) EXCEPT !.at = "drain out"]
         /\ UNCHANGED arguments
Status == /\ proc.at = "status"
          /\ proc' = [proc EXCEPT !.at = "waited", !.waited = TRUE, !.result.status = proc.status]
          /\ UNCHANGED arguments
Wait == \/ BeginWait
        \/ DrainDescriptor("out", "drain out", "drain err") \/ DrainDescriptor("err", "drain err", "poll")
        \/ Poll \/ Check
        \/ DrainDescriptor("out", "rest out", "rest err") \/ DrainDescriptor("err", "rest err", "status")
        \/ Status

\* kill(pid, 0) also finds a child that has ended and was not reaped.
IsRunning == ~proc.waited /\ (proc.child = "run" \/ (proc.platform = "posix" /\ proc.child = "zombie"))
Terminate == /\ proc.at = "started" /\ IsRunning
             /\ proc' = Signal(proc, IF proc.platform = "posix" THEN "TERM" ELSE "KILL")
             /\ UNCHANGED arguments
\* ~Impl kills the child and waits for it, and closes what is left.
Destroy ==
    LET p == IF proc.waited THEN proc ELSE Signal(proc, "KILL")
    IN  /\ proc.at \in {"started", "waited"}
        /\ proc' = [p EXCEPT !.at = "gone", !.handles = {}, !.pending = {}, !.child = "reaped"]
        /\ UNCHANGED arguments

----------------------------------------------------------------------------
(* QuoteArgument *)

Slash(n) == [i \in 1..n |-> "\\"]
Special == {" ", "\t", "\""}
\* The quoted text so far and the backslashes held back.
Quoted(q, c) ==
    CASE c = "\\" -> [q EXCEPT !.slashes = @ + 1]
      [] c = "\"" -> [text |-> q.text \o Slash(2 * q.slashes + 1) \o <<c>>, slashes |-> 0]
      [] OTHER -> [text |-> q.text \o Slash(q.slashes) \o <<c>>, slashes |-> 0]
\* Mutant: the backslashes before the closing quote are not doubled.
ClosedSingly(q) == q.text \o Slash(q.slashes) \o <<"\"">>
Closed(q) == q.text \o Slash(2 * q.slashes) \o <<"\"">>
QuoteArgument(value) ==
    CASE value = <<>> -> <<"\"", "\"">>
      [] value # <<>> /\ \A i \in DOMAIN value : value[i] \notin Special -> value
      [] OTHER -> Closed(FoldLeft(Quoted, [text |-> <<"\"">>, slashes |-> 0], value))
CommandLine(args) == FoldLeft(LAMBDA line, a : line \o <<" ">> \o QuoteArgument(a), <<"x">>, args)

AddArgument == /\ proc.at = "idle" /\ Len(arguments) < MaxArguments
               /\ arguments' = Append(arguments, <<>>) /\ UNCHANGED proc
AddCharacter == /\ proc.at = "idle" /\ arguments # <<>> /\ Len(Last(arguments)) < MaxCharacters
                /\ \E c \in Characters : arguments' = Append(Front(arguments), Append(Last(arguments), c))
                /\ UNCHANGED proc

Next == Start \/ ChildWrite \/ ChildExit \/ Deliver \/ DescendantExit \/ Tick \/ CancelToken
        \/ Wait \/ Terminate \/ Destroy \/ AddArgument \/ AddCharacter
Spec == Init /\ [][Next]_vars

----------------------------------------------------------------------------
(* Properties *)

\* How a child reads its command line (the documented rules of CommandLineToArgvW): backslashes
\* count only before a quote, where two stand for one and an odd one escapes the quote.
Read(line) ==
    LET flush(st) == [st EXCEPT !.word = @ \o Slash(st.slashes), !.slashes = 0]
        step(st, c) ==
          CASE c = "\\" -> [st EXCEPT !.slashes = @ + 1, !.open = TRUE]
            [] c = "\"" ->
                 LET half == [st EXCEPT !.word = @ \o Slash(st.slashes \div 2), !.slashes = 0, !.open = TRUE]
                 IN  IF st.slashes % 2 = 1 THEN [half EXCEPT !.word = Append(@, "\"")]
                     ELSE [half EXCEPT !.quoted = ~@]
            [] c \in {" ", "\t"} /\ ~st.quoted ->
                 LET f == flush(st)
                 IN  IF f.open THEN [f EXCEPT !.words = Append(@, f.word), !.word = <<>>, !.open = FALSE] ELSE f
            [] OTHER -> [flush(st) EXCEPT !.word = Append(@, c), !.open = TRUE]
        end == flush(FoldLeft(step, [words |-> <<>>, word |-> <<>>, slashes |-> 0, quoted |-> FALSE, open |-> FALSE], line))
    IN  IF end.open THEN Append(end.words, end.word) ELSE end.words
\* A child reads the arguments it was given, whatever quotes and backslashes they hold.
ArgumentsArrive == Read(CommandLine(arguments)) = <<<<"x">>>> \o arguments

\* Wait() returns everything the child wrote up to its end, in spite of the race between the
\* last read and the end of the process, unless more was written than maximumOutputBytes; then
\* it returns that many and says so.
CapturedWhole ==
    proc.at = "waited" =>
      LET total == proc.wrote["out"] + proc.wrote["err"]
      IN  /\ proc.result.outputLimitExceeded <=> total > proc.o.limit
          /\ Captured(proc) = Min({total, proc.o.limit})
          /\ ~proc.result.outputLimitExceeded => \A s \in Streams : proc.result[s] = proc.wrote[s]

\* A child that exceeded no limit is killed only when it did not end within the grace period
\* after it was asked; whatever way Start() failed or Wait() ended, the object leaves no handle
\* open and no child unreaped, and apart from the last drain it never signals a child already reaped.
ChildTreatedRight ==
    /\ proc.platform = "posix" /\ proc.forceKilled /\ ~proc.result.outputLimitExceeded =>
         proc.terminationStarted >= 0 /\ proc.now - proc.terminationStarted >= proc.o.grace
    /\ proc.at = "gone" => proc.handles = {} /\ proc.child \in {"none", "reaped"}
    /\ proc.stray => proc.result.outputLimitExceeded
=============================================================================
