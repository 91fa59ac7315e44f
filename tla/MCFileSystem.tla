---------------------------- MODULE MCFileSystem ----------------------------
(***************************************************************************)
(* The input and output components side by side: a behaviour is one of the *)
(* file systems, of a path, of asynchronous files or of a child process.   *)
(* The file trees are on two devices; "v" is the second one.               *)
(***************************************************************************)
EXTENDS PosixKernel, TLC
CONSTANTS None, Components, MaxOps, MaxHandles, MaxLength, MaxRequests, MaxTime
VARIABLES component, io, m_path,
          backend, canceled, faults, ops, fd, fds, closure,
          m_pending, sq, kernel, cq, m_inFlight, m_submittedSinceEnter, m_stopping, worker,
          proc, arguments
async == <<backend, canceled, faults, ops, fd, fds, closure,
           m_pending, sq, kernel, cq, m_inFlight, m_submittedSinceEnter, m_stopping, worker>>
process == <<proc, arguments>>
vars == <<component, io, m_path, async, process>>

X == <<"1", "2">>
\* A directory with a file and a link to it; empty second device.
PlainTree == MakeFs(<<>> :> 1 @@ <<"a">> :> 2 @@ <<"a", "x">> :> 3 @@ <<"a", "y">> :> 4 @@ <<"b">> :> 5 @@ <<"v">> :> 6
                @@ <<"w">> :> 7,
                <<Dir({"u"}), Dir({"u"}), File(X, {"u"}), Link(<<"a", "x">>), File(<<"3">>, {"u", "g"}), Dir({"u"}), Dir({"u"})>>)
\* Destinations that stand in the way; unsaved data; a left-over temporary.
BusyTree == [MakeFs(<<>> :> 1 @@ <<"a">> :> 2 @@ <<"a", "x">> :> 3 @@ <<"b">> :> 4 @@ <<"v">> :> 5 @@ <<"v", "a">> :> 6
                @@ <<"v", "a", "x">> :> 7 @@ <<"v", "c">> :> 8 @@ <<"temp">> :> 9
                @@ <<"w">> :> 10 @@ <<"w", "c">> :> 11 @@ <<"a", "z">> :> 12,
                <<Dir({"u"}), Dir({"u"}), File(X, {"u"}), File(<<"3">>, {"u"}), Dir({"u"}), Dir({"u"}),
                  File(<<"4">>, {"u"}), File(<<"5">>, {"u"}), File(<<>>, {"u"}), Dir({"u"}), File(<<"6">>, {"u"}),
                  Link(<<"w">>)>>)
          EXCEPT !.disk.data = (4 :> <<>>) @@ @]
\* A link that leads back to its own directory.
CycleTree == MakeFs(<<>> :> 1 @@ <<"a">> :> 2 @@ <<"a", "x">> :> 3 @@ <<"v">> :> 4 @@ <<"w">> :> 5,
                <<Dir({"u"}), Dir({"u"}), Link(<<"a">>), Dir({"u"}), Dir({"u"})>>)
MCWorlds == {PlainTree, BusyTree, CycleTree}
MCPaths == {<<"a">>, <<"b">>, <<"a", "x">>, <<"v", "c">>, <<"v", "a">>}

MCMounts == {[prefix |-> <<"/">>, root |-> <<"a">>, readOnly |-> FALSE, priority |-> 0],
             [prefix |-> <<"/", "r">>, root |-> <<"v">>, readOnly |-> TRUE, priority |-> 0],
             [prefix |-> <<"/", "w">>, root |-> <<"w">>, readOnly |-> FALSE, priority |-> 0]}
MCVirtuals == {<<"/">>, <<"/", "x">>, <<"/", "r", "c">>, <<"/", "w", "..", "r", "c">>, <<"/", "w", "c">>}

Copying == [overwriteExisting |-> FALSE, recursive |-> TRUE, symlinks |-> "Preserve",
            preservePermissions |-> TRUE, cleanupOnFailure |-> TRUE]
MCCopyOptionSet == {Copying, [Copying EXCEPT !.overwriteExisting = TRUE], [Copying EXCEPT !.symlinks = "Follow"],
                    [Copying EXCEPT !.symlinks = "Reject", !.recursive = FALSE, !.cleanupOnFailure = FALSE]}
MCOpenOptionSet == {[access |-> a, disposition |-> d, writeThrough |-> FALSE] :
                      a \in {"Read", "Append"}, d \in {"OpenExisting", "OpenAlways", "CreateAlways"}}
MCData == <<"n", "m">>

\* Names, separators, dots and drives.
MCPieces == {<<"/">>, <<"\\">>, <<".">>, <<"a">>, <<":">>, <<"a", "/", "b">>, <<"/", "a">>, <<".", ".", "/", "b">>,
             <<"a", ":", "/", "b">>}

Child == [limit |-> 9, timeout |-> 1, grace |-> 1, isolate |-> TRUE, in |-> "Discard", out |-> "Capture", err |-> "Capture"]
MCOptionSet == {Child, [Child EXCEPT !.limit = 1, !.isolate = FALSE, !.err = "Inherit", !.timeout = -1],
                [Child EXCEPT !.limit = 2, !.out = "File", !.in = "Inherit"], [Child EXCEPT !.in = "Capture"]}

F == INSTANCE FileSystem WITH Chunk <- 2, MaxWrite <- 1, Attempts <- 2, MaxChecks <- 6,
       Worlds <- MCWorlds, Mounts <- MCMounts, Paths <- MCPaths, Virtuals <- MCVirtuals,
       CopyOptionSet <- MCCopyOptionSet, OpenOptionSet <- MCOpenOptionSet, Data <- MCData
P == INSTANCE Path WITH Pieces <- MCPieces, Letters <- {"a", "b"}
A == INSTANCE AsyncFile WITH Op <- 1..MaxRequests, Handle <- {1, 2}, Backends <- {"uring", "iocp", "workers"},
       Kinds <- {"Read", "Write", "ReadAt", "WriteAt", "Flush"}, MaxFd <- 2, MaxFaults <- 1, m_sqEntryCount <- 1
C == INSTANCE Process WITH Platforms <- {"posix", "windows"}, OptionSet <- MCOptionSet,
       Characters <- {"a", " ", "\\", "\""}, MaxWrites <- 3, Buffer <- 2, PipeSize <- 2,
       MaxCharacters <- 3, MaxArguments <- 2

Init ==
    /\ component \in Components
    /\ IF component = "files" THEN F!Init ELSE io = None
    /\ IF component = "path" THEN P!Init ELSE m_path = None
    /\ IF component = "async" THEN A!Init
       ELSE backend = None /\ canceled = None /\ faults = None /\ ops = None /\ fd = None /\ fds = None
            /\ closure = None /\ m_pending = None /\ sq = None /\ kernel = None /\ cq = None /\ m_inFlight = None
            /\ m_submittedSinceEnter = None /\ m_stopping = None /\ worker = None
    /\ IF component = "process" THEN C!Init ELSE proc = None /\ arguments = None

FilesNext   == component = "files" /\ F!Next /\ UNCHANGED <<component, m_path, async, process>>
PathNext    == component = "path" /\ P!Next /\ UNCHANGED <<component, io, async, process>>
AsyncNext   == component = "async" /\ A!Next /\ UNCHANGED <<component, io, m_path, process>>
ProcessNext == component = "process" /\ C!Next /\ UNCHANGED <<component, io, m_path, async>>
Next == FilesNext \/ PathNext \/ AsyncNext \/ ProcessNext
Spec == Init /\ [][Next]_vars

\* What a copy, a move or a helper reports is what it did, but for an error of
\* readdir() and three failures after which a copy is not cleaned up (FileSystem.tla).
TransferSound == component = "files" => F!TransferSound
\* "Cross-mount `Move` first completes the copy, then removes the source."
\* (docs/IO.md:275): a move loses nothing (FileSystem.tla).
MoveLosesNothing == component = "files" => F!MoveLosesNothing
\* An operation changes nothing but what it is about, and below a read-only mount
\* only OpenFile for reading makes or empties a file (FileSystem.tla).
ChangesConfined == component = "files" => F!ChangesConfined
\* After a crash a replaced file has its old or its new contents (FileSystem.tla).
AtomicReplacement == component = "files" => F!AtomicReplacement
\* The operations on a path keep the place it leads to (Path.tla).
PathKeepsPlace == component = "path" => P!PathKeepsPlace
\* Between operations every descriptor has one owner that can close it, unless it was left
\* behind by CopyFileAsync, by a cancellation or by a failing submission; an asynchronous
\* operation that succeeds worked on its handle's file (FileSystem.tla, AsyncFile.tla).
DescriptorsSound == /\ component = "files" => F!DescriptorsOwned
                    /\ component = "async" => A!OwnDescriptors
\* A coroutine is resumed once for what it awaits (AsyncFile.tla).
ResumedOnce == component = "async" => A!ResumedOnce
\* A child reads the arguments it was given, Wait() returns what it wrote, and it is asked
\* before it is killed and is reaped (Process.tla).
ProcessSound == component = "process" => C!ArgumentsArrive /\ C!CapturedWhole /\ C!ChildTreatedRight
=============================================================================
