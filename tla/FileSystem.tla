----------------------------- MODULE FileSystem -----------------------------
(***************************************************************************)
(* A program that works with files through LocalFileSystem, through a       *)
(* VirtualFileSystem and through the whole-file helpers.  Every operation   *)
(* runs with at most one failing system call, or is cut short by a crash or *)
(* by a cancellation; io.last records it and the files before it.  Worlds   *)
(* are the file trees earlier operations leave behind.                     *)
(***************************************************************************)
EXTENDS VirtualFileSystem
CONSTANTS Worlds, Mounts, Paths, Virtuals, CopyOptionSet, OpenOptionSet, Data,
          MaxChecks, MaxOps, MaxHandles
VARIABLE io

NoOp == [op |-> "none", before |-> <<>>, from |-> <<>>, to |-> <<>>, o |-> <<>>, err |-> "", ret |-> <<>>,
         failed |-> "", crash |-> FALSE]
Init == \E fs \in Worlds :
    io = [fs |-> fs, mounts |-> <<>>, handles |-> <<>>, directories |-> <<>>, ops |-> 0, last |-> NoOp]

\* A routine starts with no call failing (n < 0), or with its n calls before one that fails.
Start(n, crash, reversed) == [fs |-> io.fs, n |-> n, crash |-> crash, err |-> "", ret |-> <<>>, failed |-> "",
                              reversed |-> reversed, dtype |-> ~reversed, checks |-> -1]
Calls(k) == -1 - k.n
Record(op, from, to, o, k) == [op |-> op, before |-> io.fs, from |-> from, to |-> to, o |-> o, err |-> k.err,
                               ret |-> k.ret, failed |-> k.failed, crash |-> k.crash]
Returns(op, from, to, o, k) == io' = [io EXCEPT !.fs = k.fs, !.ops = @ + 1, !.last = Record(op, from, to, o, k)]
Crashes(op, from, to, o, k) ==
    \E fs \in CrashStates(k.fs) :
      io' = [io EXCEPT !.fs = fs, !.ops = @ + 1, !.handles = <<>>, !.directories = <<>>, !.last = Record(op, from, to, o, k)]
\* A call of the program: Run is the routine, from and to the real paths it is about.
Call(op, from, to, o, Run(_)) ==
    \E reversed \in BOOLEAN : \E n \in -1..(Calls(Run(Start(-1, FALSE, reversed))) - 1) :
      Returns(op, from, to, o, Run(Start(n, FALSE, reversed)))
Crashing(op, from, to, o, Run(_)) ==
    \E n \in 0..Calls(Run(Start(-1, FALSE, FALSE))) : Crashes(op, from, to, o, Run(Start(n, TRUE, FALSE)))
\* Handles are used over several steps, a routine runs once.
Unused == io.ops = 0 /\ io.last.op = "none"
Free == io.ops < MaxOps /\ io.last.op = "none" /\ io.mounts = <<>>
Idle == Unused /\ Free
At(p) == ResolvePath(io.mounts, p)
Real(p) == At(p).path

Mount == /\ Unused /\ Len(io.mounts) < Cardinality(Mounts)
         /\ \E m \in Mounts \ Range(io.mounts) : \E s \in AddMount(io.mounts, m) :
              io' = [io EXCEPT !.mounts = s]
\* A directory copied into itself grows until its path is too long; it is left out.
Distinct(p, q) == ~IsPrefix(p, q)
Copy == Idle /\ \E p, q \in Paths, o \in CopyOptionSet : Distinct(p, q) /\ Call("Copy", p, q, o, LAMBDA k : CopyFile(k, p, q, o))
MoveFile == Idle /\ \E p, q \in Paths, o \in CopyOptionSet : Distinct(p, q) /\ Call("Move", p, q, o, LAMBDA k : Move(k, p, q, o))
RemoveEntry == Idle /\ \E p \in Paths, recursive, ignoreMissing \in BOOLEAN :
    LET o == [recursive |-> recursive, ignoreMissing |-> ignoreMissing]
    IN  \/ Call("RemoveAll", p, p, o, LAMBDA k : RemoveAllNative(k, p, o))
        \/ Call("RemoveDirectory", p, p, o, LAMBDA k : RemoveDirectoryNative(k, p, o))
        \/ Call("RemoveFile", p, p, o, LAMBDA k : RemoveFileNative(k, p, o))
Make == Idle /\ \E p \in Paths, ignoreIfExists \in BOOLEAN :
    LET o == [ignoreIfExists |-> ignoreIfExists]
    IN  \/ Call("Create", p, p, o, LAMBDA k : CreateDirectoriesNative(k, p, o))
        \/ Call("Create", p, p, o, LAMBDA k : CreateTempDirectory(k, p))
        \/ Call("Create", p, p, o, LAMBDA k : CreateTempFile(k, p))
Look == Idle /\ \E p, q \in Paths, recursive, follow, populate \in BOOLEAN :
    LET o == [recursive |-> recursive, followSymlinks |-> follow, populateInfo |-> populate,
              include |-> {"File", "Directory"}]
    IN  \/ Call("Enumerate", p, p, o, LAMBDA k : EnumerateEntries(k, p, o))
        \/ Call("Exists", p, p, o, LAMBDA k : ExistsNative(k, p))
        \/ Call("SameFile", p, q, o, LAMBDA k : SameFile(k, p, q))
        \/ Call("WeaklyCanonical", p, p, o, LAMBDA k : MakeWeaklyCanonicalPath(k, p))
        \/ Call("Read", p, p, o, LAMBDA k : ReadAllBytes(k, p))
Replace == Idle /\ \E p, q \in Paths, flushSource, flushParent \in BOOLEAN :
    LET o == [flushSource |-> flushSource, flushParentDirectory |-> flushParent]
    IN  p # q /\ (\/ Call("Replace", p, q, o, LAMBDA k : ReplaceFile(k, p, q, o))
                  \/ Crashing("Replace", p, q, o, LAMBDA k : ReplaceFile(k, p, q, o)))
Write == Idle /\ \E p \in Paths, durable, parents \in BOOLEAN :
    LET o == [bestEffortDurable |-> durable, createParentDirectories |-> parents]
    IN  p # <<>> /\ (\/ Call("WriteAtomic", p, p, o, LAMBDA k : WriteAllBytesAtomic(k, p, Data, o))
                     \/ Crashing("WriteAtomic", p, p, o, LAMBDA k : WriteAllBytesAtomic(k, p, Data, o))
                     \/ Call("Write", p, p, o, LAMBDA k : WriteAllBytes(k, p, Data))
                     \/ Call("Append", p, p, o, LAMBDA k : AppendAllText(k, p, Data)))

Mounted == Unused /\ Len(io.mounts) = Cardinality(Mounts)
VirtualCopy == Mounted /\ \E p, q \in Virtuals, o \in CopyOptionSet :
    /\ Distinct(Real(p), Real(q))
    /\ \/ Call("Copy", Real(p), Real(q), o, LAMBDA k : VirtualCopyFile(k, At(p), At(q), o))
       \/ Call("Move", Real(p), Real(q), o, LAMBDA k : VirtualMove(k, At(p), At(q), o))
       \/ \E checks \in -1..MaxChecks :
            Call("AsyncCopy", Real(p), Real(q), o, LAMBDA k :
              CopyFileAsync(IF checks < 0 THEN k ELSE [k EXCEPT !.checks = checks, !.n = -1], io.mounts, p, q, o))
OpenedAndClosed(f) == Then(f, Close(f, "close", f.ret))
VirtualChange == Mounted /\ \E p, q \in Virtuals, o \in {[recursive |-> TRUE, ignoreMissing |-> TRUE, ignoreIfExists |-> TRUE]} :
    \/ Call("Virtual", Real(p), Real(p), o, LAMBDA k : VirtualCreateDirectory(k, At(p), o))
    \/ Call("Virtual", Real(p), Real(p), o, LAMBDA k : VirtualCreateDirectories(k, At(p), o))
    \/ Call("Virtual", Real(p), Real(q), o, LAMBDA k : VirtualCreateSymlink(k, q, At(q), At(p)))
    \/ Call("Virtual", Real(p), Real(q), o, LAMBDA k : VirtualCreateHardLink(k, At(q), At(p)))
    \/ Call("Virtual", Real(p), Real(p), o, LAMBDA k : VirtualSetPermissions(k, At(p), {"u"}))
    \/ Call("RemoveFile", Real(p), Real(p), o, LAMBDA k : VirtualRemoveFile(k, At(p), o))
    \/ Call("RemoveDirectory", Real(p), Real(p), o, LAMBDA k : VirtualRemoveDirectory(k, At(p), o))
    \/ Call("RemoveAll", Real(p), Real(p), o, LAMBDA k : VirtualRemoveAll(k, At(p), o))
    \/ p # q /\ Call("Virtual", Real(p), Real(q), o, LAMBDA k : VirtualRename(k, At(p), At(q)))
    \/ p # q /\ Call("Virtual", Real(p), Real(q), o, LAMBDA k : VirtualRenameNoReplace(k, At(p), At(q)))
    \/ p # q /\ Call("Virtual", Real(p), Real(q), o, LAMBDA k :
         VirtualReplaceFile(k, At(p), At(q), [flushSource |-> TRUE, flushParentDirectory |-> TRUE]))
    \/ Call("Virtual", Real(p), Real(p), o, LAMBDA k : VirtualCreateTempFile(k, At(p)))
    \/ Call("Virtual", <<>>, <<>>, o, LAMBDA k : VirtualCreateTempFile(k, Writable(io.mounts)))
    \/ \E how \in OpenOptionSet : Call("Open", Real(p), Real(p), how, LAMBDA k : OpenedAndClosed(VirtualOpenFile(k, At(p), how)))
    \/ Call("Virtual", Real(p), Real(p), o, LAMBDA k : VirtualSameFile(k, At(p), At(q)))
    \/ Call("Canonical", Real(p), Real(p), o, LAMBDA k : VirtualCanonical(k, At(p)))

----------------------------------------------------------------------------
(* Handles: descriptor 0 is a closed handle, id the file that was opened.   *)

OpenFile == /\ Free /\ Len(io.handles) < MaxHandles
            /\ \E p \in Paths, o \in OpenOptionSet :
                 LET r == OpenAt(io.fs, p, OpenFlags(o), DefaultMode)
                 IN  /\ r.err = ""
                     /\ io' = [io EXCEPT !.fs = r.fs, !.ops = @ + 1, !.last = NoOp,
                                 !.handles = Append(@, [fd |-> r.ret, id |-> r.fs.fds[r.ret].id,
                                   canRead |-> o.access \in {"Read", "ReadWrite"}, canWrite |-> o.access # "Read"])]
IsOpenUnlocked(h) == h.fd # 0
\* One operation of a handle on its descriptor; Use is the system call.
OnHandle(needs(_), Use(_, _)) ==
    /\ Free
    /\ \E i \in DOMAIN io.handles :
         LET h == io.handles[i] IN
         /\ IsOpenUnlocked(h) /\ needs(h)
         /\ io' = [io EXCEPT !.fs = Use(io.fs, h.fd).fs, !.ops = @ + 1, !.last = NoOp]
ReadHandle  == OnHandle(LAMBDA h : h.canRead, LAMBDA fs, f : ReadFd(fs, f, Chunk))
ReadAt      == \E offset \in 0..1 : OnHandle(LAMBDA h : h.canRead, LAMBDA fs, f : Pread(fs, f, offset, Chunk))
WriteHandle == OnHandle(LAMBDA h : h.canWrite, LAMBDA fs, f : WriteFd(fs, f, SubSeq(Data, 1, MaxWrite)))
WriteAt     == \E offset \in 0..1 : OnHandle(LAMBDA h : h.canWrite, LAMBDA fs, f : Pwrite(fs, f, offset, SubSeq(Data, 1, MaxWrite)))
Flush       == OnHandle(LAMBDA h : TRUE, LAMBDA fs, f : Fsync(fs, f))
Seek        == \E offset \in 0..1 : OnHandle(LAMBDA h : TRUE, LAMBDA fs, f : [fs |-> [fs EXCEPT !.fds[f].pos = offset]])
SetSize     == \E size \in 0..1 : OnHandle(LAMBDA h : h.canWrite, LAMBDA fs, f : Ftruncate(fs, f, size))
CloseHandle ==
    /\ Free
    /\ \E i \in DOMAIN io.handles :
         /\ IsOpenUnlocked(io.handles[i])
         /\ io' = [io EXCEPT !.fs = CloseFd(io.fs, io.handles[i].fd).fs, !.handles[i].fd = 0,
                     !.ops = @ + 1, !.last = NoOp]

(* A directory handle works relative to its descriptor, except that its     *)
(* recursive operations go by the path it was opened with.                 *)
OpenDirectory == /\ Free /\ Len(io.directories) < MaxHandles
                 /\ \E p \in Paths : LET r == Opendir(io.fs, p) IN
                      /\ r.err = ""
                      /\ io' = [io EXCEPT !.fs = r.fs, !.ops = @ + 1, !.last = NoOp,
                                  !.directories = Append(@, [fd |-> r.ret, id |-> r.fs.fds[r.ret].id, m_path |-> p])]
\* Another program, or another part of this one, renames a directory meanwhile.
RenamePath == Free /\ \E p, q \in Paths : LET r == RenameTo(io.fs, p, q, TRUE) IN
                r.err = "" /\ io' = [io EXCEPT !.fs = r.fs, !.ops = @ + 1]
\* NormalizeRelativeHandlePath lets no path out of the directory by its names.
Escapes(p) == IsAbsolute(Normal(p)) \/ (Normal(p) # <<>> /\ Normal(p)[1] = "..")
\* The path a name relative to the descriptor stands for, when the directory still has one.
AtFd(h, p) == {q \o Normal(p) : q \in {d \in DOMAIN io.fs.tree : io.fs.tree[d] = h.id}}
InDirectory == Free /\ \E i \in DOMAIN io.directories, p \in {<<"x">>, <<"..", "x">>}, o \in {Recursively, [Recursively EXCEPT !.recursive = FALSE]} :
    LET h == io.directories[i]
        joined == h.m_path \o Normal(p)
        by(q) == IF o.recursive THEN {joined} ELSE q
    IN  /\ ~Escapes(p)
        /\ \E q \in by(AtFd(h, p)) :
             \/ Call("InDirectory", q, q, o, LAMBDA k : RemoveDirectoryNative(k, q, o))
             \/ ~o.recursive /\ Call("InDirectory", q, q, o, LAMBDA k : RemoveFileNative(k, q, o))
             \/ Call("InDirectory", q, q, o, LAMBDA k :
                  IF o.recursive THEN CreateDirectoriesNative(k, q, [ignoreIfExists |-> TRUE])
                  ELSE CreateDirectoryNative(k, q, [ignoreIfExists |-> TRUE]))
             \/ ~o.recursive /\ Call("InDirectory", q, q, o, LAMBDA k : BuildFileInfo(k, q, FALSE))
CloseDirectory == /\ Free
                  /\ \E i \in DOMAIN io.directories :
                       io' = [io EXCEPT !.fs = CloseFd(io.fs, io.directories[i].fd).fs, !.ops = @ + 1, !.last = NoOp,
                                !.directories = SelectSeq(@, LAMBDA h : h # io.directories[i])]

Next == \/ Mount \/ Copy \/ MoveFile \/ RemoveEntry \/ Make \/ Look \/ Replace \/ Write
        \/ VirtualCopy \/ VirtualChange
        \/ OpenFile \/ ReadHandle \/ ReadAt \/ WriteHandle \/ WriteAt \/ Flush \/ Seek \/ SetSize \/ CloseHandle
        \/ OpenDirectory \/ RenamePath \/ InDirectory \/ CloseDirectory
Spec == Init /\ [][Next]_io

----------------------------------------------------------------------------
(* Properties *)

\* What a reader finds below a path, relative to it; links are followed or are entries.
Lead(fs, p, follow) == Walk(fs, <<>>, p, follow, MaxHops).path
RECURSIVE Shape(_, _, _, _)
Shape(fs, p, follow, depth) ==
    LET q == Lead(fs, p, follow)
    IN  IF depth = 0 \/ q \notin DOMAIN fs.tree THEN {}
        ELSE {<<<<>>, Node(fs, q).type, Node(fs, q).data>>}
             \cup UNION {{<<<<Last(c)>> \o e[1], e[2], e[3]>> : e \in Shape(fs, c, follow, depth - 1)} : c \in Children(fs, q)}
Depth == 4
Present(fs, p) == Lead(fs, p, FALSE) \in DOMAIN fs.tree
\* Everything at from, as the options say it is copied, is at to.
Complete(before, from, after, to, follow) ==
    \A e \in Shape(before, from, follow, Depth) :
      LET q == Lead(after, to \o e[1], e[2] # "Symlink")
      IN  q \in DOMAIN after.tree /\ Node(after, q).type = e[2] /\ Node(after, q).data = e[3]
Same(before, after, p) == Shape(before, p, FALSE, Depth) = Shape(after, p, FALSE, Depth)
\* The inodes a copy may reach through links and hard links.
Reaches(fs, p) == {fs.tree[Lead(fs, p \o e[1], TRUE)] :
                     e \in {f \in Shape(fs, p, TRUE, Depth) : Lead(fs, p \o f[1], TRUE) \in DOMAIN fs.tree}}
Apart(fs, p, q) == Reaches(fs, p) \cap Reaches(fs, q) = {}
\* What failed is the call that was made to fail, not the clean-up after another error.
OneFault(last) == last.failed = "" \/ last.err = "SystemError"

Transfer == io.last.op \in {"Copy", "AsyncCopy", "Move"} /\ Apart(io.last.before, io.last.from, io.last.to)
\* Everything is at the destination; a rename keeps the links, whatever the options say.
Arrived ==
    \E follow \in {io.last.o.symlinks = "Follow"} \cup (IF io.last.op = "Move" THEN {FALSE} ELSE {}) :
      Complete(io.last.before, io.last.from, io.fs, io.last.to, follow)
\* A copy to a path that was not there, with the clean-up asked for, has failed.
CopyUndone ==
    /\ io.last.op # "Move" /\ io.last.err # "" /\ OneFault(io.last)
    /\ io.last.o.cleanupOnFailure /\ ~Present(io.last.before, io.last.to)
Directories(last) == {e \in Shape(last.before, last.from, last.o.symlinks = "Follow", Depth) : e[2] = "Directory"}

\* A copy or a move between places that share no file (LocalFileSystem,
\* VirtualFileSystem within and across mounts) with at most one failing system
\* call.  One that reports success has everything at the destination, and a
\* move has left nothing at the source and never leaves an entry at neither
\* place, but for an error of readdir(), which passes for the end of the
\* directory (LocalFileSystem.posix.cpp:1015, :1347): the rest is then not copied,
\* and a move still removes it.  The source of a copy is untouched.  A failed or cancelled
\* copy that cleans up leaves no destination it made (docs/IO.md:272), unless
\* what failed is opendir() or closedir() of the copied directory itself (:1344,
\* :1366) or, across mounts, setting the permissions of the copied file
\* (VirtualFileSystem.cpp:354): then it always stays.
TransferSound ==
    LET last == io.last
        cut == last.failed = "readdir" /\ last.err = ""
        abandoned == \/ last.failed \in {"opendir of copy", "closedir of copy"}
                     \/ last.failed = "chmod" /\ last.op = "Copy" /\ Directories(last) = {}
    IN  Transfer =>
        /\ last.err = "" => IF Present(last.before, last.to) THEN Arrived \/ cut ELSE Arrived <=> ~cut
        /\ last.op = "Move" =>
             /\ Same(last.before, io.fs, last.from) \/ Arrived \/ cut
             /\ last.err = "" => ~Present(io.fs, last.from)
        /\ last.op # "Move" => Same(last.before, io.fs, last.from)
        /\ CopyUndone => /\ Present(io.fs, last.to) => abandoned
                         /\ abandoned /\ Cardinality(Directories(last)) <= 1 => Present(io.fs, last.to)

\* "Cross-mount `Move` first completes the copy, then removes the source.  A copy
\* failure leaves the source untouched." (docs/IO.md:275-276): whatever was at the
\* source of a move is at the source or at the destination afterwards.
MoveLosesNothing ==
    Transfer /\ io.last.op = "Move" /\ io.mounts # <<>> => Same(io.last.before, io.fs, io.last.from) \/ Arrived

\* What RemoveFile, RemoveDirectory and RemoveAll report is what they did: a success
\* removes exactly the path and what was below it and counts every entry, except
\* that RemoveDirectory(ignoreMissing) takes anything else than a directory for
\* something missing (LocalFileSystem.posix.cpp:1140), succeeds and removes
\* nothing.  Nothing but the path is ever touched.  No operation of a
\* VirtualFileSystem changes anything below the root of a read-only mount, but for
\* OpenFile: it looks at the access alone (VirtualFileSystem.cpp:954), so that read
\* access with OpenAlways makes the file, and with CreateAlways makes or empties it.
ChangesConfined ==
    LET last == io.last
        gone == Below(last.before, Lead(last.before, last.from, FALSE))
        kept(fs, ps) == \A p \in ps : p \in DOMAIN fs.tree /\ Node(fs, p) = Node(last.before, p)
        mistaken == /\ last.op = "RemoveDirectory" /\ ~last.o.recursive /\ last.o.ignoreMissing
                    /\ Present(last.before, last.from) /\ Node(last.before, Lead(last.before, last.from, FALSE)).type # "Directory"
        opened == IF last.op = "Open" /\ last.o.access = "Read" THEN {Lead(last.before, last.from, TRUE)} ELSE {}
        \* the contents of a file, if there is one, and what an open for reading makes of them
        found(fs, p) == {Node(fs, q).data : q \in {p} \cap DOMAIN fs.tree}
        was(p) == found(last.before, p)
        becomes(p) == CASE last.o.disposition = "OpenExisting" -> was(p)
                        [] last.o.disposition = "OpenAlways" /\ was(p) # {} -> was(p)
                        [] OTHER -> {<<>>}
    IN  /\ last.op \in {"RemoveAll", "RemoveDirectory", "RemoveFile"} =>
             /\ kept(io.fs, DOMAIN last.before.tree \ gone) /\ DOMAIN io.fs.tree \subseteq DOMAIN last.before.tree
             /\ last.err = "" => IF mistaken THEN io.fs = last.before ELSE gone \cap DOMAIN io.fs.tree = {}
             /\ (last.err = "" /\ last.op = "RemoveAll") => last.ret = Cardinality(gone)
        /\ last.op # "none" => \A m \in Range(io.mounts) : m.readOnly =>
             /\ kept(io.fs, Below(last.before, m.root) \ opened)
             /\ Below(io.fs, m.root) \ opened = Below(last.before, m.root) \ opened
        /\ \A p \in opened : found(io.fs, p) \in {becomes(p)} \cup (IF last.err = "" THEN {} ELSE {was(p)})

\* WriteAllBytesAtomic replaces a file whole or not at all: after an error, and
\* after a crash when the data were flushed, the file is as it was or complete, and an
\* error leaves no temporary behind.  ReplaceFile with both flushes survives a crash.
AtomicReplacement ==
    LET last == io.last
        p == last.to
        old == Shape(last.before, p, FALSE, Depth)
        saved == {Shape(fs, p, FALSE, Depth) : fs \in CrashStates(last.before)}
        now == Shape(io.fs, p, FALSE, Depth)
        new == IF last.op = "Replace" THEN Shape(last.before, last.from, FALSE, Depth) ELSE {<<<<>>, "File", Data>>}
    IN  /\ last.op \in {"WriteAtomic", "Replace"} /\ ~last.crash =>
             /\ now \in {old, new} /\ (last.err = "" => now = new)
             /\ last.op = "WriteAtomic" /\ last.err # "" /\ OneFault(last) => \A q \in DOMAIN io.fs.tree \ DOMAIN last.before.tree : Node(io.fs, q).type = "Directory" \/ q = p
        /\ last.op = "WriteAtomic" /\ last.crash /\ last.o.bestEffortDurable => now \in saved \cup {new}
        /\ last.op = "Replace" /\ last.crash /\ last.o.flushSource =>
             /\ now \in saved \cup {new}
             /\ last.err = "" /\ last.o.flushParentDirectory => now = new

\* Every descriptor belongs to exactly one open handle, whose file it is: no routine
\* leaks one on any of its error paths, or closes one twice.  (The async copy is left
\* out: an AsyncFileHandle that goes out of scope is not closed.)
DescriptorsOwned ==
    LET open == SelectSeq(io.handles, IsOpenUnlocked) \o io.directories
    IN  io.last.op # "AsyncCopy" =>
          /\ IsInjective([i \in DOMAIN open |-> open[i].fd])
          /\ DOMAIN io.fs.fds = {open[i].fd : i \in DOMAIN open}
          /\ \A i \in DOMAIN open : io.fs.fds[open[i].fd].id = open[i].id
=============================================================================
