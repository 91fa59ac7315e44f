------------------------- MODULE VirtualFileSystem -------------------------
(***************************************************************************)
(* NGIN::IO::VirtualFileSystem over local mounts, and the whole-file helpers *)
(* of FileSystemUtilities.  A virtual path is the sequence of its names,    *)
(* with "/" first when it is absolute; mounts are sorted as AddMount leaves *)
(* them and are records [prefix, root, readOnly, priority].                *)
(***************************************************************************)
EXTENDS LocalFileSystem
CONSTANT Attempts     \* temporary names WriteAllBytesAtomic tries

\* Path::Normalize on names.
NormalStep(out, name) ==
    CASE name = "." -> out
      [] name = ".." /\ out # <<>> /\ Last(out) \notin {"..", "/"} -> Front(out)
      [] name = ".." /\ out # <<>> /\ out[1] = "/" -> out
      [] OTHER -> Append(out, name)
Normal(p) == FoldLeft(NormalStep, <<>>, p)
IsAbsolute(p) == p # <<>> /\ p[1] = "/"

PrefixCompare(a, b) ==
    IF Len(a.prefix) # Len(b.prefix) THEN Len(a.prefix) > Len(b.prefix) ELSE a.priority > b.priority
\* std::sort leaves equal mounts in any order.
AddMount(mounts, m) ==
    LET all == Append(mounts, m)
    IN  {s \in {[i \in 1..Len(all) |-> all[f[i]]] : f \in {g \in [1..Len(all) -> 1..Len(all)] : IsInjective(g)}} :
           \A i, j \in 1..Len(all) : i < j => ~PrefixCompare(s[j], s[i])}
CanResolve(m, p) == IsPrefix(m.prefix, Normal(p))
Suffix(p, prefix) == SelectSeq(SubSeq(p, Len(prefix) + 1, Len(p)), LAMBDA name : name # "/")
Confined(m, out) == IF IsPrefix(m.root, out) THEN [err |-> "", mount |-> m, path |-> out]
                    ELSE [err |-> "InvalidPath", mount |-> m, path |-> <<>>]
Translate(m, p) == Confined(m, Normal(m.root \o Suffix(Normal(p), m.prefix)))
VirtualPath(m, real, root) == m.prefix \o SubSeq(real, Len(root) + 1, Len(real))
Virtualized(r, m, real) == Then(r, IF IsPrefix(r.ret, real) THEN Return(r, VirtualPath(m, real, r.ret)) ELSE Raise(r, "InvalidPath"))
VirtualizeWeak(p, m) == Then(p, Virtualized(MakeWeaklyCanonicalPath(p, m.root), m, p.ret))
Virtualize(k, m, real) ==
    IF IsPrefix(m.root, real) THEN Return(k, VirtualPath(m, real, m.root)) ELSE VirtualizeWeak(MakeWeaklyCanonicalPath(k, real), m)
FirstMount(hits, p) ==
    IF hits = <<>> THEN [err |-> "NotFound", mount |-> <<>>, path |-> <<>>] ELSE Translate(hits[1], p)
ResolvePath(mounts, p) == FirstMount(SelectSeq(mounts, LAMBDA m : CanResolve(m, p)), p)

(* The operations: r and s are the paths as ResolvePath resolved them, which *)
(* is what every one of them begins with.                                  *)
Reading(k, r, next) == IF r.err # "" THEN Raise(k, r.err) ELSE next
Changing(k, r, next) == Reading(k, r, IF r.mount.readOnly THEN Raise(k, "PermissionDenied") ELSE next)
\* Operations on two paths that never leave a mount.
WithinMount(k, r, s, next) ==
    Reading(k, r, Reading(k, s, IF r.mount # s.mount THEN Raise(k, "CrossDevice") ELSE Changing(k, s, next)))

VirtualResult(c, m) == Then(c, Virtualize(c, m, c.ret))
VirtualCanonical(k, r) == Reading(k, r, VirtualResult(CanonicalizeExistingPath(k, r.path), r.mount))
VirtualSameFile(k, r, s) ==
    Reading(k, r, Reading(k, s, IF r.mount # s.mount THEN Return(k, FALSE) ELSE SameFile(k, r.path, s.path)))
VirtualCreateDirectory(k, r, o) == Changing(k, r, CreateDirectoryNative(k, r.path, o))
VirtualCreateDirectories(k, r, o) == Changing(k, r, CreateDirectoriesNative(k, r.path, o))
\* t is what an absolute target resolves to; a relative one is stored as it is.
VirtualCreateSymlink(k, target, t, r) ==
    Changing(k, r,
      CASE IsAbsolute(target) /\ t.err # "" -> Raise(k, t.err)
        [] IsAbsolute(target) /\ t.err = "" /\ t.mount # r.mount -> Raise(k, "CrossDevice")
        [] OTHER -> Sys(k, "symlink", Symlink(k.fs, IF IsAbsolute(target) THEN t.path ELSE target, r.path)))
VirtualCreateHardLink(k, t, r) ==
    Reading(k, t, Changing(k, r, IF t.mount # r.mount THEN Raise(k, "CrossDevice")
                                 ELSE Sys(k, "link", Hardlink(k.fs, t.path, r.path))))
VirtualSetPermissions(k, r, mode) == Changing(k, r, Sys(k, "chmod", Chmod(k.fs, r.path, mode)))
VirtualRemoveFile(k, r, o) == Changing(k, r, RemoveFileNative(k, r.path, o))
VirtualRemoveDirectory(k, r, o) == Changing(k, r, RemoveDirectoryNative(k, r.path, o))
VirtualRemoveAll(k, r, o) == Changing(k, r, RemoveAllNative(k, r.path, o))
VirtualRename(k, r, s) == WithinMount(k, r, s, Rename(k, r.path, s.path))
VirtualRenameNoReplace(k, r, s) == WithinMount(k, r, s, RenameNoReplace(k, r.path, s.path))
VirtualReplaceFile(k, r, s, o) == WithinMount(k, r, s, ReplaceFile(k, r.path, s.path, o))
OpenFlags(o) ==
    [write  |-> o.access # "Read",
     creat  |-> o.disposition \in {"CreateAlways", "CreateNew", "OpenAlways"},
     excl   |-> o.disposition = "CreateNew",
     trunc  |-> o.disposition \in {"CreateAlways", "TruncateExisting"},
     append |-> o.access = "Append",
     sync   |-> o.writeThrough]
Open(k, p, o) == Sys(k, "open", OpenAt(k.fs, p, OpenFlags(o), DefaultMode))
\* An open that can change the mount but asks for read access is let through.
VirtualOpenFile(k, r, o) ==
    Reading(k, r, IF o.access # "Read" /\ r.mount.readOnly THEN Raise(k, "PermissionDenied") ELSE Open(k, r.path, o))
\* The first mount that is not read-only takes a temporary without a directory.
FirstWritable(ms) == IF ms = <<>> THEN [err |-> "NotFound", mount |-> <<>>, path |-> <<>>]
                     ELSE [err |-> "", mount |-> ms[1], path |-> ms[1].root]
Writable(mounts) == FirstWritable(SelectSeq(mounts, LAMBDA m : ~m.readOnly))
VirtualCreateTempFile(k, r) == Changing(k, r, VirtualResult(CreateTempFile(k, r.path), r.mount))

----------------------------------------------------------------------------
(* Copies across mounts *)

RemoveCopied(i, p) ==
    Then(i, CASE ~i.ret.exists -> i
              [] i.ret.exists /\ i.ret.type = "Directory" -> RemoveDirectoryNative(i, p, Recursively)
              [] OTHER -> RemoveFileNative(i, p, Recursively))
RemoveCopiedPath(k, p) == RemoveCopied(BuildFileInfo(k, p, FALSE), p)
CopyCleanup(k, active, p) == IF k.err # "" /\ active THEN Ignoring(k, RemoveCopiedPath(k, p)) ELSE k
EveryEntry == [recursive |-> FALSE, populateInfo |-> FALSE, followSymlinks |-> FALSE,
               include |-> {"File", "Directory", "Symlink"}]
SourceOpen == [access |-> "Read", disposition |-> "OpenExisting", writeThrough |-> FALSE]
DestinationOpen(o) == [access |-> "Write", writeThrough |-> FALSE,
                       disposition |-> IF o.overwriteExisting THEN "CreateAlways" ELSE "CreateNew"]
KeepPermissions(k, copy, mode) ==
    Then(k, IF copy.o.preservePermissions THEN Sys(k, "chmod", Chmod(k.fs, copy.to, mode)) ELSE k)

AcrossClosed(c, copy, mode, existed) ==
    IF c.err # "" THEN CopyCleanup(c, ~existed /\ copy.o.cleanupOnFailure, copy.to) ELSE KeepPermissions(c, copy, mode)
AcrossOpened(d, copy, src, mode, existed) ==
    IF d.err # "" THEN Ignoring(d, Close(d, "close", src))
    ELSE AcrossClosed(CloseBoth(CopyLoop(d, src, d.ret), src, d.ret), copy, mode, existed)
AcrossTo(s, copy, mode, existed) == Then(s, AcrossOpened(Open(s, copy.to, DestinationOpen(copy.o)), copy, s.ret, mode, existed))
CopyFileAcross(k, copy, mode, existed) == AcrossTo(Open(k, copy.from, SourceOpen), copy, mode, existed)
RECURSIVE CopyAcrossFileSystems(_, _), CopyEntriesAcross(_, _, _)
AcrossRest(c, copy, entries) == Then(c, CopyEntriesAcross(c, copy, Tail(entries)))
CopyEntriesAcross(k, copy, entries) ==
    IF entries = <<>> THEN k
    ELSE AcrossRest(CopyAcrossFileSystems(k, [copy EXCEPT !.from = Head(entries)[1], !.to = Append(@, Last(Head(entries)[1]))]),
                    copy, entries)
AcrossListed(e, copy, info) == Then(e, CopyEntriesAcross(e, [copy EXCEPT !.active = @ \cup {info.identity}], e.ret))
AcrossMade(m, copy, info, absent) ==
    Then(m, CopyCleanup(KeepPermissions(AcrossListed(EnumerateEntries(m, copy.from, EveryEntry), copy, info), copy, info.mode),
                        absent /\ copy.o.cleanupOnFailure, copy.to))
\* The destination directory, in place of what may stand there.
MakeDestination(r, p, absent) == Then(r, IF absent THEN CreateDirectoryNative(r, p, [ignoreIfExists |-> FALSE]) ELSE r)
Destination(k, p, d) == MakeDestination(IF Blocked(d) THEN RemoveCopiedPath(k, p) ELSE k, p, Blocked(d) \/ ~d.exists)
CopyDirectoryAcross(k, copy, info, destination) ==
    IF Blocked(destination) /\ ~copy.o.overwriteExisting THEN Raise(k, "AlreadyExists")
    ELSE AcrossMade(Destination(k, copy.to, destination), copy, info, Blocked(destination) \/ ~destination.exists)
LinkAcross(t, p) == Then(t, Sys(t, "symlink", Symlink(t.fs, t.ret, p)))
ReadLinkAcross(r, copy) == Then(r, LinkAcross(Sys(r, "readlink", Readlink(r.fs, copy.from)), copy.to))
CopySymlinkAcross(d, copy) ==
    Then(d, IF d.ret.exists /\ ~copy.o.overwriteExisting THEN Raise(d, "AlreadyExists")
            ELSE ReadLinkAcross(IF d.ret.exists THEN RemoveCopiedPath(d, copy.to) ELSE d, copy))
AcrossTarget(s, copy, destination) ==
    Then(s, CASE ~s.ret.exists \/ s.ret.type = "Symlink" -> Raise(s, "NotFound")
              [] s.ret.type = "Directory" /\ ~copy.o.recursive -> Raise(s, "NotSupported")
              [] s.ret.type = "Directory" /\ copy.o.recursive ->
                   IF s.ret.identity \in copy.active THEN Raise(s, "InvalidPath")
                   ELSE CopyDirectoryAcross(s, copy, s.ret, destination)
              [] OTHER -> CopyFileAcross(s, copy, s.ret.mode, destination.exists))
AcrossDestination(d, copy, source) ==
    Then(d, AcrossTarget(IF source.type = "Symlink" THEN BuildFileInfo(d, copy.from, TRUE) ELSE [d EXCEPT !.ret = source],
                         copy, d.ret))
AcrossFound(l, copy) ==
    Then(l, CASE ~l.ret.exists -> Raise(l, "NotFound")
              [] l.ret.type = "Symlink" /\ copy.o.symlinks = "Reject" -> Raise(l, "NotSupported")
              [] l.ret.type = "Symlink" /\ copy.o.symlinks = "Preserve" ->
                   CopySymlinkAcross(BuildFileInfo(l, copy.to, FALSE), copy)
              [] OTHER -> AcrossDestination(BuildFileInfo(l, copy.to, FALSE), copy, l.ret))
CopyAcrossFileSystems(k, copy) == AcrossFound(BuildFileInfo(k, copy.from, FALSE), copy)

VirtualCopyFile(k, r, s, o) ==
    Reading(k, r, Changing(k, s,
      IF r.mount = s.mount THEN CopyFile(k, r.path, s.path, o)
      ELSE CopyAcrossFileSystems(k, [from |-> r.path, to |-> s.path, o |-> o, active |-> {}])))
VirtualMove(k, r, s, o) ==
    Reading(k, r, Changing(k, s,
      CASE r.mount = s.mount -> Move(k, r.path, s.path, o)
        [] r.mount # s.mount /\ r.mount.readOnly -> Raise(k, "PermissionDenied")
        [] OTHER -> MoveCopied(VirtualCopyFile(k, r, s, o), r.path, TRUE)))

(* The coroutine checks for cancellation before every directory entry and   *)
(* every chunk: k.checks of them pass.  A frame that is left early runs     *)
(* CopyCleanup, and forgets its handles without closing them.              *)
Check(k) == IF k.checks = 0 THEN Raise(k, "Canceled") ELSE [k EXCEPT !.checks = @ - 1]
RECURSIVE ChunksAsync(_, _, _)
MoreAsync(w, src, dst) == Then(w, ChunksAsync(w, src, dst))
ChunkAsync(r, src, dst) == Then(r, IF r.ret = <<>> THEN r ELSE MoreAsync(WriteLoop(r, dst, r.ret), src, dst))
CheckedAsync(c, src, dst) ==
    IF c.err # "" THEN CloseBoth(c, src, dst) ELSE ChunkAsync(Sys(c, "read", ReadFd(c.fs, src, Chunk)), src, dst)
ChunksAsync(k, src, dst) == CheckedAsync(Check(k), src, dst)
CopiedAsync(c, copy, src, dst, mode) == Then(c, KeepPermissions(CloseBoth(c, src, dst), copy, mode))
AsyncOpened(d, copy, src, mode, existed) ==
    Then(d, CopyCleanup(CopiedAsync(ChunksAsync(d, src, d.ret), copy, src, d.ret, mode),
                        ~existed /\ copy.o.cleanupOnFailure, copy.to))
AsyncTo(s, copy, mode, existed) == Then(s, AsyncOpened(Open(s, copy.to, DestinationOpen(copy.o)), copy, s.ret, mode, existed))
CopyRegularAsync(k, copy, mode, existed) == AsyncTo(Open(k, copy.from, SourceOpen), copy, mode, existed)
\* p and q are the virtual paths, r and s what they resolve to.
RECURSIVE CopyFileAsync(_, _, _, _, _), CopyEntriesAsync(_, _, _, _, _, _)
RestAsync(d, mounts, names, p, q, o) == Then(d, CopyEntriesAsync(d, mounts, Tail(names), p, q, o))
NextAsync(c, mounts, names, p, q, o) ==
    Then(c, IF names = <<>> THEN c
            ELSE RestAsync(CopyFileAsync(c, mounts, Append(p, Head(names)), Append(q, Head(names)), o), mounts, names, p, q, o))
CopyEntriesAsync(k, mounts, names, p, q, o) == NextAsync(Check(k), mounts, names, p, q, o)
ListedAsync(e, mounts, p, q, o) ==
    Then(e, CopyEntriesAsync(e, mounts, [i \in DOMAIN e.ret |-> Last(e.ret[i][1])], p, q, o))
EntriesAsync(m, mounts, p, q, copy) == Then(m, ListedAsync(EnumerateEntries(m, copy.from, EveryEntry), mounts, p, q, copy.o))
\* The clean-up begins once what stood at the destination is gone.
ClearedAsync(c, mounts, p, q, copy, info, absent) ==
    Then(c, CopyCleanup(KeepPermissions(EntriesAsync(MakeDestination(c, copy.to, absent), mounts, p, q, copy), copy, info.mode),
                        absent /\ copy.o.cleanupOnFailure, copy.to))
CopyDirectoryAsync(k, mounts, p, q, copy, info, destination) ==
    IF Blocked(destination) /\ ~copy.o.overwriteExisting THEN Raise(k, "AlreadyExists")
    ELSE ClearedAsync(IF Blocked(destination) THEN RemoveCopiedPath(k, copy.to) ELSE k, mounts, p, q, copy, info,
                      Blocked(destination) \/ ~destination.exists)
DestinationAsync(d, mounts, p, q, copy, info) ==
    Then(d, CASE info.type = "Directory" /\ ~copy.o.recursive -> Raise(d, "NotSupported")
              [] info.type = "Directory" /\ copy.o.recursive -> CopyDirectoryAsync(d, mounts, p, q, copy, info, d.ret)
              [] OTHER -> CopyRegularAsync(d, copy, info.mode, d.ret.exists))
\* A link is handed to the synchronous copy.
TypeAsync(c, mounts, p, q, copy, info) ==
    Then(c, IF info.type = "Symlink" THEN CopyAcrossFileSystems(c, copy)
            ELSE DestinationAsync(BuildFileInfo(c, copy.to, FALSE), mounts, p, q, copy, info))
FoundAsync(i, mounts, p, q, copy) ==
    Then(i, IF ~i.ret.exists THEN Raise(i, "NotFound") ELSE TypeAsync(Check(i), mounts, p, q, copy, i.ret))
ResolvedAsync(k, mounts, p, q, r, s, o) ==
    Reading(k, r, Changing(k, s,
      IF r.mount = s.mount THEN CopyFile(k, r.path, s.path, o)
      ELSE FoundAsync(BuildFileInfo(k, r.path, FALSE), mounts, p, q,
                      [from |-> r.path, to |-> s.path, o |-> o, active |-> {}])))
CopyFileAsync(k, mounts, p, q, o) == ResolvedAsync(k, mounts, p, q, ResolvePath(mounts, p), ResolvePath(mounts, q), o)

----------------------------------------------------------------------------
(* FileSystemUtilities *)

EnsureDirectory(k, p) == CreateDirectoriesNative(k, p, [ignoreIfExists |-> TRUE])
WriteAllBytesToOpenFile(k, f, bytes) == WriteLoop(k, f, bytes)
FlushFile(k, f) == Then(k, Sys(k, "fsync", Fsync(k.fs, f)))
CloseFile(k, f) == Ignoring(k, Close(k, "close", f))
WriteOpened(f, bytes) == Then(f, CloseFile(FlushFile(WriteAllBytesToOpenFile(f, f.ret, bytes), f.ret), f.ret))
WriteAllBytes(k, p, bytes) ==
    WriteOpened(Open(k, p, [access |-> "Write", disposition |-> "CreateAlways", writeThrough |-> FALSE]), bytes)
\* One write(), whatever it took.
AppendOpened(f, bytes) == Then(f, CloseFile(FlushFile(WriteSome(f, f.ret, bytes), f.ret), f.ret))
AppendAllText(k, p, bytes) ==
    AppendOpened(Open(k, p, [access |-> "Append", disposition |-> "OpenAlways", writeThrough |-> FALSE]), bytes)
RECURSIVE ReadLoop(_, _, _)
ReadMore(r, f, bytes) == Then(r, IF r.ret = <<>> THEN Return(r, bytes) ELSE ReadLoop(r, f, bytes \o r.ret))
ReadLoop(k, f, bytes) == ReadMore(Sys(k, "read", ReadFd(k.fs, f, Chunk)), f, bytes)
ReadSized(g, f) == Then(g, ReadLoop(g, f, <<>>))
ReadOpened(f) == Then(f, CloseFile(ReadSized(Sys(f, "fstat", Done(f.fs, <<>>)), f.ret), f.ret))
ReadAllBytes(k, p) == ReadOpened(OpenToRead(k, p))

\* The temporary of an attempt, beside the file; the names differ in a number.
TempName(attempt) == <<"temp", "temp2", "temp3">>[attempt]
DropTemp(k, temp) == IF k.err = "" THEN k ELSE Ignoring(k, RemoveFileNative(k, temp, [ignoreMissing |-> TRUE]))
ReplaceByTemp(k, temp, p) ==
    Then(k, ReplaceFile(k, temp, p, [flushSource |-> FALSE, flushParentDirectory |-> FALSE]))
FlushDurably(k, f, o) == IF o.bestEffortDurable THEN FlushFile(k, f) ELSE k
WriteTemp(f, temp, p, bytes, o) ==
    DropTemp(ReplaceByTemp(CloseFile(FlushDurably(WriteAllBytesToOpenFile(f, f.ret, bytes), f.ret, o), f.ret), temp, p), temp)
RECURSIVE WriteAttempt(_, _, _, _, _)
TempOpened(f, temp, p, bytes, o, attempt) ==
    CASE f.err = "AlreadyExists" /\ attempt < Attempts -> WriteAttempt(f, p, bytes, o, attempt + 1)
      [] f.err = "" -> WriteTemp(f, temp, p, bytes, o)
      [] OTHER -> f
WriteBeside(k, temp, p, bytes, o, attempt) ==
    TempOpened(Open(k, temp, [access |-> "Write", disposition |-> "CreateNew", writeThrough |-> o.bestEffortDurable]),
               temp, p, bytes, o, attempt)
WriteAttempt(k, p, bytes, o, attempt) == WriteBeside(k, Append(Parent(p), TempName(attempt)), p, bytes, o, attempt)
WriteEnsured(d, p, bytes, o) == Then(d, WriteAttempt(d, p, bytes, o, 1))
WriteAllBytesAtomic(k, p, bytes, o) ==
    WriteEnsured(IF o.createParentDirectories THEN EnsureDirectory(k, Parent(p)) ELSE Return(k, <<>>), p, bytes, o)
=============================================================================
