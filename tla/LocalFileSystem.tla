-------------------------- MODULE LocalFileSystem --------------------------
(***************************************************************************)
(* The POSIX backend of NGIN::IO::LocalFileSystem: the routines that walk,  *)
(* copy, replace and remove files with several system calls, any of which   *)
(* may fail or be the last before a crash.  A routine that uses the result  *)
(* of a call hands it to the operator of what comes after the call.        *)
(***************************************************************************)
EXTENDS PosixKernel
CONSTANTS Chunk,      \* the units one read() of a copy returns at most
          MaxWrite    \* the units one write() takes at most

ReadOnly == [write |-> FALSE, creat |-> FALSE, excl |-> FALSE, trunc |-> FALSE, append |-> FALSE, sync |-> FALSE]
DefaultMode == {"u", "g"}

\* stat() did not find the target of a link: the link itself is reported.
OrAbsent(k) == IF k.err \in Missing THEN Return(k, Absent) ELSE k
DanglingInfo(s, l) ==
    IF l.err = "" /\ l.ret.type = "Symlink" THEN l ELSE OrAbsent(IF l.err # "" THEN l ELSE [s EXCEPT !.n = l.n])
FileInfo(s, p, follow) ==
    CASE s.err = "" /\ (follow \/ s.ret.type # "Symlink") -> s
      [] s.err = "" /\ ~follow /\ s.ret.type = "Symlink" -> Ignoring(s, Sys(s, "stat", Stat(s.fs, p, TRUE)))
      [] s.err \in Missing /\ follow -> DanglingInfo(s, Sys(s, "lstat", Stat(s.fs, p, FALSE)))
      [] OTHER -> OrAbsent(s)
BuildFileInfo(k, p, follow) == FileInfo(Sys(k, "stat", Stat(k.fs, p, follow)), p, follow)
Existence(s) == IF s.err \in Missing \cup {""} THEN Return(s, s.err = "") ELSE s
ExistsNative(k, p) == Existence(Sys(k, "lstat", Stat(k.fs, p, FALSE)))

AlreadyDirectory(m, i) ==
    IF i.err = "" /\ i.ret.exists /\ i.ret.type = "Directory" THEN Return(i, <<>>)
    ELSE Raise(i, IF i.err = "" THEN m.err ELSE i.err)
MadeDirectory(m, p, o) ==
    IF m.err = "AlreadyExists" /\ o.ignoreIfExists THEN AlreadyDirectory(m, BuildFileInfo(m, p, TRUE)) ELSE m
CreateDirectoryNative(k, p, o) == MadeDirectory(Sys(k, "mkdir", Mkdir(k.fs, p)), p, o)
CreateBelow(made, p, o) == Then(made, CreateDirectoryNative(made, p, o))
RECURSIVE CreateDirectoriesNative(_, _, _)
CreateDirectoriesNative(k, p, o) ==
    IF p = <<>> THEN Return(k, <<>>) ELSE CreateBelow(CreateDirectoriesNative(k, Parent(p), o), p, o)

IgnoringMissing(r, o) == IF o.ignoreMissing /\ r.err \in Missing THEN Return(r, <<>>) ELSE r
RemoveFileNative(k, p, o) == IgnoringMissing(Sys(k, "unlink", Unlink(k.fs, p)), o)

\* The descriptor is closed, and an earlier error is the one reported.
ClosedAfter(k, call, f) == FirstError(k, Close(k, call, f))
FlushOpened(f) == Then(f, ClosedAfter(Sys(f, "fsync", Fsync(f.fs, f.ret)), "close", f.ret))
OpenToRead(k, p) == Sys(k, "open", OpenAt(k.fs, p, ReadOnly, {}))
\* Mutants: the descriptor left open on an error, and no fsync().
FlushLeaky(f, s) == Then(s, Close(s, "close", f.ret))
FlushOpenedLeaky(f) == Then(f, FlushLeaky(f, Sys(f, "fsync", Fsync(f.fs, f.ret))))
FlushPathLeaky(k, p) == FlushOpenedLeaky(OpenToRead(k, p))
FlushOpenedUnsynced(f) == Then(f, Close(f, "close", f.ret))
FlushPathUnsynced(k, p) == FlushOpenedUnsynced(OpenToRead(k, p))
FlushPath(k, p) == FlushOpened(OpenToRead(k, p))

\* readdir() reports an error and the end in the same way, and the loops
\* over a directory take both for the end.
NextEntry(k, names) == Sys(k, "readdir", Done(k.fs, Head(names)))
Counted(k, count) == Then(k, Return(k, count))
RECURSIVE RemoveAllNative(_, _, _), RemoveEntries(_, _, _, _, _)
RemoveRest(c, p, names, o, count) == Then(c, RemoveEntries(c, p, Tail(names), o, count + c.ret))
RemoveNext(r, p, names, o, count) ==
    IF r.err # "" THEN Return(r, count)
    ELSE RemoveRest(RemoveAllNative(r, Append(p, Head(names)), o), p, names, o, count)
RemoveEntries(k, p, names, o, count) ==
    IF names = <<>> THEN Return(k, count) ELSE RemoveNext(NextEntry(k, names), p, names, o, count)
RemoveEmptied(e, p, count) == Then(e, Counted(Sys(e, "rmdir", Rmdir(e.fs, p)), count + 1))
RemoveListed(c, p, f) == RemoveEmptied(ClosedAfter(c, "closedir", f), p, c.ret)
RemoveOpened(d, p, o) == Then(d, RemoveListed(RemoveEntries(d, p, Listing(d, p), o, 0), p, d.ret))
RemoveFound(i, p, o) ==
    Then(i, CASE ~i.ret.exists -> IF o.ignoreMissing THEN Return(i, 0) ELSE Raise(i, "NotFound")
              [] i.ret.exists /\ i.ret.type # "Directory" -> Counted(RemoveFileNative(i, p, o), 1)
              [] OTHER -> RemoveOpened(Sys(i, "opendir", Opendir(i.fs, p)), p, o))
\* Mutant: a link to a directory is taken for the directory.
RemoveAllFollowing(k, p, o) == RemoveFound(BuildFileInfo(k, p, TRUE), p, o)
RemoveAllNative(k, p, o) == RemoveFound(BuildFileInfo(k, p, FALSE), p, o)
RemoveDirectoryNative(k, p, o) ==
    IF o.recursive THEN RemoveAllNative(k, p, o) ELSE IgnoringMissing(Sys(k, "rmdir", Rmdir(k.fs, p)), o)
\* What removes a destination that stands in the way, or was half made.
Recursively == [recursive |-> TRUE, ignoreMissing |-> TRUE]

\* Entries are <<path, type>>; o says which types are included.
KnownType(k, q) == IF k.dtype THEN Stat(k.fs, q, FALSE).ret.type ELSE "Unknown"
NeedsMetadataForEnumeration(known, o) ==
    \/ o.populateInfo
    \/ o.followSymlinks /\ known = "Symlink"
    \/ known = "Unknown" /\ (o.recursive \/ o.include # {"File", "Directory", "Symlink"})
EntryInfo(r, q, known, o) ==
    IF NeedsMetadataForEnumeration(known, o) THEN BuildFileInfo(r, q, o.followSymlinks) ELSE Return(r, [type |-> known])
IncludeEntry(entries, q, type, o) ==
    IF type \in o.include \cup {"Unknown"} THEN Append(entries, <<q, type>>) ELSE entries
RECURSIVE Collect(_, _, _, _, _), CollectDirectory(_, _, _, _)
CollectBelow(i, q, o, found) ==
    IF o.recursive /\ i.ret.type = "Directory" THEN CollectDirectory(i, q, o, found) ELSE Return(i, found)
CollectRest(b, p, names, o) == Then(b, Collect(b, p, Tail(names), o, b.ret))
CollectEntry(i, q, p, names, o, entries) ==
    Then(i, CollectRest(CollectBelow(i, q, o, IncludeEntry(entries, q, i.ret.type, o)), p, names, o))
CollectKnown(r, q, p, names, o, entries) == CollectEntry(EntryInfo(r, q, KnownType(r, q), o), q, p, names, o, entries)
CollectNext(r, p, names, o, entries) ==
    IF r.err # "" THEN Return(r, entries) ELSE CollectKnown(r, Append(p, Head(names)), p, names, o, entries)
Collect(k, p, names, o, entries) ==
    IF names = <<>> THEN Return(k, entries) ELSE CollectNext(NextEntry(k, names), p, names, o, entries)
CollectOpened(d, p, o, entries) == Then(d, ClosedAfter(Collect(d, p, Listing(d, p), o, entries), "closedir", d.ret))
CollectDirectory(k, p, o, entries) == CollectOpened(Sys(k, "opendir", Opendir(k.fs, p)), p, o, entries)
EnumerateEntries(k, p, o) == CollectDirectory(k, p, o, <<>>)

----------------------------------------------------------------------------
(* Copying: a copy is a record with its paths, options and what it is inside *)

WriteSome(k, f, bytes) == Sys(k, "write", WriteFd(k.fs, f, SubSeq(bytes, 1, Min({MaxWrite, Len(bytes)}))))
RECURSIVE WriteLoop(_, _, _), CopyLoop(_, _, _)
WriteRest(w, f, bytes) == Then(w, WriteLoop(w, f, SubSeq(bytes, w.ret + 1, Len(bytes))))
\* Mutant: a short write() taken for a whole one.
WriteOnce(k, f, bytes) == WriteSome(k, f, bytes)
WriteLoop(k, f, bytes) == IF bytes = <<>> THEN k ELSE WriteRest(WriteSome(k, f, bytes), f, bytes)
CopyMore(w, src, dst) == Then(w, CopyLoop(w, src, dst))
CopyChunk(r, src, dst) == Then(r, IF r.ret = <<>> THEN r ELSE CopyMore(WriteLoop(r, dst, r.ret), src, dst))
CopyLoop(k, src, dst) == CopyChunk(Sys(k, "read", ReadFd(k.fs, src, Chunk)), src, dst)

CloseBoth(k, f, g) == Ignoring(k, Close(Close(k, "close", f), "close", g))
CopyFlags(o) == [ReadOnly EXCEPT !.write = TRUE, !.creat = TRUE, !.excl = ~o.overwriteExisting, !.trunc = o.overwriteExisting]
CopyEnded(c, copy, absent) ==
    IF c.err # "" /\ absent /\ copy.o.cleanupOnFailure THEN Ignoring(c, Sys(c, "unlink", Unlink(c.fs, copy.to))) ELSE c
CopyOpened(d, copy, src, absent) ==
    IF d.err # "" THEN Ignoring(d, Close(d, "close", src))
    ELSE CopyEnded(CloseBoth(CopyLoop(d, src, d.ret), d.ret, src), copy, absent)
CopyTo(l, copy, src, mode) == CopyOpened(Sys(l, "open", OpenAt(l.fs, copy.to, CopyFlags(copy.o), mode)), copy, src, l.err # "")
CopyFrom(s, copy, mode) == Then(s, CopyTo(Sys(s, "lstat", Stat(s.fs, copy.to, FALSE)), copy, s.ret, mode))
CopyWithInfo(i, copy) ==
    Then(i, CopyFrom(OpenToRead(i, copy.from), copy, IF copy.o.preservePermissions THEN i.ret.mode ELSE DefaultMode))
CopyRegularFile(k, copy) == CopyWithInfo(BuildFileInfo(k, copy.from, TRUE), copy)

RECURSIVE CopyPathNative(_, _), CopyEntries(_, _, _)
CopyRest(c, copy, names) == Then(c, CopyEntries(c, copy, Tail(names)))
CopyNext(r, copy, names) ==
    IF r.err # "" THEN Return(r, <<>>)
    ELSE CopyRest(CopyPathNative(r, [copy EXCEPT !.from = Append(@, Head(names)), !.to = Append(@, Head(names))]), copy, names)
CopyEntries(k, copy, names) == IF names = <<>> THEN Return(k, <<>>) ELSE CopyNext(NextEntry(k, names), copy, names)
Blocked(destination) == destination.exists /\ destination.type # "Directory"
CopyCleaned(c, copy, absent) ==
    IF c.err # "" /\ absent /\ copy.o.cleanupOnFailure THEN Ignoring(c, RemoveAllNative(c, copy.to, Recursively)) ELSE c
CopyClosed(c, e, copy, mode, absent) ==
    CASE c.err # "" -> CopyCleaned(Ignoring(c, e), copy, absent)
      [] c.err = "" /\ (e.err # "" \/ ~copy.o.preservePermissions) -> e
      [] OTHER -> CopyCleaned(Sys(e, "chmod", Chmod(e.fs, copy.to, mode)), copy, absent)
CopiedEntries(c, f, copy, mode, absent) == CopyClosed(c, Close(c, "closedir of copy", f), copy, mode, absent)
CopyListed(d, copy, info, absent) ==
    Then(d, CopiedEntries(CopyEntries(d, [copy EXCEPT !.active = @ \cup {info.identity}], Listing(d, copy.from)),
                          d.ret, copy, info.mode, absent))
CopyMade(m, copy, info, absent) ==
    Then(m, CopyListed(Sys(m, "opendir of copy", Opendir(m.fs, copy.from)), copy, info, absent))
CopyCleared(c, copy, info, absent) ==
    Then(c, CopyMade(IF absent THEN CreateDirectoryNative(c, copy.to, [ignoreIfExists |-> FALSE]) ELSE c, copy, info, absent))
CopyDirectoryTo(i, copy, info) ==
    Then(i, IF Blocked(i.ret) /\ ~copy.o.overwriteExisting THEN Raise(i, "AlreadyExists")
            ELSE CopyCleared(IF Blocked(i.ret) THEN RemoveAllNative(i, copy.to, Recursively) ELSE i, copy, info,
                             Blocked(i.ret) \/ ~i.ret.exists))
CopyDirectory(k, copy, info) == CopyDirectoryTo(BuildFileInfo(k, copy.to, FALSE), copy, info)
MakeLink(r, target, p) == Then(r, Sys(r, "symlink", Symlink(r.fs, target, p)))
CopyLink(t, copy) ==
    Then(t, MakeLink(IF copy.o.overwriteExisting THEN RemoveAllNative(t, copy.to, Recursively) ELSE t, t.ret, copy.to))
CopySymlink(k, copy) == CopyLink(Sys(k, "readlink", Readlink(k.fs, copy.from)), copy)
CopyTarget(s, copy) ==
    Then(s, CASE ~s.ret.exists \/ s.ret.type = "Symlink" -> Raise(s, "NotFound")
              [] s.ret.type = "Directory" /\ ~copy.o.recursive -> Raise(s, "NotSupported")
              [] s.ret.type = "Directory" /\ copy.o.recursive ->
                   IF s.ret.identity \in copy.active THEN Raise(s, "InvalidPath") ELSE CopyDirectory(s, copy, s.ret)
              [] OTHER -> CopyRegularFile(s, copy))
CopyFound(l, copy) ==
    Then(l, CASE l.ret.type = "Symlink" /\ copy.o.symlinks = "Reject" -> Raise(l, "NotSupported")
              [] l.ret.type = "Symlink" /\ copy.o.symlinks = "Preserve" -> CopySymlink(l, copy)
              [] OTHER -> CopyTarget(IF l.ret.type = "Symlink" THEN BuildFileInfo(l, copy.from, TRUE) ELSE l, copy))
CopyPathNative(k, copy) == CopyFound(BuildFileInfo(k, copy.from, FALSE), copy)
CopyFile(k, from, to, o) == CopyPathNative(k, [from |-> from, to |-> to, o |-> o, active |-> {}])

\* realpath(), and the canonical form of a path that need not exist.
WalkedPath(fs, w) == Walked(fs, w, Done(fs, w.path))
CanonicalizeExistingPath(k, p) == Sys(k, "realpath", WalkedPath(k.fs, Existing(k.fs, p, TRUE)))
RECURSIVE DeepestExisting(_, _)
DeepestFound(i, p) == IF p = <<>> \/ (i.err = "" /\ i.ret.exists) THEN Return(i, p) ELSE DeepestExisting(i, Parent(p))
DeepestExisting(k, p) == DeepestFound(BuildFileInfo(k, p, TRUE), p)
CanonicalBelow(b, p, base) == Then(b, Return(b, b.ret \o SubSeq(p, Len(base) + 1, Len(p))))
CanonicalBase(base, p) == CanonicalBelow(CanonicalizeExistingPath(base, base.ret), p, base.ret)
CanonicalOr(c, p) == IF c.err = "" THEN c ELSE CanonicalBase(DeepestExisting(c, p), p)
MakeWeaklyCanonicalPath(k, p) == CanonicalOr(CanonicalizeExistingPath(k, p), p)

Rename(k, from, to) == Sys(k, "rename", RenameTo(k.fs, from, to, FALSE))
RenameNoReplace(k, from, to) == Sys(k, "rename", RenameTo(k.fs, from, to, TRUE))
FlushIf(k, flush, p) == Then(k, IF flush THEN FlushPath(k, p) ELSE k)
RenameFlushed(k, source, destination) == Then(k, Rename(k, source, destination))
ReplaceFile(k, source, destination, o) ==
    FlushIf(RenameFlushed(FlushIf(Return(k, <<>>), o.flushSource, source), source, destination),
            o.flushParentDirectory, Parent(destination))
RemoveSource(i, p, recursive) ==
    Then(i, IF i.ret.type = "Directory"
            THEN RemoveDirectoryNative(i, p, [recursive |-> recursive, ignoreMissing |-> FALSE])
            ELSE RemoveFileNative(i, p, [ignoreMissing |-> FALSE]))
MoveCopied(c, from, recursive) == Then(c, RemoveSource(BuildFileInfo(c, from, FALSE), from, recursive))
MoveRenamed(r, from, to, o) ==
    IF r.err # "CrossDevice" THEN r ELSE MoveCopied(CopyFile(Return(r, <<>>), from, to, o), from, o.recursive)
Move(k, from, to, o) == MoveRenamed(Sys(k, "rename", RenameTo(k.fs, from, to, ~o.overwriteExisting)), from, to, o)
SameIdentity(j, a) == Then(j, Return(j, a.exists /\ j.ret.exists /\ a.identity = j.ret.identity))
SameFileAs(i, q) == Then(i, SameIdentity(BuildFileInfo(i, q, TRUE), i.ret))
SameFile(k, p, q) == SameFileAs(BuildFileInfo(k, p, TRUE), q)
CreateTempDirectory(k, p) == Sys(k, "mkdtemp", Mkdir(k.fs, Append(p, "temp")))
TempMade(f, p) == Then(f, Ignoring(Return(f, p), Close(f, "close", f.ret)))
CreateTempFile(k, p) ==
    TempMade(Sys(k, "mkstemp", OpenAt(k.fs, Append(p, "temp"),
                   [ReadOnly EXCEPT !.write = TRUE, !.creat = TRUE, !.excl = TRUE], {"u"})), Append(p, "temp"))
=============================================================================
