---------------------------- MODULE PosixKernel ----------------------------
(***************************************************************************)
(* The file system of the operating system, as the POSIX backend of        *)
(* NGIN::IO uses it.  External code: what each system call does to names,   *)
(* inodes and descriptors, which of its errors the library tells apart, and *)
(* what a crash leaves on the disk.                                        *)
(*                                                                         *)
(* A path is the sequence of its names.  fs.tree names inodes, fs.node      *)
(* holds them, fs.fds the open descriptors and fs.disk what is durable.     *)
(* A routine of the library threads a record k through its calls: k.err is  *)
(* the error of the last call, k.ret its result; the call numbered k.n      *)
(* fails or, when k.crash, is never reached.                               *)
(***************************************************************************)
EXTENDS Naturals, Integers, Sequences, SequencesExt, FiniteSets, FiniteSetsExt, Functions
CONSTANTS Volumes,    \* top-level names that are other devices
          Umask,      \* permission bits the process never grants
          MaxHops     \* symbolic links followed before ELOOP

Missing == {"NotFound", "NotDirectory"}
Parent(p) == SubSeq(p, 1, Len(p) - 1)
Device(p) == IF p # <<>> /\ p[1] \in Volumes THEN p[1] ELSE ""
Least(ids) == Min(1..(Cardinality(ids) + 1) \ ids)
Node(fs, p) == fs.node[fs.tree[p]]
Children(fs, p) == {q \in DOMAIN fs.tree : Len(q) = Len(p) + 1 /\ IsPrefix(p, q)}
Below(fs, p) == {q \in DOMAIN fs.tree : IsPrefix(p, q)}

File(data, mode)   == [type |-> "File", data |-> data, mode |-> mode]
Dir(mode)          == [type |-> "Directory", data |-> <<>>, mode |-> mode]
Link(target)       == [type |-> "Symlink", data |-> target, mode |-> {}]
MakeFs(tree, node) == [tree |-> tree, node |-> node, fds |-> <<>>,
                       disk |-> [tree |-> tree, data |-> [i \in DOMAIN node |-> node[i].data]]]

\* Path resolution: the path a name stands for, or the error of the walk.
RECURSIVE Walk(_, _, _, _, _)
Walk(fs, done, rest, follow, hops) ==
    IF rest = <<>> THEN [err |-> "", path |-> done]
    ELSE LET p == Append(done, Head(rest))
             last == Len(rest) = 1
         IN  CASE p \notin DOMAIN fs.tree -> [err |-> IF last THEN "" ELSE "NotFound", path |-> p]
               [] p \in DOMAIN fs.tree /\ Node(fs, p).type = "Symlink" /\ (follow \/ ~last) ->
                    IF hops = 0 THEN [err |-> "SystemError", path |-> p]
                    ELSE Walk(fs, <<>>, Node(fs, p).data \o Tail(rest), follow, hops - 1)
               [] p \in DOMAIN fs.tree /\ Node(fs, p).type = "File" /\ ~last -> [err |-> "NotDirectory", path |-> p]
               [] OTHER -> Walk(fs, p, Tail(rest), follow, hops)

Done(fs, ret) == [fs |-> fs, err |-> "", ret |-> ret]
Fail(fs, err) == [fs |-> fs, err |-> err, ret |-> <<>>]
\* Inodes nothing names and nobody has open are gone.
Live(fs) == [fs EXCEPT !.node = Restrict(@, Range(fs.tree) \cup {fs.fds[f].id : f \in DOMAIN fs.fds}
                                            \cup Range(fs.disk.tree))]
Follow(fs, p, follow) == Walk(fs, <<>>, p, follow, MaxHops)
OrMissing(fs, w) == IF w.err = "" /\ w.path \notin DOMAIN fs.tree THEN [w EXCEPT !.err = "NotFound"] ELSE w
Existing(fs, p, follow) == OrMissing(fs, Follow(fs, p, follow))
\* What a call returns once its path is walked to w.
Walked(fs, w, result) == IF w.err # "" THEN Fail(fs, w.err) ELSE result

StatAt(fs, w) ==
    Walked(fs, w, Done(fs, [exists |-> TRUE, type |-> Node(fs, w.path).type, mode |-> Node(fs, w.path).mode,
                            identity |-> <<Device(w.path), fs.tree[w.path]>>]))
Stat(fs, p, follow) == StatAt(fs, Existing(fs, p, follow))
Absent == [exists |-> FALSE, type |-> "Unknown", mode |-> {}, identity |-> <<>>]
Added(fs, p, i, node) == [fs EXCEPT !.tree = (p :> i) @@ @, !.node = (i :> node) @@ @]
Fresh(fs, w, node) ==
    Walked(fs, w, IF w.path \in DOMAIN fs.tree THEN Fail(fs, "AlreadyExists")
                  ELSE Done(Added(fs, w.path, Least(DOMAIN fs.node), node), <<>>))
Mkdir(fs, p) == Fresh(fs, Follow(fs, p, FALSE), Dir({"u", "g"} \ Umask))
Symlink(fs, target, p) == Fresh(fs, Follow(fs, p, FALSE), Link(target))
LinkTarget(fs, w) ==
    Walked(fs, w, IF Node(fs, w.path).type = "Symlink" THEN Done(fs, Node(fs, w.path).data) ELSE Fail(fs, "SystemError"))
Readlink(fs, p) == LinkTarget(fs, Existing(fs, p, FALSE))
Linked(fs, a, b) ==
    Walked(fs, a, IF Node(fs, a.path).type = "Directory" THEN Fail(fs, "PermissionDenied")
                  ELSE Walked(fs, b,
                    CASE Device(a.path) # Device(b.path) -> Fail(fs, "CrossDevice")
                      [] b.path \in DOMAIN fs.tree -> Fail(fs, "AlreadyExists")
                      [] OTHER -> Done([fs EXCEPT !.tree = (b.path :> fs.tree[a.path]) @@ @], <<>>)))
Hardlink(fs, p, new) == Linked(fs, Existing(fs, p, FALSE), Follow(fs, new, FALSE))
Without(fs, p) == Live([fs EXCEPT !.tree = Restrict(@, DOMAIN @ \ {p})])
Unlinked(fs, w) ==
    Walked(fs, w, IF Node(fs, w.path).type = "Directory" THEN Fail(fs, "IsDirectory") ELSE Done(Without(fs, w.path), <<>>))
Unlink(fs, p) == Unlinked(fs, Existing(fs, p, FALSE))
Emptied(fs, w) ==
    Walked(fs, w, CASE Node(fs, w.path).type # "Directory" -> Fail(fs, "NotDirectory")
                    [] Children(fs, w.path) # {} -> Fail(fs, "DirectoryNotEmpty")
                    [] OTHER -> Done(Without(fs, w.path), <<>>))
Rmdir(fs, p) == Emptied(fs, Existing(fs, p, FALSE))
Moded(fs, w, mode) == Walked(fs, w, Done([fs EXCEPT !.node[fs.tree[w.path]].mode = mode], <<>>))
Chmod(fs, p, mode) == Moded(fs, Existing(fs, p, TRUE), mode)
\* The names at a and below it, at b.
Moved(fs, a, b) == [q \in {b \o SubSeq(r, Len(a) + 1, Len(r)) : r \in Below(fs, a)} |->
                      fs.tree[a \o SubSeq(q, Len(b) + 1, Len(q))]]
Renamed(fs, a, b, there, noReplace) ==
    CASE Device(a) # Device(b) -> Fail(fs, "CrossDevice")
      [] there /\ noReplace -> Fail(fs, "AlreadyExists")
      [] Node(fs, a).type = "Directory" /\ IsStrictPrefix(a, b) -> Fail(fs, "SystemError")
      [] there /\ fs.tree[a] = fs.tree[b] -> Done(fs, <<>>)
      [] there /\ Node(fs, b).type = "Directory" /\ Node(fs, a).type # "Directory" -> Fail(fs, "IsDirectory")
      [] there /\ Node(fs, b).type # "Directory" /\ Node(fs, a).type = "Directory" -> Fail(fs, "NotDirectory")
      [] there /\ Node(fs, b).type = "Directory" /\ Children(fs, b) # {} -> Fail(fs, "DirectoryNotEmpty")
      [] OTHER -> Done(Live([fs EXCEPT !.tree =
                    Moved(fs, a, b) @@ Restrict(@, DOMAIN @ \ (Below(fs, a) \cup {b}))]), <<>>)
RenameWalked(fs, a, b, noReplace) ==
    Walked(fs, a, Walked(fs, b, Renamed(fs, a.path, b.path, b.path \in DOMAIN fs.tree, noReplace)))
RenameTo(fs, from, to, noReplace) == RenameWalked(fs, Existing(fs, from, FALSE), Follow(fs, to, FALSE), noReplace)

\* open(): how is [write, creat, excl, trunc, append, sync].  Returns the lowest free descriptor.
Opened(fs, f, id, how) == Done([fs EXCEPT !.fds = (f :> [id |-> id, pos |-> 0, how |-> how]) @@ @], f)
OpenFd(fs, id, how) == Opened(fs, Least(DOMAIN fs.fds), id, how)
OpenNew(fs, p, i, how, mode) == OpenFd(Added(fs, p, i, File(<<>>, mode \ Umask)), i, how)
OpenWalked(fs, w, there, how, mode) ==
    Walked(fs, w,
      CASE ~there /\ ~how.creat -> Fail(fs, "NotFound")
        [] ~there /\ how.creat -> OpenNew(fs, w.path, Least(DOMAIN fs.node), how, mode)
        [] there /\ how.creat /\ how.excl -> Fail(fs, "AlreadyExists")
        [] there /\ how.write /\ Node(fs, w.path).type = "Directory" -> Fail(fs, "IsDirectory")
        [] OTHER -> OpenFd(IF how.trunc THEN [fs EXCEPT !.node[fs.tree[w.path]].data = <<>>] ELSE fs,
                           fs.tree[w.path], how))
OpenFound(fs, w, how, mode) == OpenWalked(fs, w, w.path \in DOMAIN fs.tree, how, mode)
OpenAt(fs, p, how, mode) == OpenFound(fs, Follow(fs, p, ~(how.creat /\ how.excl)), how, mode)
OpenWalkedDirectory(fs, w) ==
    Walked(fs, w, IF Node(fs, w.path).type # "Directory" THEN Fail(fs, "NotDirectory")
                  ELSE OpenFd(fs, fs.tree[w.path], [write |-> FALSE]))
Opendir(fs, p) == OpenWalkedDirectory(fs, Existing(fs, p, TRUE))
CloseFd(fs, f) == IF f \notin DOMAIN fs.fds THEN Fail(fs, "SystemError")
                  ELSE Done(Live([fs EXCEPT !.fds = Restrict(@, DOMAIN @ \ {f})]), <<>>)
DataOf(fs, f) == fs.node[fs.fds[f].id].data
Pread(fs, f, pos, n) == Done(fs, SubSeq(DataOf(fs, f), pos + 1, Min({pos + n, Len(DataOf(fs, f))})))
Advanced(r, f, n) == [r EXCEPT !.fs.fds[f].pos = @ + n]
ReadPast(r, f) == Advanced(r, f, Len(r.ret))
ReadFd(fs, f, n) == ReadPast(Pread(fs, f, fs.fds[f].pos, n), f)
\* Bytes past the end of the data that are skipped read as zero.
Overwritten(old, pos, bytes) ==
    [i \in 1..Max({Len(old), pos + Len(bytes)}) |->
       IF i \in (pos + 1)..(pos + Len(bytes)) THEN bytes[i - pos] ELSE IF i <= Len(old) THEN old[i] ELSE "zero"]
Stored(fs, id, data, sync) ==
    [fs EXCEPT !.node[id].data = data, !.disk.data = IF sync THEN (id :> data) @@ @ ELSE @]
Pwrite(fs, f, pos, bytes) ==
    Done(Stored(fs, fs.fds[f].id, Overwritten(DataOf(fs, f), pos, bytes), fs.fds[f].how.sync), Len(bytes))
WrittenAt(fs, f, pos, bytes) == [Pwrite(fs, f, pos, bytes) EXCEPT !.fs.fds[f].pos = pos + Len(bytes)]
WriteFd(fs, f, bytes) == WrittenAt(fs, f, IF fs.fds[f].how.append THEN Len(DataOf(fs, f)) ELSE fs.fds[f].pos, bytes)
Ftruncate(fs, f, n) ==
    Done([fs EXCEPT !.node[fs.fds[f].id].data = [i \in 1..n |-> IF i <= Len(@) THEN @[i] ELSE "zero"]], <<>>)
\* fsync() makes the data of a file durable, or the names in a directory; a
\* directory that was renamed keeps the names it has on the disk.
NamesIn(fs, id) == {c \in DOMAIN fs.tree : c # <<>> /\ fs.tree[Parent(c)] = id}
Under(fs, id, p) == \E i \in 0..(Len(p) - 1) : SubSeq(p, 1, i) \in DOMAIN fs.tree /\ fs.tree[SubSeq(p, 1, i)] = id
\* <<name, its place on the disk, an entry there>>
Kept(tree, disk, names) ==
    {t \in names \X (DOMAIN disk) \X (DOMAIN disk) : disk[t[2]] = tree[t[1]] /\ IsStrictPrefix(t[2], t[3])}
PlaceOf(t) == t[1] \o SubSeq(t[3], Len(t[2]) + 1, Len(t[3]))
KeptNames(disk, kept) == [q \in {PlaceOf(t) : t \in kept} |-> disk[(CHOOSE t \in kept : PlaceOf(t) = q)[3]]]
FsyncNames(fs, id, disk, names) ==
    [fs EXCEPT !.disk.tree = Restrict(fs.tree, names) @@ KeptNames(disk, Kept(fs.tree, disk, names))
                             @@ Restrict(disk, {p \in DOMAIN disk : ~Under(fs, id, p)})]
FsyncNode(fs, id) ==
    Done(IF fs.node[id].type = "Directory" THEN FsyncNames(fs, id, fs.disk.tree, NamesIn(fs, id))
         ELSE [fs EXCEPT !.disk.data = (id :> fs.node[id].data) @@ @], <<>>)
Fsync(fs, f) == FsyncNode(fs, fs.fds[f].id)

\* What the disk may hold after a crash: the names as they are or as they
\* were made durable, and for each file its data or its durable data.
Durable(fs, i) == IF i \in DOMAIN fs.disk.data THEN fs.disk.data[i] ELSE <<>>
AfterCrash(fs, tree, lost) ==
    MakeFs(tree, [i \in Range(tree) |-> IF i \in lost THEN [fs.node[i] EXCEPT !.data = Durable(fs, i)] ELSE fs.node[i]])
CrashStates(fs) ==
    {AfterCrash(fs, tree, lost) : tree \in {fs.tree, fs.disk.tree},
        lost \in SUBSET {i \in DOMAIN fs.node : fs.node[i].type = "File" /\ Durable(fs, i) # fs.node[i].data}}

----------------------------------------------------------------------------
\* One system call of a routine; r is what it does when it is neither made
\* to fail nor cut off by a crash.
Sys(k, call, r) ==
    CASE k.crash /\ k.n <= 0 -> [k EXCEPT !.err = "Crash"]
      [] ~k.crash /\ k.n = 0 -> [k EXCEPT !.n = -1, !.err = "SystemError", !.failed = call]
      [] OTHER -> [k EXCEPT !.n = @ - 1, !.fs = r.fs, !.err = r.err, !.ret = r.ret]
\* close() and closedir(): the descriptor is gone even when they report an error.
Closing(s, fs) == IF s.err = "Crash" THEN s ELSE [s EXCEPT !.fs = fs]
Close(k, call, f) == Closing(Sys(k, call, CloseFd(k.fs, f)), CloseFd(k.fs, f).fs)
\* The entries a directory stream yields, in one of two orders.
Entries(k, paths) == [i \in DOMAIN paths |-> Last(paths[IF k.reversed THEN Len(paths) + 1 - i ELSE i])]
Listing(k, p) == Entries(k, SetToSeq(Children(k.fs, Follow(k.fs, p, TRUE).path)))
\* A call whose result the routine ignores, the first error of two calls, and a routine's error.
Ignoring(k, next) == [next EXCEPT !.err = k.err, !.ret = k.ret]
FirstError(k, next) == IF k.err # "" \/ next.err = "" THEN Ignoring(k, next) ELSE next
Raise(k, err) == [k EXCEPT !.err = err]
Return(k, ret) == [k EXCEPT !.err = "", !.ret = ret]
\* next continues from k, unless k is an error.
Then(k, next) == IF k.err # "" THEN k ELSE next
=============================================================================
