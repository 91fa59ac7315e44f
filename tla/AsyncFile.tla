----------------------------- MODULE AsyncFile -----------------------------
(***************************************************************************)
(* AsyncFileHandle over FileSystemDriver.  Coroutines open files, use them  *)
(* and close them while the driver's native backend (an io_uring with its  *)
(* worker, or an I/O completion port) or its thread pool runs the          *)
(* operations and a token may be canceled.                                 *)
(*                                                                         *)
(* A request in the rings is named by its operation.  Descriptors are      *)
(* numbers that the kernel hands out again as soon as they are free; 0      *)
(* stands for -1.  The program awaits what it started on a handle before   *)
(* it closes the handle, except for another close, and on Windows it does  *)
(* not use a handle it closed.                                             *)
(***************************************************************************)
EXTENDS Naturals, Sequences, SequencesExt, FiniteSets, FiniteSetsExt
CONSTANTS Op,          \* numbers
          Handle,      \* numbers
          None,
          Backends,    \* what the driver may have: "uring", "iocp", "workers"
          Kinds,       \* operations programs use on an open file
          MaxFd, MaxFaults,
          m_sqEntryCount
VARIABLES backend, canceled, faults,
          ops,         \* per operation: what it is, where it is and how it ended
          fd,          \* LocalAsyncFileState::fd of each handle
          fds,         \* the kernel's descriptors: the handle each was opened for
          closure,     \* what the driver's scheduler has of an operation: None, "queued", "running", "ran"
          m_pending, sq, kernel, cq, m_inFlight, m_submittedSinceEnter, m_stopping,
          worker       \* where Run() is
driver == <<m_pending, sq, kernel, cq, m_inFlight, m_submittedSinceEnter, m_stopping, worker>>
vars == <<backend, canceled, faults, ops, fd, fds, closure, driver>>

Descriptor == 1..MaxFd
NoOp == [kind |-> None, handle |-> None, at |-> "new", fd |-> 0, done |-> FALSE, registered |-> FALSE,
         outcome |-> None, file |-> None, resumed |-> 0]
Init ==
    /\ backend \in Backends
    /\ canceled = FALSE /\ faults = 0
    /\ ops = [o \in Op |-> NoOp]
    /\ fd = [h \in Handle |-> 0] /\ fds = [d \in Descriptor |-> None]
    /\ closure = [o \in Op |-> None]
    /\ m_pending = <<>> /\ sq = <<>> /\ kernel = {} /\ cq = <<>>
    /\ m_inFlight = 0 /\ m_submittedSinceEnter = 0 /\ m_stopping = FALSE /\ worker = "wait"

Native == backend # "workers"
Waiting == {"submit", "dispatch", "waiting"}
Outstanding(h) == {o \in Op : ops[o].handle = h /\ ops[o].at \in Waiting}
Fail == faults < MaxFaults /\ faults' = faults + 1

----------------------------------------------------------------------------
(* The end of an operation: the awaiter's state is filled and the coroutine *)
(* resumed.  A native completion resumes whenever it is called; a           *)
(* dispatched one only when it wins the exchange on "done".                 *)

Resumed(r, outcome) == [r EXCEPT !.outcome = outcome, !.resumed = @ + 1, !.at = "ended", !.registered = FALSE]
\* Mutant: the completion of a dispatched operation resumes even after a cancellation did.
CompleteAlways(r, outcome) == Resumed(r, outcome)
Complete(r, outcome) == IF r.done THEN r ELSE Resumed([r EXCEPT !.done = TRUE], outcome)
\* A file that was opened becomes a handle when its coroutine gets it.
Opened(r) == r.kind = "Open" /\ r.outcome = "ok"

----------------------------------------------------------------------------
(* The coroutines *)

Begin(o, h, kind, at, d) == ops' = [ops EXCEPT ![o] = [NoOp EXCEPT !.kind = kind, !.handle = h, !.at = at, !.fd = d]]
\* Operations, like handles, are numbered in the order in which they start.
Fresh(o) == ops[o].at = "new" /\ ~m_stopping /\ \A p \in Op : p < o => ops[p].at # "new"
\* OpenFileAsync() is dispatched under every backend.
OpenFileAsync(o, h) ==
    /\ Fresh(o) /\ \A p \in Op : ops[p].handle # h
    /\ \A g \in Handle : g < h => \E p \in Op : ops[p].handle = g
    /\ Begin(o, h, "Open", "dispatch", 0)
    /\ UNCHANGED <<backend, canceled, faults, fd, fds, closure, driver>>
\* The native path reads state->fd without the handle's mutex.
UsePosix(o, h, kind) == backend # "iocp" /\ Begin(o, h, kind, IF Native THEN "submit" ELSE "dispatch", fd[h])
UseWindows(o, h, kind) == backend = "iocp" /\ fd[h] # 0 /\ Begin(o, h, kind, "submit", fd[h])
Use(o, h, kind) ==
    /\ Fresh(o) /\ \E p \in Op : ops[p].handle = h /\ Opened(ops[p])
    /\ UsePosix(o, h, kind) \/ UseWindows(o, h, kind)
    /\ UNCHANGED <<backend, canceled, faults, fd, fds, closure, driver>>
LocalAsyncFileRead(o, h)    == "Read" \in Kinds /\ Use(o, h, "Read")
LocalAsyncFileWrite(o, h)   == "Write" \in Kinds /\ Use(o, h, "Write")
LocalAsyncFileReadAt(o, h)  == "ReadAt" \in Kinds /\ Use(o, h, "ReadAt")
LocalAsyncFileWriteAt(o, h) == "WriteAt" \in Kinds /\ Use(o, h, "WriteAt")
LocalAsyncFileFlush(o, h)   == "Flush" \in Kinds /\ Use(o, h, "Flush")
\* Mutant: the descriptor is left in the handle.
TakeFdKept(h) == fd' = fd
TakeFd(h) == fd' = [fd EXCEPT ![h] = 0]
\* The native path takes the descriptor out of the handle first.
LocalAsyncFileClose(o, h) ==
    /\ Fresh(o) /\ \E p \in Op : ops[p].handle = h /\ Opened(ops[p])
    /\ \A p \in Outstanding(h) : ops[p].kind = "Close"
    /\ \/ /\ ~Native
          /\ Begin(o, h, "Close", "dispatch", fd[h]) /\ UNCHANGED fd
       \/ /\ Native /\ fd[h] # 0
          /\ Begin(o, h, "Close", "submit", fd[h]) /\ TakeFd(h)
       \/ /\ Native /\ fd[h] = 0
          /\ ops' = [ops EXCEPT ![o] = Resumed([NoOp EXCEPT !.kind = "Close", !.handle = h, !.file = h], "ok")]
          /\ UNCHANGED fd
    /\ UNCHANGED <<backend, canceled, faults, fds, closure, driver>>

----------------------------------------------------------------------------
(* NativePosixFileAwaiter, NativeWindowsFileAwaiter *)

End(o, outcome) == ops' = [ops EXCEPT ![o] = Resumed(@, outcome)]
Enqueued(o) == ops' = [ops EXCEPT ![o].at = "waiting"]
\* Submit() refuses while the destructor runs, which no operation meets: each holds the driver.
SubmitUring(o) == ~m_stopping /\ Enqueued(o) /\ m_pending' = Append(m_pending, o)
\* Overlapped requests go to the kernel, the others to the port's own queue.
Overlapped == {"Read", "Write", "ReadAt", "WriteAt"}
SubmitIocp(o) ==
    \/ /\ Enqueued(o) /\ UNCHANGED faults
       /\ IF ops[o].kind \in Overlapped THEN kernel' = kernel \cup {o} /\ UNCHANGED cq
          ELSE cq' = Append(cq, o) /\ UNCHANGED kernel
    \* The request's completion faults and so does the awaiter: the coroutine is resumed twice.
    \/ /\ Fail
       /\ ops' = [ops EXCEPT ![o] = Resumed(Resumed(@, "fault"), "fault")]
       /\ UNCHANGED <<kernel, cq>>
AwaitPosix(o) ==
    /\ backend = "uring" /\ UNCHANGED <<faults, kernel, cq>>
    /\ IF canceled THEN End(o, "canceled") /\ UNCHANGED m_pending ELSE SubmitUring(o)
AwaitWindows(o) ==
    /\ backend = "iocp" /\ UNCHANGED m_pending
    /\ IF canceled THEN End(o, "canceled") /\ UNCHANGED <<faults, kernel, cq>> ELSE SubmitIocp(o)
AwaitNative(o) ==
    /\ ops[o].at = "submit"
    /\ AwaitPosix(o) \/ AwaitWindows(o)
    /\ UNCHANGED <<backend, canceled, fd, fds, closure, sq, m_inFlight, m_submittedSinceEnter, m_stopping, worker>>

----------------------------------------------------------------------------
(* DriverDispatchAwaiter *)

AwaitDispatch(o) ==
    /\ ops[o].at = "dispatch"
    /\ \/ canceled /\ End(o, "canceled") /\ UNCHANGED closure
       \/ /\ ~canceled
          /\ ops' = [ops EXCEPT ![o].at = "waiting", ![o].registered = TRUE]
          /\ closure' = [closure EXCEPT ![o] = "queued"]
    /\ UNCHANGED <<backend, canceled, faults, fd, fds, driver>>
CancelCallback(o) ==
    /\ canceled /\ ops[o].registered
    /\ ops' = [ops EXCEPT ![o] = Complete(@, "canceled")]
    /\ UNCHANGED <<backend, canceled, faults, fd, fds, closure, driver>>
\* The closure looks at "done" before it starts.
PoolTake(o) ==
    /\ closure[o] = "queued"
    /\ closure' = [closure EXCEPT ![o] = IF ops[o].done THEN None ELSE "running"]
    /\ UNCHANGED <<backend, canceled, faults, ops, fd, fds, driver>>
\* What a system call on descriptor d gives.
Touch(r, d) == IF d = 0 \/ fds[d] = None THEN [r EXCEPT !.file = None] ELSE [r EXCEPT !.file = fds[d]]
FreeFds == {d \in Descriptor : fds[d] = None}
\* The operation itself, with the handle's mutex held: the descriptor is the handle's now.
PoolRun(o) ==
    LET r == ops[o]
        d == fd[r.handle]
    IN  /\ closure[o] = "running" /\ closure' = [closure EXCEPT ![o] = "ran"]
        /\ \/ /\ r.kind = "Open"   \* open() fails: no such file, no descriptor left
              /\ UNCHANGED <<ops, fds, fd>>
           \/ /\ r.kind = "Open" /\ FreeFds # {}
              /\ fds' = [fds EXCEPT ![Min(FreeFds)] = r.handle]
              /\ ops' = [ops EXCEPT ![o] = [r EXCEPT !.fd = Min(FreeFds), !.file = r.handle]]
              /\ UNCHANGED fd
           \/ /\ r.kind = "Close"
              /\ ops' = [ops EXCEPT ![o] = IF d = 0 THEN [r EXCEPT !.file = r.handle] ELSE Touch(r, d)]
              /\ fds' = IF d = 0 THEN fds ELSE [fds EXCEPT ![d] = None]
              /\ TakeFd(r.handle)
           \/ /\ r.kind \notin {"Open", "Close"}
              /\ ops' = [ops EXCEPT ![o] = Touch(r, d)] /\ UNCHANGED <<fds, fd>>
        /\ UNCHANGED <<backend, canceled, faults, driver>>
\* The coroutine gets the result unless it was canceled meanwhile; an opened file's
\* descriptor is then lost.
PoolComplete(o) ==
    LET r == ops[o]
    IN  /\ closure[o] = "ran" /\ closure' = [closure EXCEPT ![o] = None]
        /\ ops' = [ops EXCEPT ![o] = Complete(r, IF r.file = None THEN "error" ELSE "ok")]
        /\ fd' = IF r.kind = "Open" /\ r.file # None /\ ~r.done THEN [fd EXCEPT ![r.handle] = r.fd] ELSE fd
        /\ UNCHANGED <<backend, canceled, faults, fds, driver>>

----------------------------------------------------------------------------
(* IoUringNativeFileBackend::Run *)

Awake == m_stopping \/ m_pending # <<>> \/ m_inFlight > 0
Idle == m_stopping /\ m_pending = <<>> /\ m_inFlight = 0
RunWait ==
    /\ backend = "uring" /\ worker = "wait" /\ Awake
    /\ worker' = IF Idle THEN "returned" ELSE "prepare"
    /\ UNCHANGED <<backend, canceled, faults, ops, fd, fds, closure, m_pending, sq, kernel, cq, m_inFlight,
                   m_submittedSinceEnter, m_stopping>>
Counted == m_submittedSinceEnter' = m_submittedSinceEnter + 1 /\ m_inFlight' = m_inFlight + 1
PrepareSubmission ==
    /\ worker = "prepare"
    /\ \/ /\ m_pending # <<>> /\ Len(sq) < m_sqEntryCount
          /\ sq' = Append(sq, Head(m_pending)) /\ m_pending' = Tail(m_pending)
          /\ Counted /\ UNCHANGED worker
       \/ /\ m_pending = <<>> \/ Len(sq) >= m_sqEntryCount
          /\ worker' = "enter" /\ UNCHANGED <<sq, m_pending, m_inFlight, m_submittedSinceEnter>>
    /\ UNCHANGED <<backend, canceled, faults, ops, fd, fds, closure, kernel, cq, m_stopping>>
\* io_uring_enter() takes the oldest entries; when it takes fewer than asked, or fails,
\* the rest stays in the ring.
SubmitQueuedRequests ==
    /\ worker = "enter"
    /\ \/ \E n \in 0..m_submittedSinceEnter :
            /\ n < m_submittedSinceEnter => Fail
            /\ n = m_submittedSinceEnter => UNCHANGED faults
            /\ kernel' = kernel \cup ToSet(SubSeq(sq, 1, n)) /\ sq' = SubSeq(sq, n + 1, Len(sq))
            /\ UNCHANGED <<ops, m_pending>>
       \/ /\ m_submittedSinceEnter > 0 /\ Fail
          /\ ops' = [o \in Op |-> IF o \in ToSet(m_pending) THEN Resumed(ops[o], "fault") ELSE ops[o]]
          /\ m_pending' = <<>> /\ UNCHANGED <<sq, kernel>>
    /\ m_submittedSinceEnter' = 0
    /\ worker' = IF m_inFlight > 0 THEN "reap" ELSE "wait"
    /\ UNCHANGED <<backend, canceled, fd, fds, closure, cq, m_inFlight, m_stopping>>
\* The call blocks until there is a completion.
Reap ==
    /\ worker = "reap" /\ cq # <<>> /\ worker' = "drain"
    /\ UNCHANGED <<backend, canceled, faults, ops, fd, fds, closure, m_pending, sq, kernel, cq, m_inFlight,
                   m_submittedSinceEnter, m_stopping>>
Answer(o) == IF ops[o].file = None THEN "error" ELSE "ok"
DrainCompletions ==
    /\ worker = "drain"
    /\ \/ /\ cq # <<>> /\ cq' = Tail(cq) /\ m_inFlight' = m_inFlight - 1
          /\ End(Head(cq), Answer(Head(cq))) /\ UNCHANGED worker
       \/ cq = <<>> /\ worker' = "wait" /\ UNCHANGED <<ops, cq, m_inFlight>>
    /\ UNCHANGED <<backend, canceled, faults, fd, fds, closure, m_pending, sq, kernel, m_submittedSinceEnter, m_stopping>>
\* The kernel performs requests in any order; a port's overlapped ones complete in its queue.
Perform(r) ==
    /\ ops' = [ops EXCEPT ![r] = Touch(@, ops[r].fd)]
    /\ fds' = IF ops[r].kind = "Close" THEN [fds EXCEPT ![ops[r].fd] = None] ELSE fds
Kernel(o) ==
    /\ o \in kernel /\ kernel' = kernel \ {o} /\ cq' = Append(cq, o)
    /\ Perform(o)
    /\ UNCHANGED <<backend, canceled, faults, fd, closure, m_pending, sq, m_inFlight, m_submittedSinceEnter, m_stopping, worker>>

----------------------------------------------------------------------------
(* IocpNativeFileBackend::Run *)

RunIocp ==
    /\ backend = "iocp" /\ worker = "wait"
    /\ \/ /\ cq # <<>> /\ Head(cq) # None /\ ops[Head(cq)].kind \in Overlapped
          /\ End(Head(cq), Answer(Head(cq))) /\ UNCHANGED <<fds, worker>>
       \/ /\ cq # <<>> /\ Head(cq) # None /\ ops[Head(cq)].kind \notin Overlapped
          /\ LET o == Head(cq)
                 r == Touch(ops[o], ops[o].fd)
             IN  /\ ops' = [ops EXCEPT ![o] = Resumed(r, IF r.file = None THEN "error" ELSE "ok")]
                 /\ fds' = IF r.kind = "Close" THEN [fds EXCEPT ![r.fd] = None] ELSE fds
          /\ UNCHANGED worker
       \/ /\ cq # <<>> /\ Head(cq) = None /\ worker' = "returned" /\ UNCHANGED <<ops, fds>>
    /\ cq' = Tail(cq)
    /\ UNCHANGED <<backend, canceled, faults, fd, closure, m_pending, sq, kernel, m_inFlight, m_submittedSinceEnter, m_stopping>>

Cancel == /\ ~canceled /\ canceled' = TRUE
          /\ UNCHANGED <<backend, faults, ops, fd, fds, closure, driver>>
\* ~NativeFileBackend: the last reference to the driver goes away.
Stop == /\ ~m_stopping /\ Native /\ m_stopping' = TRUE
        /\ \A o \in Op : ops[o].at \in {"new", "ended"}
        /\ cq' = IF backend = "iocp" THEN Append(cq, None) ELSE cq
        /\ UNCHANGED <<backend, canceled, faults, ops, fd, fds, closure, m_pending, sq, kernel, m_inFlight,
                       m_submittedSinceEnter, worker>>

Next ==
    \/ \E o \in Op, h \in Handle :
         \/ OpenFileAsync(o, h) \/ LocalAsyncFileRead(o, h) \/ LocalAsyncFileWrite(o, h)
         \/ LocalAsyncFileReadAt(o, h) \/ LocalAsyncFileWriteAt(o, h)
         \/ LocalAsyncFileFlush(o, h) \/ LocalAsyncFileClose(o, h)
    \/ \E o \in Op : AwaitNative(o) \/ AwaitDispatch(o) \/ CancelCallback(o)
                     \/ PoolTake(o) \/ PoolRun(o) \/ PoolComplete(o) \/ Kernel(o)
    \/ RunWait \/ PrepareSubmission \/ SubmitQueuedRequests \/ Reap \/ DrainCompletions \/ RunIocp
    \/ Cancel \/ Stop
Spec == Init /\ [][Next]_vars

----------------------------------------------------------------------------
(* Properties *)

\* A descriptor in a handle is open and is that handle's file; an operation that succeeded
\* worked on the file its handle was opened for, though the kernel reuses descriptors at
\* once; and without a cancellation or a fault every open descriptor can still be closed.
OwnDescriptors ==
    /\ \A h \in Handle : fd[h] # 0 => fds[fd[h]] = h
    /\ \A o \in Op : ops[o].outcome = "ok" => ops[o].file = ops[o].handle
    /\ ~canceled /\ faults = 0 =>
         \A d \in Descriptor : fds[d] # None =>
           \/ fd[fds[d]] = d
           \/ \E o \in Op : ops[o].fd = d /\ ops[o].kind \in {"Open", "Close"} /\ ops[o].at \in Waiting

\* Nothing is going on in the backends any more.
Asleep == /\ kernel = {} /\ \A o \in Op : ops[o].at \notin {"submit", "dispatch"} /\ closure[o] = None
          /\ CASE backend = "uring" -> worker \in {"wait", "returned"} /\ ~(worker = "wait" /\ Awake)
               [] backend = "iocp" -> cq = <<>>
               [] OTHER -> TRUE
\* A coroutine is resumed once for the operation it awaits: never twice, whatever races with
\* a cancellation (a failed submission to a completion port apart), and not never: when the
\* driver has nothing left to do every operation has ended, and without a fault the worker
\* never waits in the kernel for a completion that cannot come.
ResumedOnce ==
    /\ \A o \in Op : ops[o].resumed <= 1 \/ (backend = "iocp" /\ faults > 0)
    /\ Asleep => \A o \in Op : ops[o].at \in {"new", "ended"} /\ (ops[o].at = "ended" => ops[o].resumed > 0)
    /\ worker = "reap" /\ cq = <<>> /\ kernel = {} => faults > 0
=============================================================================
