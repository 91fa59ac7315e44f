# TLA+ verification of NGIN.Base

NGIN.Base is a C++23 foundation library.  It has no main loop of its own: its
core logic is the set of mechanisms that programs build on.  Those are locks and
schedulers, coroutine tasks and their cancellation, lock-free readers over
reclaimed memory, drivers that turn operating-system events into resumptions,
and, below them, parsers and writers, file-system routines, containers, memory
and arithmetic.  This directory models them in TLA+, checks them with TLC on
small instances, and proves the invariants of the concurrent core with TLAPS for
instances of every size.

Paths below are relative to the repository.  The lines behind every modelled
definition are in `PROJECT.json` under `map`; a helper without lines of its own is mapped with the
operation that uses it.

## Inventory

| Part | State | Operations | What is hard | What makes it correct |
| --- | --- | --- | --- | --- |
| `Sync::TicketLock` | two 32-bit counters | Lock, TryLock, Unlock | TryLock is three atomic accesses; counters wrap | exclusion, first come first served, no starvation |
| `Sync::AtomicCondition` | 32-bit generation, futex queue | Load, Wait, WaitFor, NotifyOne, NotifyAll | a notification between test and wait | no lost wake-up in its users |
| `Execution::ThreadPoolScheduler` | worker queues, injection queue, timer heap, stop flag | Execute, ExecuteAt, RunOne, CancelAll, destructor | lost wake-ups, stealing, timers, shutdown | each item handled once, nothing early, clean shutdown |
| `Async::Task`, `Operation`, `TaskContext` | promise: outcome, finished, continuation, detached | Spawn, co_await, Detach, SyncWait, YieldNow, Delay | completion on one thread against release, await and cancel on others | one activation, failures propagate, waits return |
| `Async::WhenAll`, `WhenAny`, `Completion` | shared counters, winner | co_await | election, awaiting what is just finishing | one winner, all joined, exact results |
| `Async` cancellation | registration list per source | Register, Reset, move, Cancel, Link, CancelAfter | callbacks fired outside the lock | fires once, nothing overlooked |
| `Net::NetworkDriver` | waiter list, epoll watches | WaitUntilReadable/Writable, PollOnce, Run, Stop | waiters owned by coroutine frames, descriptor reuse | resumed once, interest matches waiters, waits end |
| Serialization: JSON and XML | cursor and counters; frame stacks; node tables | parse, event parse, incremental parse, write, stream write, build | two parsers that must agree; call orders nobody tried; limits | what one part accepts or writes the others read as the same document |
| `Containers::ConcurrentHashMap` and reclaimers | bucket chains, retire lists, epochs, hazard pointers | Insert, Remove, Get, Clear, Reserve, Quiesce | readers without locks | no reader sees freed memory, reads are linearizable |
| `IO`: file systems, paths, async files, processes | files, handles, mounts, rings, child processes | copy, move, remove, replace, enumerate; submit; start, wait | one call of dozens failing, crashes, cancellation, descriptor reuse | nothing lost, nothing touched outside, no descriptor leaked, resumed once |
| Memory, holders, containers, text | storage of the caller's objects | construct, copy, move, swap, grow, destroy | throwing constructors, failing allocation, aliasing arguments | every object constructed and destroyed once, contents as specified |
| SIMD, checksums, `Math::BigInt` | vectors, running sums, digits | lane operations, updates, arithmetic | boundaries between algorithms and widths | same result as a reference definition |
| fiber and cooperative schedulers, generators, sockets, TLS, crypto, units, time, Unicode, logging | | | | not modelled, see below |

A task's handle is executed by a scheduler through an `ExecutorRef`; the
scheduler's workers sleep on `AtomicCondition`; an awaiter registers with a
`CancellationToken` and, for sockets and files, with the `NetworkDriver` or the
`FileSystemDriver`, whose pollers, workers or cancellation callback hand the
coroutine back to its executor.  The hazards of each part are in
`PROJECT.json`, each at the line where it bites.

## Modules

Each module names the code behind every action in its comments.  One action is
one critical section, one atomic access or one blocking system call of the
code, together with accesses around it that no other thread can observe; in
sequential components it is one call.  Operators introduced by "Mutant" are
plausible mistakes.  They are not part of the specifications and exist to show
that the properties notice them.

### Concurrent core

* **TicketLock, FifoLock.**  `nextTicket` and `nowServing` (the two `UInt32`,
  modulo `Width`) and per thread the local ticket.  `LockDraw` is the
  `fetch_add`, `LockEnter` leaving the spin loop; `TryLoad`, `TryCompare`,
  `TryExchange` and `TryFail` are `TryLock()`; `Unlock` the release.  History
  variables carry the numbers without the wrap; the specification uses them only
  for the environment assumption `Unlapped`: fewer than `Width` tickets (2^32 in
  the code) are drawn while one `TryLock()` is between its accesses.  `FifoLock`
  is the abstract promise, a line of threads whose first one holds the lock;
  `ImplementsFifo` is the refinement.
* **ThreadPoolScheduler.**  The live part of every worker queue and of the
  injection queue, the timed items, the clock, `m_stop`, and per thread a program
  counter and its locals.  Of the generation counters only one thing matters:
  whether the generation a thread observed is still the present one (`current`).
  `Submit`, `SubmitAt`, `RunOne`, `CancelAll`+`ClearLocal`+`ClearTimers`,
  `Destroy`+`Join` are the clients' calls; `Worker...` is `WorkerLoop()` with
  `TryDequeueAny()` opened up into pop, injection and one steal attempt per victim;
  `Timer...` is `TimerLoop()`; `NotifyWork`, `WakeOne`, `WakeAll`, `NotifyTimer`,
  `WakeTimer` and `Sleep` are `AtomicCondition` on futexes, with the `fetch_add`
  and the `FUTEX_WAKE` as two steps.  A running item may submit further items.
* **Cancellation.**  Per source the `canceled` flag, the registration list and the
  progress of its one effective `Cancel()`; per registration object its fields.
  `Cancel`, `Swap`, `Fire...` are `CancellationState::Cancel()` and `Fire()` step
  by step, with the nested `Cancel()` of a linked source; `Register`,
  `TryRegister`, `Refused...` are `CancellationToken::Register()`; `Reset`,
  `Unregister`, `Clear` the end of a registration with its swap removal; `Move...`
  is `MoveFrom()`.
* **AsyncTask.**  The promise of every coroutine frame field by field, where its
  coroutine is, what waits in the executor, and per thread what it does.  `Spawn`,
  `Wait...`, `TakeResult`, `Detach...` are the client's side; `Execute`, `Lambda`,
  `Resume`, `Yield`, `Await`, `Suspend...`, `Return`, `Final`, `End` the executor
  threads running coroutine bodies, awaiters and the final awaiter; `Mark`,
  `Notify`, `Continue`, `ResumeParent`, `Propagate` are `MarkFinishedAndResume()`
  and `PropagateChildCompletion()`, run by whoever completes a promise; `Cancel`,
  `Fire...` the cancelling thread.  A thread that reaches for a destroyed frame
  sets `stale`: that is undefined behaviour in the code, and the model says nothing
  of what follows.  The liveness properties promise their outcome *or* `stale`.
* **Combinators.**  `WhenAll()`, `WhenAny()` and `co_await` of a running
  `Operation`, on an executor with as many threads as coroutines.
* **NetworkDriver.**  The epoll backend: what each `SocketHandle` owns, the
  kernel's readiness and epoll interest per descriptor, `m_epollWatches`,
  `m_waiters`, the fields of each waiter, and per thread what it does.
  `AwaitReady`, `RegisterWaiter`, `RegisterToken` are the awaiter; `Poll...` and
  `EpollWait` the poll cycle; `Claim`, `UnregisterWaiter`, `Resume` are
  `CompleteWaiter()` and the cancellation callback, for whichever thread runs them;
  `Close`, `Open`, `Readiness` the program and the network.  `epoll_ctl` is modelled
  by when it fails: ADD on a descriptor in the set, MOD on one that is not.
  Reaching for a waiter whose frame was destroyed sets `stale`, as above.
* **ConcurrentHashMap.**  One shard with its lock, tables and chains on an explicit
  heap whose addresses are reused at once, the three reclamation policies (manual
  quiescence, local epochs, hazard pointers), growth, failing allocations and
  destruction.  When the heap has no free address for what is to be built, only
  `Throw` is left.  The atomics are taken as sequentially consistent.
* **SharedPointers.**  `Shared` and `Ticket` over one control block per object,
  with every decrement and the destruction it leads to as steps of their own.

### Serialization

`ParseCore` is what the parsers share: a cursor over tokens, a context with the
counters the limits are about, results that are a value or a diagnostic.  What a
scan of bytes can come to, failure included, is a token.  `Json` and `Xml` hold the
semantic parser, the event parser and the document writer of each format,
`IncrementalParser` the
feed-validate-emit protocol, `JsonStreamWriter` and `XmlStreamWriter` the writers
called piece by piece, `JsonBuilder` and `XmlBuilder` the tables of nodes.

### Input and output

`PosixKernel` is external: names, inodes, descriptors, what each system call does,
which errors the library tells apart and what a crash leaves on disk.
`LocalFileSystem` has the routines over it, `VirtualFileSystem` mounts and the
whole-file helpers, `FileSystem` the program that calls them with one call failing,
a crash or a cancellation.  `Path` has the lexical operations on sequences of
characters.  `AsyncFile` is `AsyncFileHandle` over the io_uring, completion-port and
thread-pool backends.  `Process` is a child process with its pipes, `Wait()` with
timeout, grace period, cancellation and output limit, and the quoting of Windows
command lines.

### Foundation

`Lifetimes` (Expected, Optional, Any, Callable, WorkItem, StorageFor, Scoped),
`Allocators`, `BasicString`, `Vector`, `FlatHashMap`, `StringInterner`, `Simd`,
`Checksum` and `BigInt`.  Each runs the code's operations beside a reference: the
objects that should live, the sequence or map the calls describe, the scalar
backend, the definition over everything that was fed, the integer.

### Instances

`MCConcurrency` (TicketLock and Cancellation), `MCAsyncTask` (AsyncTask and
Combinators), `MCNetworkDriver`, `MCFoundation`, `MCFileSystem` (file systems, paths,
asynchronous files, processes) and `MCComponents` (MCFileSystem, serialization and the
timers of a thread pool) give the constants their values.  `MCConcurrency` extends both of its components and
`MCFoundation` extends ConcurrentHashMap, so that their assumptions are evaluated;
other components are instantiated.  Where a module holds several components, a
behaviour is a behaviour of one of them while the others stay as they began; a
property of a component is checked on its own behaviours.  ThreadPoolScheduler is
also run directly.

## Runs

Passing runs:

| Run | Instance | Shows |
| --- | --- | --- |
| `concurrency` | 3 threads, counters of 4 values, 6 tickets; parent and linked child source, 3 registration objects, 2 subscriptions, one move | `MutualExclusion`; `ImplementsFifo`; `NoStarvation`; `AtMostOnce` (a subscription fires once); `NothingOverlooked` (none in force is missed); `CancelReaches`; `CancelTerminates` |
| `thread_pool` | 2 workers, timer thread, 1 client, 2 items that may submit each other, no time points ahead and no `CancelAll()` | `ExactlyOnce` (an accepted item is in exactly one place until run or dropped); `NoSleepOnWork`; `CleanShutdown`; `EventuallyHandled`; `ShutdownTerminates` |
| `async_task` | a root, a child, 2 executor threads, one yield each, cancellation; a combinator of 2 arguments | `OneActivation`; `SuccessIsGenuine`; `SyncWaitReturns`; `CombinatorsExact` |
| `network_driver` | 2 waiters with a poller, 2 waiters with a canceller, 1 waiter with 2 pollers and a canceller; one socket, one reopening | `ResumedOnce`; `InterestExact`; `WaitEnds`; `CancelReaches` |
| `components` | JSON inputs of up to 9 tokens and XML inputs of up to 7 from alphabets chosen per setup, tight and wide limits, every duplicate and trivia policy; calls of the stream writers up to 7 JSON or 5 XML tokens, and whatever closes them; builders of up to 4 nodes | `Transactional` (nothing is emitted that was not validated); `ParsersAgree`; `WrittenBack`; `RoundTrip`; `BuiltTree` |
| | three trees on two devices, 3 operations, 2 handles; paths of up to 5 characters; 3 requests on 2 async handles; processes up to time 2 | `TransferSound`; `ChangesConfined`; `AtomicReplacement`; `PathKeepsPlace`; `DescriptorsSound`; `ResumedOnce`; `ProcessSound` |
| | 1 worker and 2 timed items, with a clock 0..2 or with one `CancelAll()` | `TimersExact`: nothing leaves the heap early, and the timer thread never sleeps past the earliest entry |
| `foundation` | two writers and a reader on one shard, 3 operations, each policy; two threads on shared pointers; each holder, allocator and container with a few operations | `NoUseAfterFree`; `ReadsLinearizable`; `MapConsistent`; `LifetimesExact`; `ContainersExact`; `SameResults`; `NumbersExact` |

Runs in which the code disagrees with its documentation:

| Run | Statement | What happens |
| --- | --- | --- |
| `thread_pool_cancel_all` | `CancelAllDiscards` ("Discards queued and timed work...") | the timer thread holds due items in a local vector; `CancelAll()` returns, then they are queued and run |
| `async_task_detach` | `DetachedFreed` ("destroys its own frame after completion") | `Detach()` and `FinalAwaiter` each read the other's flag before the other one sets it; the frame is leaked |
| `network_driver_reuse` | `WaitEnds` ("waits until a socket can be read or cancellation occurs") | the counts of a descriptor closed under a waiter stay; the reused descriptor is modified instead of added, `ENOENT` is ignored, the waiter never wakes |
| `when_all_hangs` | `WhenAllCompletes` ("completes when all owned child tasks complete") | `await_suspend()` tests `m_finished`, the Operation finishes and finds no continuation, `await_suspend()` then stores one nobody reads |
| `file_system_move` | `MoveLosesNothing` ("A copy failure leaves the source untouched") | `readdir()` fails, which passes for the end of the directory; the copy reports success and the source is removed |
| `vector_guarantee` | `BasicGuarantee` ("basic guarantee") | `PushAt()` has destroyed the element at the index when the constructor of the new one throws; it stays counted, the one moved up behind the end is not |

### Disagreements inside passing runs

Some of what the code does against a comment, a document or an obvious expectation is
part of a passing property: the property holds the rule, names the exceptions, and says
that they happen exactly there and how.  A fix of the code, or a further exception, breaks
it.  Those with a text that says otherwise are also listed as findings.

| Property | Rule, and the exception it pins |
| --- | --- |
| `CombinatorsExact` | `WhenAny()` succeeds with the index of the first to end, also when that one failed (`WhenAny.hpp:105`).  `docs/Async.md:204` and the test `When.cpp:258` agree; the comment at `WhenAny.hpp:118` does not. |
| `ParsersAgree` | both parsers accept the same, except arrays with more than `maxMembers` elements, which only the semantic parser counts (`JsonParser.cpp:558`) |
| `WrittenBack` | what is written reads as the same document, except that a Double without a fraction comes back as an Int64 (`JsonWriter.cpp:144`) and a carriage return as a line feed (`XmlWriter.cpp:49`) |
| `RoundTrip` | `Finish()` accepts exactly complete documents, except after a refused call that had already counted or written a part of its value (`JsonStreamWriter.cpp:166`, `XmlStreamWriter.cpp:250`), forbidden characters and the target `Xml` in comments and instructions, and a declaration behind one (`:204`) |
| `TransferSound` | success means that everything arrived, except after an error of `readdir()` (`LocalFileSystem.posix.cpp:1015`, `:1347`); a failed copy cleans up, except after `opendir()` or `closedir()` (`:1344`, `:1366`) or, across mounts, the permissions (`VirtualFileSystem.cpp:354`) |
| `ChangesConfined` | read-only mounts do not change, except by opening for reading with `CreateAlways` or `OpenAlways` (`VirtualFileSystem.cpp:954`); removals do what they report, except `RemoveDirectory(ignoreMissing)` of something else than a directory (`LocalFileSystem.posix.cpp:1140`) |
| `LifetimesExact` | every object is destroyed once, except after an assignment of an `Optional` that threw half-way (`Optional.hpp:151`), and every block is freed once, except by copying an `Any` whose payload cannot be copied (`Any.hpp:191`) |
| `ContainersExact` | a vector is intact after any failure, except the insertions, assignments and constructors that `ElementsExact` lists, and except after a push of one of its own elements that grows it; a flat map keeps its entries, except those a failed rehash or copy has not reached, and a failing key leaves an occupied bucket without one (`FlatHashMap.hpp:742`) |
| `SameResults` | the backends agree with the scalar loops, except for `Min`, `Max` and `Abs` on NaNs and zeros, for masked accesses that touch whole vectors, and for conversions whose common type is unsigned (`Vec.hpp:45`) |
| `NumbersExact` | big integers compute what integers do, except that the remainder of a negative dividend below the divisor has the wrong sign (`BigInt.hpp:238`) and that zeros with a minus sign arise from `x - x` and `x * 0` |

### Bounds

A property of the concurrent core is about a conflict of two or three threads over
one or two objects, and each instance has those: two workers so that one steals from
a busy one, three threads so that two wait while a third tries, two registrations so
that swap removal moves one, two waiters so that they share one epoll entry, two
arguments so that the order of the list differs from the order of completion.
`Width = 4` lets the counters wrap under three threads.  Items, tickets, uses, moves,
opens and yields are capped in guards by the constant of that name; each cap leaves
room for the conflict to happen and, where something is repeated, for it to be
repeated once.  `MaxUses = 1` keeps a registration object from being registered
again (see the hazards).  `network_driver` has `ReopenBusy = FALSE`: a descriptor that was
closed under a waiter is not handed out again; with `TRUE` it is the run
`network_driver_reuse`.

The timers are checked with two deadlines that differ and, separately, with `CancelAll()`:
`PoolTimersExact` proves the property for the two together.
`MaxRequests = 3` has an open, a use and a close, or two of one kind, in flight.  The JSON
and XML alphabets are split over setups so that each limit is reached by a document that
is otherwise accepted.

`thread_pool` has two workers, for stealing, but neither time points ahead nor
`CancelAll()`: `UntimedNext` has the actions of `Next` that these bounds leave enabled, and
reaches the same states.  The other actions are those of the two pools in `components`,
with one worker, where the safety of the timers is checked but not liveness.

In the sequential components the parameters at which the code changes its method are
scaled down so that small inputs reach both sides of each: inline strings of 2
characters and capacities up to 7, tables of 8 buckets with colliding and wrapping
hashes, digits of 2 bits, Karatsuba from 4 digits, bytes of 2 bits, 2 lanes of 3 bits,
writes of 1 unit.  A behaviour has at most 3 operations on a vector, a flat map or a
holder, 2 on a string or on big integers, 4 on an interner, 2 pieces of a message and, from
operands chosen for it, 1 on SIMD vectors: one operation to bring about the shape, one to
disturb it and, where it matters (destroying after a failed assignment), a third.  The strings searched for and inserted are empty, inside, across the boundary
and longer than the inline buffer.

`CHECK_DEADLOCK FALSE` in every configuration: a program may stop calling a library.

### Fairness

Weak fairness of each thread that is inside a call or a loop of the library: the
operating system schedules it, spin and futex waits included, and user code (work
items, coroutine bodies, callbacks) returns.  Clients are never obliged to call,
cancel, close or destroy.  A poller is fair as long as the driver is not stopped,
which is what `Run()` does; `WaitEnds` says nothing when nobody polls, as
`docs/Network.md` warns.  In a module that holds several components fairness is
that of the component whose behaviour it is.

## Proofs

| Module | Theorem | Establishes, for every value of the constants |
| --- | --- | --- |
| `TicketLockProofs` | `TypeCorrect`, `Exclusive` | types; `MutualExclusion` |
| | `Fifo` | `ImplementsFifo`: the wrapped counters implement `FifoLock` |
| `ThreadPoolProofs` | `PoolTypeCorrect` | types |
| | `PoolExactlyOnce` | `ExactlyOnce` |
| | `PoolNoSleepOnWork` | `NoSleepOnWork` |
| | `PoolCleanShutdown` | `CleanShutdown` |
| | `PoolTimersExact` | `TimersExact` |
| `CancellationProofs` | `CallbackAtMostOnce` | `AtMostOnce`, for `MaxUses = 1` |
| | `CancelOverlooksNothing` | `NothingOverlooked`, for `MaxUses = 1` |
| | `FiresOnlyWhenCanceled` | a callback runs only after its source was cancelled |
| | `ListStaysExact` | the list and `m_index` agree through swap removal |
| `AsyncTaskProofs` | `ExclusiveRights` | the right to resume a coroutine lies in one place |
| | `SingleActivation` | `OneActivation` |
| | `GenuineSuccess` | `SuccessIsGenuine` |
| | `PublishedOutcome` | `FinishedHasOutcome` |
| `NetworkDriverProofs` | `Ownership` | whoever won the compare-exchange on `done` is the only owner |
| | `AtMostOneResumption` | `ResumedOnce`, for both values of `ReopenBusy` |
| | `ExactInterest` | `InterestExact`, for `ReopenBusy = FALSE` |
| `XmlBuilderProofs` | `BuilderBuildsTrees` | `BuiltTree` |
| `ConcurrentHashMapProofs` | `ReclamationSafe` | `NoUseAfterFree`, under each policy |
| | `OwnedOnce` | `OneOwner`, a part of `MapConsistent` |

None of these properties is inductive.  The invariants that carry them:

**Ticket lock.**  The code compares wrapped numbers.  `IInv` adds that each counter
is the wrap of its history number (`Wrapped`), that the tickets of the threads in
line are distinct and lie between served and issued (`Numbered`), that the holder's
ticket is the one served (`Owner`) and that a `TryLock()` in progress has not been
lapped (`Fresh`).  `DivMod`, `DivModUnique`, `NearEqual` and `WrapSuccessor` turn
"equal modulo `Width` and less than `Width` apart" into "equal"; `LineShort` bounds the
line by the number of threads.  The refinement maps the tickets between served and
issued to the line, in their order: a draw appends, a release drops the head, every
other step leaves the line alone.

**Thread pool.**  The invariant has layers, each proved from the ones before it.
`Shape` says which program points go with which locals.  `Ending` says that the
destructor runs alone and that nothing is left when it has returned.  `Placement`
counts the places of each item (queues, heap, the timer thread's vector, hands):
exactly one while it is pending and none before and after; it needs that no queue
holds an item twice (`Tidy`) and that the timer thread leaves its inner loop with an
empty vector (`ReadyDrained`).  `Searched` is the argument against lost wake-ups: a
worker whose captured generation is still current, while nobody is about to advance
it, has seen empty every queue its search has passed (`Seen`), so it goes to sleep only
when there is nothing to find.  `Timed` does the same for the timer thread: what it
computed its wait from is still the earliest entry, or a notification is on its way.

**Cancellation.**  The right to call a callback lies in one place (`FireRights`): with
the `Register()` that is not yet accepted, with the one object that is still listed, or
with the call of `Fire()` that loaded it; the right to resume a handle is `m_armed` of one
object or the `Fire()` that exchanged it (`ResumeRights`).  This needs that an object is in
one list, or in the vector of one `Cancel()` (`Apart`), that a subscription is in one object
or in the two of a move (`OneHolder`), and that a move leaves one of these two listed
(`Replaced`).  `MaxUses = 1` is a hypothesis of the theorems: an object that is registered
again while a `Cancel()` still holds it is one of the hazards below, and the code does not
promise these statements of it.

**Tasks.**  A right to resume a coroutine is handed on and never copied: it lies in
the executor, with the thread that runs the coroutine, or with the one child the
coroutine awaits, until the thread that won the compare-exchange on the child's
`m_finished` has dealt with the continuation (`Exclusive`, `OneCarrier`).  A frame that
was not started is known to nobody (`Unstarted`), an outcome is stored before
`m_finished` shows it (`Published`), and a root whose child failed has an outcome
before the child's right is gone (`Genuine`).  As everywhere in this model, a behaviour
ends where `stale` is set.

**Network driver.**  `Inv` is the ownership argument: the winner of the
compare-exchange on `done` is the only owner (`Owned`, `OneOwner`), the waiter has left
the list before it is resumed (`Delisted`), a resumed waiter stays done and out of
the list (`Final`), and nobody knows of a waiter that has not registered (`Unknown`), so
that registration cannot put a finished one back.  `Watched` adds for `InterestExact`
that sockets own different descriptors (`Separate`), that a waiter is in the list from
its registration until the winner of the compare-exchange takes it out (`Listed`), that
the counts of an open socket's descriptor are the cardinalities of its waiters per
direction and epoll watches exactly those directions (`Exact`), and that a descriptor
nobody owns is not watched and, unless it was closed under a waiter, has no counts
(`Free`).  That exception is what `ReopenBusy = TRUE` lets back in, and
`network_driver_reuse` shows that the code then breaks its promise.

**XML builder.**  `BuiltTree` says nothing of the sizes of the tables; `Shape` adds that
the tables of nodes, elements and calls go in step.

**Concurrent map.**  `Inv` has three layers.  The heap is a forest: a chain hangs in one
bucket of one table (`OneParent`), and what hangs nowhere is a root that is owned once, by
the shard, by a retired record, by the list a `Poll()` has taken or by the writer that just
built or unlinked it (`RootsApart`, `RootsLive`, `Covered`).  A read holds a table and then a
chain of that forest; the chain hangs in the table it holds, or no longer hangs at all
(`Held`, `HeldWithin`), so whoever holds a chain of a table also holds the table that would
take the chain with it.  The third layer says why nothing held is reclaimed.  Local epochs: a
record's epoch is never below that of a read that holds its object, because reads register
with an epoch that is not ahead (`EpochBound`, `EpochKept`), and the minimum that `Poll()`
computed is not above it (`MinimumKept`).  Hazard pointers: after the second load the slots
name what the read holds (`HazardKept`), and from then on nobody who scans the slots misses it.
Quiescence and destruction: they take the list when no read is registered, and a read that
starts later finds nothing that is on it (`Quiet`, `Drained`).  `NobodyHolds` draws the
conclusion for each policy, `ReleasedInv` that a root nobody holds can go.  `ReplaceTableBuilds`
states once what building a table does; it needs that a table has a bucket, which is
`PowerWithinTwice` (the range in which `std::bit_ceil` looks has a power of two), proved from the
least-number principle.

Each invariant was checked with TLC on a small instance before it was proved.  The
assumptions are the named `ASSUME`s of the modules: finiteness of the set of threads and
`Cardinality(Thread) < Width` for the lock, at least one worker, one bucket and one address,
hashes and bounds that are natural numbers, and that threads of different kinds, frames of
different kinds and `None` or `Nobody` are distinct.  TLC
evaluates them in the runs.

### Only model-checked

* Liveness (`NoStarvation`, `EventuallyHandled`, `ShutdownTerminates`,
  `SyncWaitReturns`, `WaitEnds`, `CancelReaches`, `CancelTerminates`): fairness is beyond
  the prover.
* The serialization properties other than `BuiltTree`, `SameResults`, `NumbersExact`,
  `ContainersExact`, `LifetimesExact`, `PathKeepsPlace` and the file-system properties:
  they are about what recursive definitions compute, which needs induction over
  data, or their modules use recursive operators, which the prover does not take.
* `ReadsLinearizable` and the size part of `MapConsistent` (`SizeExact`): they are about what
  copying a chain or rehashing a table makes of a sequence of nodes of any length.
* `CombinatorsExact` and the asynchronous `ResumedOnce`: not proved.

## Hazards without a property

`PROJECT.json` lists the hazards that matter most; reading the code for the models
turned up more.  Those that no property covers:

* `Cancellation.hpp:498`: `Fire()` calls a callback it loaded after `Reset()` has
  returned.  `:299`: an object reset and registered again while the first source's
  `Cancel()` still holds it can fire early.  `:253`: `CancelAt()` and `CancelAfter()` are not
  modelled.
* `Task.hpp:108`, `TaskContext.hpp:83`, `Task.hpp:1543`, `NetworkDriver.cpp:422` and `:948`,
  `AsyncDispatch.hpp:66` and `:83`: accesses to a frame, waiter or buffer that another thread
  may have released.  The models of tasks, combinators and the network driver record
  such an access in `stale`, after which they say nothing.
* `Cancellation.hpp:350`: linked sources that wait for each other; one link is modelled.
* `NetworkDriver.cpp:634`: `Stop()` leaves registered waiters suspended.  `:722`: a failed
  `EPOLL_CTL_ADD` leaves a waiter nobody will complete.
  `SocketPlatform.posix.cpp:235`: the descriptor is closed before the handle is reset.
* `AtomicCondition.linux.cpp:14`: 2^32 notifications between `Load()` and `Wait()` look
  like none.
* `JsonEventParser.hpp:291`: `Feed()` after an error replaces the diagnostic.
* `ConcurrentHashMapDetail.hpp:183`: overlapping readers postpone `Quiesce()` for ever.
  `:297`: on a weakly ordered machine the hazard protocol lacks a fence on the writer's
  side.
* `FileSystemDriver.win32.cpp:71`, `FileSystemDriver.linux.cpp:223` and `:80`,
  `LocalFileSystem.linux.cpp:398`, `AsyncFileHandle.hpp:64`: failing submissions, a driver
  released on its own worker, descriptors lost to cancellation or to the destructor.
* `LocalFileSystem.posix.cpp:1204`, `:1015`, `Path.cpp:388`, `Process.cpp:1351`, `:1240`, `:1102`:
  copying a file onto itself (source and destination of the modelled transfers share no
  file); cycles of links in `Enumerate()`; lexical corner cases; a signal to a reaped
  process; a child that never pauses; descriptors inherited by a concurrent `fork()`.
* `WorkItem.hpp:141`: ABA in the job pool's free list.  `SmartPointers.hpp:456`: the control
  block that a throwing constructor leaves behind.  `FlatHashMap.hpp:721`: the argument of
  `Insert()` may lie in the table that growth replaces.  The moves of `Lifetimes`' payloads
  do not throw.
* `Vec.hpp:302`, `:371`: the polynomial approximations.  `Checksum.hpp:835`: the order of
  digits in `Verhoeff()`, for which `ChecksumsExact` claims wrong digits and no exchanges.

## Not modelled

Memory orderings weaker than sequential consistency; the kqueue, select and IOCP
backends of the network driver; the synchronous Windows file system; kernel resource
failures in epoll; exception capture and contexts without an executor; source locations
and memory limits of the parsers; time stamps, ownership, views and locks of files;
floating-point arithmetic and rounding, `Fma` included.  Not modelled as a whole, with the reason in `PROJECT.json`:
streams, watches and standard directories; generators; fiber and cooperative
schedulers; sockets, resolver, filters and TLS; the thin synchronization wrappers;
units, time, meta, Unicode, formatting and logging; crypto.

## Plan

1. `CombinatorsExact`, by the hand-over argument of the tasks, and `ResumedOnce` of
   asynchronous files, by that of the network driver.
2. `SizeExact`: each key of a chain is there once and in its own bucket; what the copies of a
   chain do to that would be stated as lemmas on sequences.
3. Timed cancellation composed with the scheduler's timers.
