# TLA+ verification of the Fabric ecosystem packages

This directory holds TLA+ models of the packages, instances and tools of this
repository, the TLC runs that check them on small instances, and TLAPS proofs of
what matters most for every size. Paths below are relative to `src/`.

Contents: [1. The system](#1-the-system) ·
[2. The models](#2-the-models) · [3. The runs](#3-the-runs) ·
[4. Fairness](#4-fairness) · [5. The proofs](#5-the-proofs) ·
[6. Findings](#6-findings) · [7. Abstractions and limits](#7-abstractions-and-limits) ·
[8. Plan](#8-plan)

## 1. The system

The repository is a set of *packages* for the Fabric component framework (an
external dependency that is not in the repository). A package declares *resources*
(a contract: a set of async operations) and *adapters* (a realization with state,
operations and a `start`/`stop` lifecycle). *Compositions* wire packages together,
*instances* are the processes an operator runs, and `tools/catalog` builds and
validates the index of all packages.

No operation of a package awaits anything: an `async fn` of an adapter runs to
its end, or blocks its thread, on the first poll. Concurrency is that of threads:
those that call the operations, the one that runs `Instance::start` and
`Instance::stop`, and the listener thread of the TCP package.

| Part | State | Operations | Talks to | Hard behaviour | What makes it correct |
|---|---|---|---|---|---|
| TCP loopback transport `packages/networking/tcp/src/loopback` | two flags (`stop_requested`, `generation_live`), the address, a counter, a queue under a mutex with a Condvar, the listener thread | `start`, `stop`, `accept`, `connect`, inspector reads | kernel socket; threads that accept | accepts overtake each other; stop races with accepts and with the listener; the wake-up that stop sends itself | connections are returned once and in order; nobody sleeps on a queued connection; stop ends everything, and leaves nothing |
| TCP connection `packages/networking/tcp/src/connection.rs` | a stream under one mutex, shared by clones; the generation's `live` flag | `read_some`, `read_to_end`, `write_all`, `shutdown_*` | kernel, peer | the flag is checked before the mutex is waited for; one mutex for both directions; partial reads and writes | writes stay whole; no byte lost without an error; stale connections fail; a reset ends every wait |
| HTTP server `packages/networking/http` | the decoder's buffer; an exchange | `accept_exchange`, `respond`, drop | the TCP transport, through its resource | the request is cut into reads anyhow; limits; peers that vanish; stop mid-request | the verdict depends on the bytes only; buffering is bounded; a peer that ends ends the call |
| HTTP server instance `instances/web/http-server` | the process | the serving loop | the HTTP server | any error | serves until terminated |
| Counter `packages/observability/counter` | one `AtomicU64` | `current`, `increment` | callers | lost races; overflow | no increment is lost; overflow refused, and only then |
| FIFO queue `packages/messaging/queue` | a `VecDeque` under a mutex, a capacity | `send`, `try_receive`, `depth` | callers | several senders at the capacity | order, capacity |
| Observed queue `examples/observed-queue` | none of its own | `send_observed`, `observed_counts` | a queue and two counters | the send and its count are two operations | counts follow the queue |
| SQLite `packages/data/sqlite` | a connection under a mutex, two flags | `start`, `stop`, `execute`, `query` | rusqlite | the flags are read before the mutex is waited for, and change apart from the connection | a refusal fits the phase of the generation; no operation reaches a closed database |
| Key-value store `packages/data/key-value` | a map under a mutex | `get`, `set`, `delete` | callers | none beyond the mutex | last write wins |
| Process runtime `packages/execution/process-runtime` | two flags | `start`, `stop`, `execute` | a child process over three pipes | stdin is written before output is read; a child that exits early | the outcome of the child is reported |
| Ed25519 signer `packages/security/ed25519` | a key under a mutex | `start`, `stop`, `public_key`, `sign` | ed25519-dalek | stop between key and signature | a signature verifies under the key of its generation |
| Console logging `packages/observability/logging` | the locks of the two console streams | `emit` | stdout, stderr | two locks, two writes for a line, either of which may fail | one record per line, whole and in order |
| Local backend example `examples/local-backend` | none of its own | `write_read_log` | the database and the log | four operations, each refused or failing on its own, while others write the same row | what is returned is recent; every call returns |
| Catalog tool `tools/catalog` | the two files of the catalog | `write`, `check`, `validate`, seven queries | cargo metadata, the file system | two files that are each truncated and then written; other invocations; the workspace moves on | the reader accepts exactly canonical documents; a write repairs; a check finds out |
| Linux host detection, addresses, conversions | none | pure functions | `/etc/os-release` | none | table of cases |

`PROJECT.json` lists the same parts under `components`, each with its status, and
under `hazards` the places of the code that are hard to test, with the property
that would notice.

## 2. The models

| Module | Models | Composed with |
|---|---|---|
| `TcpLoopback` | one generation of the loopback transport: the owner (`start`, `stop`), the listener thread, callers of `accept()`, the kernel's backlog | refines `AcceptChannel` |
| `AcceptChannel` | abstract: what callers of `accept()` are promised | |
| `TcpLoopbackProofs` | the theorems about `TcpLoopback` | |
| `TcpConnection` | `connect()`, and clones of a connection in use by several threads, against a peer and a stop | |
| `TcpConnectionProofs` | the theorems about `TcpConnection` | |
| `HttpServer` | `accept_exchange()`, the request decoder, `respond()` and the drop of an exchange | |
| `HttpServerProofs` | the theorems about `HttpServer` | |
| `HttpServerInstance` | `main()` of the server process | extends `HttpServer` |
| `Counter` | the load / compare-and-exchange loop of `increment()`, and `current()` | refines `AtomicCounter` |
| `AtomicCounter` | abstract: an increment is one step | |
| `CounterProofs` | the theorems about `Counter` | |
| `FifoQueue` | `send()` and `try_receive()` of the in-memory queue | |
| `ObservedQueue` | `send_observed()` and `observed_counts()` on several threads, and consumers | extends `FifoQueue`; its counters are those of `AtomicCounter` |
| `ObservedQueueProofs` | the theorems about `ObservedQueue` and its queue | |
| `ProcessRuntime` | `start`, `stop` and `execute()` of the process runtime, the child and the pipes between them | |
| `ProcessRuntimeProofs` | the theorems about `ProcessRuntime` | |
| `SqliteDatabase` | `start`, `stop`, `execute()` and `query()` of the SQLite adapter, over several generations | |
| `ConsoleLog` | `emit()` of the console sink, down to the two writes of a line | |
| `LocalBackend` | `write_read_log()` on several threads, beside another component that logs | extends `SqliteDatabase` and `ConsoleLog` |
| `LocalBackendProofs` | the theorems about `LocalBackend` and its database | |
| `Catalog` | operators only: discovery, the two renderings, the strict reader, the queries, the command line | |
| `CatalogTool` | invocations of the tool beside each other, and the files they read and write | extends `Catalog` |
| `CatalogToolProofs` | the theorems about `CatalogTool` | |
| `MC*` | finite constants and symmetries for TLC | |

### State and actions against the code

**TcpLoopback.** The variables up to `queue_lock` are the fields of
`TcpListenerState` (loopback/state.rs) under their own names; `owner`, `listener`
and `acceptor` are the program counters of the threads; `backlog` and `arrivals` are the
kernel's. The granularity is that of memory: each SeqCst load or store of a flag
that another thread can tell apart is an action (`StopRequest`, `StopUnlive`, `ListenerCheck`,
`ListenerCount`, ...), and each critical section of the queue mutex is one
(`ListenerPush`, `AcceptScan`, `StopClear`). The one place where a thread *keeps* the
mutex over a step is between the check of `stop_requested` and `wait()`
(`AcceptScan` to `AcceptWait`): `queue_lock` exists for it. `notify_one` picks any
sleeper, `notify_all` wakes all, and a Condvar may wake spuriously. Connections
are numbered by arrival, so order is comparison. `delivered` and `late` are
history variables that no action reads.

**AcceptChannel.** A mode, the connections pending and those taken. An
offer is appended and an accept takes the head; after `closing` at most one more offer
gets in; closing discards what is pending. `TcpLoopback!ImplementsChannel` is the refinement, with
`ChannelMode` computed from `owner` and `late`.

**TcpConnection.** A call is `Call` (the check of `generation_live`), `Lock` (the
wait for the mutex) and one or more steps on the stream with the mutex
held: a byte written, bytes read, the end of a read, a failure. Writes enter `wire` tagged with
their user and call, so that interleaved writes would show.

**HttpServer.** A request is the position where its head ends, the position
where the parser first objects, and its header fields by kind. A read is two
actions: the ask (`HeadRead`, `BodyRead`, with the size the code computes) and
the return of any number of bytes between one and that size (`ReadReturns`), or
zero at the end of the stream, or `ReadFails`. `Verdict` is the reference definition: the answer as a
function of the request and the number of bytes the peer sent, written without
reads or buffers.

**Counter.** `Load`, `Exchange` (one compare-and-exchange; success and failure are
its disjuncts), `Overflow` (`checked_add` is `None`), `Return`. `MaxValue` is
`u64::MAX`.

**FifoQueue, ObservedQueue.** An operation of the queue is one critical section, and so one
action. An operation of a counter is one action too, because the loop of `Counter`
implements `AtomicCounter`. What several threads can see apart are the steps *between* these operations:
`Send` and `Count` of `send_observed()` (examples/observed-queue/src/app.rs:30 and
33/36), `ReadSuccesses` and `ReadFailures` of `observed_counts()` (44, 45). The counters
saturate, since `send_observed()` drops the `Overflow` it is told (`Incremented`). `accepted`,
`refused`, `received` and `finished` are history variables.

**ProcessRuntime.** The lifecycle stores its two flags in four actions, and `ensure_live()`
loads them in two (`EnsureLive`, `EnsureLiveFails`). Bytes are counted, not told apart. `Write` puts
one byte into the pipe, or waits for room; `WriteFails` is EPIPE, whose `?` drops the
child without waiting for it; `WriteReturns` is the end of the scope of `child_stdin`. `Collect` and
`Collected` are `wait_with_output()`, which reads both outputs as they come and does so only
after the write. The child is any program that ends once its pipes are served: it picks
an operation (`ChildPicks`) and is blocked until that is done.

**SqliteDatabase, ConsoleLog, LocalBackend.** Each store of a flag and of the connection is an
action of the owner (`MarkConnection`, `MarkStopped`, `MarkLive`; `StopLive`, `StopStopped`,
`StopTake`, `StopClose`), and each load of an operation an action of its caller (`ReadLive`,
`ReadStopped`); with the mutex held an operation is one action (`Create`, `Upsert`, `Select`, `Fails`,
or `NoConnection` when stop has taken it out). A file outlives its generation, a database in memory does not: both are initial
states. `emit()` is a lock, another lock, and two writes, each of which may fail, the first
part of the way through; the guards release both locks at every return. `write_read_log()` is the
chain `WriteReadLog`, `Created`, `Upserted`, `Selected`, `LogReturns`, in which the first error
ends the call (`DatabaseRefuses`). `order` (the values each database was given), `asked`, `lines`
and `broken` are history variables.

**Catalog.** The functions of the tool as operators, with the checks in the order of the code: `First`
is the early return. A path is a sequence of segments and `Rank` its place in byte order, because
`packages/net-io` sorts before `packages/net/` and segment order would have it the other way round. A document is what the
JSON says, with missing and unknown fields possible; `WellFormed` is what serde lets through,
`ValidationError` what `validation.rs` then says. `Members`, the filter of the metadata's packages, is a recursive function and not `SelectSeq`, whose
definition the prover does not unfold.

**CatalogTool.** A command starts (`Refuse`, `Discovers`, `Answers`) and, for `write` and `check`,
goes on file by file. `fs::write` is two actions, the truncation and the content
(`TruncateJson`, `FillJson`, ...), so that another process can read or write between them; `WriteFails` is also
the kill or crash of the process at any of these points, and the next invocation is the restart. `Develop` and `HandEdit` are the people in the
repository. `quiet` is the history variable that says whether anyone else has changed anything since a
command began.

## 3. The runs

| Run | Shows | Bounds, and why they are enough |
|---|---|---|
| `tcp_accept` | order, exact count, no stranded connection, quiescence after stop, one late admission at most, refinement of `AcceptChannel`; queued connections wake sleepers, sleepers are released, and stop returns unless its own connect failed and nobody else's comes | two callers: one asleep or woken and one that overtakes it (the proofs are for any number); three peers and backlog 2, so that a real connection can be ahead of the wake-up or behind it, and that stop's connect has to wait for room; the wake-up may fail |
| `tcp_stop_lost_wakeup` | *violation*: a call in between its check and `wait()` misses both notifications | one caller, no peer: the smallest instance that fails |
| `tcp_connection_shared` | writes whole, bytes accounted for, one late operation per user, a reset ends all operations in progress | two users make every pair of operations meet, and one wait for the mutex behind the other; two calls make the second meet what the first left; writes of two bytes through a window of one force a blocked write; one byte from the peer is enough for a read that waits, returns or is followed by the end |
| `http_exchange` | verdict independent of reads, bounded buffer, the peer's end ends the decode | limits 4 and 3 with reads of 3 and 2: requests exist below, at and above each limit, and reads that end before, at and after the head; up to two header fields for the rules on repeated lengths |
| `http_server_stays_up` | *violation*: one failed exchange ends the process; in TLC's trace a client connects and goes away without having sent a byte | one good and one bad request, of which clients may send any part |
| `counter_race` | no lost increment, overflow exact, refinement of `AtomicCounter`, calls return | three callers: a loser can lose twice; width 3 with amounts 0, 1, 2 reaches every way to overflow |
| `observed_queue_counts` | order and capacity, the counters against the queue, how recent a pair of counts is | three producers: two that hold an uncounted send while a third is refused; capacity 2 is passed by the third send; a width of 3 under six sends fills the counter; one reader, since readers change nothing |
| `process_execute` | complete outcomes, the phase in refusals, only full pipes block, so that input that fits cannot, an abandoned child ends | pipes of 2 with up to 3 bytes each way: below, at and above what a pipe holds, with any order of the child's operations |
| `process_pipes_block` | *violation*: the parent writes, the child writes, nobody reads | pipes of 1 and two bytes each way |
| `local_backend` | values returned are recent, refusals fit the generation, one record per line, calls return | two callers race on one row and for the two locks, with the other component as a third; two generations, so that calls meet a stop, a start after it, and a file that is kept; three events among calls, starts and records; one failure of a statement or a write. Records with each line break, one to each stream and one below the minimum level |
| `catalog_validate` | *violation*: `validate` takes a document of schema version 1 | one process, one command, the same repositories, no change beside them |
| `catalog_tool` | write repairs, check finds out, the reader accepts exactly canonical documents, what is generated is faithful, queries agree with the index | two processes with one command each and one change beside them: two writes, or a write and a reader, meet at every pair of steps, and initial repositories (mixed files, none, any document) stand for what earlier commands left. Four artifacts of three kinds with each kind of dependency; eight workspaces, five of them wrong in one way each; for the reader each document that is *one* edit away from a good one, in two schema versions |

Every property of a passing run has a mutant in `PROJECT.json`: a plausible bug in
one definition that makes TLC find that property violated.

The constants named "bound" in the modules (`MaxArrivals`, `Backlog`, `MaxCalls`,
`MaxSent`, `Window`, `Surplus`, `MaxSends`, `MaxInput`, `MaxOutput`, `MaxGeneration`, `MaxEvents`, `MaxFailures`, `MaxRuns`,
`MaxChanges`) limit an environment that the code does not limit.
The others are parameters of the code (`MaxHead`, `HeadChunk`, `MaxValue`, ...) or of a deployment.

`CHECK_DEADLOCK FALSE` stands only where calls and bytes are bounded, so that a behaviour can
run out of both with everyone idle or blocked on a silent peer, in the instance, whose process ends, in the process runs, where the one
call returns and the child exits, and in the tool and the local backend, which nobody calls for ever.

## 4. Fairness

Threads that can run do run: the listener thread, a stop that has begun, an `accept()`
in progress, an operation on a connection, a decoder, an increment. Steps that
take a mutex are *strongly* fair where the mutex can be taken over and over by
others: the code relies on the operating system not withholding a mutex
from one thread for ever. Nothing is asked of peers, of callers, of the owner
(who need not call stop), of failures or of spurious wake-ups. The connect that stop
makes to itself may fail: its result is ignored at loopback/mod.rs:159, and as no peer
is obliged to connect, stop may then wait for the listener for ever. `StopCompletes` says that this
is the one case in which it does not return (`StopUnhelped`): the connect was made, it failed, and the listener
finds no other connection. `IncrementReturns` rests on the width of the counter: each lost
race but those against increments of 0 means that the counter has grown.
A call of `execute()` and the child it runs are fair as wholes: each goes on while it can. The child's
writes are bounded, so that it ends unless a pipe blocks it, which is what the runtime is
for ("not suitable for indefinitely running processes", its README.md:87).
In `LocalBackend` each thread inside a call or an `emit()` is strongly fair, as it contends for the
console's locks; nothing is asked of callers or owners. The catalog tool has no liveness property: its commands are loops over data.

## 5. The proofs

`TcpLoopbackProofs` proves for any finite set of callers, any number of
arrivals and any backlog, wake-up failing or not:

* `TypeCorrect`, `InOrderDelivery`, `CountIsExact`, `WakeupStaysInside`,
  `NoneStranded`, `StopIsQuiescent`, `OneLateAdmission`: `Spec => []P` for each
  safety property of run `tcp_accept`;
* `ChannelImplemented`: `Spec => Channel!Spec`.

They follow from `Invariance`, `Spec => []IInv`, where
`IInv == TypeOK /\ PhaseInv /\ LockInv /\ OrderInv /\ AcceptedCountExact /\ WakeInv /\ LateInv /\ NoStrandedConnection`.
None of the properties is inductive alone. `PhaseInv` ties where the owner is to where
the listener can be (there is no listener before start; the join waits for its end; it holds a connection exactly
between taking it and queueing it). `LockInv` says that the mutex is held only by the call about
to wait. `OrderInv` extends the order of `delivered` and `queue` through `stream`
and `backlog`. `WakeInv` says that while the wake-up exists `stop_requested` is set, so the
listener that takes it has not checked yet. `LateInv` bounds `late` by what the listener may
still push. `NoStrandedConnection` is inductive together with these: a call that leaves the queue
empty-handed before sleeping has seen it empty, and each push is followed by a `notify_one`.
The cardinality of `Scanners` needs `AcceptorsAssumption` (finite) and the
facts of `FiniteSetTheorems`.

`StopIsNeverStuck` is what of `StopCompletes` can be said without fairness, for any callers and any backlog: while stop has not returned,
it, the listener or a caller about to sleep can take a step, so that stop never waits
in `connect()`, `join()` or `lock()` with everyone asleep, but for the one case `StopUnhelped`. It needs `HelpInv` (from the connect of stop to itself on, a
listener back in `accept(2)` finds a connection there, or that connect has failed) and `HolderInv` (who holds the mutex is about to release it). What each thread waits for (`StopMoves`, `ListenerMoves`)
is spelled out from the guards of its actions, as ENABLED is out of reach. That fairness then brings stop to its end is left to the run.

`CounterProofs` proves, for any width, any callers and amounts within the width: `TypeCorrect`,
`IncrementsAreKept`, `RefusalsAreRight` and `CounterIsAtomic` (the refinement), from the invariant
`TypeOK /\ NoIncrementLost /\ OverflowIsFinal /\ CurrentBehind`. `CurrentBehind`,
a value that a call has loaded never exceeds the counter, is what makes a
refusal on a stale value final.

`ObservedQueueProofs` proves, for any finite set of producers, any readers, capacity, width and number of sends:
`TypeCorrect`, `QueueIsFifo`, `SendsAreCounted` and `CountsRecent`. The invariant
adds to the properties `SendsInv` (there are no more sends to be counted than were
made) and `ReaderInv`: what a reader has read never exceeds the counters, and with the failures
that it has yet to read covers the sends that had finished when it began. Sends finish in the gap
between its two reads, which is why `CountsAreRecent` alone is not inductive.

`ProcessRuntimeProofs` proves, for any amount of input and output and any capacity:
`TypeCorrect`, `OutcomeIsComplete` and `RefusalsNamePhase`. `FlagsInv` ties the two flags to the
lifecycle, `CallInv` how far the call is, and what it was told, to when it began, `OutputInv` says that a byte
the child has written is captured or in a pipe, and `ProgressInv` that the pipes are empty and all
input is written when the wait begins. `OnlyFullPipesBlock` is the other half of finding 3: the call and the child can wait for each other
only while stdin is written, over a full stdin and a full output, and so not with input that a pipe holds. Its invariant `WaitingInv` says which
end of which pipe is open as the call and the child go on, and that stdin holds no more than was written.

`TcpConnectionProofs` proves, for any users, sizes of operations and window: `TypeCorrect`, `WritesAreWhole`,
`BytesAreAccounted` and `OneIsLate`. `LockInv` says that the user on the stream is the holder of the mutex,
`LateInv` that a late operation is the last its user was admitted to, and `WireInv` counts the bytes of a
call on the wire (`Written`) and puts those of a write in progress at its end: the next byte goes beside them,
which is why no other write gets in between. Cardinalities rest on `FiniteSetTheorems`.

`HttpServerProofs` proves, for any requests, limits and sizes of reads: `TypeCorrect`, `BuffersAreBounded` and
`VerdictsDoNotDependOnReads`. `ReadInv` says what a read in progress may still bring, `BodyInv` what an accepted head
implies, and `VerdictInv` that a verdict once given stays that of the bytes sent: more bytes change none but
"incomplete" (`VerdictStays`), and that one is given only when the peer sends nothing more. The loop over the header fields is a
recursive function; `ScanDecides`, that it decides as the declarative `FieldsVerdict` does, is proved for lists of any length
(see *Induction* below): `Known` says what the loop has found out after each field.

`CatalogToolProofs` proves, for any number of processes, workspaces, repositories and commands, all five properties of its run.
It has two halves.

* *The operators*, for catalogs of any size. `Sorted(S)` has the members of `S` in rising order (`SortedRises`), and a list is the
  sorted list of its members exactly when it rises (`SortedIsRising`), which by induction is what comparing neighbours finds
  (`Rising`). `First` of a list of checks is `"Ok"` exactly when each is (`FirstIsOk`). With these, the reader's checks accept a typed index
  exactly when it is canonical (`ArtifactIsOk`, `PackageIsOk`, `GroupIsOk`, and `ValidIsCanonical`, `ReaderIsStrict`); a canonical index
  has one artifact for a path and one for a package (`LookupFinds`), so `deps` and `dependents` show the same edges (`EdgesAgree`) and `show`
  and `show-package` the same artifact (`ShowsAgree`); and a workspace without a `DiscoverError` is discovered to an index that reads back from
  its JSON as it was (`JsonIsParsed`) and is canonical but for backslashes (`ArtifactIsFaithful`, `GenerationIsFaithful`).
* *The processes*. `WorkInv` says that an undisturbed process still holds what the workspace renders to, `FilesInv` how far it has brought
  the files or what it has seen of them, `EndInv` what it was told; a step of anyone else that changes anything ends its quiet (`Bystander`).
  There catalogs stay opaque: the argument is about the order of reads and writes alone.

`WritesRepair` and `ChecksTell` follow from the second half, `ReadersAreStrict`, `QueriesAgree` and `GeneratedAreFaithful` from both. Assumed of the
environment, and evaluated by TLC on the run's instance: byte order is a linear order on paths (`RankAssumption`) and a path is a list
of segments (`PathsAssumption`); a rendered document is none of the marks for a missing, empty or torn file (`RenderedAssumption`); `None` is no
value of a field that is always there (`NoneAssumption`); and Cargo's packages have names and versions, their directories no `.`, `..` or empty
segment, and the walk meets manifests below the catalog roots only (`WorkspacesAssumption`).

`LocalBackendProofs` proves, for any callers, generations and records: `ReadsAreRecent`, `RefusalsFit`, `RecordsHaveLines` and `EmitsDoNotBlock`. `FlagsInv` ties
the flags and the connection to the phase of the owner, `AskedInv` what an operation has seen of them
to what the owner did since it began, `RowInv` says that a row is the last value its database was given, and `CallInv`
how far a call is against those values: what was given stays given (`GivenStays`), so the row a select finds is no older
than the value the call wrote. For the console, `LocksInv` says that an emit past its locks holds them, and `StreamInv` that an unbroken
stream is its lines one after another, less the line break that the holder of the stream's lock has yet to write: alone, `OneRecordPerLine` lets any emit
write next. From `LocksInv` also follows `OneWait`: an emit waits for
the lock of stdout only, and for an emit that does not wait. That a line has no line breaks is what `Escaped` does to every text (`LineType`), and that a further line goes at the end of what there is needs
`FlattenAppend`, by induction. Texts are sequences over any set of `Words`
(`WordsAssumption`: the line breaks, their escapes and the names of the levels are among them), and records and the prefix are made of texts
(`RecordsAssumption`, `LoggedAssumption`, `PrefixAssumption`).

*Induction.* The library states induction for predicates, as an operator parameter that the provers cannot instantiate. `Least` (a set of natural numbers that
is not empty has a least member, from the library's `WFMin`) and `Induction` state it for *sets*, and each use defines the set of the numbers for which its
claim holds. What a recursive function computes is unfolded the same way (`ScanUnfolds`, `FlattenUnfolds`, `MembersAreListed`): the claim by induction is that there is a
function on the first n places that fits the recursion.

The assumptions are the `ASSUME`s of the modules. Type invariants are proved and, where they are not one of the
run's properties, not model-checked again. Every safety property of the runs that pass is stated by a theorem. Model-checked only: liveness
(`StopCompletes`, `SleepersReleased`, `QueuedConnectionWakes`, `ResetEndsOperations`, `PeerEndsDecode`, `IncrementReturns`, `FittingInputReturns`, `AbandonedChildEnds`,
`CallsEnd`), of which `StopIsNeverStuck`, `OnlyFullPipesBlock` and `EmitsDoNotBlock` prove what needs no fairness, as temporal reasoning with fairness and ENABLED is out of the prover's reach, and the four runs that expect a violation.

## 6. Findings

1. *A stop can leave an `accept()` asleep.* `transport.rs:12` and the package's
   README.md:69 promise that stopping unblocks a waiting accept. stop sets
   `stop_requested` and notifies without holding the mutex under which `accept()`
   checks the flag and begins to wait (loopback/mod.rs:68-71, 148, 163-164). Run
   `tcp_stop_lost_wakeup`. The adapter promises this of its own operations; a front-end of the external framework may
   keep callers of *borrowed* components from overlapping with `Instance::stop`.
2. *One failed exchange ends the server process.* instances/web/http-server/README.md:5-6
   says it serves until the operator terminates it; `main.rs:41` and `:46` apply `?`
   to each exchange. It takes no bad request: in the trace of run `http_server_stays_up` a client
   connects and goes away without having sent a byte.
3. *A child and `execute()` can wait for each other for ever.* The process runtime's README.md:9-10
   promises to run a process to completion; `local.rs:78` writes all of stdin before
   `local.rs:83` reads any output, so a child that fills its output pipe before it has
   read its input blocks the call. Run `process_pipes_block`. Input no larger than a
   pipe (64 KiB on Linux) is safe: `FittingInputReturns`; and the two cannot wait for each other in any other way:
   `BlocksOnlyOnFullPipes`, which is proved.
4. *`validate` takes documents of schema version 1.* catalog/README.md:49-50 says that it verifies "an internally
   valid canonical Catalog v2 document", and README.md:125-126 that it proves the strict v2 contract; but it is the
   reader of every command (tools/catalog/src/lib.rs:46-54), which takes both versions (validation.rs:60-68), as
   catalog/README.md:130 promises of the *reader*. Run `catalog_validate`. What the reader takes is otherwise exact:
   `AcceptsExactlyCanonical` holds each document to the rules of its own version.

## 7. Abstractions and limits

* One generation of an adapter at a time, but for SQLite, where a second follows the first; `stop` on one that was
  never started is not modelled.
* TcpConnection values are owned and outlive the call that returned them, so they
  do race with stop, whatever the front-end does.
* `connect()` reports `NotStarted` for a stopped generation too; the model has
  that as a failed dial.
* The parser (httparse) is external: its answer is taken to depend on the prefix it
  is given, in a monotone way: partial, then complete or an error for good.
* The kernel's reset of a connection closed with unread data is not modelled, nor are `EINTR` and
  poisoned locks (no critical section panics).
* Three inspector reads, one after the other, need not agree; no document says they do.
* The pipes of a child are held by that child only: a grandchild that inherits and keeps them
  would delay `wait_with_output()`. The child ends on SIGPIPE or on its own account.
* `CountsAreRecent` speaks of counters that are not full: a full one no longer counts, and
  `EverySendCounted` says up to where the counts hold.
* SQLite itself is external: one table with one row, statements that succeed or fail, and atomic. What runs with
  the mutex held touches nothing but the connection, and is one step.
* After a failed write to the console the model stops comparing that stream (`broken`): what std's buffer of
  stdout still holds is not modelled. Writes of other programs to the same console are not either.
* A tool command reads the workspace (cargo metadata, manifests, readmes) as one snapshot, and a file in one read. The tool is taken to be
  run from the root of the repository: `write` and `check` use the root that cargo metadata reports, the queries the
  current directory.
* A query or a check beside a write may see an empty or a torn file, and says InvalidJson or Stale: the properties of the
  tool are about commands nobody disturbs.
* The generator does not refuse a directory name with a backslash, and the reader refuses its catalog; such a
  workspace is among those of the run, and `GeneratedIsFaithful` says so.
* A request of another version than HTTP/1.0 and 1.1 is malformed: httparse yields no other, so
  `HttpErrorKind::UnsupportedVersion` is left out.
* The local backend's table is its own: a table of its name with another schema, made in the same file by somebody else, and with it
  `UnexpectedValue` (examples/local-backend/src/app.rs:80), is left out.
* A query or `validate` that cannot read a file which is there ends with `Failed`, as a check does; the properties of the
  tool's answers are about those that could read.
* The words of messages, responses and log lines are left out.
* Not modelled: the Ed25519 signer and the key-value store (each operation is one critical section, with the lifecycle of
  `SqliteDatabase`), the addresses, the inspector and the authoring of the packages, the compositions, the relational
  contract (types only), Linux host detection and the examples without concurrency (straight-line code, best tested), the third-party consumer and the
  catalog's data.

## 8. Plan

Order of work, most important first; done: 1 to 9.

1. `TcpLoopback`, `AcceptChannel`; proofs of all safety and of the refinement.
2. `HttpServer`, `HttpServerInstance`.
3. `Counter`, `AtomicCounter`; proofs.
4. `TcpConnection`; proofs of all safety.
5. `FifoQueue`, `ObservedQueue`; proofs of all safety.
6. `ProcessRuntime`; proofs of all safety.
7. `SqliteDatabase`, `ConsoleLog`, `LocalBackend`; proofs of all safety.
8. `Catalog`, `CatalogTool`; proofs of all safety.
9. Proofs for `HttpServer`: types, `BufferBounded`, `VerdictIndependentOfReads`, and the loop over the fields by induction.
10. Left: the signer (a key and a signature obtained by two calls with a stop between them), the key-value store, and a
    second generation of the TCP transport behind the HTTP server.
