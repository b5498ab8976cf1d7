# Cloud Connector API (CCAPI): a verification development

CCAPI is the layer between an application and CCFSM, Digi's Cloud Connector
state machine. The application calls `ccapi_*` functions from its own threads;
CCFSM runs in the connector thread and calls CCAPI back (`ccapi_connector_callback`)
for every event of a session with the cloud. CCAPI's own work is the hand-over
between the two: callbacks of CCFSM must not block, so CCAPI answers *busy*,
passes the work to a thread of its own that calls the application, and gives the
result when CCFSM asks again; and where the application waits for the cloud, it
waits on a lock that a callback releases.

This directory holds TLA+ models of that work, TLC configurations for small
instances, and proofs checked by TLAPS. File names and line numbers are those
of `src/source/`.

## 1. Inventory

| Component | Source | State | Operations | What is hard |
|---|---|---|---|---|
| Firmware update | `ccapi_firmware_update_handler.c` | the `processing` structure: a ring of chunks, offsets, error flag; the firmware thread and its semaphore | start, data, complete, abort, reset from CCFSM; the thread's loop | two threads share the ring without a lock; packets cut across chunks; busy answers; restart while chunks are queued |
| Device requests (receive) | `ccapi_data_handler.c` 28-65, 225-667 | one context per session; one slot pointer; the receive thread and its semaphore | target, data, length, response, status from CCFSM; the thread's loop | several sessions, one slot; a cancel while the application works; partial replies; failed allocations |
| Receive targets | `ccapi_receive.c` | a linked list and its lock | add, remove, look up, free | the lookup outside the lock |
| Send, ping | `ccapi_send.c`, `ccapi_send_ping.c`, `ccapi_data_handler.c` 67-223 | a context on the heap, with a lock the caller waits on | send data, file or ping, with or without reply; length, data, response, status from CCFSM | the context's lifetime against the callbacks; setup that fails half way; which of several errors is told |
| RCI | `ccapi_rci_handler.c` | one session, `rci_info`, one callback slot, a thread and its semaphore | session, action, group, list and element requests | a cancel while the application works; fields of `rci_info` left from an earlier request |
| CLI over short messages | `ccapi_sm_handler.c` | as receive | request, length, response, status; the thread's loop | as receive, and no lock anywhere |
| File system | `ccapi_filesystem.c`, `ccapi_filesystem_handler.c` | the virtual directories, three kinds of handle per session | map, unmap; open, read, write, close, list, hash, remove, errors | one release for each thing whatever fails; directories that change under a session |
| Transports | `ccapi_transport_tcp.c`, `_udp.c`, `_sms.c`, `ccapi.c` 1100-1400 | an info and a flag per transport | start with a time limit, stop; open, close, status callbacks | the time limit against a late connection; a stop against a lost one |
| Life cycle | `ccapi_init.c`, `ccapi.c` | the single instance, its parts, threads and locks; the users of the logging lock | start, stop, the stop by CCFSM | a start that fails half way; a stop beside another call |
| Data points | `ccapi_datapoints.c`, `ccapi.c` 1500-1580 | a collection: a list of streams of points, a count and a lock | create, add, remove, remove older, send, clear, destroy | one list chained twice; a walk without the lock; points freed only if sent |
| Dispatcher, configuration, binary data points, streaming CLI, logging output | `ccapi.c`, `ccapi_datapoints_binary.c`, `ccapi_sm_handler.c`, `ccapi_logging.c` | none | forwarding | - |

CCFSM and the platform layer (CCIMP: locks, threads, memory, files) are not part
of the repository. CCFSM appears in every module as the environment that calls
the handlers, one at a time, and repeats a call that was answered busy. A CCIMP
lock is a counting semaphore; an allocation may fail.

`PROJECT.json` lists under "hazards" everything that is hard to test, at its
line, with the property that would catch it.

## 2. Conventions

One module models one component. The connector thread's handlers run to
completion on one thread, so a handler (or one way out of it) is one action.
Accesses by CCAPI's own threads and by the application's threads are separate
steps wherever no lock separates them from the handlers. The data is abstract:
a command or a reply is its length, a memory block is a cell that can be reused
after it was freed, and what is read from a freed block is arbitrary or ends the
behaviour (`wrong`).

**History variables.** Where the code is known to go wrong, a history variable
records the *cause*, at the step where it happens (`overlap`, `dangling`,
`abandoned`, `under`, `cause`, `stale`, `past`, `twins`, `met`). The properties then say
that nothing goes wrong *but* after that cause. This keeps a property strong: it
still fails when any other cause leads to the same damage. The causes are
collected in section 8.

**Properties.** A run checks a few named conjunctions (`AnswerHolds ==
OutputIsWhole /\ OutputComesBack /\ CommandIsFreed`); each part has its own
definition and a comment with the lines it is about.

## 3. Modules

| Modules | Of | Composition |
|---|---|---|
| `FirmwareUpdate`, `MCFirmwareUpdate`, `FirmwareUpdateProofs` | the ring, the handlers, the firmware thread | implements `FirmwareDownload` |
| `FirmwareDownload` | what the service promises: bytes arrive in order, the application takes a prefix of them, success only after all | the refinement `ImplementsDownload`, checked, and proved in `FirmwareUpdateProofs` |
| `ReceiveService`, `MCReceiveService`, `ReceiveServiceProofs` | a device request from target to status, the receive thread | the lookup's outcome is an input |
| `ReceiveTargets`, `MCReceiveTargets` | the list behind that lookup | two application threads and the connector thread; proofs in `ReceiveServiceProofs` |
| `SendService`, `MCSendService`, `SendServiceProofs` | a call from `malloc` to `free`, CCFSM's handlers for it | data, file and ping share the actions |
| `RciService`, `MCRciService`, `RciServiceProofs` | all RCI requests, `rci_info`, the RCI thread | |
| `CliService`, `MCCliService`, `CliServiceProofs` | a CLI session, the CLI thread | |
| `FileSystem`, `MCFileSystem`, `FileSystemProofs` | a session's requests beside threads that map and unmap directories | who acts together is chosen at the start (`Casts`) |
| `Transport`, `MCTransport` | start and stop against open, lost, closed | one module for the three transports (`kind`), which are the same code but for the checks and copies; proofs in `LifecycleProofs` |
| `Lifecycle`, `MCLifecycle`, `LifecycleProofs` | start, stop, the connector thread, a thread of a service, the logging lock | composes the threads of the services with the instance they live in |
| `DataPoints`, `MCDataPoints`, `DataPointsProofs` | a collection, its list and CCFSM's chain through it, a send | |

How state and actions correspond to the code:

- **FirmwareUpdate**: one variable per field of `processing` and per thread
  variable. The byte of the image at offset *o* is *o*, so that a buffer shows
  whether it holds the right bytes. CCFSM delivers packets with any offset
  inside the announced size; a start may come at any time if `RestartAllowed`.
- **ReceiveService**, **CliService**: `session`/`context` has, per cell, the
  fields that decide anything; `phase[c]` is CCFSM's next call; the slot is one
  pointer without a lock; the thread's accesses are steps of their own.
- **SendService**: memory comes from malloc as it is (`Garbage`), so that the
  clean-up's decisions from unassigned fields are modelled. "A failure" is any
  operation of the platform that fails, or a file that someone truncates.
- **RciService**: `Begin(r)` is the handler's first call for a request (copy
  into `rci_info`, queue the callback or not), `Finish(r)` the one that finds
  it processed; requests nest as CCFSM nests them. The application provides one
  of the sets of callbacks in `HandlerSets`, and the service's memory starts as
  it is (`Garbage`). Since the handler copies nothing for a callback that is not
  there, each part of `PlaceIsRight`, `ElementCallbackIsRight` and `AnswerIsOwn`
  names the callbacks it depends on. Every callback may write `matches`, set it or
  clear it or leave it (`Writes`); `carried` says whether a callback other than
  `get_element` set what is there now.
- **FileSystem**: a callback runs under `file_system_lock` and is one step; the
  application's walk before the lock and its free after it are steps. `held` is
  the set of what was obtained for a session and not given back.
- **Transport**: an info is where each of its strings comes from (own memory,
  the application's, never set). `under` records a call that freed the info
  while CCFSM used the transport. A start remembers what happened since it lowered
  the flag: a connection was made, one was lost for good, its wait failed. CCFSM
  may accept a start or a stop of which the caller is told that it was refused,
  when the lock around `connector_initiate_action` is not released.
- **Lifecycle**: an instance is the set of its parts, its threads' states, locks
  and infos; a start can fail at each part, and takes down what it made. A
  transport's info is there, null, or freed and still pointed to, which is how an
  abort leaves it.
- **DataPoints**: `next` is the collection's list, `cnext` CCFSM's, which is
  written at a send only; `dp_count` wraps at `Width`. The lock a send waits for is
  held, released or `stuck` (its release failed); a release that is busy has the
  status repeated. `stale` is how far CCFSM is with requests of sends that gave up:
  their wait failed, or they were told that CCFSM had refused. The application goes
  on calling after that, and CCFSM goes on reading.
- **ReceiveTargets**: what a lookup returns is the *place of a pointer* (the head
  or the `next` of an entry), which is read again and changed under the lock.
  `met[t]` says whether another call added or removed since the lookup.

In `DataPoints` and `ReceiveTargets` the list behind a pointer is `Reach(next,
first)`: the blocks that are in every set which has the first one and, with each
block, the next. That is what a walk along `next` visits; since it counts no
steps, it can be reasoned about for lists of any length.

## 4. Runs

| Run | Instance | Shows |
|---|---|---|
| `firmware` | 1 target, ring of 2, chunks of 2 bytes, images of 5 and 6, packets of 1 and 3, 2 downloads, restarts, 1 failed allocation | `TypeOK`, `TailInUse`, `CallbackReadsImage`: the ring never mixes up chunks until a start resets it under the thread; `ImplementsDownload` |
| `firmware_boundary` | 2 targets, ring of 1, images of 0 and 4, default chunk size, no cancel callback, restarts | `CompleteIsHonest`, `PoolLifetime`; `Progress`: each busy answer resolves and a stop ends |
| `receive` | 2 cells, 2 sessions, limit of 1 byte, up to 2 packets of 1, responses of 0 and 3 in parts of 2, 1 failed allocation, cancels | `SlotIsQueued`, `RequestIsWhole`, `ReplyIsAnswer`, `ReportIsHonest`, `ResponseComesBack`, `Progress` |
| `receive_cancel` (violation) | a cancel during the callback | `ContextOutlivesCallback` fails: the thread uses a context the status handler freed (finding) |
| `targets` | 2 threads, 2 names, 2 cells, 1 failure | `TargetsHold`: everyone finds his own, no target is lost or there twice, but for the overlaps the lock misses |
| `send` | 2 threads, 2 cells, 2 calls of any kind, 0 and 3 bytes in parts of 2, 1 failure | `SessionsHold`, `ResultIsHonest`, `ReleasesExactly`, `CallerIsWoken` |
| `rci` | 4 applications: all callbacks, only readers, a writer without a transform callback, elements alone; cleared and uncleared memory; any callback writes `matches`; 1 group, nested lists of depth 2, cancels | `ThreadIsSound`, `CallbackIsRight`, `AnswerIsOwn`, `Progress` |
| `cli` | 2 cells, 3 sessions, commands of up to 2 bytes, outputs of 0 and 2 (and the null) in parts of 2, 1 failed allocation, cancels | `SessionHolds`, `AnswerHolds`, `Progress` |
| `filesystem` | a session beside a thread, and two threads; 2 names, 1 local directory, 2 list entries | `NothingLeft`, `ReportIsTrue`, `DirectoriesHold`, `Progress` |
| `transport` | each of the three | `StartIsHonest`, `InfoHolds`, `StopReturns` |
| `lifecycle` | 1 thread, 2 memory blocks for instances, the firmware service | `ResourcesHold`, `UseFindsInstance`, `Progress` |
| `datapoints` | 2 threads, 3 streams, 3 blocks, 1 point per stream, calls until 2 things broke | `CollectionHolds`, `ChainIsList`, `SendAwaitsCcfsm`, `OnlySentIsFreed` |

**Bounds.** A ring of two slots is the code's default; one slot makes every
queued chunk fill it. Images of five and six bytes in chunks of two need three
chunks, one more than the ring holds, and end inside and at the end of a chunk;
packets are shorter and longer than a chunk and straddle borders. Two downloads
let what one leaves meet the next. Two sessions compete for a slot, a third (or,
in `receive`, the second) can get a freed cell. A reply of three bytes in parts
of two takes two calls, the last one not full; an empty one takes none. One
failed operation reaches each failure path. Two threads with two calls in two
cells give contexts that live side by side and a cell that is used again. A list
of three streams has a first, a middle and a last, and a stream that is added
while one is removed; in `datapoints` new calls start until more than one thing
(`MaxBroken`) has broken the list or a send, so that one cause is followed by every
call and met by a second cause, and calls under way go to their end. With two targets, one removal can mislead each kind of
lookup. Depth two is the least at which the level above a list matters. The
remaining modules have no counters: the session, transport and instance are
explored in all their states, round after round.

**Symmetry** is used in `send` (cells, threads), `targets` (threads, names,
cells) and `datapoints` (threads, ids, blocks): no definition orders or singles
out one of them, and none of these runs checks liveness.

**Deadlock.** `CHECK_DEADLOCK FALSE` where the system may stop: CCAPI is stopped
and the bounded sessions, downloads or calls run out (`firmware`, `receive`,
`targets`, `send`, `rci`, `cli`), a transport's start without a time limit waits
for ever once its connection was lost and is not wanted back (`transport`), or a
stop by CCFSM beside a start waits for a thread nobody told to stop
(`lifecycle`). `filesystem` and `datapoints` are checked for deadlock.

**Fairness.** Each is weak fairness, with one exception, of something the
operating system or CCFSM's protocol provides: a CCAPI thread and the
application's callback go on; CCFSM calls a handler that answered busy again,
which is what busy means; an application thread inside a call goes on. Nothing
makes the server send, cancel, restart or stop. In `FileSystem` a thread and the
connector thread both loop for `file_system_lock`, and either gets it in the
end: strong fairness, as a fair platform lock gives it. In `receive`, `cli` and
`firmware` the number of sessions is bounded: with an endless supply of other
sessions, whether a waiting one gets the slot depends on the order in which
CCFSM polls, which is not in this repository.

That a send returns is stated as the invariant `CallerIsWoken` (the caller is
released exactly when CCFSM has ended its session) and needs, beyond it, that
CCFSM ends every session it accepted: `ccapi_send_lock_acquire` waits without a
time limit and relies on that.

## 5. Proofs

Each proof module covers every value of the constants within the module's
ASSUMEs: any number of cells, threads, sessions and failures, and all sizes.

**`FirmwareUpdateProofs`** - `TypeCorrect`, `RingCorrect`, `TailCorrect`
(`TailInUse`), `CallbackCorrect` (`CallbackReadsImage`), `CompleteCorrect`
(`CompleteIsHonest`), `PoolCorrect` (`PoolLifetime`), `DownloadImplemented`
(`ImplementsDownload`). The argument has two layers. `HandlerInv` is what the
connector thread keeps by itself, whatever the firmware thread does: types,
buffers of the right size, and `head_offset <= tail_offset < head_offset +
chunk_size`, with `head_offset` a multiple of the chunk size until the image
ends; it needs the arithmetic lemmas `ModAdd`, `ModFull` and `CopyFacts`.
`RingInv` is what the two threads keep together until `overlap`: the slots in
use are the ones the semaphore counts plus the one in hand, contiguous from the
tail to the head; each holds the bytes of the image and ends where the next
begins; the head holds the bytes up to `tail_offset`. No property is inductive
without the other parts: that the callback sees the next bytes needs the chunks
in the ring to be contiguous, which needs the head slot to be free, which needs
the count of the semaphore.

For the refinement, every step of the detailed service is a step of
`FirmwareDownload` or a stutter, with `HandlerInv` and `RingInv` and one more
invariant, `QueuedWasReceived`: what is queued was received before, so that what
the application takes next is a prefix.

**`ReceiveServiceProofs`** - `TypeCorrect`, `SlotCorrect`, `RequestCorrect`,
`ReplyCorrect`, `ReportCorrect`, `ResponsesCorrect`. The inductive invariant, until
a context is freed under the thread: the semaphore's count and the token the
thread holds add up to one exactly while a session is in the slot, that session
is the only queued one and the one in the thread's hands; before its data is
processed a session has stored what was delivered, afterwards what was sent and
what is left add up to the response; a free cell has no history.
That a response comes back needs `Owed`, what is kept for the status callback in
each phase; it holds for all sizes and names the one response that does not, an
empty one that came with an error (section 8).

It also proves `TargetsCorrect` (`TargetsHold`, of `ReceiveTargets`) for any
number of threads, names, entries and failures. The invariant `TargetsInv` says
that the list, with the one link a removal is about to mend (`Mends`), is a
chain in which no two entries have the same next (`ListIsChain`); that every
entry is in it, or is a call's own new one, or is recorded as an orphan
(`Accounted`); and what the place a call holds still tells, as long as no
removal overlapped it (`CallsFit`): that it is the head or in the list
(`PlaceFits`), that a target which is there lies ahead of the walk
(`LookupFits`), and what its decision rests on (`DecisionFits`). Lists are told
by `Reach`: the least set that is closed, so that to show where a changed list
leads, one shows a closed set (`ReachLeast`), where an informal proof would go
by induction along the list.

**`CliServiceProofs`** - `SessionCorrect` (`SessionHolds`), `AnswerCorrect`
(`AnswerHolds`). The same shape: `Slot` relates the semaphore, the thread and the
session in the slot, `Session` the context, its history and CCFSM's phase. That
the thread finds its session needs the semaphore's count; that an output comes
back needs `Owed` (an output of the application is there only where one was
required and no error of CCAPI's took its place); that it is sent once and whole
needs `Sending`, the sum of what was sent and what is left.

**`RciServiceProofs`** - `ThreadCorrect` (`ThreadIsSound`), `CallbackCorrect`
(`CallbackIsRight`), `AnswerCorrect` (`AnswerIsOwn`), for every application,
every set of names and every depth of lists. The invariant `Inv`: `Where`, the
requests CCFSM makes in each place and the depth it has there; until the thread
is out of step (`lostsync`), `InStep`, one token for the queued request and none
otherwise, and the thread at work on that request or on one that was cancelled;
and `Mirror`, part by part what `rci_info` holds of the server's position for the
applications whose callbacks have it copied. The part about lists is the one that
is not there in the properties: `rci_info->list.depth` is at least the number of
lists that were started and have not ended (`InnerDepth`), so that the end of a
list clears no level outside of it (`:1008`), even where the end of lists has no
callback and the depth is an old one. For the answers `Told` follows what was
called, returned and written, and whose the match in `rci_info` is.

**`SendServiceProofs`** - `SessionsCorrect` (`SessionsHold`), `ResultCorrect`
(`ResultIsHonest`), `ReleasesCorrect` (`ReleasesExactly`), `WokenCorrect`
(`CallerIsWoken`). The invariant `SendInv`: contexts belong to one call each
(`Owned`); until a platform failure abandons one, context, history and CCFSM's
phase are in step (`Session`, of `Agrees`, `Owns` and `InStep`); a release of
what was never obtained has a failure to blame (`Blamed`); what a call holds is
what the step it is at has obtained (`Holds`). It assumes that the names of the
errors are distinct (`ErrorsAssumption`).

**`FileSystemProofs`** - `ReleasedCorrect` (`NothingLeft`), `ReportCorrect`
(`ReportIsTrue`), `DirectoriesCorrect` (`DirectoriesHold`), for any number of
sessions, threads, names and entries. `Sound` says of each session, from where it
is and which request is pending, what may be held for it; that nothing is left at
the end follows since CCFSM ends a session only when no handle is open and no
error waits. `CellsOK` and `PointersOK` say which entries are allocated: the
linked ones and those unlinked and not freed yet; a pointer is to one of these or
is dangling. The walks are told by a *rank*, a number for each entry that falls
along the list. A new front entry gets one above all others, an unlinked entry
keeps its own until it is freed, so that `next` always leads to a lower rank and
passes no linked entry. What a listing owes (`Owes`) and every entry of the name
an addition looks for (`Ahead`) then lies at or after the place the walk has
reached, although the list changes under it; at the end nothing lies ahead. It
assumes that the names the model gives to nothing, to a dangling pointer and to
the root are no others (`PathsApart`).

**`DataPointsProofs`** - `HandshakeCorrect`, `SendCorrect` (`SendAwaitsCcfsm`),
`CollectionCorrect` (`CollectionHolds`), `ChainCorrect` (`ChainIsList`),
`FreedCorrect` (`OnlySentIsFreed`). `Handshake`: the lock is held by the one
send under way; what CCFSM has accepted and not ended is that send's or was
given up; the status alone releases the send, and when it does is CCFSM's last
word; a send that waits without CCFSM has a lock that was not released. `Inv`
adds the list, each part until its own cause: one pointer leads to each stream
of it (`ListIsChain`), and every allocated stream is in it (`NoneLost`);
`remove_older_data_point` is at a stream of the list (`OlderOK`); `dp_count` is
the number of points in it (`CountOK`), where points are counted as a set of
pairs of a stream and an index, so that a stream which leaves takes its own with
it (`PointSetRemove`); CCFSM's chain is the list but for a loose end, which the removal of the
last stream leaves (`ChainOK`), and where CCFSM reads, the streams before are read and those after are not (`ReadingOK`). It
assumes that `dp_count` is wide enough for the points there can be
(`WidthHoldsAll`) and that memory is finite (`MemoryIsFinite`).

**`LifecycleProofs`** - `ResourcesCorrect` (`ResourcesHold`) and `UseCorrect`
(`UseFindsInstance`), for any number of application threads and instances and
any services, where the run has one thread and one service. That nothing is left by a stop, an abort or a failed
start is not inductive by itself: it needs what each step of a start has made so
far (`StartOK`), that an instance has one starter (`OneStarter`), which threads
were told to stop (`ToldOK`), and, while calls have not overlapped (`Solo`),
what each step of the start, the stop and the abort has still to release
(`SoloStart`, `SoloStarted`, `SoloStop`, `SoloAbort`, `LockOK`). That the users
of the logging lock are the instances and the calls at work (`UsersOK`) holds
without exception. It assumes finitely many threads and instances
(`FinitelyMany`), that no instance is the null pointer (`NullIsNone`) and that
services have the threads the code knows (`ServicesHaveThreads`).

For `Transport` the module proves `HonestCorrect` (`StartIsHonest`) and
`InfoCorrect` (`InfoHolds`) for all three kinds, from `TransportInv`: the flag
of a transport is up only while CCFSM is connected (`FlagOK`), the connector
thread has a cause to close exactly while CCFSM closes (`ClosingOK`), how many
infos are allocated at each place of a call and whose their strings are
(`InfoOK`, `StringsOK`), what a start that lowered the flag knows of it and CCFSM
of the start (`WaitOK`), and CCFSM finds an info unless a call freed it or it
closes for a stop (`UsedOK`).

**Only model-checked**: liveness (`Progress`, `StopReturns`), since liveness under
fairness and ENABLED are out of TLAPS's reach. Every invariant and every action
property of a passing run is also a theorem. What a recursive function computes
for every input cannot be proved either, induction over data being out of reach;
the lists are defined by `Reach` for that reason, and no theorem rests on
recursion.

## 6. Plan, and what is left

Done, in this order: FirmwareUpdate with its abstract specification and proofs;
ReceiveService, SendService and their proofs; RciService; FileSystem; Transport;
Lifecycle; DataPoints; CliService; ReceiveTargets; the refinement's proof and the
proofs of SendService, DataPoints, CliService, RciService and FileSystem; the
proofs of Lifecycle, Transport and ReceiveTargets, and those about the list of
DataPoints.

Left: more than one application thread in the run of `Lifecycle` (an instance with
two was too large; the proofs cover any number) and in `Transport`; the
composition of `ReceiveService` with `ReceiveTargets` (today the lookup's outcome
is an input of the one and the result of the other); abstract specifications of
the send and CLI services, as the firmware service has one.

## 7. Not modelled

- *Dispatcher and configuration handlers*: a switch without state, and copies of
  constants of the start structure. The handlers behind it that have state are in
  the module of their service.
- *Binary data points*: checks, a path built from a name, one call of the send
  service; nothing survives the call.
- *Streaming CLI, ping requests, requests to connect and the other short
  messaging callbacks*: one call of the application each, no state between calls.
- *Logging output*: formatting under a lock; the lock and its users are in
  `Lifecycle`.
- *CCFSM, CCIMP*: not in the repository.

Inside the modelled components: logging, argument checks that change nothing (or
their outcome, as an input), the collection's and `initiate_action`'s locks when
the platform does not release them after a call on data points, the firmware information request and target count,
sessions whose context could not be allocated, overflow of 32-bit offsets and of
`size_t` lengths, packets past the announced image size (CCFSM keeps them inside
it), hints, and the contents of data points, elements, files and messages.

## 8. Where the code is known to go wrong

The models follow the code, so they show these; the history variable in brackets
is what exempts the properties from the time after. Only the first item on the
receive service is also a run that fails, since a comment of the code says
otherwise (`receive_cancel`).

- **Firmware**: a start, after a complete, an abort or in the middle of a
  download, resets or frees the ring while the thread has a chunk
  (`ccapi_firmware_update_handler.c:110`; `overlap`).
- **Receive**: the status handler frees a context that is queued or in the
  application's callback (`ccapi_data_handler.c:645`; `dangling`). A request whose
  session ends early leaves its buffer. A failed allocation can lead to an error
  reply that reads a NULL target. A response of length 0 that the callback
  gives with an error is taken for none (`:566`): CCAPI's own error reply overwrites
  its buffer (`:544`), which does not come back to the application although the
  status callback is called so that it can free it (`:626`). `ResponseComesBack`
  names this case and no other.
- **CLI**: the same free under the thread (`ccapi_sm_handler.c:352`; `dangling`); the
  output of a callback whose session was cancelled is lost; the command leaks when
  a session ends before it was processed or memory fails; CCAPI's own message is
  announced with length 0 (`:367`).
- **Targets**: the place a lookup found is changed under the lock without another
  look (`ccapi_receive.c:202`; `met`, `twins`): another target is removed, a name is
  there twice, a session gets another target's callbacks or a freed entry. An
  entry leaks when the lock is not acquired (`orphans`), and when its release
  fails the call answers LOCK_FAILED with the change made.
- **Send**: a setup that fails releases what it never obtained (`ccapi_send.c:338`;
  `wild`). A lock that cannot be acquired abandons a context CCFSM still has (`:321`;
  `abandoned`). The error code is copied after the context was freed. A file
  truncated between its status and its reading is sent short.
- **RCI**: a cancel leaves a token in the semaphore, or loses a wake-up, and the
  thread's assertion ends it (`ccapi_rci_handler.c:252`, `:383`). With an application that
  handles neither the start nor the end of lists, fields of an earlier level stay
  and the depth of the list wraps (`:1008`; `overrun`). One that has `set_element`
  and no `set_and_transform_element` ends the thread when the server asks for
  transformed values (`:349`). Without a callback for the start of actions, an
  element's callback is chosen by an action of earlier or unassigned memory
  (`:793`), and `matches` can be an earlier session's. A match is
  cleared when a session or a query starts (`:471`, `:525`) and after an element
  (`:994`) only: one that any other callback sets, as that of a group or list
  (`:970`), is reported again for the groups and lists that follow, until an element
  is answered (`carried`). A request begun while the thread is in a cancelled
  session's callback is answered with that callback's error (`:447`). After a cancel or an
  assertion has put the thread out of step (`lostsync`) requests stay busy.
- **File system**: a listing's handle keeps an entry that is unmapped and freed; an
  error handle is read after it was freed; a BUSY of the platform is overwritten;
  two threads add the same name (`ccapi_filesystem.c:148`; `overlap`).
- **Transports**: a start that times out, or a stop that overtakes a lost connection,
  frees the info the callbacks read (`ccapi_transport_tcp.c:386`, `ccapi.c:1154`;
  `under`), and so does a start that CCFSM accepted and that is told it did not
  (`ccapi.c:461`). When tcp's wait without a time limit fails, the start answers that
  there is a connection (`ccapi_transport_tcp.c:341-348`). A copy of a tcp info that fails frees strings of the application.
- **Life cycle**: a start that fails before the condition is made uses an unset one;
  one that fails late frees the instance under running threads (`ccapi_init.c:763`);
  a start with RCI and without the firmware service reads the version in `rci_data`
  (`:527`) before it is checked that there is any (`:629`); a second start forgets the
  instance (`:1061`); a thread that is only starting is
  not told to stop and then waited for (`:316`); a refused stop frees a transport's
  info twice; an abort frees a transport's info without forgetting it (`:800`), so that a call
  that comes meanwhile frees it again (`:887`), and frees the instance under calls
  (`:849`; `past`).
- **Data points**: removing the first stream loses the others
  (`ccapi_datapoints.c:783`); a clear leaves the list pointing to what it freed
  (`:173`); removing the last stream leaves the chain pointing to it (`:1090`);
  `remove_older_data_point` walks without the lock (`:1059`); a send looks at the list
  before it has the lock (`:1127`) (`cause`). A wait that fails, or an
  `initiate_action` that fails after CCFSM accepted (`ccapi.c:461`), ends the send and
  frees its info while CCFSM goes on reading (`:1256`, `:1291`; `stale`). When the lock
  of a send is not released (`ccapi.c:1578`), the send waits for ever, with the
  collection's lock. `ccapi_dp_remove_older_data_point_from_streams` removes the
  newest point of a stream, since points are pushed at the head (`:1029`); the model
  counts points, and no property says which one goes.
