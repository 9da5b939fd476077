# UniCorn-P4 in TLA+

UniCorn-P4 is a controller for P4 switches: a Python backend (`src/backend`) holds
the connections to BMv2 switches (P4Runtime) and Intel Tofino switches (BF Runtime),
compiles and loads programs, edits tables, keeps a history of what was loaded and
serves a web frontend. An emulator (`src/netsim`) builds networks of BMv2 and Tofino
switches from topology files. This directory specifies the parts of both whose
correctness depends on the order of things: threads, locks, streams, crashes and
partial failures. The specifications are written from the source; each definition's
lines are in `PROJECT.json` under `map`.

1. [The system](#1-the-system)
2. [What is modelled](#2-what-is-modelled)
3. [What the runs show](#3-what-the-runs-show)
4. [What is proved](#4-what-is-proved)
5. [Where code and text disagree](#5-where-code-and-text-disagree)
6. [What is abstracted or left out](#6-what-is-abstracted-or-left-out)
7. [Plan](#7-plan)
8. [How to run it](#8-how-to-run-it)

## 1. The system

Requests are served by threads. They reach a switch through `controller.switch_configs`,
which maps a device id to a *target*: a `TofinoTarget` or a BMv2 `SwitchManager`. Two
kinds of lock order them: `connections_lock` of the controller, held while
connections are added and removed, and the `operation_lock` of each Tofino target,
held from admission to the end of a request for it. Each connection has a thread
that reads the switch's stream. Builds are compiled by one thread per job and
recorded on disk; states and known switches live in a SQLite database.

| Component | State it keeps | Operations | What makes it correct | What is hard |
|---|---|---|---|---|
| P4Runtime stream connection (`controller/utils/switch.py`) | flags of the stream, two bounded queues, digest events, byte and drop counters, cursor numbers | arbitration, consume, capture and acknowledge a digest list, page, clear, shut down | acknowledged lists were captured; bounded memory; readers miss nothing that is there; nobody waits on a dead stream | a full queue, eviction, a consumer that outlives `join`, shutdown in the middle of each |
| Program builds (`api/program_builds.py`, `endpoints/init.py`, `saved.py`, `history.py`) | a directory per job, `_PINNED`, `_PRUNE_LOCK`, rows of `TableStates` | compile, clean up superseded builds, pin and load, record, copy and delete states, restart | a build that is pinned, runs or is recorded is never deleted; pins come back; jobs end | cleanup reads its references one after the other while requests change them; clock steps; restart at any point |
| BF Runtime client and Tofino target (`targets/bfrt_client.py`, `tofino.py`) | generation of the stream, error, subscription, digest events; connected and helper state of the target | connect, close, replace the program, stream threads, page, clear, shut down | no digest of an old program, no error of an old stream, failures are reported | threads of replaced streams are still alive; a reply is lost after the program was applied |
| Table updates (`controller.py`, `SwitchManager.py`, `tofino.py`) | rows of the switch | POST, DELETE, PATCH of one row (delete and insert) or of a batch, and undoing it | a failed batch leaves the rows as they were; a successful one did what it says | the edits of a batch depend on each other; the client's rows are stale; replies are lost |
| Controller connections (`controller.py`, `api/endpoints/Endpoint.py` and others) | `switch_configs`, open channels, the two kinds of lock | admission, add with retries, remove, remove all, topology, import and their roll-backs | no deadlock, no channel closed under a request or left open | a request waits for a switch that is being removed; a failed connection in the middle of a replacement |
| Network archive (`api/network_archive.py`) | staged imports, their reservations, result cache, `_DEPLOY_LOCK` | export, stage, deploy, restore, status | an export can be imported; a token is deployed once; a `complete` report is true; reservations end | the switch is edited while it is read, expiry against use, retries, partial failure |
| History and saved states | rows of `TableStates`, links between them | list, save, overwrite, copy, rename, delete | replayable states (with program builds) | copies that race with deletions |
| Known switches and switch configuration | rows of the database | list, add, edit, delete, connect | single transactions | connecting (in controller connections) |
| Queue settings | queue defaults and per-port overrides on the switch | read, write | a failed write of two fields | partial failure |
| Counters, registers, resources | none in the backend | read, write, reset | conversions | value ranges |
| Tofino multicast, mirrors, port shaping | nodes owned by the connection | write, delete, roll back | no node is orphaned | failure between two writes |
| BMv2 multicast, mirrors, register adapter | none | one RPC each | – | – |
| Editor workspace | files with revisions | read, save, rename | no edit is lost | an external editor between check and replacement |
| Language service (`api/language_service.py`, `languageClient.js`, the adapted server) | sessions with a process and a bounded queue each; versions of documents in the client, the session and the server | create, exchange, drain, expire, delete; edit, flush, poll, reconnect, dispose | the copies agree; no outdated diagnostics are shown; the last ones arrive or the user is told; processes end | answers arrive out of order or are lost; expiry, crashes and reconnection in the middle of an exchange |
| Topology files | files | list, store, deploy | validated data | – |
| Network emulator (`src/netsim/api`) | the network, its description and status, deployment jobs, terminals, two locks | load, deploy, clear, poll a job, commands in a terminal | what is reported runs, also after a failure; deployments end and their answers stay; terminals belong to the network | each step of a replacement may fail; jobs and terminals are read without a lock |
| Tofino runtime containers | processes | start, supervise | – | external binaries |
| Web frontend | view state, cursor of the digest view | poll, clear | no event is lost or shown twice | polls that overlap a clear or a reconnect |
| P4 information and data conversion | none | pure conversions | values keep their width | boundary values |
| Generated, vendored and packaging code | none | – | – | – |

How they interact, as far as it matters here:

* A request for a switch calls a handler on its target (`SwitchEndpoint`). For a Tofino it
  first takes the operation lock and checks again that the target is the registered
  one (**Connections**).
* `POST /init` on a Tofino holds the operation lock, pins a build (`use_build`, under the
  prune lock), calls `initialize_bundle` of the BF Runtime client, commits a row and
  unpins (**ProgramBuilds**, and the inside of the call in **BfRtClient**).
* The end of a compilation starts cleanup, which reads the rows, the connected
  switches and the pins, in this order, and then deletes (**ProgramBuilds**).
* The import of an archive replaces the network through the emulator's API and waits for
  its deployment (**NetworkImport**, **Emulator**), then connects the switches and writes their
  entities (**NetworkImport**; the connections and locks of it in **Connections**).
* The editor's language client talks to a session of the backend in flushes (one after the other),
  requests and polls, whose answers each carry diagnostics (**LanguageClient**, **LanguageSession**).
* Stream threads call back into their connection under its locks (**DigestStream**,
  **BfRtClient**); the digest endpoints read from it through the same buffer.

The hazards of this code, at the lines where they bite and with the properties that cover
them, are listed in `PROJECT.json` under `hazards`.

## 2. What is modelled

```
                      EventBuffer  (capture, eviction, pages: operators)
                        /        \
              DigestStream      BfRtClient     ---- both implement ---->  EventLog
                                                                        (abstract)
    ProgramBuilds        Connections        TableUpdates        Emulator

    NetworkSnapshot  (export)   <--- extended by ---  NetworkImport
    LanguageSession  (backend)  <--- extended by ---  LanguageClient  (editor)
```

`X_proofs` holds the theorems of `X`, and `MCX` the instances for TLC. `Controller_proofs` holds those of
the two modules about `controller.py`: of **Connections** and of **TableUpdates**, whose `RowsInit`,
`RowsNext` and `RowsSpec` are named apart so that it can extend both.

**EventLog** is what a buffer of digest events promises a reader: events are numbered in
the order of their arrival, may be forgotten, and a reader is given, from its cursor on,
the matching events that are still there. It knows neither limits nor threads.

**EventBuffer** has the operators the two clients share: `Evicted` is the loop that
makes room for a new event, `Page` and `NextCursor` are what `digest_events` returns.

**DigestStream** is one `SwitchConnection`. `Receive` takes a response from the iterator,
`HandleArbitration`, `Announce`, `HandleDigest` and `HandleError` are what
`_consume_stream` does with it, one action per critical section; `ConsumerStops` is its
`finally`. `Arbitration*` are the steps of `MasterArbitrationUpdate` with its polls of
0.1 s, `Shutdown*` those of `shutdown()`, and `Transmit` is the gRPC sender taking a
request from the bounded queue. `Poll` and `Clear` are the digest endpoints.

**BfRtClient** is a writable target and its client. `ConnectClose`, `ConnectReset`, `ConnectOpen`,
`ConnectDone` and `ConnectFails` are `connect()`; `Discovered` and `DiscoverFails` the
reading of the program that runs; `Initialize`, `SendProgram`, `ReplaceStream` and
`ReplaceReset` are `initialize_bundle`. The variable `threads` holds the threads of
*every* generation that still run, because `close()` waits for them for two seconds only.
What an event carries includes the program that emitted it, which the code does not
know: the property `NoStaleEvents` is about that.

**ProgramBuilds** composes the build store with its users: job threads, cleanup
(one action per read, one per deletion), `POST /init` (one action per step between
its commits), `POST` and `DELETE` of states, connections, and `Restart`, which ends all
of these at any point and keeps the disk and the database.

**Connections** models requests as threads with a program counter; who holds a lock
follows from where the threads are. `Snapshot`, `Admit`, `Recheck` and `Serve` are
`SwitchEndpoint.dispatch_request`; `Close` and `Forget` removal; `Add*`, `Connected` and `ConnectFails`
adding with its retries; `Persist` the commit after it; `List`, `RemoveAllBegin` and `Restore*`
topologies and imports. `Initialize` may close the channel of the switch it is admitted to and
open another.

**TableUpdates** applies the edits of a request one RPC at a time: those of a batch, or the
single one of a POST, DELETE or PATCH. An RPC can be refused because the
table does not admit it, refused at will, or applied with its reply lost. An edit that changes
nothing (`PatchNothing`) makes none, or only the read of its row (`Reads`): always on a Tofino, on a
BMv2 if the table has a direct meter (`DirectMeter`).

**Emulator** is `src/netsim`. `operation_lock` is taken without waiting, so at most one
operation `op` is under way and its program counter says where: the file is read
(`Refuse`, `Accept`, `AcceptJob`), terminals are closed (`CloseNext`, `CloseFails`, `Closed`), `run()`
goes through `Destroy`, `Parse`, `Create`, `Start` and, after a failure, `CleanUp`, and then
terminals are made and the job is filled in (`InitTerminals`, `Report`, `Finish`,
`Release`). What the code says of the network (`fields`, `net`, `status`, `topoFile`) is kept
apart from what runs (`alive`). `Fetch`, `Check`, `Send` and `LeaveLoop` are the steps of
`handle_message` and `run_cmd`, which take no lock of the emulator.

**NetworkSnapshot** is the export of one switch: `ReadEntities` reads a category, `Edit` is
another client in between, `Sanitize` omits what refers to something that was not captured,
and `Valid` is what an import demands. An entity is an atom with a category and the
entities it needs. **NetworkImport** extends it: `Stage` stages an upload of that archive,
`Reserve`, `Acquire`, `StartThread` and `Unreserve` are `deploy_import` with its two locks,
`Prepare`, `Load` or `Poll` (with `Deadline`) replace the network, `Connect` and `WriteCategory` are
`restore_switch`, and `Finish` and `Cache` the two steps of the `finally` of `_deploy_reserved`.
`Tick` lets the oldest stage or result expire, which the next request that calls
`_cleanup_stages` notices.

**LanguageSession** is the backend's side of the language service: `CreateBegin`, `CreateEnd`, `Delete`,
`Reap` and `Lookup` are the registry, `Begin`, `Answer` and `GiveUp` an exchange under its operation lock (validation,
barrier, deadline), `Drain` a poll, and `Serve` the server that takes a message, publishes and is read.
**LanguageClient** extends it with the editor: `Edit` and `CloseDocument` are `sync`, `Flush` and
`FlushReply` the two halves of `flush` around its `await`, and so on for `Request`, `Poll` and
`CreateReply`; `Reconnect` and `Dispose` leave a session whose requests go on unheard. `Lose` loses a request or an answer,
`Crash` ends a server. A text is the number of its version, a notice the version it is about, or none.

## 3. What the runs show

| Run | Instance | Properties |
|---|---|---|
| `copies` | two rows, one switch, one `POST /init` and one `POST /saved` | `StatesReplayable`: a state whose build was kept by something when it was written stays replayable |
| `progress` | two builds of a program, two switches, two `POST /init`, no rows, fairness | `HeldBuildsLoadable`, `RunningBuildsLoadable`: cleanup never deletes a build between validation and release, nor one a switch runs; `PrunedAreSuperseded`, whatever the clock did; `JobsEnd`, `RequestsEnd` |
| `race` | as `copies` | finding: see section 5 |
| `stream` | three digest lists of different size, one of them too large, queues of one, fairness | `AckedIsCaptured`, `Accounted` (bytes and drops), `EmptyOnceClosed`, `LossIsExplained`, `IsEventLog`: the connection implements the event log; `ArbitrationWakes`, `ConsumerEnds`, also with the arbitration queue full |
| `replace` | two programs, three digests, an operation after the connection, a buffer of two events, fairness | `NoStaleEvents`, `ErrorIsOwn`, `DeadStreamReported`, `Accounted`, `IsEventLog`, `ReplacedThreadsEnd` |
| `batches` | three keys, batches of three edits and of one; another client edits, deletes or inserts a row; one fault, no direct meter | `FailedBatchRestores`, `StaleRowRestored`, `SucceededBatchApplied` |
| `locks` | a Tofino and a BMv2 switch, two requests of any kind, two attempts to connect, fairness | `NothingLeaks`, `NotClosedWhileHeld`, `RequestsEnd` |
| `language` | two documents, two sessions in a row of which one fits, a queue of two, one edit, one lost call or crash, fairness | `ShownIsCurrent`, `BuffersAgree`, `DiagnosticsArrive`, `LeftSessionsEnd` |
| `lifetime` | as `language`, one session, no fault | finding: see section 5 |
| `removal` | as `locks` | finding: see section 5 |
| `emulator` | two topologies, three operations, two jobs that are remembered, two users of a terminal, fairness | `TerminalsRun`, `NetworkIsReported`, `ReadyIsRunning`, `AnswersStay`, `DeploymentsEnd`, `StoppedCommandsEnd` |
| `archive` | a switch with five entities that refer to each other, an edit during its export, three uploads, two requests to deploy, fairness | `ExportedIsImportable`, `CompleteIsFaithful`, `ReferencesRestored`, `DeployedOnce`, `ReservationsEnd` |

Every passing property is broken by at least one mutation of a modelled definition (`mutants` in
`PROJECT.json`); the faulty variants stand beside the definitions they replace and are
introduced by a comment that begins with "Faulty".

**Bounds.** All of them are constants. Two builds are enough for a build to be
superseded, two creation times for the clock to go forward, stand still or go back, two
requests to share or contend for a pin or a lock, two rows for a state and its copy.
`MaxResponses`, `MaxTaken` and `MaxOperations` bound how long a stream is followed: three
responses are an arbitration update and two lists that fill the buffer and evict from it, also after a
clear (one list that evicts several is in `replace`); an operation after
the connection leaves the threads of two generations alive (a second operation, such as a reconnection and then a
shutdown, is beyond TLC's time here; the theorems about `BfRtClient` bound neither). Queues hold one message so that they fill. Each
request of `Connections` runs once: a bounded number of requests in any interleaving, not
a bounded time. `MaxFaults` is one RPC that is refused at will or whose reply is lost, next to any
number of refusals that follow from the table. `Retries` is 2: a first
attempt, a last one. Three operations of the emulator are a first one and two that
replace what it left, with a history of two jobs that the third overflows. In `archive`,
one chain of references (member, group, table entry, direct counter) next to a constant entry
has every kind of reference; one edit during the capture falls before, between or after
its reads; three tokens fill a stage list of two again after expiry, a result cache of one
evicts, and two requests contend for a stage and for `_DEPLOY_LOCK`. In `language`, the editor starts with a
document and edits, closes, reopens it or opens another; a flush that closes one and opens the other
publishes more than the queue of two holds; the second session is asked for while the first may
still be registered (`MaxSessions` is 1), and the first is also asked for completions (`Asking`). The sizes of lists are such that one fits alone, one fits
with others, and one is refused.

**Fairness.** Only threads that the code runs are fair, each action under weak fairness:
the compile thread and its cleanup (the compiler answers or is killed after 600 s), the
handlers of requests that were begun, the consumer of a stream, a cancelled gRPC iterator
(which raises) and a caller that polls a queue with a timeout; an operation of the emulator
(files are local, a Tofino model has `TOFINO_START_TIMEOUT` to start, and `mn -c` is assumed to
end), a terminal's loop, which wakes every 0.1 s, and a deployment of an archive, whose calls of the
emulator and of the switch have timeouts and whose loop has a deadline. Each request of a language client goes on, on either side; an exchange whose server does not answer gives up
after `REQUEST_TIMEOUT`, the reaper runs every 15 s and time passes for idle sessions, but no server is
obliged to answer and no user to reconnect. A command in a
terminal, or a deployment that the loop polls, need not end. Nothing obliges a user to
send a request, a switch to answer, or a stream to end. In `ProgramBuilds` an initialization
waits for the prune lock under weak fairness; it gets it because there are finitely
many builds, and so finitely many cleanups; a user who compiles without end could, in
principle, keep it waiting, because Python's locks promise no order. `ArbitrationWakes`
does not use the deadline of ten seconds: `ArbitrationTimeout` is not fair.

**Deadlock** is checked in the runs of `ProgramBuilds` and `DigestStream`, where it says
little: a restart, or a poll, is always possible. It is not checked in the others, where every
request may have run or every bound is reached. That nothing waits for ever is what `JobsEnd`,
`ArbitrationWakes`, `ConsumerEnds`, `ReplacedThreadsEnd`, `DeploymentsEnd`, `StoppedCommandsEnd`,
`ReservationsEnd`, `DiagnosticsArrive`, `LeftSessionsEnd` and the two `RequestsEnd` state. A
cleanup, in particular, is not obliged to fail, so that one which waited for a request's lock would
be found (that is the mutant of `JobsEnd`).

## 4. What is proved

TLAPS proves these for every value of the constants that the named assumptions admit:
any number of builds, switches, requests, queue capacities and limits, and without the bounds of
the runs.

| Theorem | Property | Argument |
|---|---|---|
| `ProgramBuilds_proofs!HeldLoadable`, `RunningLoadable`, `StatesStayReplayable`, `OnlySupersededPruned`, `TypeCorrect` | `HeldBuildsLoadable`, `RunningBuildsLoadable`, `StatesReplayable`, `PrunedAreSuperseded` | see below |
| `DigestStream_proofs!NoAckWithoutCapture`, `ClosedKeepsNothing`, `LostMastershipExplained` | `AckedIsCaptured`, `EmptyOnceClosed`, `LossIsExplained` | `ConnectionInvariant`: what the consumer and `shutdown` have done where they are |
| `DigestStream_proofs!ConnectionIsEventLog`, `ConnectionReadersMissNothing` | `IsEventLog` | each action is an arrival, a loss or a page of the event log, or leaves it alone; the lemma `PageIsPrefix` says what a page is |
| `BfRtClient_proofs!EventsAreFresh`, `LateThreadsAreSilent`, `DeadStreamsAreReported`, `ConnectedTargetsHaveAChannel` | `NoStaleEvents`, `ErrorIsOwn`, `DeadStreamReported` | `ClientInvariant`: generations are numbered once, and only the thread of the current one writes |
| `BfRtClient_proofs!ClientIsEventLog` | `IsEventLog` | as above, across reconnects |
| `Controller_proofs!TypeCorrect`, `ChannelsDoNotLeak`, `AdmittedKeepTheirChannel` | `NothingLeaks`, `NotClosedWhileHeld` | see below |
| `Controller_proofs!FailedBatchesRestore`, `StaleRowsAreRestored`, `SucceededBatchesAreApplied`, `RowsTyped` | `FailedBatchRestores`, `StaleRowRestored`, `SucceededBatchApplied` | see below |
| `Emulator_proofs!TerminalsBelong`, `NothingRunsUnreported`, `ReadyRuns`, `AnswersAreKept`, `TypeCorrect` | `TerminalsRun`, `NetworkIsReported`, `ReadyIsRunning`, `AnswersStay`, `TypeOK` | see below |
| `NetworkImport_proofs!ExportsAreImportable`, `CompleteMeansRestored`, `ReferencesComeFirst`, `TokensDeployOnce`, `TypeCorrect` | `ExportedIsImportable`, `CompleteIsFaithful`, `ReferencesRestored`, `DeployedOnce`, `TypeOK` | see below |
| `DigestStream_proofs!CapturesAreAccounted`, `BfRtClient_proofs!CapturesAreAccounted`, `TypeCorrect` of both | `Accounted` | see below |
| `LanguageClient_proofs!ShownDiagnosticsAreCurrent`, `ThreeCopiesAgree`, `TypeCorrect` | `ShownIsCurrent`, `BuffersAgree` | see below |
| `DigestStream_proofs!LogReadersMissNothing` | – | the promise of the abstract log, `EventLog` |

*Builds.* That a pinned build exists is not inductive: cleanup may have
read the pins before the request pinned. The invariant relates the two. `pins[b]` is the
number of requests between `InitPin` and `InitUnpin` for `b` (the prune lock makes
changes of it atomic with respect to cleanup), so a build that is pinned while cleanup
runs was pinned when cleanup read, and is in `kept` once it has. A switch that
changes to a build during cleanup has that build pinned, and so does a row that is
written, unless it is a copy (`unanchored`): the order rows, switches, pins is what makes
this work. Counting requests needs `Cardinality`, hence the assumption that `Requests` is finite.

*Connections.* `IInv` says who owns what: numbers of connections are given once
(`Numbered`), a lock has one holder (`Exclusive`), an open channel belongs to a registered
connection, to a request that is about to register or close it, or was reopened (`Owned`,
`NoLeak`), and only the holder of `connections_lock` changes what is registered
(`Changing`). The lemma `LocksExclude` gives `NotClosedWhileHeld` from it: who closes
the channel of a Tofino has its operation lock.

*Table updates.* For batches of any length and any number of requests, from `AbsentAssumption` and
`BatchesAssumption`: no action is `Absent`, and an insertion is a batch of its own (a POST); the table may have a direct meter or not. `RowsInv` says
for a request whose rows no other edits what they are where it is. `Forward`: while edits are applied, the
rows are `After(before, batch, n)`, what the first `n` edits mean, and each of these was one the table
admitted (`Applied`), a read included, which needs its row; between the two RPCs of a move the row is gone from its old key (`Taken`). `Backward`
holds as long as no repair was refused at will, no reply lost, and the client had read its rows (`Known`):
while edits are undone, a key has a row if and only if it had one after the edits that are left (`Alike`), and
what these do not write is as `before` (`Kept`). Equality would be too strong: a row that was edited twice and
then put back has, in between, the action its client had read. `Alike` is what makes every repair one that the
table admits (`UndoingState`), and `Kept` is equality with `before` once nothing is left. That other requests
change nothing of this is the lemma `FitsByRows`. `SucceededBatchApplied` folds the batch over the table; that
the fold is `After`, one edit after the other, is proved like the sums below: by a smallest set of numbers at
which two folds differ (`FoldsAgree`) or none exists (`Foldable`).

*Stream threads.* A thread is identified by its generation; the invariant states that
generations of running threads differ, that none exceeds the current one, and which
programs the stream of the current generation can have seen since it was opened.

*Accounts.* `Counted` adds to `Accounted` that the counters are numbers and that what is kept has a size:
eviction goes by `bytes`, so it makes room only because `bytes` is the sum of the sizes kept. The sum is a
fold over a set, in an order that `CHOOSE` picks: that a list more adds its size, in whatever order
(`EventBuffer_proofs`), is proved by a smallest counterexample among the subsets of the buffer, where an
induction would be used by hand.

*Language service.* `IInv` relates the three copies of a document. Per session, `SessionAgrees`: what the
server has been told, with what is left of the current batch, is what the session will remember,
and a session at rest has nothing left. Between client and session, `Linked`: a client's request holds the
session's lock while it is inside (`LocksHeld`), is listened to if its session is the client's
(`Listening`), nothing was sent to a session before it is there (`NotYetAsked`, `Connecting`), a client that
is gone asks for nothing (`Quiet`), and what the client believes to have sent is what the session has, or
will have once the flush under way was served (`SentAgrees`). That a batch
brings the old texts to the new ones is the lemma `DifferenceFlushes`, for which the documents are finite.
`ShownIsCurrent` is part of the invariant: what is shown was either received for the version that was
current, or is cleared by the flush that changes it.

*Emulator.* The properties speak of moments between operations; the invariant says what
holds at each point of one: `Reported` relates `alive`, `net`, `fields` and `status` to the program
counter (a partial network is known only between `Create` and `CleanUp`), `Offered` says that no
terminal is on offer while the network is replaced, and `Listed` that jobs are numbered like the
operations and only that of the current one is unfinished. That the history keeps its limit
needs `Cardinality` and the least element of a set of numbers (`Least`, from the
well-foundedness of the numbers).

*Archives.* `Captured`: what stayed on the switch during the capture was read as far as it has come,
if no read failed; sanitizing then omits nothing of it, because the needs of an entry that
stayed have stayed. `Owned` and `Counted`: each reservation has its own stage, and a token that
may still be deployed has not been; the mutual exclusion by `_DEPLOY_LOCK` (`Alone`) is not what
prevents a second deployment, the reservation is. `Restored`: as long as nothing
failed, the categories before the next one are on the switch, and what an entry
needs belongs to them.

**Only model-checked.** Liveness (`JobsEnd`, `RequestsEnd`, `ArbitrationWakes`, `ConsumerEnds`,
`ReplacedThreadsEnd`, `DeploymentsEnd`, `StoppedCommandsEnd`, `ReservationsEnd`, `DiagnosticsArrive`,
`LeftSessionsEnd`): TLAPS does not prove liveness under fairness or reason about
`ENABLED`. Every invariant and action property of a passing run is proved.

Type invariants are not among the properties of the runs: that of each of the eight components is
proved (`TypeCorrect`, and `RowsTyped` for `TableUpdates`).

## 5. Where code and text disagree

* **`race` / `NeverNeither`.** The comment at `program_builds.py:290` says that a build is
  either pinned or visible to cleanup's reference check, "never neither". `POST /saved`
  stores a state too, without a pin: it reads the source row, and commits the copy later. If
  the source is deleted and a newer build of the program is cleaned up in between, the copy
  refers to a build that is gone. So does the copy that a re-initialization makes of a saved
  state that was given another build and then deleted meanwhile. `StatesReplayable` is the
  claim that does hold.
* **`removal` / `ServedIsRegistered`.** `test_native_failure_paths.py:147` is named
  `test_native_requests_finish_before_the_connection_is_removed`, and its handler asserts (line
  161) that the connection it is served on is the registered one. `deleteSwitchConnection` shuts
  the target down, which takes and releases the operation lock, before it deletes the
  reference. A request that waited for the lock and gets it in between passes the re-check,
  is served on a connection that was shut down, and is no longer registered before it ends.

* **`lifetime` / `EarlierLifetimeIgnored`.** `languageClient.js:67` says of a document that is opened
  again that its old version is never reused, since "that could skip changed text or accept
  diagnostics from its earlier lifetime". `receive()` (line 42) also accepts diagnostics without a
  version, and those are what the server publishes when a document is closed
  (`adapt-server.mjs:156`, and `:131` for one that had errors). A poll that drained such a notice
  before the flush ended, and whose answer arrives after the document was opened and analysed again,
  clears the diagnostics that are shown, until the next edit. The versions do what the comment
  wants for everything that has one: `ShownIsCurrent`.

Smaller divergences, seen while modelling and not claims of a run:

* `CHANGELOG.md:48` says that failures of terminals do not "clear the prior topology before
  replacement begins". That holds for asynchronous deployments; `POST /topology/load` sets
  `topo_file` to `None` when closing a terminal raises what is neither a `ValueError` nor an `OSError`
  (`load_topology.py:40`), and the old network keeps running (`FileAfter` in **Emulator**).
  After an `OSError` *during* the replacement, conversely, `topo_file` names a network that does not run.
* When `mn -c` fails, the description and status of a network that was stopped stay
  (`dirty`, the exception of `NetworkIsReported`).
* An operation whose `close()` fails leaves terminals stopped in a network that keeps running.
* A client that has read `ready` may be refused with 409, since `operation_lock` is released after it.
* A second asynchronous request for a token may be answered `pending` although the first is
  about to give the token up (see the hazards).

## 6. What is abstracted or left out

*Abstracted in the modules.*

* Digest payloads, names and table data are members of small sets; a list has a
  digest and a size. Meters and counters of a row are part of its action.
* `HandleDigest` captures and queues the ACK in one step with respect to `closed.set()`;
  `ShutdownCancel` merges the cancellation of the stream and the closing of the channel; `Close` of
  `BfRtClient` merges invalidating, cancelling and joining, where the join may time out.
* The operation lock serialises the operations and the endpoints of a Tofino, so that these are
  not interleaved with each other in `BfRtClient`, only with the threads. An
  initialization after a shutdown is allowed: a request admitted late does it.
* Only the modelled client changes the program of the device; read-only targets are not modelled.
* In `ProgramBuilds` the switches' references are read in one step, the manifest is
  written and validated in one step, and a removal waits for the operation lock in one step
  (`Connections` refines the latter). A job that has ended stays known; the code forgets old
  ones.
* In `Connections`, taking `connections_lock`, reading and releasing it is one step;
  requests for a BMv2 switch hold no lock and end at their snapshot; the lookup of
  `init.py:52` is merged with the load; a failing commit is modelled for `POST /switches` only.
* In `TableUpdates` the reads before an update are merged with its first RPC. The read of an edit that
  changes nothing, on a Tofino or in a table with a direct meter, is its only RPC and may fail. A row that the
  code refuses itself (a prefix too long, a range upside down) is refused like one that the switch refuses.
* In `Emulator`, making and starting the nodes is one step each, which succeeds or fails
  whatever it had done so far; GET requests only read and are left out (`GET /topology` reads the
  fields without a lock while they are replaced). A step of `close_clis` is one terminal.
* In `LanguageSession`, looking a session up and taking its operation lock is one step, and so are leaving the
  registry and being closed, and a server's message and the reading of what it publishes; every
  document is taken to have errors, which is when most is published. Sizes, paths, methods, framing and the answers to
  completions are left out. In `LanguageClient` a client that polls keeps its session from becoming
  idle; its timeouts are longer than the backend's deadline, so that an answer that does not come was lost;
  an edit is one document's.
* In `NetworkSnapshot` reading a category is one step, which yields all or a part of it; the
  values of entities, duplicates, the ZIP file and its hashes are left out. In `NetworkImport` an archive has one
  P4Runtime switch, a token stands for an upload of the same archive, and the writes of a category are one step.
  During a restoration only the import writes to the new switch: a BMv2 switch has no lock that would
  keep another client out, so `CompleteIsFaithful` and `ReferencesRestored` are about imports that nobody disturbs.

*Not modelled*: the components with status `not_modelled` in `PROJECT.json`, each with its
reason there. In short: queue settings, the workspace and native multicast have
state worth a model and have none yet (see the plan); conversions, single RPCs, pure I/O, external
processes, packaging and the rendering of the frontend have none that order or failure could spoil.
About three fifths of the repository's Python lines are Thrift stubs (`src/runtime/thrift`) that a
compiler generated; they have no behaviour of this system and are not mapped. Archives of
Tofino switches and the replay of queue settings in an import are not modelled either: native reads
never report digests as complete, so the reports of such imports are never `complete`.

## 7. Plan

Done: program builds with their users, the stream connection, the BF Runtime client, connections, table
updates and the abstract event log; the emulator; network archives; the language service. Left, in the order of what
matters most:

1. **QueueSettings**: two fields written one after the other, defaults against per-port overrides,
   and what the backend records of a write that failed half-way or lost its reply; with
   the snapshot and replay of an archive.
2. **WorkspaceSave**: revision check and atomic replacement against an external editor.
3. **Multicast** of the Tofino: nodes and groups, several writes with roll-back, as `TableUpdates`.
4. **DigestViewer**: the frontend's polls, cursor and clear composed with the event log, and with a
   connection that is replaced and starts numbering again.
5. Pure algorithms: encoding of integers by width, value ranges, checked against reference
   definitions over bounded inputs.

Abstract specifications worth stating next: an exactly-once import (of which `DeployedOnce` is the safety
half), and an atomic batch for `TableUpdates`, of which `FailedBatchRestores` and
`SucceededBatchApplied` are the end points. Theorems: the refinement
of the atomic batch, no lost edit in the workspace. Bounds will be as here: two actors, two items and one
fault each.

## 8. How to run it

```
tlc -workers 2 -config MCProgramBuilds_progress.cfg MCProgramBuilds
tlapm ProgramBuilds_proofs.tla
```

and likewise for the runs and proof modules in `PROJECT.json`. The longest run (`language`)
takes about three minutes on two cores, and the largest (`copies`) visits 2.7 million distinct states.
