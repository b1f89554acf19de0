# Formal verification of the Atlas recorder

TLA+ models of the evidence recorder in `src/src/atlas`: what it promises about
the evidence it keeps, how its asyncio tasks, files and failures could break the
promise, and what TLC and TLAPS say about it. Paths below are relative to
`src/src/atlas` unless they begin with `src/`.

## 1. The system

Atlas connects to the Deribit exchange over a WebSocket, wraps every market
message and every event of its own life in a numbered envelope, publishes it on
an in-process bus, and appends it to gzip partitions of a session archive. An
archive can be validated later and replayed through the same kind of bus.
Everything runs in one process and one asyncio event loop; concurrency is the
interleaving of tasks at their `await`s. Persistent state is the session
directory.

| component | code | state | operations |
|---|---|---|---|
| archive lifecycle | `core/archive_state.py`, `evidence/observation.py` | `ObservationSession.state` | `transition_to` |
| event bus | `bus/event_bus.py` | subscribers, closed | `subscribe`, its unsubscribe, `publish`, `close` |
| evidence pipeline | `pipeline/pipeline.py` | running flag, sequence number, data quality counters | `ingest`, `start`, `stop` of the pipeline and of `PipelineRunner` |
| JSONL sink | `storage/jsonl_sink.py` | open gzip handles, counts, the files | `open_session`, `write`, `flush`, `finalize_session`, `close` |
| integrity, reader | `storage/integrity.py`, `storage/reader.py` | none | `validate_archive`, `read_events` |
| WebSocket client | `adapters/deribit/client.py` | socket, reader task, connection state, attempt, token, pending requests, lock, shutdown event | `connect`, `authenticate`, `enable_heartbeat`, `request`, `_read_loop`, `_reconnect`, `_cleanup_connection`, `_emit_gap_if_needed`, `disconnect`, `run_until_shutdown` |
| adapter, subscriptions | `adapters/deribit/adapter.py`, `subscription.py` | discovery, plan, last result, message count | `connect`, `discover`, `subscribe`, `subscribe_all`, `resubscribe`, `disconnect`, `_on_reconnected`, `_on_market_message` |
| discovery, instruments | `adapters/deribit/discovery.py`, `instruments.py` | none | requests for lists of instruments, their selection, names |
| live recorder, metadata | `recording/live.py`, `recording/metadata.py` | the tasks it started, tracked connection events | `start`, `stop`, `_metadata_flush_loop`, the tracker's `observe_event` and `flush_*` |
| health, status | `recording/health.py`, `status.py` | rates and last message | `record_message`, `snapshot`, `load_session_status` |
| replay | `replay/engine.py`, `replay/cursor.py` | cursor state, step request, stop flag | `run`, `pause`, `resume`, `step`, `stop` |
| envelopes, parsing | `evidence/builder.py`, `core/*`, `messages.py` | none | conversions |
| command line, settings, logging | `cli.py`, `config/`, `logging/` | none | I/O |

How they interact. The client's reader task hands a message to the adapter,
which calls `ingest`; the client's own events (`connection.*`, `gap.detected`)
take the same way. `ingest` numbers the event and publishes it; the bus calls
the archive handler (sink and counters) first, then the metadata handler and any
other monitor, and an exception of any of them goes back through `publish` and
`ingest` to the task that emitted. So a write error of the archive becomes an
exception in the middle of a reconnect, and a stopped pipeline makes every late
emission raise. `LiveRecorder` owns the order in which all of them start and
stop; the client's reader and the runner go on by themselves meanwhile.

What is hard about it:

- reconnection: `_cleanup_connection` runs in the reader that is being replaced,
  in `disconnect()`, and in several reconnecting tasks at once; each awaits a task
  or a close and then overwrites `_reader_task`, `_ws` and `_state`;
- publishes that overlap when a subscriber suspends, and subscribers that come
  and go meanwhile;
- a stop that races with a reconnect, with the metadata flush loop, and with
  events that are still to be emitted;
- crashes and failing writes between any two steps of the sink, with data in
  buffers and gzip files that have no end;
- replies in any order, heartbeats in between, batches refused or granted in part,
  and a connection that ends between any two requests of start or of a
  resubscription;
- five counters and five files of one session, each written by another component at
  another moment;
- operator calls that reach a replay while it waits, sleeps or publishes.

What makes each part correct: the archive is an ordered log without silent holes
that nothing extends once it is sealed; a COMPLETE archive that passes the
validation reads back whole; a client that is not stopped comes back to exactly
one subscribed feed and reports the gap, and one that is stopped ends all its
tasks; each connection is asked for every channel of the right plan, and the adapter
knows which it got; the files agree with the archive and with one another; a replay
lets through what its operator asked for and ends.

## 2. The modules

| module | models | configurations |
|---|---|---|
| `ArchiveStates` | the lifecycle table and `transition_to` | - |
| `EvidenceLog` | abstract: an ordered log that is sealed | - |
| `EvidencePipeline` | bus, pipeline, runner | `MCEvidencePipeline.cfg` |
| `EvidencePipelineProofs` | proofs about it | - |
| `DataLemmas` | lemmas: induction over sets of numbers, sums over finite sets, lists without repetition | - |
| `DeribitClient` | the client's tasks, the part of the adapter they call | `MCDeribitClient{,Close,Refusal}.cfg` |
| `DeribitClientProofs` | proofs about it | - |
| `Discovery` | selection of instruments, channels, batches: operators | - |
| `DiscoveryProofs` | lemmas: what these operators compute | - |
| `DeribitAdapter` | start, subscription and resubscription, message by message | `MCDeribitAdapter{,Heartbeat}.cfg` |
| `DeribitAdapterProofs` | proofs about it | - |
| `JsonlSink` | the sink, the files, validation and reading | `MCJsonlSink.cfg`, `MCJsonlSinkGate.cfg` |
| `JsonlSinkProofs` | proofs about it | - |
| `Recorder` | start, flush loop, stop, the session's files and their status | `MCRecorder.cfg`, `MCRecorderStatus.cfg` |
| `RecorderProofs` | proofs about it | - |
| `Replay` | engine, cursor, operator | `MCReplay.cfg`, `MCReplayStep.cfg` |
| `ReplayProofs` | proofs about it | - |

In all of them a step is what a task does from one await that suspends to the
next: an `await` of something that is ready does not give the loop away, so
nothing comes between. A definition that says "Mutant of X" is a faulty variant
of X: put in its place, it must break a property. Each is used for that alone.

### EvidencePipeline

A task in `Tasks` calls `ingest`. `seq`, `running`, `state`, `written` are the
fields of the pipeline and its session; `subscribers` and `closed` are the bus's.
A publish that has called a suspending monitor is kept as the task's `event` and
the `rest` of its snapshot. `seen[h]` is what each handler took in; for the
archive this is the order of the lines written. `Ingest` has the three ways an
`ingest` can go: refused by a closed bus (`Refused`), published to the snapshot
until a monitor suspends (`Published`), or ended by a handler that raises
(`PublishRaised`; the handlers after it are not called). `Resume` is the rest of
a suspended publish. `Start` and `Stop` are the `PipelineRunner`'s, each with its
lifecycle event and the session's transitions. `Stop` is guarded by the monitors
having left, because `LiveRecorder.stop` unsubscribes first. The module has
sequence numbers in place of events. `Close` may come at any moment; no code in
`src/` calls it, so every behaviour of the program is one without it.

Properties: `ArchiveInOrder` (order of numbers, none twice), `NoSilentLoss`
(a missing number raised at its caller), `WholeAudience` (a publish that ended
reached exactly its snapshot, once each), `LossIsCounted` (received - written is
never less than what is missing), `StoppedIsLast`, and `ArchiveIsALog`: the module
implements `EvidenceLog` under `log <- seen[Archive]`, `sealed <- state in
{FINALIZING, COMPLETE}`.

### DeribitClient

Task n is the reader of socket n; `main` is the recorder that stops the client
and `runner` is `run_until_shutdown`. `pc` says what each task awaits (the module's
header lists the values), `client` groups the object's fields, `sock` and
`subscribed` are the outside world, `troubles` counts what has gone wrong; `Scenarios`
says which troubles may come together, and how often.
`Cleanup`/`Sweep`/`EndCleanup` are the three parts of `_cleanup_connection` between
its awaits; `Reconnect`, `Wake`, `Enter`, `Acquire`, `Opened`, `AuthReply`,
`HeartbeatReply`, `Resubscribed` follow a reconnection to its end, and
`ConnectRaises` is where any exception on the way goes. `Accept` lets the server take
up (batches of) a subscription before its reply arrives, if it ever does, so that the
new feed flows while the task that asked for it may still fail and reconnect. `Refusing` is the
stopped pipeline, which makes each emission raise.

An event that the archive cannot write raises too, and where it goes depends on the
event. Those of an attempt (`connection.open`, `connection.authenticated`,
`heartbeat.enabled` and `.setup_failed`, `gap.detected`) are emitted inside the `try`
of `_reconnect`: `EmissionRaises` counts such a raise as a fault of the attempt, which
is tried again from wherever it was (`Opened` raises with `_ws` set and no reader,
`AuthReply` with the token applied). Nobody catches what `connection.closed`
(`client.py:329`, in the handler of an exception) or `connection.reconnect`
(`client.py:363`, before the `try`) raises: the reader ends with nobody left to
reconnect, which `ConnectionLost` and `EndCleanup` may do at any time. And
`connection.shutdown` (`client.py:432`) makes `disconnect()` raise before its cleanup:
`Disconnect` then leaves `main` at "aborted", every reader and socket as it was and the
pipeline running. `fallen` is the history of these three. They need no room in a
scenario.

A socket number can be used again when no task refers to it any more (`Free`), so
`MaxSockets` bounds the sockets in use at once and not the reconnections: the
liveness properties have no artificial end. A socket that is not free belongs to a
reader, to a request or to the current connection. In the scenarios with at most one
loss three are never used up: `Opened` always finds a free one, which TLC confirmed
as an invariant. With two losses no number is enough: two tasks that reconnect at
once can go on disturbing each other and leave one reader after the other behind.
There `MaxSockets = 3` is a real bound: a connect that finds no socket stays in its
handshake until one is given up. The invariants were also checked with
four (408,160 states).

Where the code promises nothing a property says so in its hypothesis: `OneFeed`,
`GapReported` and `Maintained` hold while no two tasks reconnect at once
(`AtMostOneReplaced`), `SettledIsServing` and `Maintained` without a normal close or a
refused subscription, `GapReported` without a normal close or a handler that raised,
and the last three while no task has ended at an event (`fallen`): that such a client
has no feed for the rest of the recording is an observation of section 5. `OneFeed` needs
no such hypothesis, and `StopEndsAll` has none at all: also a `disconnect()` that
raises has set the shutdown, at which every reader and every reconnection ends.
The two runs with a violation drop the hypothesis about closes and refusals.

Not in it: expiry and refresh of tokens, invalid JSON, the event `heartbeat.failure`
(`client.py:309`), the depth of the recursion of `_reconnect`. Of time it keeps only
whether a disconnect is noted.

### Discovery and DeribitAdapter

`Discovery` has the pure functions from the server's lists to the batches of channels
(`Plan`). A list that the code makes from another is given by the places it takes
(`Kept` for a comprehension with a condition, `Sorted` for the stable `list.sort`, both
through `Arranged`), not built element by element: without recursion the operators can
be reasoned about. `DeribitAdapter` is `LiveRecorder.start` from its `connect` on, and the task
that reconnects after a loss, one request at a time: `phase` is `asking` while a
reply is awaited, `request` and `reply` are that request and what its future has,
`pending` the ids in `_pending`, `asked` what the server has yet to answer. `TakeIn` is
the dispatch of `_handle_server_message`: a reply goes to the future of its id, or
falls through to the adapter's `_on_market_message` (`handled`). The server may answer
in any order, with an error, with a part of a batch, or never (`Reply`, `ReplyWorse`,
`Forget`); `TestRequested` is a heartbeat with its answer, which takes a number and
whose reply nobody awaits. `granted` and `refused` are the server's view of the
current connection. `Abandon` is an attempt that raises: start ends with it, a
reconnection begins anew. What several tasks do to each other is `DeribitClient`'s; here
losses come during start or while recording, also while batches are asked for the
first time; timeouts, error replies and failed opens come at every point of a
reconnection.

Properties: `RepliesMatch` (a request never gets the reply to another),
`LastResultIsTrue` (`last_result` is exactly what the server granted on this
connection, each channel once, and the batches noted as failed were refused),
`PlanIsAsked` (a connection that records was asked for every channel, whatever was
refused), `PlanIsRight` (the plan against a definition without sorting or slicing: the
index first, no channel at two places, and exactly the channels of the chosen
instruments; if no supported type of channel is set, no instrument can be seen in the
plan and the clauses about them are void),
`StartEnds`, `LossIsRepaired`.

### JsonlSink

`buffer` and `disk` are the lines of each partition in its handle and in its file;
`ended` are the files whose gzip stream is complete, `headed` those that are not
empty. A file that is being rewritten is `torn` between its truncation and its
write. `Kill` drops the buffers, `Abandon` is an exception that ends the
interpreter (it closes the files), `Damage` loses, cuts or alters a file
afterwards. `WriteFails` has the three outcomes of an `OSError` in `write`.
`Verdict` is `validate_archive` (without `strict_sequence`), with "raises" where
gzip raises `EOFError`; `ReadFiles`, `ReadRaises` and `TimesRead` are
`read_events`. A checksum is modelled as the content it was computed from, which
is to assume that SHA-256 has no collisions.

### Recorder

The recorder's phases against one reader of the client, with only the control
that matters to metadata: what the reader emits, in which order, and where it goes
when the emission raises (`Emits`). `start` may raise at each of its steps (`StartFails`
and the second outcomes of `StartRunner`, `Connected` and `Started`). `tracked` is the
tracker's list, `archived` and `markets` what the archive holds; `session`, `manifest`,
`sidecar` and `subscriptions` are the four files of the session's metadata, and `torn`
those of them that are cut off. The events
`connection.closed`, `connection.reconnect` and `gap.detected` are told apart by their
numbers; of `largest_gap_seconds` only whether it is 0. Each counter is kept where the
code keeps it: reconnects by the client (`metric`), received by the pipeline, written
by the archive handler, `lines` by the sink, `messages` by the adapter, `health` by
the monitor. `Lost` is an ingest that raises, before or after the line was written.

The files are written one after the other: `session.json`, then `reconnects.json`, by each
turn of the flush loop (`live.py:135`, `:136`) and again when the client is disconnected
(`live.py:208`, `:209`); then `manifest.json` and `session.json` once more by
`finalize_session` (`jsonl_sink.py:197`, `:202`). Each of these writes, and that of
`subscriptions.json`, can fail: the file is then left as it was, or `write_text` has
cut it off already (`CutOff`), and those after it are as they were. `FlushCut` is a flush
that ends so, at its first or its second write; `Finalizes` has such an end for both of
its writes. A kill in the middle of a step leaves the files as a write that fails there
does, so that a state of the model is also what a process that was killed leaves: the
failing step's successor, in which the recorder goes on, has the same files. A failed
write ends the flush loop (`flushing`), for good and unseen: `stop` does not await a task
that is done. `SessionStatus` is `load_session_status` over the files as they are;
it has an answer when `session.json` and `reconnects.json` are not cut off (`Readable`),
and takes the count of `session.json` if the manifest is.

Properties: `ObservedIsArchived`; `FilesAgree` (the files that can be read never
contradict one another, wherever the process was killed or a write failed, and a
recorder that has stopped leaves them all readable); `CountsAgree` (written, lines and
received of a session whose manifest is complete, or that was stopped, are ordered, and
equal if nothing failed); `FinalIsFinal`. `FilesAgree` rests on the order of the two
writes: its mutant writes `reconnects.json` first. A kill inside `open_session`, which
writes the first files, is `JsonlSink`'s.

### Replay

The events are 1..N; `paced` are those that are preceded by a sleep, chosen at
the start. The operator is another task of the loop, so its calls come when the
run awaits. `let`, `steps` and `late` count for the properties.

## 3. The runs

Runs that pass:

| run | states | shows |
|---|---|---|
| `pipeline` | 524,806 | two tasks, two monitors of which one suspends, four events: all the properties of EvidencePipeline, and that it implements EvidenceLog |
| `client` | 33,688 | one loss with two further faults, among them events of an attempt that cannot be archived; a normal close, a fault, a refusal and a raising handler in any order; two losses, the second at any moment: `OneFeed`, `SettledIsServing`, `GapReported`, `Maintained`, and `StopEndsAll` when stopped at any moment; the three events nobody catches may raise in each |
| `adapter` | 39,708 | start and up to two reconnections over three lists of futures: the six properties above |
| `sink` | 6,987 | crashes between any two steps, failing writes, damage: `CompleteIsValid`, `ValidIsWhole`, `LossWindow` |
| `replay` | 4,898 | four operator calls at any await of a replay of three events: `OneWithoutStep`, `OneAfterStop`, `StepAdvances`, `PlaysToItsEnd` |
| `recorder` | 4,520,257 | start, stop, flush loop, reconnects, market messages, failing writes of the archive and of each metadata file, before or after it is cut off: `ObservedIsArchived`, `FilesAgree`, `CountsAgree`, `FinalIsFinal` |

Runs that end in a violation, each of something the repository says of itself:

- `client_normal_close` (`AlwaysRestored`). The server closes with code 1000 or 1001;
  `async for` ends without an exception, `_read_loop` returns and nobody reconnects,
  while `run_until_shutdown` sleeps until it is stopped. `client.py:438`: "Maintain
  connection until disconnect() is called."
- `client_refused_resubscribe` (`SettledIsSubscribed`). `_on_reconnected` ignores what
  `resubscribe` returns; after an error reply the client is connected, silent, and
  nothing will change that. `src/CHANGELOG.md:79`: "Auto re-subscribe after WebSocket
  reconnect".
- `adapter_heartbeat` (`OnlyMarketIsEvidence`). Each heartbeat is answered by a
  `public/test` with an id that no future waits for; its reply falls through
  `_handle_server_message` (`client.py:292`), is archived as MARKET in the partition
  `_market` with the stream "unknown", and counts as a market message: a silent feed
  is never stale while heartbeats come. `adapter.py:229`: "Forward market subscription
  messages as evidence."
- `sink_gate` (`GateHolds`). The manifest of a killed recorder lists no partition:
  the validation opens no file and passes, and `read_events`, which then takes every
  file, raises `EOFError`. `integrity.py:249`: "Full pre-replay validation gate."
- `replay_step` (`StepServed`). A step requested while an event is being published
  is consumed by that event. `cursor.py:61`: "Allow one event through while paused."
- `recorder_status` (`StatusCountsEvents`). `load_session_status` prefers the manifest's
  count, and the manifest that `open_session` writes has none: `atlas status` shows
  0 events for every recording that runs or was killed. `status.py:49`: "Load status
  from flushed session metadata on disk."

### Bounds

The proofs of section 4 remove every bound from the invariants; the bounds below matter
to the liveness properties, to the runs with a violation, and to how much TLC's agreement
with the theorems is worth.

- `MaxSeq = 4` in the pipeline: a start, two publishes that overlap, a stop. The
  order and audience properties are about pairs of events and pairs of tasks.
- `MCScenarios`, one and two losses: the interference of cleanups is between two
  reconnections; a third begins in the same states. Two faults: one inside the lock
  and one after it, each an open, a request or an event that fails. The events that
  nobody catches are not bounded: each ends a task. `MaxAttempt = 2` leaves the delay below, at and beyond its maximum.
- `FlushEvery = 2`, `MaxSeq = 3` and two partitions: a flush, writes before and after
  it, a flush that fails in one of two files.
- Three events and four calls: pause, step, step, resume around one event and its
  successor; the bounds of `OneWithoutStep` and `OneAfterStop` are reached.
- The adapter: `BatchSize = 3` and `FuturesCount = 2` against lists that give plans of
  four, six and seven channels, so two or three batches of which the last is or is
  not full; no futures at all, two with equal expiries, more than asked for, one
  inactive, no perpetual. Two losses: one in start or in the first recording, one
  after it; one fault, one refusal and one heartbeat, at any moment.
- `MaxEvents = 9` in the recorder: started, connected, subscribed, a market message, a
  full loss-and-reconnect (three events), shutdown, stopped. The failing metadata writes
  need no bound: each ends the flush loop, start or stop. The status run needs three
  events and has six.

### Fairness

`DeribitClient!FairSpec`: the loop runs each task that can go on (`WF` of `Step` and
`Read`, which include the end of sleeps, of timeouts and of closes: each has a
limit in the code, the request timeout and the library's handshake and close
timeouts); strong fairness of `Acquire`, because `asyncio.Lock` serves its waiters in
turn; the answers of the server are in `Read`. Losses, faults, refusals and raising
handlers are not fair and are bounded: "it comes back" is claimed for a finite
number of faults. Nobody has to stop the recorder; once it has begun to, it goes on
(`WF` of `Disconnect`, which may raise). A reader that sees the shutdown does so at its
next message: `WF` of `Read` has the server send one on a socket that stays open, at
the latest its next heartbeat. `DeribitAdapter!FairSpec`: the client's tasks go on, sleeps and
timeouts end (`WF` of `Client`, in which `TimesOut` is always enabled for a request
that the server has forgotten), and the server answers what it does not forget; its
faults are bounded. `Replay!FairSpec`: the run's task goes on, the subscribers
return or raise; the operator is free.

Deadlock checking is off where the program really stops (a stopped client,
recorder or replay, an ended process, a finished session).

## 4. The proofs

Every invariant and every action property that a passing run checks is proved, for all
values of the constants that the modules' assumptions admit. Each proof module has
one invariant `IInv` (`EvidencePipelineProofs` two) that is inductive; TLC checked it, as
an invariant of the run of the same component, before it was proved.

| module | theorem | property |
|---|---|---|
| `EvidencePipelineProofs` | `TypeCorrectness`, `ArchiveOrder`, `NoLoss`, `StoppedLast`, `WholeSnapshot`, `LossCounted` | `TypeOK`, `ArchiveInOrder`, `NoSilentLoss`, `StoppedIsLast`, `WholeAudience`, `LossIsCounted` |
| | `ImplementsLog` | `Spec => ArchiveIsALog` |
| `DeribitClientProofs` | `TypeCorrectness`, `SettledServes`, `OneFeedOnly`, `GapsAreReported` | `TypeOK`, `SettledIsServing`, `OneFeed`, `GapReported` |
| `DeribitAdapterProofs` | `TypeCorrectness`, `RepliesCorrect`, `PlanCorrect`, `EveryChannelAsked`, `ResultIsTrue` | `TypeOK`, `RepliesMatch`, `PlanIsRight`, `PlanIsAsked`, `LastResultIsTrue` |
| `JsonlSinkProofs` | `TypeCorrectness`, `LossIsBounded`, `CompleteArchivesPass`, `ValidArchivesAreWhole` | `TypeOK`, `LossWindow`, `CompleteIsValid`, `ValidIsWhole` |
| `RecorderProofs` | `TypeCorrectness`, `ObservedArchived`, `FilesNeverDisagree`, `CountsNeverDisagree` | `TypeOK`, `ObservedIsArchived`, `FilesAgree`, `CountsAgree` |
| | `FinalFiles` | `Spec => FinalIsFinal` |
| `ReplayProofs` | `TypeCorrectness`, `AtMostOneWithoutStep`, `AtMostOneAfterStop` | `TypeOK`, `OneWithoutStep`, `OneAfterStop` |

`DataLemmas` and `DiscoveryProofs` hold the lemmas about data.

### What the constants are assumed to be

- `PipelineAssumption`: the archive handler is not a monitor, so it does not suspend (it
  has no `await`).
- `ClientAssumption`: `main`, `runner` and the readers are different tasks; there is a
  socket.
- `AdapterAssumption`: numbers are numbers, and a batch is not empty (`DEFAULT_BATCH_SIZE` is 200).
- `ListsAssumption`: no two instruments that the server lists have the same name, and the
  settings name no type of channel twice. The server identifies instruments by these
  names; the code itself removes no repetition, from either, and would pass it on to the
  plan. `PlanIsRight` and `LastResultIsTrue` depend on it: with a repeated name one channel
  is asked for twice.
- `SinkAssumption`: finitely many partitions. `RecorderAssumption`, `ReplayAssumption`: the
  bounds are numbers.

### EvidencePipeline

None of the properties is inductive. `ArchiveInOrder` depends on why the archive is
never called late: a task that publishes event 5 and suspends must not have the
archive still to call when another publishes event 6. The invariant `IInv` adds

- `ArchiveFirst`: while the pipeline runs the archive is the first subscriber and
  subscribed once (this is the order in which `live.py` subscribes), so that a
  snapshot begins with it;
- `ArchiveDone`: no suspended publish has the archive in what it has yet to call;
  this follows from `ArchiveFirst`, since a handler before the first suspension is
  called in the step that numbers the event (`ReachedProperties`, `RestOfSnapshot`);
- `RunsWhenRecording`: `_running` and RECORDING go together, nothing is subscribed
  or numbered before: so `Start` and `Stop` happen once, and the sealed log stays;
- `ArchivedWereNumbered`, and `written <= seq`: what is archived was numbered, so the
  next number is larger than all of them.

`Publishing` says once what the three outcomes of a publish have in common, and
`LogGrows` that such a step preserves the properties of the log; the proof that
`Next` preserves `IInv` cites them for `Ingest`, `Start` and `Stop` and shows for the
other actions that they leave the archive alone. `StepOfTheLog` maps a step to
`Record` or a stutter.

`WholeAudience` speaks of publishes that have ended; what is inductive speaks of those
under way. `Deliveries` says that no list of handlers and no handler's log has
repetitions (`NoRepeats`), that the suspended publishes are of different events and call
only handlers of their own snapshots (`Suspended`), and that a handler has taken in an
event that was not dropped exactly if it is in the event's snapshot and the event is not
still due to it (`Delivered`). A burst calls the first handlers of a list
(`ReachedIsPrefix`), and those that it calls are no longer due (`BurstLeaves`).
`LossCounted` then counts: the archive holds different numbers, so what is missing is
`seq` minus its length (`MissedAreCounted`).

### DeribitClient

The proof is for any number of sockets, any scenarios of trouble, and so for any number
of tasks that reconnect at once. Its invariant has three layers.

`Stages` is about who can be where: each task has places of its own (`PlaceOf`), the lock
is with the task that connects (`Locked`), `disconnect()` comes after the runner was
cancelled (`Stopping`), until the runner's first step no reader is further than its first
sleep (`NotYetRun`), until the runner's connect has opened its socket there was only
socket 1 (`FirstConnection`), and while the runner connects reader 1 waits to do the same,
unless a task has ended at an event (`AnotherWaits`). The last three are why the runner's stray `connect` does no lasting
harm: whatever it leaves, a reader comes after it and cleans up.

`Restoring` carries `SettledServes`: while the client is not stopped, no task has ended at
an event, and no server has closed a connection or refused a subscription, the current connection is read by the
current reader and subscribed, or somebody is about to subscribe it, or some reader is
still on its way to open another (`OnItsWay`). It says nothing about how many there are:
every cleanup that could destroy a current connection is itself on its way to a new one,
or its task falls, and `fallen` stays (`FallenStays`).
`NotClosed` is the supplement that the current socket is not one the client has closed.

`OnlyFirst`, `Feeds` and `Noted` hold while at most one feed is replaced
(`AtMostOneReplaced`). Then reader 1 does all the replacing, through however many failed
attempts (`OnlyFirst`). `Feeds` says for each stage of it what can be fed: nothing until
the resubscription, then only the socket it was asked on; and, while the client is not
stopped, that what is fed is what `_reader_task` refers to, so that a further cleanup
ends it. This is the part that `OneFeed` cannot do without: a socket that is fed and
forgotten would survive the next attempt. `Noted` says that an outage that is not
reported yet has been noted and reader 1 is on its way to report it.

Each procedure (`EndCleanup`, `Sweep`, `Cleanup`, `Reconnect`, `ConnectRaises`, `Enter`)
has one lemma that says what it does to whom, and the proofs for `Next` cite those. They
take the fields as a step has left them when it raises (`Fields`), so that an event that
raises after an assignment needs no case of its own (`Raises`).

### DeribitAdapter

`RepliesMatch` is not inductive: that the reply of another request cannot reach the
future that is awaited depends on the numbers. `RInv` adds `Numbered` (all numbers
given out are at most `_request_id`, and no two requests with the server share one)
and `OneAwaited` (only the awaited request is pending, and only while it has no
reply); `FreshIds` is the step of a new number. `DInv` says that start discovers before
it plans and plans before it subscribes, so that `plan` is `Plan` of lists that the server
gave. `AInv` says of a subscription under way that every batch before the one asked for
is granted or refused on this connection, and of a reply that its own batch is. `LInv`
says that the result being built tells what the server has granted so far, and that with
the reply noted it will again. `KInv`, which `TypeOK` needs, says that neither the server
nor any result knows a channel outside the plan (`TakenIsPlanned`).

What a plan is does not depend on the steps. `DiscoveryProofs` shows what each operator
computes for lists of any length: `Arranged` is a sequence without repetition of the
places it was given (`Ranks`, `ArrangedPlaces`), a sorted list is ordered and loses
nothing, the channels are the product of types and instruments (`MarketProperties`, by
quotient and remainder), the batches cut them without loss into full ones and a last one
(`BatchesProperties`), and a plan is what `PlanIsRight` demands (`PlanProperties`,
`ChosenProperties`).

### JsonlSink

The invariant is a ledger. While the archive is being written, buffers and files together
hold each event at most once and miss none that the counts do not miss (`Ledger` of
`AllLines`, in `Open`); once the manifest says COMPLETE the same holds of the lines that
it describes by its checksums (`Sealed`), whatever becomes of the files afterwards.
`ValidArchivesAreWhole` follows: a validation that passes has compared the files with the
checksums and the counts, so the files are the ledger. `Window` says that all
acknowledged events but the last `unflushed` ones are in the files; `LossIsBounded`
counts them. `Metadata` ties the files of the session to where `finalize_session` is, so
that a process that dies there leaves one of few combinations. Sums over partitions are
`SumFunctionOnSet`, for which `DataLemmas` proves the step lemmas.

### Recorder and Replay

`FilesAgree` compares files that were written at different moments. `FilesFit` says that
what session.json admits to covers what the others list, also between its write and the
next: it holds at each of the two because session.json is written first, from counters
that are never behind what is tracked; cut-off files keep in the model what they had, and
the claim about them is void. `Ends` says which end of start or stop leaves which file
complete or cut off. The rest of the invariant compares the counters: the reconnects that were tracked are at
most those the client counts, one less while it cleans up (`Announced`), and each that the
client counts has cost an event (`Attempts`), which bounds it. `Ordered` orders the
counters of the five components at every moment, `Flushed` says which of them the files of
a stopped session have, and that all can be read, and `StateOfPhase` that start and stop have no third way.

In Replay `AskedFor` strengthens `OneWithoutStep` by the event that is certain to come:
one that sleeps is past the cursor already, and a step that was requested with no event
on its way will be used (`OneMore`). `let <= steps + 1` alone is not inductive: a paused
run with a sleeping event and a pending step would let out two.

### Induction

The library's induction theorems have an operator as a parameter, which the installed
provers cannot instantiate. `DataLemmas` uses a set in its place: a set of numbers that
holds 0, and with each of its numbers the next, is `Nat` (`NumbersByInduction`, from the
theorem that a well-founded relation has minimal elements). The set is
`{n \in Nat : ...}` for the statement to be proved. The lemmas on sums, on the ranks of
places and on lists without repetition rest on it, so nothing here needs a recursive
operator.

### Model-checked only

The liveness properties (`Maintained`, `StopEndsAll`, `StartEnds`, `LossIsRepaired`,
`StepAdvances`, `PlaysToItsEnd`): liveness under fairness and `ENABLED` are beyond the
proof system. The properties that are violated. That `Opened` finds a free socket, which
the liveness properties rest on.

## 5. Observations that are not runs

Found while modelling, and true of the code by the lines given; each is small
enough to be read off the source, or is kept out of the runs so that they
stay one per question.

- Two losses in a row can leave two feeds. When a new connection is lost while the
  task that opened it still awaits the resubscription, its reader and that task
  both reconnect; both sockets can end up subscribed, and every message is
  recorded twice; the second gap may go unreported. `OneFeed` and `GapReported` have
  their hypothesis for this reason. The two tasks can also keep closing each
  other's sockets, each attempt leaving a reader behind.
- `run_until_shutdown` connects by itself if the state is DISCONNECTED when it
  starts, which is the case while a reader waits to reconnect. The reader's own
  connect then finds a token (`client.py:172`) and does not authenticate its
  socket, and the runner's socket is left open.
- A client can lose its feed for the rest of a recording because of one failed write. When
  the archive cannot write `connection.closed` (`client.py:329`) or `connection.reconnect`
  (`client.py:363`) the exception leaves the reader's task, whose result nobody looks at
  but a later cleanup, and `run_until_shutdown` goes on sleeping. A disk that is full when
  a market message makes the reader reconnect (`client.py:337`) is likely to be full
  when that reconnection is announced. `SettledIsServing`, `GapReported` and `Maintained`
  have `fallen` in their hypothesis for this reason. No line of the repository says what
  should happen.
- When `connection.shutdown` cannot be written (`client.py:432`), `disconnect()` raises
  before its cleanup and `LiveRecorder.stop` with it: the sockets stay open, the archive
  is not finalized, and each reader ends at its next message.
- A failed write in the flush loop (`live.py:135`) ends its task without a log line; the
  status then shows the last flush until the recording stops. A kill, or a failed
  write, between `live.py:135` and `:136` leaves a session.json that shows the length of a
  gap while reconnects.json lists none, or no reconnect of those that are counted. The
  other way round is excluded (`FilesAgree`).
- A connect that waits for the lock or for the handshake when `disconnect()` is
  called opens its socket afterwards (`client.py:136`); nobody closes it.
- `_reconnect_attempt` is reset when the socket opens (`client.py:148`): a server
  that accepts connections and fails requests is retried with the smallest delay.
- A gap begins at the last market message (`client.py:385`), which may already be
  one of the new connection; the gap is then reported as almost nothing. After an
  exception in a handler no disconnect is noted (`client.py:337`) and no gap reported.
- `validate_readable_partitions` does not catch `EOFError`: the validation of a
  truncated partition raises where its docstring promises a report.
- `session.json` is last written while the session is FINALIZING (`jsonl_sink.py:202`)
  and says so for ever. No code assigns ABORTED or CORRUPTED.
- `dropped_messages` is computed after the last write of `session.json`
  (`live.py:217`).
- A pause during the sleep between two events lets the next one out
  (`engine.py:115`); `OneWithoutStep` bounds this to one event. `pause()` after
  `stop()` during a wait makes the run wait until it is resumed or stepped.
- `seq_range` of every partition is that of the session (`jsonl_sink.py:153`); no
  code reads it.
- When `recorder.stopped` cannot be written, `stop` raises with the pipeline running
  and the archive in RECORDING; when `start` raises after the pipeline has started,
  `stop` returns early with the same result.
- `stop` unsubscribes the metadata handler before the client is disconnected
  (`live.py:190`): what happens to the connection in between is in the archive and
  not in `reconnects.json`.
- Nobody refreshes a token: `authenticate` alone looks at its expiry, and runs after
  `_reconnect` has cleared it.
- A connection that is lost while `start` discovers or subscribes makes `start` raise,
  although the reader reconnects by itself; `stop` then does nothing
  (`live.py:172`), and that reader goes on.
- The plan is never made again: a reconnection subscribes what start discovered, and
  `subscriptions.json` and `subscription_failures` keep what start found, whatever a
  resubscription gets.
- The perpetual is chosen whether or not it is active (`discovery.py:81`).
- `is_stale` of the status stays true for the rest of a recording that had a gap
  (`status.py:62`), and its state is never COMPLETE, since `session.json` is not. A
  torn `session.json` makes `atlas status` raise.

## 6. Not modelled

- Message parsing, names of instruments, envelopes, clocks, provenance: conversions
  without state.
- Rates and staleness of `HealthMonitor`: wall-clock time.
- Tokens that expire; a heartbeat answered on the wrong socket during a reconnect.
- The search for a session directory, the command line, settings, logging: I/O.
- The progress figures and the audit manifest of a replay; `strict_sequence`,
  `filter_events`; the compression ratio.

## 7. Plan

Modelled in the order of their importance: pipeline, client, sink, recorder, replay,
then the adapter with its discovery; all their invariants and action properties are
proved. What is left:

1. Abstract specifications to be implemented, as the pipeline implements `EvidenceLog`:
   for the sink, a session whose archive is open, then sealed or abandoned, and never
   changes its sealed contents but by damage; for the client, a feed that is up, down or
   stopped.
2. Action properties of the client that its invariant already carries: a shutdown is
   final, and no reconnection begins after `disconnect()` has returned.
3. The observations of section 5 as bounds: how many readers a second loss can leave.
