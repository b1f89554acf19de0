------------------------------ MODULE Recorder ------------------------------
(***************************************************************************)
(* recording/live.py, metadata.py and status.py: LiveRecorder from start   *)
(* to stop, the loop that flushes the session's metadata meanwhile, the    *)
(* client that goes on reconnecting while the recorder stops, and what     *)
(* `atlas status` reads of the files at any moment.                        *)
(*                                                                         *)
(* Of the evidence market messages and the connection events that the      *)
(* metadata tracker keeps are told apart; client says where the client's   *)
(* reader is:                                                              *)
(*   serving   it reads                                                    *)
(*   cleaning  in _cleanup_connection, its reconnect not announced yet     *)
(*   waiting   between "connection.reconnect" and the end of its connect   *)
(*   dead      it has ended                                                *)
(* A step of the recorder goes from one of its awaits to the next.  Within *)
(* it the metadata files are written one after the other, and any of these *)
(* writes may fail or, the process being killed, be the last: the file is  *)
(* then left as it was or cut off (torn), and those after it as they were. *)
(***************************************************************************)
EXTENDS ArchiveStates, FiniteSets, Sequences

CONSTANT MaxEvents  \* bound: events numbered by the pipeline

ASSUME RecorderAssumption == MaxEvents \in Nat \ {0}

\* The connection events the tracker keeps; every other event is "market" or
\* "other".
Kinds == {"connection.closed", "connection.reconnect", "gap.detected"}

VARIABLES
    phase,       \* where start and stop are
    state,       \* ObservationSession.state
    client,      \* where the client's reader is
    metric,      \* ConnectionMetrics.reconnect_count
    messages,    \* DeribitAdapter._message_count
    received,    \* data_quality.messages_received, also the last number
    written,     \* data_quality.messages_written
    reconnects,  \* data_quality.reconnects
    droppedOf,   \* data_quality.dropped_messages
    failures,    \* data_quality.subscription_failures
    gap,         \* data_quality.largest_gap_seconds is not 0
    tracking,    \* the metadata handler is subscribed
    flushing,    \* _metadata_task runs
    tracked,     \* the tracker's connection events, each with its number
    health,      \* HealthMonitor._messages_total
    lines,       \* the sum of the sink's _partition_counts
    sidecar,     \* metadata/reconnects.json: those it lists
    session,     \* metadata/session.json
    manifest,    \* metadata/manifest.json
    subscriptions, \* metadata/subscriptions.json: its failed batches, if it is there
    torn,        \* those of the four files whose last write cut them off
    archived,    \* history: the events of Kinds in the archive
    markets,     \* history: the number of market events in the archive
    failed       \* history: the archive has failed to write, or to close

counts == <<received, written, lines, messages>>
quality == <<reconnects, droppedOf, failures>>
handler == <<tracked, gap, health>>
tasks == <<tracking, flushing>>
files == <<sidecar, session, manifest, subscriptions, torn>>
history == <<archived, markets, failed>>
vars == <<phase, state, client, metric, counts, quality, tasks, handler, files,
          history>>

\* session.json: the state and the data quality of the session.
Dump(st, r, w) == [state |-> st, received |-> r, written |-> w,
                   reconnects |-> reconnects', dropped |-> droppedOf,
                   failures |-> failures, gap |-> gap]

\* The files are as open_session, the first call of start, leaves them.
Init == /\ phase = "new" /\ state = "CREATING"
        /\ client = "dead" /\ metric = 0
        /\ received = 0 /\ written = 0 /\ lines = 0 /\ messages = 0
        /\ reconnects = 0 /\ droppedOf = 0 /\ failures = 0
        /\ tracking = FALSE /\ flushing = FALSE /\ tracked = {} /\ gap = FALSE /\ health = 0
        /\ session = [state |-> "CREATING", received |-> 0, written |-> 0,
                      reconnects |-> 0, dropped |-> 0, failures |-> 0, gap |-> FALSE]
        /\ manifest = [state |-> "RECORDING", events |-> 0]
        /\ sidecar = {} /\ subscriptions = << >> /\ torn = {}
        /\ archived = {} /\ markets = 0 /\ failed = FALSE

------------------------------------------------------------------------------
(* Evidence on its way through the pipeline *)

Running == state = "RECORDING"

\* The event that is being ingested, if it is one of Kinds.
Connection(kind) == IF kind \in Kinds THEN {[n |-> received', kind |-> kind]} ELSE {}

\* The archive has a line for the event, or (InArchive(kind, FALSE)) has not.
InArchive(kind, line) ==
    IF line THEN /\ lines' = lines + 1
                 /\ archived' = archived \cup Connection(kind)
                 /\ markets' = IF kind = "market" THEN markets + 1 ELSE markets
    ELSE UNCHANGED <<lines, archived, markets>>

\* metadata_handler: market events count for the health monitor, connection
\* events are kept, and a gap (which is never of no length) is measured.
Observed(kind) ==
    IF tracking THEN /\ tracked' = tracked \cup Connection(kind)
                     /\ gap' = (gap \/ kind = "gap.detected")
                     /\ health' = IF kind = "market" THEN health + 1 ELSE health
    ELSE UNCHANGED handler

\* ingest: the archive writes the event, then the metadata handler sees it.
Recorded(kind) ==
    /\ Running /\ received < MaxEvents
    /\ received' = received + 1 /\ written' = written + 1
    /\ InArchive(kind, TRUE) /\ Observed(kind)

Kept(kind) == Recorded(kind) /\ UNCHANGED failed

\* Mutant of Lost: the metadata handler sees an event the archive did not write.
LostTracked(kind) ==
    /\ received < MaxEvents /\ failed' = (failed \/ Running)
    /\ received' = IF Running THEN received + 1 ELSE received
    /\ InArchive(kind, FALSE) /\ Observed(kind)
    /\ UNCHANGED written

\* Mutant of Lost: an event counts as written before it is.
LostCounted(kind) ==
    /\ received < MaxEvents /\ failed' = (failed \/ Running)
    /\ received' = IF Running THEN received + 1 ELSE received
    /\ written' = IF Running THEN written + 1 ELSE written
    /\ InArchive(kind, FALSE)
    /\ UNCHANGED handler

\* ingest raises: the pipeline has been stopped, or the archive handler could
\* not write the event, or could not flush it, its line being written.
Lost(kind) ==
    /\ received < MaxEvents /\ failed' = (failed \/ Running)
    /\ received' = IF Running THEN received + 1 ELSE received
    /\ \E line \in {FALSE, Running} : InArchive(kind, line)
    /\ UNCHANGED <<written, handler>>

\* A step of the client's reader that emits an event and goes on at ok, or at
\* raised when the emission raises.  A reader that begins to reconnect counts it.
Emits(kind, ok, raised) ==
    /\ \/ Kept(kind) /\ client' = ok
       \/ Lost(kind) /\ client' = raised
    /\ metric' = IF client # "cleaning" /\ client' = "cleaning" THEN metric + 1 ELSE metric
    /\ messages' = IF kind = "market" THEN messages + 1 ELSE messages
    /\ UNCHANGED <<phase, state, quality, tasks, files>>

------------------------------------------------------------------------------
(* The client's reader (DeribitClient has it in full) *)

\* The client's _shutdown is set.
ShutDown == phase \in {"disconnecting", "stopped", "aborted"}

\* Where a reader goes that calls _reconnect.
Again == IF ShutDown THEN "dead" ELSE "cleaning"

\* _on_market_message.  When it raises the reader reconnects.
Receives == client = "serving" /\ ~ShutDown /\ Emits("market", "serving", "cleaning")

\* ConnectionClosed: connection.closed, then _reconnect.  An exception in the
\* handler of an exception ends the reader.
Closes == client = "serving" /\ ~ShutDown /\ Emits("connection.closed", "cleaning", "dead")

\* The cleanup is done; the shutdown is looked at only after the announcement.
Announces ==
    /\ client = "cleaning"
    /\ Emits("connection.reconnect", IF ShutDown THEN "dead" ELSE "waiting", "dead")

\* connect has returned; the gap is reported if the time of a disconnect was
\* noted.  The events of connect are left out.  An emission that raises begins the next attempt.
Restores ==
    /\ client = "waiting"
    /\ \E kind \in {"gap.detected", "other"} : Emits(kind, "serving", Again)

\* connect raises, or the shutdown came during the sleep.
Fails ==
    /\ client = "waiting"
    /\ client' = Again
    /\ metric' = IF ShutDown THEN metric ELSE metric + 1
    /\ UNCHANGED <<phase, state, counts, quality, tasks, handler, files, history>>

------------------------------------------------------------------------------
(* start *)

\* runner.start: the session opens and is RECORDING, recorder.started is recorded;
\* the metadata handler subscribes.  start goes on to connect, or raises.
StartRunner ==
    /\ phase = "new"
    /\ CanTransition(state, "RECORDING")
    /\ state' = "RECORDING" /\ received' = received + 1
    /\ \/ /\ phase' = "connecting" /\ tracking' = TRUE
          /\ written' = written + 1 /\ InArchive("other", TRUE)
          /\ UNCHANGED failed
       \/ /\ phase' = "failed" /\ failed' = TRUE
          /\ \E line \in BOOLEAN : InArchive("other", line)
          /\ UNCHANGED <<tracking, written>>
    /\ UNCHANGED <<client, metric, messages, quality, flushing, handler, files>>

\* adapter.connect, its events taken as one: without them connect raises, before
\* or after the reader has begun.
Connected ==
    /\ phase = "connecting"
    /\ \/ Kept("other") /\ phase' = "subscribing" /\ client' = "serving"
       \/ Lost("other") /\ phase' = "failed" /\ client' \in {"dead", "serving"}
    /\ UNCHANGED <<state, metric, messages, quality, tasks, files>>

\* What is torn when, of a file that is written, the write fails: before or
\* after it has cut the file off.
CutOff(before, file) == {before, before \cup {file}}

\* adapter.discover and subscribe, their events taken as one: the batches that
\* failed are noted and written, and the flush loop begins.
Started ==
    /\ phase = "subscribing"
    /\ \/ /\ Kept("other") /\ failures' \in 0..1
          /\ \/ /\ subscriptions' = <<failures'>> /\ phase' = "recording"
                /\ flushing' = TRUE /\ UNCHANGED torn
             \/ /\ torn' \in CutOff(torn, "subscriptions.json") /\ phase' = "failed"
                /\ UNCHANGED <<flushing, subscriptions>>
       \/ /\ Lost("other") /\ phase' = "failed"
          /\ UNCHANGED <<flushing, failures, subscriptions, torn>>
    /\ UNCHANGED <<state, client, metric, messages, reconnects, droppedOf, tracking,
                   sidecar, session, manifest>>

\* Another step of start raises, and start with it: stop will do nothing.
StartFails ==
    /\ phase \in {"connecting", "subscribing"} /\ phase' = "failed"
    /\ client' \in {client} \cup (IF phase = "connecting" THEN {"serving"} ELSE {})
    /\ UNCHANGED <<state, metric, counts, quality, tasks, handler, files, history>>

------------------------------------------------------------------------------
(* flush_session and write_reconnects *)

\* The session as flush_session writes it.
DumpNow == Dump(state, received, written)

\* What is torn of the files when both are written.
Mended == torn \ {"session.json", "reconnects.json"}

FlushWrites == session' = DumpNow /\ sidecar' = tracked /\ torn' = Mended

\* Mutant of FlushCut: the files are written in the other order.
FlushCutSwapped ==
    /\ UNCHANGED session
    /\ \/ UNCHANGED sidecar /\ torn' \in CutOff(torn, "reconnects.json")
       \/ /\ sidecar' = tracked
          /\ torn' \in CutOff(torn \ {"reconnects.json"}, "session.json")

\* One of the two writes is the last, and fails.
FlushCut ==
    /\ UNCHANGED sidecar
    /\ \/ UNCHANGED session /\ torn' \in CutOff(torn, "session.json")
       \/ /\ session' = DumpNow
          /\ torn' \in CutOff(torn \ {"session.json"}, "reconnects.json")

\* A turn of _metadata_flush_loop.  A write that fails ends it, and nobody asks.
FlushLoop ==
    /\ flushing
    /\ reconnects' = metric
    /\ \/ FlushWrites /\ UNCHANGED flushing
       \/ FlushCut /\ flushing' = FALSE
    /\ UNCHANGED <<phase, state, client, metric, counts, droppedOf, failures, tracking,
                   handler, manifest, subscriptions, history>>

------------------------------------------------------------------------------
(* stop *)

\* Mutant of StopFlushLoop: nobody cancels the loop.
StopFlushLoopRunning ==
    /\ phase = "recording"
    /\ phase' = "unsubscribing"
    /\ UNCHANGED <<state, client, metric, counts, quality, tasks, handler, files, history>>

\* The flush loop is cancelled and awaited, if it has not ended.
StopFlushLoop ==
    /\ phase = "recording"
    /\ phase' = "unsubscribing" /\ flushing' = FALSE
    /\ UNCHANGED <<state, client, metric, counts, quality, tracking, handler, files,
                   history>>

\* The metadata handler leaves the bus and the metrics are read; the task of
\* run_until_shutdown is cancelled and awaited.
Unsubscribe ==
    /\ phase = "unsubscribing"
    /\ tracking' = FALSE /\ reconnects' = metric
    /\ phase' = "cancelling"
    /\ UNCHANGED <<state, client, metric, counts, droppedOf, failures, flushing, handler,
                   files, history>>

\* adapter.disconnect: the shutdown is set and connection.shutdown emitted.  A
\* reader that reads ends, one that reconnects goes on to its next look at the
\* shutdown.  When the emission raises stop raises.
Disconnect ==
    /\ phase = "cancelling"
    /\ \/ Kept("other") /\ phase' = "disconnecting"
       \/ Lost("other") /\ phase' = "aborted"
    /\ client' = IF client = "serving" THEN "dead" ELSE client
    /\ UNCHANGED <<state, metric, messages, quality, tasks, files>>

\* Mutant of Missing: the wrong way round.
MissingNegated == IF received' > written' THEN written' - received' ELSE droppedOf

\* The messages received and not written.
Missing == IF received' > written' THEN received' - written' ELSE droppedOf

\* The manifest that finalize_session writes.
FinalManifest == [state |-> "COMPLETE", events |-> lines']

\* transition_to(FINALIZING) and finalize_session: the archive's files are closed,
\* manifest.json and session.json written, and only then the messages that were
\* dropped are counted.  stop raises when one of these fails.
Finalizes ==
    /\ CanTransition(state, "FINALIZING") /\ CanTransition("FINALIZING", "COMPLETE")
    /\ sidecar' = tracked
    /\ \/ /\ manifest' = FinalManifest /\ torn' = Mended
          /\ session' = Dump("FINALIZING", received', written')
          /\ state' = "COMPLETE" /\ phase' = "stopped"
          /\ droppedOf' = Missing
          /\ UNCHANGED failed
       \/ /\ state' = "FINALIZING" /\ phase' = "aborted"
          /\ session' = DumpNow
          /\ \/ failed' = TRUE /\ torn' = Mended /\ UNCHANGED manifest
             \/ torn' \in CutOff(Mended, "manifest.json") /\ UNCHANGED <<manifest, failed>>
             \/ /\ manifest' = FinalManifest /\ torn' \in CutOff(Mended, "session.json")
                /\ UNCHANGED failed
          /\ UNCHANGED droppedOf

\* disconnect has returned: the sidecars are written, recorder.stopped is recorded
\* and the archive finalized.  stop raises when it cannot write or record them.
Finalize ==
    /\ phase = "disconnecting"
    /\ UNCHANGED <<client, metric, messages, reconnects, failures, tasks, subscriptions>>
    /\ \/ /\ FlushCut /\ phase' = "aborted"
          /\ UNCHANGED <<state, received, written, lines, droppedOf, handler, manifest,
                         history>>
       \/ /\ FlushWrites /\ Lost("other") /\ phase' = "aborted"
          /\ UNCHANGED <<state, droppedOf, manifest>>
       \/ Recorded("other") /\ Finalizes

Next == \/ StartRunner \/ Connected \/ Started \/ StartFails \/ FlushLoop
        \/ Receives \/ Closes \/ Announces \/ Restores \/ Fails
        \/ StopFlushLoop \/ Unsubscribe \/ Disconnect \/ Finalize

Spec == Init /\ [][Next]_vars

------------------------------------------------------------------------------
(* load_session_status: what `atlas status` shows of the files *)

\* A file that was cut off is no JSON: without these two there is no status.
Readable == {"session.json", "reconnects.json"} \cap torn = {}

Gaps == {e \in sidecar : e.kind = "gap.detected"}

\* The manifest's count, or the session's if the manifest cannot be read.
EventsRecorded == IF "manifest.json" \in torn THEN session.written ELSE manifest.events

SessionStatus ==
    [state |-> session.state, events |-> EventsRecorded,
     reconnects |-> session.reconnects, gaps |-> Cardinality(Gaps),
     largestGap |-> session.gap,
     stale |-> session.state = "RECORDING" /\ (session.written = 0 \/ session.gap)]

------------------------------------------------------------------------------
(* Properties *)

Stopped == phase = "stopped"

\* Every variable has its type.
TypeOK ==
    /\ phase \in {"new", "connecting", "subscribing", "failed", "recording",
                  "unsubscribing", "cancelling", "disconnecting", "stopped", "aborted"}
    /\ state \in ArchiveState
    /\ client \in {"serving", "cleaning", "waiting", "dead"}
    /\ {received, written, lines, messages, droppedOf} \subseteq 0..MaxEvents
    /\ {metric, reconnects} \subseteq 0..(MaxEvents + 1)
    /\ failures \in 0..1 /\ {gap, tracking, flushing, failed} \subseteq BOOLEAN
    /\ {health, markets} \subseteq 0..MaxEvents
    /\ {tracked, sidecar, archived} \subseteq SUBSET [n : 1..MaxEvents, kind : Kinds]
    /\ session \in [state : ArchiveState, received : 0..MaxEvents, written : 0..MaxEvents,
                    reconnects : 0..(MaxEvents + 1), dropped : 0..MaxEvents,
                    failures : 0..1, gap : BOOLEAN]
    /\ manifest \in [state : {"RECORDING", "COMPLETE"}, events : 0..MaxEvents]
    /\ subscriptions \in {<< >>, <<0>>, <<1>>}
    /\ torn \subseteq {"session.json", "reconnects.json", "manifest.json",
                       "subscriptions.json"}

\* What reconnects.json lists, and what the health monitor counts, was written to
\* the archive, whichever writes fail and however the recorder's stop and the
\* client's reconnects overlap; and the adapter has seen every market event
\* archived.
ObservedIsArchived ==
    /\ sidecar \subseteq tracked /\ tracked \subseteq archived
    /\ health <= markets /\ markets <= messages

\* The files that can be read never contradict each other, whichever writes fail
\* and wherever between them the process is killed: session.json admits to at
\* least the reconnects that reconnects.json lists, to a gap if that lists one,
\* and to the failed batches of subscriptions.json.  Once the recorder has stopped
\* they can all be read, whatever a failed flush left, and a status that shows a
\* gap's length shows gaps.
FilesAgree ==
    /\ Readable =>
          /\ Cardinality({e \in sidecar : e.kind = "connection.reconnect"})
               <= SessionStatus.reconnects
          /\ SessionStatus.gaps > 0 => SessionStatus.largestGap
          /\ session.failures > 0 => subscriptions = <<session.failures>>
    /\ Stopped => torn = {} /\ SessionStatus.largestGap = (SessionStatus.gaps > 0)

\* What was written, the lines the manifest lists and what was received, each no
\* more than the next, though three components count them and writes fail
\* half-way: the first two in any session whose manifest is complete, also when it
\* was killed before its session.json was, all three in one that was stopped; and
\* then, if none failed, nothing that was received or reached the adapter is missing.
CountsAgree ==
    /\ manifest.state = "COMPLETE" => session.written <= manifest.events
    /\ Stopped =>
          /\ manifest.state = "COMPLETE" /\ manifest.events <= session.received
          /\ ~failed => session.written = session.received /\ markets = messages

\* Once the recorder has stopped nobody rewrites its metadata: neither the flush
\* loop nor a reconnect that comes too late.
FinalIsFinal == [][Stopped => UNCHANGED files]_vars

\* "Load status from flushed session metadata on disk": the status shows at
\* least the events that session.json was flushed with.
StatusCountsEvents == Readable => session.written <= SessionStatus.events
==============================================================================
