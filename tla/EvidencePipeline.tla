-------------------------- MODULE EvidencePipeline --------------------------
(***************************************************************************)
(* bus/event_bus.py and pipeline/pipeline.py: asyncio tasks hand evidence  *)
(* to EvidencePipeline.ingest, which numbers it and publishes it on the    *)
(* EventBus; the bus calls the subscribers of a snapshot one after the     *)
(* other, the archive handler of PipelineRunner first.                     *)
(*                                                                         *)
(* A task runs alone until it awaits something that is not ready.  Nothing *)
(* in ingest, publish or the archive handler does; a monitor (any other    *)
(* subscriber) does when it is in Suspending, and the other tasks run      *)
(* before the rest of its snapshot is called.  One step below is what a    *)
(* task does between two such points.                                      *)
(*                                                                         *)
(* The order of the main task is that of recording/live.py: the archive    *)
(* handler is subscribed by PipelineRunner.start before any monitor, and   *)
(* the monitors have left when PipelineRunner.stop is called.              *)
(***************************************************************************)
EXTENDS ArchiveStates, FiniteSets, SequencesExt

CONSTANTS Tasks,       \* the tasks that ingest evidence
          Archive,     \* archive_handler of PipelineRunner.start
          Monitors,    \* the other subscribers of the bus
          Suspending,  \* the monitors that wait for something when called
          MaxSeq       \* bound: events numbered in a session

ASSUME PipelineAssumption ==
         /\ Archive \notin Monitors
         /\ Suspending \subseteq Monitors
         /\ MaxSeq \in Nat \ {0}

VARIABLES
    subscribers,  \* EventBus._subscribers
    closed,       \* EventBus._closed
    state,        \* ObservationSession.state
    running,      \* EvidencePipeline._running
    seq,          \* EvidencePipeline._seq, also messages_received
    written,      \* data_quality.messages_written
    event,        \* the event a task has in a suspended publish, 0 for none
    rest,         \* the handlers of its snapshot that publish has yet to call
    seen,         \* the events each handler took in, in order
    audience,     \* history: the snapshot each event was published to
    dropped       \* history: the events whose publish raised

vars == <<subscribers, closed, state, running, seq, written, event, rest,
          seen, audience, dropped>>

Handlers == Monitors \cup {Archive}

Init == /\ subscribers = << >>
        /\ closed = FALSE
        /\ state = "CREATING"
        /\ running = FALSE
        /\ seq = 0
        /\ written = 0
        /\ event = [t \in Tasks |-> 0]
        /\ rest = [t \in Tasks |-> << >>]
        /\ seen = [h \in Handlers |-> << >>]
        /\ audience = [n \in 1..MaxSeq |-> {}]
        /\ dropped = {}

------------------------------------------------------------------------------
(* EventBus *)

\* The positions of the handlers of hs that are called before control goes
\* back to the loop: those up to the first that suspends.
Reached(hs) ==
    {i \in 1..Len(hs) : \A j \in 1..(i-1) : hs[j] \notin Suspending}

\* Mutant of TakeIn: a handler is given the event twice.
TakeInTwice(hs, P, n) ==
    seen' = [h \in Handlers |-> IF \E i \in P : hs[i] = h
                                THEN seen[h] \o <<n, n>> ELSE seen[h]]

\* The handlers of hs at the positions P take event n in.
TakeIn(hs, P, n) ==
    seen' = [h \in Handlers |-> IF \E i \in P : hs[i] = h
                                THEN Append(seen[h], n) ELSE seen[h]]

\* publish goes on with the handlers hs until one suspends or none is left.
CallOn(t, hs, n) ==
    /\ TakeIn(hs, Reached(hs), n)
    /\ rest' = [rest EXCEPT ![t] =
                   SubSeq(hs, Cardinality(Reached(hs)) + 1, Len(hs))]
    /\ event' = [event EXCEPT ![t] =
                    IF \E i \in Reached(hs) : hs[i] \in Suspending THEN n ELSE 0]
    /\ UNCHANGED dropped

\* Mutant of RaiseAfter: the bus swallows the exception.
RaiseAfterSwallowed(t, hs, k, n) ==
    /\ TakeIn(hs, Reached(hs) \cap 1..k, n)
    /\ rest' = [rest EXCEPT ![t] = << >>]
    /\ event' = [event EXCEPT ![t] = 0]
    /\ UNCHANGED dropped

\* A handler raises after k of hs took the event in: the exception ends the
\* publish and no later handler is called.
RaiseAfter(t, hs, k, n) ==
    /\ TakeIn(hs, Reached(hs) \cap 1..k, n)
    /\ rest' = [rest EXCEPT ![t] = << >>]
    /\ event' = [event EXCEPT ![t] = 0]
    /\ dropped' = dropped \cup {n}

\* Mutant of Subscribe: a new handler is called before the others.
SubscribeFirst(m) ==
    /\ running
    /\ m \notin Range(subscribers)
    /\ subscribers' = <<m>> \o subscribers
    /\ UNCHANGED <<closed, state, running, seq, written, event, rest, seen,
                   audience, dropped>>

\* A monitor joins the bus (live.py does this once, after the archive has).
Subscribe(m) ==
    /\ running
    /\ m \notin Range(subscribers)
    /\ subscribers' = Append(subscribers, m)
    /\ UNCHANGED <<closed, state, running, seq, written, event, rest, seen,
                   audience, dropped>>

\* Mutant of Unsubscribe: the bus takes no snapshot.
UnsubscribeLive(m) ==
    /\ \E i \in 1..Len(subscribers) :
          subscribers[i] = m /\ subscribers' = RemoveAt(subscribers, i)
    /\ rest' = [t \in Tasks |-> SelectSeq(rest[t], LAMBDA h : h # m)]
    /\ UNCHANGED <<closed, state, running, seq, written, event, seen, audience,
                   dropped>>

\* The function subscribe returns takes the handler off the bus.
Unsubscribe(m) ==
    /\ \E i \in 1..Len(subscribers) :
          subscribers[i] = m /\ subscribers' = RemoveAt(subscribers, i)
    /\ UNCHANGED <<closed, state, running, seq, written, event, rest, seen,
                   audience, dropped>>

\* close: the bus refuses every publish from then on.
Close ==
    /\ ~closed
    /\ closed' = TRUE
    /\ UNCHANGED <<subscribers, state, running, seq, written, event, rest,
                   seen, audience, dropped>>

------------------------------------------------------------------------------
(* EvidencePipeline.ingest *)

\* The pipeline numbers the event; the bus refuses it once closed.
Refused(t) ==
    /\ closed
    /\ seq' = seq + 1
    /\ audience' = audience
    /\ dropped' = dropped \cup {seq + 1}
    /\ UNCHANGED <<written, event, rest, seen>>

\* Mutant of Published: every handler counts the message as written.
PublishedCountingAll(t, hs) ==
    /\ ~closed
    /\ seq' = seq + 1
    /\ audience' = [audience EXCEPT ![seq + 1] = Range(hs)]
    /\ CallOn(t, hs, seq + 1)
    /\ written' = written + Len(hs)

\* publish to the snapshot hs; the archive handler counts what it wrote.
Published(t, hs) ==
    /\ ~closed
    /\ seq' = seq + 1
    /\ audience' = [audience EXCEPT ![seq + 1] = Range(hs)]
    /\ CallOn(t, hs, seq + 1)
    /\ written' = IF Archive \in Range(hs) THEN written + 1 ELSE written

\* Mutant of PublishRaised: the message is counted before it is written.
PublishRaisedCounted(t, hs) ==
    /\ ~closed
    /\ seq' = seq + 1
    /\ audience' = [audience EXCEPT ![seq + 1] = Range(hs)]
    /\ \E k \in 0..Len(hs) : RaiseAfter(t, hs, k, seq + 1)
    /\ written' = written + 1

\* publish raises after k handlers.  With k = 1 it is the archive that raised
\* after its line was written (its flush failed), or a monitor before it did
\* anything; the message counts as written in the second case only.
PublishRaised(t, hs) ==
    /\ ~closed
    /\ seq' = seq + 1
    /\ audience' = [audience EXCEPT ![seq + 1] = Range(hs)]
    /\ \E k \in 0..Len(hs) :
          /\ RaiseAfter(t, hs, k, seq + 1)
          /\ written' \in IF k = 0 THEN {written}
                          ELSE IF k > 1 THEN {written + 1}
                          ELSE IF Len(hs) = 1 THEN {written}
                          ELSE {written, written + 1}

Ingest(t) ==
    /\ running
    /\ event[t] = 0
    /\ seq < MaxSeq
    /\ Refused(t) \/ Published(t, subscribers) \/ PublishRaised(t, subscribers)
    /\ UNCHANGED <<subscribers, closed, state, running>>

\* The handler a publish waits for goes on; it returns, or raises.
Resume(t) ==
    /\ event[t] # 0
    /\ \/ CallOn(t, rest[t], event[t])
       \/ \E k \in 0..Len(rest[t]) : RaiseAfter(t, rest[t], k, event[t])
    /\ UNCHANGED <<subscribers, closed, state, running, seq, written, audience>>

------------------------------------------------------------------------------
(* PipelineRunner *)

\* start: open_session, subscribe the archive, RECORDING, recorder.started.
\* When writing that first event raises, start raises with the session left
\* as it is; the caller gives up, yet ingest would still be accepted.
Start(t) ==
    /\ CanTransition(state, "RECORDING")
    /\ subscribers' = Append(subscribers, Archive)
    /\ state' = "RECORDING"
    /\ running' = TRUE
    /\ \/ Refused(t)
       \/ Published(t, subscribers')
       \/ PublishRaised(t, subscribers')
    /\ UNCHANGED closed

\* The pipeline's stop: recorder.stopped is recorded, and it runs no longer.
PipelineStop(t) ==
    /\ running
    /\ event[t] = 0
    /\ seq < MaxSeq
    /\ Published(t, subscribers)
    /\ running' = FALSE

\* Mutant of Stop: the pipeline goes on running and the archive listening.
StopStillRunning(t) ==
    /\ running
    /\ event[t] = 0
    /\ seq < MaxSeq
    /\ Range(subscribers) \subseteq {Archive}
    /\ CanTransition(state, "FINALIZING")
    /\ Published(t, subscribers)
    /\ state' \in {"FINALIZING", "COMPLETE"}
    /\ UNCHANGED <<closed, running, subscribers>>

\* The runner's stop: the pipeline stops, the archive leaves the bus, FINALIZING,
\* finalize_session, COMPLETE.  finalize_session may raise and leave the session
\* FINALIZING.  A recorder.stopped that cannot be published makes stop raise with
\* the pipeline still running: for this state it is an Ingest that raised.
Stop(t) ==
    /\ PipelineStop(t)
    /\ Range(subscribers) \subseteq {Archive}
    /\ CanTransition(state, "FINALIZING")
    /\ subscribers' = << >>
    /\ state' \in {"FINALIZING", "COMPLETE"}
    /\ UNCHANGED closed

Next ==
    \/ \E m \in Monitors : Subscribe(m) \/ Unsubscribe(m)
    \/ Close
    \/ \E t \in Tasks : Ingest(t) \/ Resume(t) \/ Start(t) \/ Stop(t)

Spec == Init /\ [][Next]_vars

------------------------------------------------------------------------------
(* Properties *)

\* Every variable has its type.
TypeOK ==
    /\ subscribers \in Seq(Handlers)
    /\ closed \in BOOLEAN
    /\ state \in ArchiveState
    /\ running \in BOOLEAN
    /\ seq \in 0..MaxSeq
    /\ written \in 0..MaxSeq
    /\ event \in [Tasks -> 0..MaxSeq]
    /\ rest \in [Tasks -> Seq(Handlers)]
    /\ seen \in [Handlers -> Seq(1..MaxSeq)]
    /\ audience \in [1..MaxSeq -> SUBSET Handlers]
    /\ dropped \in SUBSET (1..MaxSeq)

Archived == Range(seen[Archive])

\* The archive holds events in the order of their numbers, none twice, however
\* the tasks' publishes overlap at the monitors that suspend.
ArchiveInOrder ==
    \A i, j \in 1..Len(seen[Archive]) : i < j => seen[Archive][i] < seen[Archive][j]

\* A number missing from the archive is that of an ingest that raised at its
\* caller: no evidence that was accepted is lost without an exception.
NoSilentLoss == \A n \in 1..seq : n \in Archived \/ n \in dropped

\* An event whose publish has ended without an exception was taken in once by
\* each handler subscribed when it was published and by no other, although
\* handlers come and go while publishes are suspended.
WholeAudience ==
    \A n \in (1..seq) \ dropped :
       (\A t \in Tasks : event[t] # n) =>
          \A h \in Handlers :
             Cardinality({i \in 1..Len(seen[h]) : seen[h][i] = n})
               = IF h \in audience[n] THEN 1 ELSE 0

\* messages_received - messages_written, which live.py reports as the dropped
\* messages, is never less than what the archive misses.
LossIsCounted == Cardinality((1..seq) \ Archived) <= seq - written

\* recorder.stopped, the last event numbered, is the last event of an archive
\* whose session has left RECORDING: nothing was recorded after it.
StoppedIsLast ==
    state \in {"FINALIZING", "COMPLETE"} =>
       /\ seen[Archive] # << >>
       /\ seen[Archive][Len(seen[Archive])] = seq

\* The archive is an evidence log: it grows in order and is immutable once the
\* session has left RECORDING.
Log == INSTANCE EvidenceLog WITH log    <- seen[Archive],
                                 sealed <- state \in {"FINALIZING", "COMPLETE"}
ArchiveIsALog == Log!LogSpec
==============================================================================
