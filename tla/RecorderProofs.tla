---------------------------- MODULE RecorderProofs ----------------------------
(***************************************************************************)
(* Proofs about Recorder, for any bound on the events.                     *)
(***************************************************************************)
EXTENDS Recorder, FiniteSetTheorems, TLAPS

------------------------------------------------------------------------------
(* The invariant *)

\* Where start and stop are determines the session's state; before start nobody
\* reads, and nothing has been counted.
StateOfPhase ==
    /\ phase = "new" => /\ state = "CREATING"
                        /\ received = 0 /\ written = 0 /\ lines = 0
    /\ phase \in {"new", "connecting"} => client = "dead"
    /\ phase \notin {"new", "stopped", "aborted"} => Running
    /\ Running => phase \notin {"new", "stopped"}
    /\ flushing => phase = "recording"

\* The counters, at every moment: a line follows an event received, and an event
\* counts as written after its line.
Ordered ==
    /\ written <= lines /\ lines <= received
    /\ markets <= lines /\ messages <= received
    /\ ~failed => written = received /\ markets = messages

\* The reconnects the client counts: each of them but the one it cleans up for
\* has cost an event.
Attempts ==
    /\ metric <= received + 1
    /\ Running /\ client # "cleaning" => metric <= received

Reconnects(events) == {e \in events : e.kind = "connection.reconnect"}

HasGap(events) == \E e \in events : e.kind = "gap.detected"

\* The reconnect that is cleaned up for is counted, but not announced yet; once
\* the handler has left the bus the session's count is at least what was tracked.
Announced ==
    /\ IsFiniteSet(tracked)
    /\ Cardinality(Reconnects(tracked)) + (IF client = "cleaning" THEN 1 ELSE 0) <= metric
    /\ phase \in {"cancelling", "disconnecting", "stopped"} =>
          ~tracking /\ Cardinality(Reconnects(tracked)) <= reconnects

\* What was measured: a gap, and the failed batches, which are in their file unless
\* start failed at writing it.
Measured ==
    /\ gap = HasGap(tracked)
    /\ failures > 0 /\ phase # "failed" => subscriptions = <<failures>>
    /\ phase \in {"new", "connecting", "subscribing"} => session.failures = 0 /\ failures = 0

\* What session.json says covers what the other files list, also when a write has
\* failed between the one and the other: session.json is written first.
FilesFit ==
    /\ IsFiniteSet(sidecar) /\ sidecar \subseteq tracked
    /\ Cardinality(Reconnects(sidecar)) <= session.reconnects
    /\ HasGap(sidecar) => session.gap
    /\ session.failures > 0 => subscriptions = <<session.failures>>

\* Only the end of stop leaves a manifest that is complete, or cut off, and only
\* a start that fails a subscriptions.json that is cut off.
Ends ==
    /\ manifest.state = "COMPLETE" =>
          phase \in {"stopped", "aborted"} /\ session.written <= manifest.events
    /\ "manifest.json" \in torn => phase = "aborted"
    /\ "subscriptions.json" \in torn => phase = "failed"

\* The session that was stopped is the one in the files.
Flushed ==
    Stopped => /\ session.written = written /\ session.received = received
               /\ manifest = [state |-> "COMPLETE", events |-> lines]
               /\ session.gap = gap /\ sidecar = tracked
               /\ torn = {}

IInv == /\ TypeOK
        /\ StateOfPhase
        /\ Ordered
        /\ ObservedIsArchived
        /\ Attempts
        /\ Announced
        /\ Measured
        /\ FilesFit
        /\ Ends
        /\ Flushed

------------------------------------------------------------------------------
(* Lemmas about the operators *)

\* One more event is at most one more reconnect.
LEMMA ReconnectsOfOneMore ==
  ASSUME NEW S, IsFiniteSet(S), NEW e
  PROVE  /\ IsFiniteSet(S \cup {e})
         /\ Cardinality(Reconnects(S)) \in Nat
         /\ Cardinality(Reconnects(S \cup {e})) \in Nat
         /\ Cardinality(Reconnects(S \cup {e})) <=
              Cardinality(Reconnects(S)) + (IF e.kind = "connection.reconnect" THEN 1 ELSE 0)
<1> DEFINE c == Cardinality(Reconnects(S))
           d == Cardinality(Reconnects(S \cup {e}))
<1>1. IsFiniteSet(S \cup {e}) /\ Reconnects(S) \in SUBSET S
  BY FS_AddElement DEF Reconnects
<1>2. IsFiniteSet(Reconnects(S)) /\ c \in Nat
  BY <1>1, FS_Subset, FS_CardinalityType
<1>3. ASSUME e.kind = "connection.reconnect" PROVE d = c \/ d = c + 1
  <2>1. Reconnects(S \cup {e}) = Reconnects(S) \cup {e}
    BY <1>3 DEF Reconnects
  <2>2. Cardinality(Reconnects(S) \cup {e}) = IF e \in Reconnects(S) THEN c ELSE c + 1
    BY <1>2, FS_AddElement
  <2> QED  BY <2>1, <2>2
<1>4. ASSUME e.kind # "connection.reconnect" PROVE d = c
  <2>1. Reconnects(S \cup {e}) = Reconnects(S)
    BY <1>4 DEF Reconnects
  <2> QED  BY <2>1
<1> HIDE DEF c, d
<1>5. c \in Nat /\ d \in Nat /\ d <= c + (IF e.kind = "connection.reconnect" THEN 1 ELSE 0)
  BY <1>2, <1>3, <1>4
<1> QED  BY <1>1, <1>5 DEF c, d

\* The kinds of event that are told apart.
EventKind == Kinds \cup {"market", "other"}

ConnectionEvent == [n : 1..MaxEvents, kind : Kinds]

MetadataFiles == {"session.json", "reconnects.json", "manifest.json", "subscriptions.json"}

\* What session.json may hold.
SessionFile == [state : ArchiveState, received : 0..MaxEvents, written : 0..MaxEvents,
                reconnects : 0..(MaxEvents + 1), dropped : 0..MaxEvents,
                failures : 0..1, gap : BOOLEAN]

\* The counters are numbers.
LEMMA Numbers ==
  ASSUME TypeOK
  PROVE  /\ received \in 0..MaxEvents /\ written \in 0..MaxEvents
         /\ lines \in 0..MaxEvents /\ messages \in 0..MaxEvents
         /\ health \in 0..MaxEvents /\ markets \in 0..MaxEvents
         /\ droppedOf \in 0..MaxEvents
         /\ metric \in 0..(MaxEvents + 1) /\ reconnects \in 0..(MaxEvents + 1)
BY DEF TypeOK

\* The sets of events are such sets, the flags flags.
LEMMA Types ==
  ASSUME TypeOK
  PROVE  /\ tracked \in SUBSET ConnectionEvent
         /\ archived \in SUBSET ConnectionEvent
         /\ sidecar \in SUBSET ConnectionEvent
         /\ gap \in BOOLEAN /\ failed \in BOOLEAN
         /\ tracking \in BOOLEAN /\ flushing \in BOOLEAN
         /\ torn \in SUBSET MetadataFiles
BY DEF TypeOK, ConnectionEvent, MetadataFiles

\* An event that is lost may still have got its line, while the session runs.
LEMMA LostLine ==
  ASSUME NEW kind, Lost(kind)
  PROVE  \/ UNCHANGED <<lines, archived, markets>>
         \/ /\ Running /\ lines' = lines + 1
            /\ archived' = archived \cup Connection(kind)
            /\ markets' = IF kind = "market" THEN markets + 1 ELSE markets
<1>1. PICK line \in {FALSE, Running} : InArchive(kind, line)
  BY DEF Lost
<1>2. CASE line
  BY <1>1, <1>2, Zenon DEF InArchive
<1>3. CASE ~line
  BY <1>1, <1>3, Zenon DEF InArchive
<1> QED  BY <1>2, <1>3

\* How an emission moves the counters, whether it raises or not.
LEMMA EmissionCounts ==
  ASSUME TypeOK, Ordered, NEW kind \in EventKind, Kept(kind) \/ Lost(kind)
  PROVE  /\ received' \in 0..MaxEvents /\ written' \in 0..MaxEvents
         /\ lines' \in 0..MaxEvents /\ markets' \in 0..MaxEvents
         /\ received' = received + (IF Running THEN 1 ELSE 0)
         /\ written' <= lines' /\ lines' <= received' /\ markets' <= lines'
         /\ failed' \in BOOLEAN /\ (~failed' => ~failed)
         /\ ~failed' => written' = received'
         /\ ~Running => UNCHANGED <<received, written, lines, markets, failed>>
         /\ markets' = markets \/ (kind = "market" /\ markets' = markets + 1)
         /\ ~failed' /\ Running /\ kind = "market" => markets' = markets + 1
<1> USE Numbers, RecorderAssumption DEF Ordered
<1>1. CASE Kept(kind)
  BY <1>1, Types DEF Kept, Recorded, InArchive
<1>2. CASE Lost(kind)
  <2>1. failed' \in BOOLEAN /\ (Running => failed') /\ (~failed' => ~failed)
    BY <1>2, Types, Zenon DEF Lost
  <2>2. /\ received < MaxEvents /\ written' = written
        /\ received' = received + (IF Running THEN 1 ELSE 0)
    BY <1>2 DEF Lost
  <2>3. CASE Running
    BY <1>2, <2>1, <2>2, <2>3, LostLine
  <2>4. CASE ~Running
    BY <1>2, <2>1, <2>2, <2>4, LostLine, Types DEF Lost
  <2> QED  BY <2>3, <2>4
<1> QED  BY <1>1, <1>2

\* What an emission leaves in the archive and with the metadata handler.
LEMMA EmissionTracked ==
  ASSUME TypeOK, Ordered, ObservedIsArchived, IsFiniteSet(tracked), gap = HasGap(tracked),
         NEW kind \in EventKind, Kept(kind) \/ Lost(kind)
  PROVE  /\ tracked' \in SUBSET ConnectionEvent /\ archived' \in SUBSET ConnectionEvent
         /\ tracked \subseteq tracked' /\ tracked' \subseteq archived'
         /\ health' \in 0..MaxEvents /\ health' <= markets'
         /\ gap' = HasGap(tracked')
         /\ IsFiniteSet(tracked')
         /\ Cardinality(Reconnects(tracked)) \in Nat
         /\ Cardinality(Reconnects(tracked')) \in Nat
         /\ Cardinality(Reconnects(tracked')) <=
              Cardinality(Reconnects(tracked))
                + (IF kind = "connection.reconnect" THEN 1 ELSE 0)
         /\ ~tracking \/ kind \notin Kinds => tracked' = tracked
<1> DEFINE e == [n |-> received', kind |-> kind]
           c == Cardinality(Reconnects(tracked))
           d == Cardinality(Reconnects(tracked'))
<1>1. Connection(kind) = IF kind \in Kinds THEN {e} ELSE {}
  BY DEF Connection
<1>2. Running /\ kind \in Kinds => e \in ConnectionEvent
  <2>1. Running => received' \in 1..MaxEvents
    BY EmissionCounts, Numbers
  <2> QED  BY <2>1 DEF ConnectionEvent
<1>3. /\ archived' = archived \/ archived' = archived \cup Connection(kind)
      /\ Running \/ archived' = archived
      /\ Kept(kind) => archived' = archived \cup Connection(kind) /\ Running
  <2>1. CASE Kept(kind)
    BY <2>1 DEF Kept, Recorded, InArchive
  <2>2. CASE Lost(kind)
    <3>1. written' = written /\ written # written + 1
      BY <2>2, Numbers, RecorderAssumption DEF Lost
    <3>2. ~Kept(kind)
      BY <3>1 DEF Kept, Recorded
    <3> QED  BY <2>2, <3>2, LostLine
  <2> QED  BY <2>1, <2>2
<1>4. archived' \in SUBSET ConnectionEvent /\ archived \subseteq archived'
  BY <1>1, <1>2, <1>3, Types
<1>5. /\ health' \in 0..MaxEvents /\ health' <= markets'
  <2>1. health' = health \/ (kind = "market" /\ health' = health + 1 /\ Kept(kind))
    BY DEF Kept, Lost, Recorded, Observed, handler
  <2>2. Kept(kind) /\ kind = "market" => markets' = markets + 1
    BY DEF Kept, Recorded, InArchive
  <2> QED  BY <2>1, <2>2, EmissionCounts, Numbers, RecorderAssumption DEF ObservedIsArchived
<1>6. CASE tracked' = tracked /\ gap' = gap
  <2>1. c \in Nat
    BY ReconnectsOfOneMore
  <2> QED  BY <1>4, <1>5, <1>6, <2>1, Types DEF ObservedIsArchived
<1>7. CASE Kept(kind) /\ tracking /\ kind \in Kinds
  <2>1. tracked' = tracked \cup {e} /\ e.kind = kind
    BY <1>1, <1>7 DEF Kept, Recorded, Observed
  <2>2. gap' = HasGap(tracked')
    <3>1. gap' = (gap \/ kind = "gap.detected")
      BY <1>7 DEF Kept, Recorded, Observed
    <3> QED  BY <2>1, <3>1, Zenon DEF HasGap
  <2>3. archived' = archived \cup {e} /\ e \in ConnectionEvent
    BY <1>1, <1>2, <1>3, <1>7
  <2>4. /\ IsFiniteSet(tracked') /\ c \in Nat /\ d \in Nat
        /\ d <= c + (IF kind = "connection.reconnect" THEN 1 ELSE 0)
    BY <2>1, ReconnectsOfOneMore
  <2> QED  BY <1>4, <1>5, <1>7, <2>1, <2>2, <2>3, <2>4, Types DEF ObservedIsArchived
<1>8. CASE Kept(kind) /\ kind \notin Kinds
  <2>1. kind # "gap.detected" /\ Connection(kind) = {}
    BY <1>8, <1>1 DEF Kinds
  <2>2. tracked' = tracked /\ gap' = gap
    BY <1>8, <2>1, Types DEF Kept, Recorded, Observed, handler
  <2> QED  BY <1>6, <2>2
<1>9. Lost(kind) \/ (Kept(kind) /\ ~tracking) => tracked' = tracked /\ gap' = gap
  BY DEF Kept, Lost, Recorded, Observed, handler
<1> QED  BY <1>6, <1>7, <1>8, <1>9

------------------------------------------------------------------------------
(* The steps *)

LEMMA InitInvariant == Init => IInv
<1> SUFFICES ASSUME Init PROVE IInv
  OBVIOUS
<1>1. StateOfPhase /\ Ordered /\ ObservedIsArchived /\ Attempts /\ Ends /\ Flushed
  BY RecorderAssumption DEF Init, StateOfPhase, Ordered, ObservedIsArchived,
                            Attempts, Ends, Flushed, Running, Stopped
<1>2. Announced /\ Measured /\ FilesFit
  <2>1. Reconnects({}) = {}
    BY DEF Reconnects
  <2>2. Cardinality(Reconnects({})) = 0 /\ IsFiniteSet({})
    BY <2>1, FS_EmptySet
  <2>3. Announced
    BY <2>2 DEF Init, Announced
  <2>4. HasGap({}) = FALSE /\ HasGap(tracked) = HasGap({}) /\ HasGap(sidecar) = HasGap({})
    BY Zenon DEF Init, HasGap
  <2>5. gap = FALSE /\ session.failures = 0 /\ failures = 0 /\ session.reconnects = 0
    BY DEF Init
  <2>6. gap = HasGap(tracked)
    BY <2>4, <2>5, Zenon
  <2>7. FilesFit
    BY <2>2, <2>4, <2>5 DEF Init, FilesFit
  <2> QED  BY <2>3, <2>5, <2>6, <2>7 DEF Measured
<1>3. TypeOK
  <2>1. session \in [state : ArchiveState, received : 0..MaxEvents, written : 0..MaxEvents,
                    reconnects : 0..(MaxEvents + 1), dropped : 0..MaxEvents,
                    failures : 0..1, gap : BOOLEAN]
    BY RecorderAssumption DEF Init, ArchiveState
  <2>2. manifest \in [state : {"RECORDING", "COMPLETE"}, events : 0..MaxEvents]
    BY RecorderAssumption DEF Init
  <2> QED  BY <2>1, <2>2, RecorderAssumption DEF Init, TypeOK, ArchiveState
<1> QED  BY <1>1, <1>2, <1>3 DEF IInv

ClientState == {"serving", "cleaning", "waiting", "dead"}

\* A step of the reader that emits: a market message only while the session runs,
\* an announcement only after a cleanup, and no cleanup after a cleanup.
LEMMA ReaderEmits ==
  ASSUME IInv, client # "dead",
         NEW kind \in EventKind, NEW ok \in ClientState, NEW raised \in ClientState,
         Emits(kind, ok, raised),
         kind = "market" => Running,
         client # "cleaning" /\ "cleaning" \in {ok, raised} => Running,
         kind = "connection.reconnect" => client = "cleaning",
         client = "cleaning" => "cleaning" \notin {ok, raised}
  PROVE  IInv'
<1> USE DEF IInv
<1>1. Kept(kind) \/ Lost(kind)
  BY DEF Emits
<1>2. /\ client' \in {ok, raised}
      /\ metric' = IF client # "cleaning" /\ client' = "cleaning" THEN metric + 1 ELSE metric
      /\ messages' = IF kind = "market" THEN messages + 1 ELSE messages
      /\ UNCHANGED <<phase, state, quality, tasks, files>>
  BY DEF Emits
<1>3. UNCHANGED <<reconnects, droppedOf, failures, sidecar, session, manifest, subscriptions,
                  torn, tracking, flushing>>
  BY <1>2 DEF quality, files, tasks
<1>4. /\ Running' = Running /\ Stopped' = Stopped /\ (Running => ~Stopped)
  BY <1>2 DEF Running, Stopped, StateOfPhase
<1>5. Ordered' /\ messages' \in 0..MaxEvents
  BY <1>1, <1>2, EmissionCounts, Numbers, RecorderAssumption DEF Ordered
<1>6. Attempts' /\ metric' \in 0..(MaxEvents + 1)
  BY <1>1, <1>2, <1>4, EmissionCounts, Numbers, RecorderAssumption DEF Attempts
<1>7. ObservedIsArchived'
  BY <1>1, <1>2, <1>3, <1>5, EmissionTracked, EmissionCounts, Numbers, RecorderAssumption
     DEF ObservedIsArchived, FilesFit, Announced, Measured, Ordered
<1>8. Announced'
  BY <1>1, <1>2, <1>3, EmissionTracked, Numbers, RecorderAssumption
     DEF Announced, Measured, ClientState
<1>9. Measured' /\ FilesFit' /\ Ends'
  BY <1>1, <1>2, <1>3, EmissionTracked DEF Measured, Announced, FilesFit, Ends
<1>10. TypeOK'
  <2>1. received' \in 0..MaxEvents /\ written' \in 0..MaxEvents /\ lines' \in 0..MaxEvents
        /\ markets' \in 0..MaxEvents /\ failed' \in BOOLEAN
    BY <1>1, EmissionCounts
  <2>2. health' \in 0..MaxEvents /\ tracked' \in SUBSET ConnectionEvent
        /\ archived' \in SUBSET ConnectionEvent /\ gap' \in BOOLEAN
    BY <1>1, EmissionTracked DEF Announced, Measured, HasGap
  <2>3. client' \in ClientState /\ phase' = phase /\ state' = state
    BY <1>2
  <2> QED  BY <1>3, <1>5, <1>6, <2>1, <2>2, <2>3 DEF TypeOK, ConnectionEvent, ClientState
<1>11. Flushed'
  <2>1. Stopped => UNCHANGED <<written, received, lines>>
    BY <1>1, <1>4, EmissionCounts
  <2>2. Stopped => tracked' = tracked /\ gap' = gap
    BY <1>1, EmissionTracked DEF Announced, Measured, Stopped
  <2> QED  BY <1>3, <1>4, <2>1, <2>2 DEF Flushed
<1>12. StateOfPhase'
  BY <1>2, <1>3, <1>4 DEF StateOfPhase
<1> QED  BY <1>5, <1>6, <1>7, <1>8, <1>9, <1>10, <1>11, <1>12

\* The reader's steps.
LEMMA ReaderNext ==
  ASSUME IInv, Receives \/ Closes \/ Announces \/ Restores \/ Fails
  PROVE  IInv'
<1> USE DEF ClientState, EventKind, Kinds
<1>1. client # "dead" /\ phase # "new"
  BY DEF Receives, Closes, Announces, Restores, Fails, IInv, StateOfPhase
<1>2. ~ShutDown => Running
  BY <1>1 DEF ShutDown, IInv, StateOfPhase
<1>3. CASE Receives
  BY <1>1, <1>2, <1>3, ReaderEmits DEF Receives
<1>4. CASE Closes
  BY <1>1, <1>2, <1>4, ReaderEmits DEF Closes
<1>5. CASE Announces
  <2>1. CASE ShutDown
    BY <1>1, <1>5, <2>1, ReaderEmits DEF Announces
  <2>2. CASE ~ShutDown
    BY <1>1, <1>5, <2>2, ReaderEmits DEF Announces
  <2> QED  BY <2>1, <2>2
<1>6. CASE Restores
  <2>1. PICK kind \in {"gap.detected", "other"} : Emits(kind, "serving", Again)
    BY <1>6 DEF Restores
  <2>2. client = "waiting" /\ Again \in ClientState /\ (Again = "cleaning" => Running)
    BY <1>2, <1>6 DEF Restores, Again
  <2> QED  BY <1>1, <2>1, <2>2, ReaderEmits
<1>7. CASE Fails
  <2>1. /\ client = "waiting" /\ client' = Again
        /\ metric' = IF ShutDown THEN metric ELSE metric + 1
    BY <1>7 DEF Fails
  <2>2. UNCHANGED <<phase, state, received, written, lines, messages, reconnects, droppedOf,
                    failures, tracking, flushing, tracked, gap, health, sidecar, session,
                    manifest, subscriptions, torn, archived, markets, failed>>
    BY <1>7 DEF Fails, counts, quality, tasks, handler, files, history
  <2>3. /\ client' \in ClientState /\ Running' = Running
        /\ client' = "cleaning" => ~ShutDown /\ Running /\ metric' = metric + 1
        /\ client' # "cleaning" => metric' = metric
    BY <1>2, <2>1, <2>2 DEF Again, Running
  <2>4. Attempts' /\ metric' \in 0..(MaxEvents + 1)
    BY <2>1, <2>2, <2>3, Numbers, RecorderAssumption DEF IInv, Attempts
  <2>5. Announced'
    <3>1. Cardinality(Reconnects(tracked)) \in Nat
      BY ReconnectsOfOneMore DEF IInv, Announced
    <3> QED  BY <2>1, <2>2, <2>3, <3>1, Numbers, RecorderAssumption DEF IInv, Announced
  <2>6. TypeOK'
    BY <2>2, <2>3, <2>4 DEF IInv, TypeOK
  <2>7. /\ StateOfPhase' /\ Ordered' /\ ObservedIsArchived' /\ Measured'
        /\ FilesFit' /\ Ends' /\ Flushed'
    BY <1>1, <2>2, <2>3 DEF IInv, StateOfPhase, Ordered, ObservedIsArchived, Measured,
                            FilesFit, Ends, Flushed, Stopped
  <2> QED  BY <2>4, <2>5, <2>6, <2>7 DEF IInv
<1> QED  BY <1>3, <1>4, <1>5, <1>6, <1>7


\* An event of no concern to the tracker moves only the counters.
LEMMA OtherEmission ==
  ASSUME TypeOK, Ordered, messages' = messages,
         \/ Kept("other") \/ Lost("other")
         \/ Recorded("other") /\ failed' = TRUE
  PROVE  /\ received' \in 0..MaxEvents /\ written' \in 0..MaxEvents /\ lines' \in 0..MaxEvents
         /\ received' = received + (IF Running THEN 1 ELSE 0)
         /\ failed' \in BOOLEAN
         /\ UNCHANGED <<markets, archived, tracked, gap, health>>
         /\ Ordered'
<1>1. Connection("other") = {} /\ "other" \in EventKind
  BY DEF Connection, Kinds, EventKind
<1>2. CASE Kept("other") \/ (Recorded("other") /\ failed' = TRUE)
  <2>1. /\ Running /\ received < MaxEvents
        /\ received' = received + 1 /\ written' = written + 1 /\ lines' = lines + 1
    BY <1>2 DEF Kept, Recorded, InArchive
  <2>2. UNCHANGED <<markets, archived, tracked, gap, health>>
    BY <1>1, <1>2, Types DEF Kept, Recorded, InArchive, Observed, handler
  <2>3. failed' \in BOOLEAN /\ (~failed' => ~failed)
    <3>1. CASE failed' = failed
      BY <3>1, Types
    <3>2. CASE failed' = TRUE
      BY <3>2
    <3> QED  BY <1>2, <3>1, <3>2 DEF Kept
  <2> QED  BY <2>1, <2>2, <2>3, Numbers, RecorderAssumption DEF Ordered
<1>3. CASE Lost("other")
  <2>1. UNCHANGED <<tracked, gap, health>>
    BY <1>3 DEF Lost, handler
  <2>2. UNCHANGED <<markets, archived>>
    BY <1>1, <1>3, LostLine
  <2> QED  BY <1>1, <1>3, <2>1, <2>2, EmissionCounts, Numbers DEF Ordered
<1> QED  BY <1>2, <1>3

\* runner.start.
LEMMA StartRunnerInv ==
  ASSUME IInv, StartRunner
  PROVE  IInv'
<1>1. /\ phase = "new" /\ received = 0 /\ written = 0 /\ lines = 0 /\ client = "dead"
      /\ markets = 0 /\ messages = 0 /\ health = 0 /\ metric \in {0, 1}
  BY Numbers, RecorderAssumption
     DEF StartRunner, IInv, StateOfPhase, Ordered, ObservedIsArchived, Attempts
<1>2. /\ state' = "RECORDING" /\ received' = 1 /\ phase' \in {"connecting", "failed"}
      /\ UNCHANGED <<client, metric, messages, reconnects, droppedOf, failures, flushing,
                     tracked, gap, health, sidecar, session, manifest, subscriptions, torn>>
  <2>1. /\ state' = "RECORDING" /\ received' = received + 1
        /\ phase' = "connecting" \/ phase' = "failed"
        /\ UNCHANGED <<client, metric, messages, quality, flushing, handler, files>>
    BY Zenon DEF StartRunner
  <2> QED  BY <1>1, <2>1 DEF quality, handler, files
<1>3. /\ written' \in {0, 1} /\ lines' \in {0, 1} /\ written' <= lines'
      /\ markets' = markets /\ archived' = archived
      /\ failed' \in BOOLEAN /\ tracking' \in BOOLEAN
      /\ ~failed' => ~failed /\ written' = 1
  <2>1. Connection("other") = {}
    BY DEF Connection, Kinds
  <2>2. CASE /\ tracking' = TRUE /\ written' = written + 1 /\ InArchive("other", TRUE)
             /\ UNCHANGED failed
    BY <1>1, <2>1, <2>2, Types DEF InArchive, IInv
  <2>3. CASE /\ failed' = TRUE /\ UNCHANGED <<tracking, written>>
             /\ \E line \in BOOLEAN : InArchive("other", line)
    <3>1. InArchive("other", TRUE) \/ InArchive("other", FALSE)
      BY <2>3
    <3> QED  BY <1>1, <2>1, <2>3, <3>1, Types DEF InArchive, IInv
  <2> QED  BY <2>2, <2>3 DEF StartRunner
<1>4. TypeOK'
  BY <1>1, <1>2, <1>3, RecorderAssumption DEF IInv, TypeOK, ArchiveState
<1>5. StateOfPhase' /\ Flushed' /\ Attempts'
  BY <1>1, <1>2 DEF IInv, StateOfPhase, Flushed, Attempts, Running, Stopped
<1>6. Ordered' /\ ObservedIsArchived'
  BY <1>1, <1>2, <1>3 DEF IInv, Ordered, ObservedIsArchived
<1>7. Announced'
  BY <1>2 DEF IInv, Announced
<1>8. Measured' /\ FilesFit'
  BY <1>1, <1>2 DEF IInv, Measured, FilesFit, StartRunner
<1>9. Ends'
  BY <1>1, <1>2 DEF IInv, Ends, StartRunner
<1> QED  BY <1>4, <1>5, <1>6, <1>7, <1>8, <1>9 DEF IInv

\* A step of start or stop that records an event of no concern to the tracker
\* leaves the files, or writes only the failed batches: connect, subscribe and
\* disconnect.  A reader that cleans up goes on.
LEMMA PhaseEmits ==
  ASSUME IInv, Connected \/ Started \/ Disconnect
  PROVE  IInv'
<1>1. /\ phase \in {"connecting", "subscribing", "cancelling"} /\ Running
      /\ Kept("other") \/ Lost("other")
      /\ UNCHANGED <<state, metric, messages, reconnects, droppedOf, tracking, sidecar,
                     session, manifest>>
  BY DEF Connected, Started, Disconnect, quality, tasks, files, IInv, StateOfPhase
<1>2. /\ phase' \in {"subscribing", "failed", "recording", "disconnecting", "aborted"}
      /\ phase' \in {"disconnecting", "aborted"} <=> phase = "cancelling"
      /\ client' \in {client, "serving", "dead"}
  BY DEF Connected, Started, Disconnect
<1>3. /\ received' \in 0..MaxEvents /\ written' \in 0..MaxEvents /\ lines' \in 0..MaxEvents
      /\ received' = received + 1 /\ failed' \in BOOLEAN
      /\ UNCHANGED <<markets, archived, tracked, gap, health>>
      /\ Ordered'
  BY <1>1, OtherEmission DEF IInv
<1>4. /\ failures' \in 0..1 /\ subscriptions' \in {<< >>, <<0>>, <<1>>}
      /\ failures' > 0 /\ phase' # "failed" => subscriptions' = <<failures'>>
      /\ phase = "subscribing" \/ UNCHANGED <<failures, subscriptions>>
      /\ phase' = "subscribing" => phase = "connecting"
  BY DEF Connected, Started, Disconnect, quality, files, IInv, Measured, TypeOK
<1>5. /\ torn' \in SUBSET MetadataFiles /\ flushing' \in BOOLEAN
      /\ flushing' => phase' = "recording"
      /\ "manifest.json" \in torn' => "manifest.json" \in torn
      /\ "subscriptions.json" \in torn' => phase' = "failed"
  <2>1. flushing = FALSE
    BY <1>1 DEF IInv, StateOfPhase, TypeOK
  <2>2. torn \in SUBSET MetadataFiles /\ "subscriptions.json" \notin torn
    BY <1>1, Types DEF IInv, Ends
  <2>3. CASE Connected \/ Disconnect
    BY <2>1, <2>2, <2>3 DEF Connected, Disconnect, tasks, files
  <2>4. CASE Started
    BY <2>1, <2>2, <2>4 DEF Started, CutOff, MetadataFiles
  <2> QED  BY <2>3, <2>4
<1>6. TypeOK'
  BY <1>1, <1>2, <1>3, <1>4, <1>5 DEF IInv, TypeOK, MetadataFiles
<1>7. StateOfPhase' /\ Flushed' /\ Ends'
  BY <1>1, <1>2, <1>5 DEF IInv, StateOfPhase, Flushed, Ends, Running, Stopped
<1>8. Attempts'
  BY <1>1, <1>2, <1>3, Numbers DEF IInv, Attempts, Running
<1>9. ObservedIsArchived'
  BY <1>1, <1>3 DEF IInv, ObservedIsArchived
<1>10. Announced'
  <2>1. Cardinality(Reconnects(tracked)) \in Nat
    BY ReconnectsOfOneMore DEF IInv, Announced
  <2> QED  BY <1>1, <1>2, <1>3, <2>1, Numbers DEF IInv, Announced
<1>11. Measured' /\ FilesFit'
  <2>1. session'.failures > 0 => phase # "subscribing"
    BY <1>1 DEF IInv, Measured
  <2> QED  BY <1>1, <1>2, <1>3, <1>4, <2>1 DEF IInv, Measured, FilesFit
<1> QED  BY <1>3, <1>6, <1>7, <1>8, <1>9, <1>10, <1>11 DEF IInv

\* A session that is dumped is one that session.json may hold.
LEMMA DumpType ==
  ASSUME TypeOK, NEW st \in ArchiveState, NEW r \in 0..MaxEvents, NEW w \in 0..MaxEvents,
         reconnects' \in 0..(MaxEvents + 1)
  PROVE  /\ Dump(st, r, w) \in SessionFile
         /\ Dump(st, r, w).reconnects = reconnects' /\ Dump(st, r, w).gap = gap
         /\ Dump(st, r, w).failures = failures
         /\ Dump(st, r, w).received = r /\ Dump(st, r, w).written = w
BY DEF TypeOK, Dump, SessionFile

\* The files that flush_session and write_reconnects leave, be it that one of the
\* two fails: session.json is the first to be written.
LEMMA FlushFiles ==
  ASSUME IInv, NEW d \in SessionFile,
         d.reconnects = reconnects', d.gap = gap, d.failures = failures,
         \/ session' = d /\ sidecar' \in {sidecar, tracked}
         \/ session' = session /\ sidecar' = sidecar,
         UNCHANGED <<tracked, subscriptions>>,
         reconnects' \in 0..(MaxEvents + 1),
         Cardinality(Reconnects(tracked)) <= reconnects',
         phase # "failed"
  PROVE  FilesFit' /\ sidecar' \subseteq tracked' /\ session' \in SessionFile
<1>1. /\ IsFiniteSet(tracked) /\ sidecar \subseteq tracked
      /\ gap = HasGap(tracked) /\ (failures > 0 => subscriptions = <<failures>>)
  BY DEF IInv, Announced, FilesFit, Measured
<1>2. sidecar' \subseteq tracked /\ IsFiniteSet(sidecar') /\ session' \in SessionFile
  <2>1. session \in SessionFile
    BY DEF IInv, TypeOK, SessionFile
  <2>2. sidecar' \subseteq tracked
    BY <1>1
  <2> QED  BY <1>1, <2>1, <2>2, FS_Subset
<1>3. CASE session' = session /\ sidecar' = sidecar
  BY <1>2, <1>3 DEF IInv, FilesFit
<1>4. CASE session' = d
  <2>1. Reconnects(sidecar') \subseteq Reconnects(tracked) /\ IsFiniteSet(Reconnects(tracked))
    <3>1. Reconnects(tracked) \subseteq tracked
      BY DEF Reconnects
    <3> QED  BY <1>1, <1>2, <3>1, FS_Subset DEF Reconnects
  <2>2. /\ Cardinality(Reconnects(sidecar')) \in Nat /\ Cardinality(Reconnects(tracked)) \in Nat
        /\ Cardinality(Reconnects(sidecar')) <= Cardinality(Reconnects(tracked))
    BY <2>1, FS_Subset, FS_CardinalityType
  <2>3. Cardinality(Reconnects(sidecar')) <= session'.reconnects
    BY <1>4, <2>2
  <2>4. HasGap(sidecar') => session'.gap
    <3>1. HasGap(sidecar') => HasGap(tracked)
      BY <1>2 DEF HasGap
    <3> QED  BY <1>1, <1>4, <3>1, Zenon
  <2>5. session'.failures > 0 => subscriptions' = <<session'.failures>>
    BY <1>1, <1>4
  <2> QED  BY <1>2, <2>3, <2>4, <2>5 DEF FilesFit
<1> QED  BY <1>2, <1>3, <1>4

\* What the two writes, or one that fails, leave torn.
LEMMA FlushTorn ==
  ASSUME torn \in SUBSET MetadataFiles, FlushWrites \/ FlushCut
  PROVE  /\ torn' \in SUBSET MetadataFiles /\ Mended \in SUBSET MetadataFiles
         /\ "manifest.json" \in torn' <=> "manifest.json" \in torn
         /\ "subscriptions.json" \in torn' <=> "subscriptions.json" \in torn
BY DEF FlushWrites, FlushCut, CutOff, Mended, MetadataFiles

\* A turn of the flush loop, which a write may end.
LEMMA FlushLoopInv ==
  ASSUME IInv, FlushLoop
  PROVE  IInv'
<1>1. /\ phase = "recording" /\ Running /\ reconnects' = metric
      /\ FlushWrites \/ FlushCut
      /\ flushing' \in {flushing, FALSE} /\ flushing \in BOOLEAN
      /\ UNCHANGED <<phase, state, client, metric, messages, received, written, lines,
                     droppedOf, failures, tracking, tracked, gap, health, archived, markets,
                     failed, manifest, subscriptions>>
  BY Types DEF FlushLoop, counts, handler, history, IInv, StateOfPhase
<1>2. /\ Cardinality(Reconnects(tracked)) <= metric
      /\ reconnects' \in 0..(MaxEvents + 1)
  <2>1. Cardinality(Reconnects(tracked)) \in Nat
    BY ReconnectsOfOneMore DEF IInv, Announced
  <2> QED  BY <1>1, <2>1, Numbers DEF IInv, Announced
<1>3. /\ DumpNow \in SessionFile
      /\ DumpNow.reconnects = reconnects' /\ DumpNow.gap = gap /\ DumpNow.failures = failures
  <2>1. state \in ArchiveState
    BY DEF IInv, TypeOK
  <2> QED  BY <1>2, <2>1, Numbers, DumpType DEF DumpNow, IInv
<1>4. \/ session' = DumpNow /\ sidecar' \in {sidecar, tracked}
      \/ session' = session /\ sidecar' = sidecar
  BY <1>1 DEF FlushWrites, FlushCut
<1>5. FilesFit' /\ sidecar' \subseteq tracked' /\ session' \in SessionFile
  BY <1>1, <1>2, <1>3, <1>4, FlushFiles
<1>6. /\ torn' \in SUBSET MetadataFiles
      /\ "manifest.json" \notin torn' /\ "subscriptions.json" \notin torn'
  BY <1>1, FlushTorn, Types DEF IInv, Ends
<1>7. TypeOK'
  BY <1>1, <1>2, <1>5, <1>6
     DEF IInv, TypeOK, SessionFile, MetadataFiles, FilesFit, ConnectionEvent
<1>8. StateOfPhase' /\ Ordered' /\ Attempts' /\ Flushed' /\ Ends'
  BY <1>1, <1>6 DEF IInv, StateOfPhase, Ordered, Attempts, Flushed, Ends, Running, Stopped
<1>9. ObservedIsArchived' /\ Announced' /\ Measured'
  BY <1>1, <1>5 DEF IInv, ObservedIsArchived, Announced, Measured
<1> QED  BY <1>5, <1>7, <1>8, <1>9 DEF IInv

\* The steps that record and write nothing: start that raises, the end of the flush
\* loop, and the handler's leaving the bus.
LEMMA SilentNext ==
  ASSUME IInv, StartFails \/ StopFlushLoop \/ Unsubscribe
  PROVE  IInv'
<1>1. /\ phase \in {"connecting", "subscribing", "recording", "unsubscribing"} /\ Running
      /\ UNCHANGED <<state, metric, messages, received, written, lines, droppedOf, failures,
                     tracked, gap, health, archived, markets, failed, sidecar, session,
                     manifest, subscriptions, torn>>
  BY DEF StartFails, StopFlushLoop, Unsubscribe, counts, quality, handler, files, history,
         IInv, StateOfPhase
<1>2. Ordered' /\ Running' = Running /\ FilesFit' /\ ObservedIsArchived'
  BY <1>1 DEF IInv, Ordered, Running, FilesFit, ObservedIsArchived
<1>3. Cardinality(Reconnects(tracked)) \in Nat /\ Cardinality(Reconnects(tracked)) <= metric
  <2>1. Cardinality(Reconnects(tracked)) \in Nat
    BY ReconnectsOfOneMore DEF IInv, Announced
  <2> QED  BY <2>1, Numbers DEF IInv, Announced
<1>4. CASE StartFails
  <2>1. /\ phase \in {"connecting", "subscribing"} /\ phase' = "failed"
        /\ client' = client \/ (phase = "connecting" /\ client' = "serving")
        /\ UNCHANGED <<tracking, flushing, reconnects>>
    BY <1>4 DEF StartFails, quality, tasks
  <2>2. StateOfPhase' /\ Measured' /\ Flushed' /\ Ends'
    BY <1>1, <1>2, <2>1 DEF IInv, StateOfPhase, Measured, Flushed, Ends, Stopped
  <2>3. Attempts' /\ Announced'
    BY <1>1, <1>2, <2>1 DEF IInv, StateOfPhase, Attempts, Announced
  <2>4. TypeOK'
    BY <1>1, <2>1 DEF IInv, TypeOK
  <2> QED  BY <1>2, <2>2, <2>3, <2>4 DEF IInv
<1>5. CASE StopFlushLoop
  <2>1. /\ phase' = "unsubscribing" /\ flushing' = FALSE
        /\ UNCHANGED <<client, tracking, reconnects>>
    BY <1>5 DEF StopFlushLoop, quality
  <2>2. StateOfPhase' /\ Flushed' /\ Attempts' /\ Measured' /\ Announced' /\ Ends'
    BY <1>1, <1>2, <2>1 DEF IInv, StateOfPhase, Flushed, Stopped, Attempts, Measured,
                            Announced, Ends
  <2>3. TypeOK'
    BY <1>1, <2>1 DEF IInv, TypeOK
  <2> QED  BY <1>2, <2>2, <2>3 DEF IInv
<1>6. CASE Unsubscribe
  <2>1. /\ phase = "unsubscribing" /\ phase' = "cancelling" /\ tracking' = FALSE
        /\ reconnects' = metric /\ UNCHANGED <<client, flushing>>
    BY <1>6 DEF Unsubscribe
  <2>2. StateOfPhase' /\ Flushed' /\ Attempts' /\ Measured' /\ Ends'
    BY <1>1, <1>2, <2>1 DEF IInv, StateOfPhase, Flushed, Stopped, Attempts, Measured, Ends
  <2>3. Announced'
    BY <1>1, <1>3, <2>1 DEF IInv, Announced
  <2>4. TypeOK'
    BY <1>1, <2>1 DEF IInv, TypeOK
  <2> QED  BY <1>2, <2>2, <2>3, <2>4 DEF IInv
<1> QED  BY <1>4, <1>5, <1>6

\* No more messages are missing than were received.
LEMMA MissingBound ==
  ASSUME received' \in 0..MaxEvents, written' \in 0..MaxEvents, droppedOf \in 0..MaxEvents
  PROVE  Missing \in 0..MaxEvents
<1> DEFINE r == received'
           w == written'
<1>1. r \in Int /\ w \in Int /\ MaxEvents \in Int /\ 0 <= w /\ r <= MaxEvents
  BY RecorderAssumption
<1>2. Missing = IF r > w THEN r - w ELSE droppedOf
  BY DEF Missing
<1> HIDE DEF r, w
<1>3. r > w => r - w \in 0..MaxEvents
  BY <1>1
<1> QED  BY <1>2, <1>3

\* What finalize_session leaves, a step of it failing or none.
LEMMA FinalizesResult ==
  ASSUME IInv, phase = "disconnecting", Finalizes, UNCHANGED reconnects,
         lines' \in 0..MaxEvents, received' \in 0..MaxEvents, written' \in 0..MaxEvents,
         written' <= lines', lines <= lines', failed \in BOOLEAN
  PROVE  /\ phase' \in {"stopped", "aborted"} /\ state' \in {"COMPLETE", "FINALIZING"}
         /\ phase' = "stopped" => state' = "COMPLETE" /\ failed' = failed
         /\ failed' \in BOOLEAN /\ (~failed' => ~failed)
         /\ droppedOf' \in 0..MaxEvents
         /\ sidecar' = tracked
         /\ session' \in SessionFile /\ session'.reconnects = reconnects'
         /\ session'.gap = gap /\ session'.failures = failures
         /\ manifest' \in {manifest, [state |-> "COMPLETE", events |-> lines']}
         /\ manifest'.state = "COMPLETE" => session'.written <= manifest'.events
         /\ torn' \in SUBSET MetadataFiles
         /\ "manifest.json" \in torn' => phase' = "aborted"
         /\ "subscriptions.json" \notin torn'
         /\ phase' = "stopped" =>
               /\ session'.written = written' /\ session'.received = received'
               /\ manifest' = [state |-> "COMPLETE", events |-> lines'] /\ torn' = {}
<1>1. /\ torn \in SUBSET MetadataFiles /\ state \in ArchiveState
      /\ "manifest.json" \notin torn /\ "subscriptions.json" \notin torn
      /\ manifest.state # "COMPLETE"
      /\ reconnects' \in 0..(MaxEvents + 1) /\ droppedOf \in 0..MaxEvents
      /\ received \in 0..MaxEvents /\ written \in 0..MaxEvents /\ lines \in 0..MaxEvents
      /\ written <= lines
  BY Types, Numbers DEF IInv, TypeOK, Ends, Ordered
<1>2. Mended = {} /\ sidecar' = tracked
  BY <1>1 DEF Mended, MetadataFiles, Finalizes
<1>3. \/ /\ phase' = "stopped" /\ state' = "COMPLETE" /\ failed' = failed
         /\ manifest' = FinalManifest /\ torn' = {} /\ droppedOf' = Missing
         /\ session' = Dump("FINALIZING", received', written')
      \/ /\ phase' = "aborted" /\ state' = "FINALIZING" /\ droppedOf' = droppedOf
         /\ session' = DumpNow /\ failed' \in {failed, TRUE}
         /\ \/ manifest' = manifest /\ torn' \in {{}, {"manifest.json"}}
            \/ manifest' = FinalManifest /\ torn' \in {{}, {"session.json"}}
  BY <1>2 DEF Finalizes, CutOff
<1>4. CASE phase' = "stopped"
  <2>1. Missing \in 0..MaxEvents
    BY <1>1, MissingBound
  <2>2. /\ session' \in SessionFile /\ session'.reconnects = reconnects'
        /\ session'.gap = gap /\ session'.failures = failures
        /\ session'.received = received' /\ session'.written = written'
    BY <1>1, <1>3, <1>4, DumpType DEF ArchiveState, IInv
  <2> QED  BY <1>2, <1>3, <1>4, <2>1, <2>2 DEF FinalManifest
<1>5. CASE phase' = "aborted"
  <2>1. /\ session' \in SessionFile /\ session'.reconnects = reconnects'
        /\ session'.gap = gap /\ session'.failures = failures
        /\ session'.received = received /\ session'.written = written
    BY <1>1, <1>3, <1>5, DumpType DEF DumpNow, IInv
  <2>2. manifest'.state = "COMPLETE" => session'.written <= manifest'.events
    BY <1>1, <1>3, <1>5, <2>1 DEF FinalManifest
  <2> QED  BY <1>1, <1>2, <1>3, <1>5, <2>1, <2>2 DEF FinalManifest, MetadataFiles
<1> QED  BY <1>3, <1>4, <1>5

\* The end of stop.
LEMMA FinalizeInv ==
  ASSUME IInv, Finalize
  PROVE  IInv'
<1>1. /\ phase = "disconnecting" /\ Running /\ ~tracking /\ flushing = FALSE
      /\ Cardinality(Reconnects(tracked)) <= reconnects
      /\ manifest.state # "COMPLETE"
      /\ "manifest.json" \notin torn /\ "subscriptions.json" \notin torn
      /\ torn \in SUBSET MetadataFiles /\ state \in ArchiveState
      /\ reconnects \in 0..(MaxEvents + 1)
      /\ manifest \in [state : {"RECORDING", "COMPLETE"}, events : 0..MaxEvents]
  BY Types, Numbers DEF Finalize, IInv, StateOfPhase, Announced, Ends, TypeOK
<1>2. /\ UNCHANGED <<client, metric, messages, reconnects, failures, tracking, flushing,
                     subscriptions>>
      /\ phase' \in {"stopped", "aborted"}
  BY DEF Finalize, Finalizes, tasks
<1>3. \/ /\ FlushCut /\ phase' = "aborted"
         /\ UNCHANGED <<state, received, written, lines, droppedOf, tracked, gap, health,
                        manifest, archived, markets, failed>>
      \/ FlushWrites /\ Lost("other") /\ phase' = "aborted"
         /\ UNCHANGED <<state, droppedOf, manifest>>
      \/ Recorded("other") /\ Finalizes
  BY DEF Finalize, handler, history
\* What is the same in all three: an event that does not concern the tracker.
<1>4. /\ received' \in 0..MaxEvents /\ written' \in 0..MaxEvents /\ lines' \in 0..MaxEvents
      /\ lines <= lines'
      /\ received <= received' /\ failed' \in BOOLEAN
      /\ UNCHANGED <<markets, archived, tracked, gap, health>>
      /\ Ordered'
  <2>1. CASE FlushCut /\ UNCHANGED <<received, written, lines, tracked, gap, health,
                                     archived, markets, failed>>
    BY <1>2, <2>1, Numbers, Types DEF IInv, Ordered
  <2>2. CASE Lost("other")
    BY <1>1, <1>2, <2>2, OtherEmission, LostLine, Numbers DEF IInv
  <2>3. CASE Recorded("other") /\ Finalizes
    <3>1. failed' \in {failed, TRUE} /\ failed \in BOOLEAN
      BY <2>3, Types DEF Finalizes, IInv
    <3>2. CASE failed' = failed
      <4>1. Kept("other")
        BY <2>3, <3>2 DEF Kept
      <4> QED  BY <1>1, <1>2, <2>3, <4>1, OtherEmission, Numbers
               DEF IInv, Recorded, InArchive
    <3>3. CASE failed' = TRUE
      BY <1>1, <1>2, <2>3, <3>3, OtherEmission, Numbers DEF IInv, Recorded, InArchive
    <3> QED  BY <3>1, <3>2, <3>3
  <2> QED  BY <1>3, <2>1, <2>2, <2>3
<1>5. /\ DumpNow \in SessionFile
      /\ DumpNow.reconnects = reconnects' /\ DumpNow.gap = gap /\ DumpNow.failures = failures
  BY <1>1, <1>2, Numbers, DumpType DEF DumpNow, IInv
<1>6. CASE (FlushCut \/ FlushWrites) /\ phase' = "aborted" /\ UNCHANGED <<state, droppedOf, manifest>>
  <2>1. \/ session' = DumpNow /\ sidecar' \in {sidecar, tracked}
        \/ session' = session /\ sidecar' = sidecar
    BY <1>6 DEF FlushWrites, FlushCut
  <2>2. FilesFit' /\ sidecar' \subseteq tracked' /\ session' \in SessionFile
    BY <1>1, <1>2, <1>4, <1>5, <2>1, FlushFiles
  <2>3. /\ torn' \in SUBSET MetadataFiles
        /\ "manifest.json" \notin torn' /\ "subscriptions.json" \notin torn'
    BY <1>1, <1>6, FlushTorn
  <2>4. TypeOK'
    BY <1>1, <1>2, <1>4, <1>6, <2>2, <2>3
       DEF IInv, TypeOK, SessionFile, MetadataFiles, FilesFit, ConnectionEvent
  <2>5. StateOfPhase' /\ Flushed' /\ Ends'
    BY <1>1, <1>2, <1>6, <2>3 DEF IInv, StateOfPhase, Flushed, Ends, Running, Stopped
  <2>6. Attempts' /\ ObservedIsArchived'
    BY <1>1, <1>2, <1>4, <1>6, <2>2, Numbers
       DEF IInv, Attempts, ObservedIsArchived, Running
  <2>7. Announced' /\ Measured'
    BY <1>1, <1>2, <1>4, <1>6 DEF IInv, Announced, Measured
  <2> QED  BY <1>4, <2>2, <2>4, <2>5, <2>6, <2>7 DEF IInv
<1>7. CASE Recorded("other") /\ Finalizes
  <2> DEFINE ok == [state |-> "COMPLETE", events |-> lines']
  <2>1. /\ phase' \in {"stopped", "aborted"} /\ state' \in {"COMPLETE", "FINALIZING"}
        /\ phase' = "stopped" => state' = "COMPLETE"
        /\ droppedOf' \in 0..MaxEvents /\ sidecar' = tracked
        /\ session' \in SessionFile /\ session'.reconnects = reconnects'
        /\ session'.gap = gap /\ session'.failures = failures
        /\ manifest' \in {manifest, ok}
        /\ manifest'.state = "COMPLETE" => session'.written <= manifest'.events
        /\ torn' \in SUBSET MetadataFiles
        /\ "manifest.json" \in torn' => phase' = "aborted"
        /\ "subscriptions.json" \notin torn'
        /\ phase' = "stopped" => /\ session'.written = written' /\ session'.received = received'
                                 /\ manifest' = ok /\ torn' = {}
    BY <1>1, <1>2, <1>4, <1>7, FinalizesResult, Types DEF IInv, Ordered
  <2>2. FilesFit'
    BY <1>1, <1>2, <1>4, <2>1, FlushFiles
  <2>3. TypeOK'
    <3>1. manifest' \in [state : {"RECORDING", "COMPLETE"}, events : 0..MaxEvents]
      BY <1>1, <1>4, <2>1
    <3>2. /\ state' \in ArchiveState /\ sidecar' \in SUBSET ConnectionEvent
          /\ tracked' \in SUBSET ConnectionEvent /\ archived' \in SUBSET ConnectionEvent
      BY <1>4, <2>1, Types DEF ArchiveState, IInv
    <3> HIDE DEF ok
    <3> QED  BY <1>1, <1>2, <1>4, <2>1, <3>1, <3>2
             DEF IInv, TypeOK, SessionFile, MetadataFiles, ConnectionEvent
  <2>4. StateOfPhase' /\ Flushed' /\ Ends'
    BY <1>1, <1>2, <1>4, <2>1 DEF IInv, StateOfPhase, Flushed, Ends, Running, Stopped
  <2>5. Attempts' /\ ObservedIsArchived'
    BY <1>1, <1>2, <1>4, <2>1, Numbers DEF IInv, Attempts, ObservedIsArchived, Running
  <2>6. Announced' /\ Measured'
    BY <1>1, <1>2, <1>4, <2>1 DEF IInv, Announced, Measured
  <2> QED  BY <1>4, <2>2, <2>3, <2>4, <2>5, <2>6 DEF IInv
<1> QED  BY <1>3, <1>6, <1>7

LEMMA NextInvariant == IInv /\ [Next]_vars => IInv'
<1> SUFFICES ASSUME IInv, [Next]_vars PROVE IInv'
  OBVIOUS
<1>1. CASE StartRunner
  BY <1>1, StartRunnerInv
<1>2. CASE Connected \/ Started \/ Disconnect
  BY <1>2, PhaseEmits
<1>3. CASE StartFails \/ StopFlushLoop \/ Unsubscribe
  BY <1>3, SilentNext
<1>4. CASE FlushLoop
  BY <1>4, FlushLoopInv
<1>5. CASE Receives \/ Closes \/ Announces \/ Restores \/ Fails
  BY <1>5, ReaderNext
<1>6. CASE Finalize
  BY <1>6, FinalizeInv
<1>7. CASE UNCHANGED vars
  <2>1. UNCHANGED <<phase, state, client, metric, received, written, lines, messages,
                    reconnects, droppedOf, failures, tracking, flushing, tracked, gap, health,
                    sidecar, session, manifest, subscriptions, torn, archived, markets, failed>>
    BY <1>7 DEF vars, counts, quality, tasks, handler, files, history
  <2>2. TypeOK'
    BY <2>1 DEF IInv, TypeOK
  <2>3. /\ StateOfPhase' /\ Ordered' /\ ObservedIsArchived' /\ Attempts' /\ Announced'
        /\ Measured' /\ FilesFit' /\ Ends' /\ Flushed'
    BY <2>1 DEF IInv, StateOfPhase, Ordered, ObservedIsArchived, Attempts, Announced,
                Measured, FilesFit, Ends, Flushed, Running, Stopped
  <2> QED  BY <2>2, <2>3 DEF IInv
<1> QED  BY <1>1, <1>2, <1>3, <1>4, <1>5, <1>6, <1>7 DEF Next

LEMMA Invariance == Spec => []IInv
BY InitInvariant, NextInvariant, PTL DEF Spec

------------------------------------------------------------------------------
(* The theorems *)

\* Every variable keeps its type: however long the client goes on reconnecting, the
\* counters are bounded by the events.
THEOREM TypeCorrectness == Spec => []TypeOK
<1>1. IInv => TypeOK
  BY DEF IInv
<1> QED  BY <1>1, Invariance, PTL

\* What reconnects.json lists, and what the health monitor counts, was written to the
\* archive (ObservedIsArchived), for any number of events.
THEOREM ObservedArchived == Spec => []ObservedIsArchived
<1>1. IInv => ObservedIsArchived
  BY DEF IInv
<1> QED  BY <1>1, Invariance, PTL

\* The metadata files that can be read never contradict each other (FilesAgree),
\* whichever of their writes, one after the other, fails or is the last before a kill:
\* session.json admits to the reconnects, the gap and the failed batches that the
\* other files list; and a recorder that has stopped leaves them all readable.
THEOREM FilesNeverDisagree == Spec => []FilesAgree
<1>1. ASSUME IInv PROVE FilesAgree
  <2>1. Reconnects(sidecar) = {e \in sidecar : e.kind = "connection.reconnect"}
    BY DEF Reconnects
  <2>2. /\ SessionStatus.reconnects = session.reconnects
        /\ SessionStatus.largestGap = session.gap
        /\ SessionStatus.gaps = Cardinality(Gaps)
    BY DEF SessionStatus
  <2>3. Cardinality(Gaps) > 0 <=> HasGap(sidecar)
    <3>1. Gaps \in SUBSET sidecar /\ IsFiniteSet(sidecar)
      BY <1>1 DEF Gaps, IInv, FilesFit
    <3>2. IsFiniteSet(Gaps) /\ Cardinality(Gaps) \in Nat
      BY <3>1, FS_Subset, FS_CardinalityType
    <3>3. Cardinality(Gaps) > 0 <=> Gaps # {}
      BY <3>2, FS_EmptySet
    <3> QED  BY <3>3 DEF Gaps, HasGap
  <2>4. SessionStatus.gaps > 0 => SessionStatus.largestGap
    <3>1. HasGap(sidecar) => session.gap
      BY <1>1, Zenon DEF IInv, FilesFit
    <3> QED  BY <2>2, <2>3, <3>1
  <2>5. Stopped => torn = {} /\ SessionStatus.largestGap = (SessionStatus.gaps > 0)
    <3>1. Stopped => session.gap = HasGap(sidecar) /\ torn = {}
      BY <1>1, Zenon DEF IInv, Flushed, Measured
    <3>2. session.gap \in BOOLEAN
      BY <1>1 DEF IInv, TypeOK
    <3>3. HasGap(sidecar) \in BOOLEAN
      BY Zenon DEF HasGap
    <3> QED  BY <2>2, <2>3, <3>1, <3>2, <3>3
  <2> QED  BY <1>1, <2>1, <2>2, <2>4, <2>5 DEF FilesAgree, IInv, FilesFit
<1> QED  BY <1>1, Invariance, PTL

\* What was written, what a complete manifest lists and what was received agree
\* (CountsAgree), whichever writes failed.
THEOREM CountsNeverDisagree == Spec => []CountsAgree
<1>1. IInv => CountsAgree
  BY DEF IInv, Flushed, Ends, Ordered, CountsAgree
<1> QED  BY <1>1, Invariance, PTL

\* Nobody rewrites the metadata of a recorder that has stopped (FinalIsFinal).
THEOREM FinalFiles == Spec => FinalIsFinal
<1>1. ASSUME IInv, [Next]_vars, Stopped PROVE UNCHANGED files
  <2>1. phase = "stopped" /\ ~flushing
    BY <1>1 DEF Stopped, IInv, StateOfPhase
  <2> QED  BY <1>1, <2>1 DEF Next, vars, StartRunner, Connected, Started, StartFails, FlushLoop,
              Receives, Closes, Announces, Restores, Fails, Emits,
              StopFlushLoop, Unsubscribe, Disconnect, Finalize
<1>2. IInv /\ [Next]_vars => (Stopped => UNCHANGED files)
  BY <1>1
<1> QED  BY <1>2, Invariance, PTL DEF Spec, FinalIsFinal
==============================================================================
