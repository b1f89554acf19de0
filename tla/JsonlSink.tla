----------------------------- MODULE JsonlSink ------------------------------
(***************************************************************************)
(* storage/jsonl_sink.py, integrity.py and reader.py: the archive of one   *)
(* session on disk, from PipelineRunner.start to a later process that      *)
(* validates and reads it, through crashes and damage.                     *)
(*                                                                         *)
(* An event is its sequence number; the line of an event in a partition    *)
(* goes to the buffers of its gzip handle and from there to the file, by a *)
(* flush or because a buffer is full.  A gzip file that was flushed and    *)
(* not closed has no end: reading it raises EOFError.  A checksum is the   *)
(* content it was computed from.  Every method of the sink runs without an *)
(* await, so that only a crash can come between two steps of it; a file    *)
(* that is rewritten is empty (torn) between truncation and write.         *)
(***************************************************************************)
EXTENDS ArchiveStates, FiniteSetsExt, SequencesExt

CONSTANTS Partitions,  \* the partition keys: instruments and categories
          FlushEvery,  \* _flush_every, 0 for never
          MaxSeq       \* bound: events of the session

ASSUME SinkAssumption == /\ IsFiniteSet(Partitions)
                         /\ FlushEvery \in Nat
                         /\ MaxSeq \in Nat

VARIABLES
    phase,      \* what the recorder is doing; "dead" after a crash
    state,      \* ObservationSession.state
    seq,        \* the number of the last event handed to the sink
    unflushed,  \* _writes_since_flush
    counts,     \* _partition_counts, 0 for a key that it does not have
    handles,    \* the keys of _open_files
    buffer,     \* the lines in the buffers of each handle
    files,      \* the partition files that exist
    headed,     \* those that are not empty
    ended,      \* those that are complete gzip files
    disk,       \* the lines in each file
    session,    \* metadata/session.json: its state, "none" or "torn"
    manifest,   \* metadata/manifest.json
    acked,      \* history: the events whose write returned
    spoiled     \* history: "write" if one failed, "lost" if one took lines
                \* with it, "damage" if a file suffered

memory == <<phase, state, seq, unflushed, counts, handles, buffer>>
parts == <<files, headed, ended, disk>>
vars == <<memory, parts, session, manifest, acked, spoiled>>

NoFile == [state |-> "none", count |-> 0, parts |-> {}, sum |-> <<>>]
Torn == [NoFile EXCEPT !.state = "torn"]

\* A manifest with its own checksum; the one open_session writes has none.
Manifest(st, n, P) == [state |-> st, count |-> n, parts |-> P, sum |-> <<st, n, P>>]
OpenManifest == [NoFile EXCEPT !.state = "RECORDING"]

Init == /\ phase = "new" /\ state = "CREATING" /\ seq = 0 /\ unflushed = 0
        /\ counts = [k \in Partitions |-> 0]
        /\ handles = {}
        /\ buffer = [k \in Partitions |-> << >>]
        /\ files = {} /\ headed = {} /\ ended = {}
        /\ disk = [k \in Partitions |-> << >>]
        /\ session = "none" /\ manifest = NoFile
        /\ acked = {} /\ spoiled = "no"

------------------------------------------------------------------------------
(* open_session, write, flush *)

\* session.json is about to be rewritten: by open_session, by flush_session of
\* the metadata tracker, or by finalize_session.
TearSession ==
    /\ phase \in {"new", "recording", "session"} /\ session # "torn"
    /\ session' = "torn"
    /\ UNCHANGED <<memory, parts, manifest, acked, spoiled>>

\* session.json is written; the manifest comes next when the session opens.
WriteSession ==
    /\ phase \in {"new", "recording"} /\ session = "torn"
    /\ session' = state
    /\ phase' = IF phase = "new" THEN "opening" ELSE phase
    /\ UNCHANGED <<state, seq, unflushed, counts, handles, buffer, parts,
                   manifest, acked, spoiled>>

\* open_session ends with the first manifest; PipelineRunner.start goes on to
\* RECORDING.
OpenSession ==
    /\ phase = "opening" /\ manifest = Torn
    /\ manifest' = OpenManifest
    /\ CanTransition(state, "RECORDING")
    /\ phase' = "recording" /\ state' = "RECORDING"
    /\ UNCHANGED <<seq, unflushed, counts, handles, buffer, parts, session,
                   acked, spoiled>>

\* The handles in H are flushed, of which n is the line k has just been given.
Flushed(H, k, n) ==
    /\ disk' = [j \in Partitions |-> IF j \notin H THEN disk[j]
                  ELSE disk[j] \o buffer[j] \o IF j = k THEN <<n>> ELSE << >>]
    /\ buffer' = [j \in Partitions |-> IF j \in H THEN << >>
                  ELSE IF j = k THEN Append(buffer[j], n) ELSE buffer[j]]
    /\ headed' = headed \cup H

\* Mutant of Counted: the event that opens a file is counted again.
CountedTwice(k) ==
    /\ seq' = seq + 1
    /\ handles' = handles \cup {k}
    /\ files' = files \cup {k}
    /\ counts' = [counts EXCEPT ![k] = IF k \in handles THEN @ + 1 ELSE @ + 2]

\* _get_file opens the file of k; the event is written and counted.
Counted(k) ==
    /\ seq' = seq + 1
    /\ handles' = handles \cup {k}
    /\ files' = files \cup {k}
    /\ counts' = [counts EXCEPT ![k] = @ + 1]

\* Mutant of FlushIsDue: one write late.
FlushIsDueLate == FlushEvery > 0 /\ unflushed >= FlushEvery

FlushIsDue == FlushEvery > 0 /\ unflushed + 1 >= FlushEvery

\* What has been spoiled stays spoiled.
Worse(how) == IF spoiled = "no" THEN how ELSE spoiled

Write(k) ==
    /\ phase = "recording" /\ seq < MaxSeq
    /\ Counted(k)
    /\ IF FlushIsDue
       THEN Flushed(handles', k, seq') /\ unflushed' = 0
       ELSE Flushed({}, k, seq') /\ unflushed' = unflushed + 1
    /\ acked' = acked \cup {seq'}
    /\ UNCHANGED <<phase, state, ended, session, manifest, spoiled>>

\* write raises.  The file cannot be opened; or a flush fails half-way, when the
\* line stays in its buffer and is counted all the same; or a full buffer cannot
\* be written, and its lines are gone.
WriteFails(k) ==
    /\ phase = "recording" /\ seq < MaxSeq
    /\ \/ /\ k \notin handles
          /\ seq' = seq + 1
          /\ spoiled' = Worse("write")
          /\ UNCHANGED <<handles, files, counts, unflushed, buffer, disk, headed>>
       \/ /\ FlushIsDue
          /\ Counted(k)
          /\ \E H \in SUBSET handles' : H # handles' /\ Flushed(H, k, seq')
          /\ unflushed' = unflushed + 1
          /\ spoiled' = Worse("write")
       \/ /\ k \in handles
          /\ seq' = seq + 1
          /\ buffer' = [buffer EXCEPT ![k] = << >>]
          /\ spoiled' = "lost"
          /\ UNCHANGED <<handles, files, counts, unflushed, disk, headed>>
    /\ UNCHANGED <<phase, state, ended, session, manifest, acked>>

\* A buffer of k is full: its first n lines reach the file.
Spill(k, n) ==
    /\ k \in handles /\ n \in 1..Len(buffer[k])
    /\ disk' = [disk EXCEPT ![k] = @ \o SubSeq(buffer[k], 1, n)]
    /\ buffer' = [buffer EXCEPT ![k] = SubSeq(@, n + 1, Len(@))]
    /\ headed' = headed \cup {k}
    /\ UNCHANGED <<phase, state, seq, unflushed, counts, handles, files, ended,
                   session, manifest, acked, spoiled>>

------------------------------------------------------------------------------
(* finalize_session *)

\* PipelineRunner.stop has stopped the pipeline.
Finalize ==
    /\ phase = "recording" /\ session # "torn"
    /\ CanTransition(state, "FINALIZING")
    /\ state' = "FINALIZING" /\ phase' = "closing"
    /\ UNCHANGED <<seq, unflushed, counts, handles, buffer, parts, session,
                   manifest, acked, spoiled>>

CloseFile(k) ==
    /\ phase = "closing" /\ k \in handles
    /\ disk' = [disk EXCEPT ![k] = @ \o buffer[k]]
    /\ buffer' = [buffer EXCEPT ![k] = << >>]
    /\ headed' = headed \cup {k}
    /\ ended' = ended \cup {k}
    /\ handles' = handles \ {k}
    /\ UNCHANGED <<phase, state, seq, unflushed, counts, files, session,
                   manifest, acked, spoiled>>

\* Mutant of CanDescribe: the manifest is written before the files are closed.
CanDescribeEarly == phase = "closing"

\* Every file is closed: their sizes and checksums can be taken.
CanDescribe == phase = "closing" /\ handles = {}

\* manifest.json is about to be written, or rewritten.
TearManifest ==
    /\ CanDescribe \/ (phase = "opening" /\ manifest # Torn)
    /\ manifest' = Torn
    /\ phase' = IF phase = "closing" THEN "manifest" ELSE phase
    /\ UNCHANGED <<state, seq, unflushed, counts, handles, buffer, parts, session,
                   acked, spoiled>>

\* PartitionEntry: the path, the number of events and the checksum of a file.
Entry(k) == [key |-> k, count |-> counts[k], sum |-> disk[k]]

WriteManifest ==
    /\ phase = "manifest"
    /\ manifest' = Manifest("COMPLETE", SumFunctionOnSet(counts, Partitions),
                            {Entry(k) : k \in files})
    /\ phase' = "session"
    /\ UNCHANGED <<state, seq, unflushed, counts, handles, buffer, parts, session,
                   acked, spoiled>>

\* finalize_session ends with session.json, written with the state of the
\* moment; PipelineRunner.stop goes on to COMPLETE.
EndFinalize ==
    /\ phase = "session" /\ session = "torn"
    /\ session' = state
    /\ CanTransition(state, "COMPLETE")
    /\ state' = "COMPLETE" /\ phase' = "final"
    /\ UNCHANGED <<seq, unflushed, counts, handles, buffer, parts, manifest,
                   acked, spoiled>>

------------------------------------------------------------------------------
(* The end of the process *)

Alive == phase \notin {"final", "dead"}

\* Killed: what is in the buffers is gone.
Kill ==
    /\ Alive
    /\ phase' = "dead" /\ handles' = {}
    /\ buffer' = [k \in Partitions |-> << >>]
    /\ UNCHANGED <<state, seq, unflushed, counts, parts, session, manifest,
                   acked, spoiled>>

\* Ended by an exception: the interpreter closes the files on its way out.
Abandon ==
    /\ Alive
    /\ phase' = "dead" /\ handles' = {}
    /\ disk' = [k \in Partitions |-> disk[k] \o buffer[k]]
    /\ buffer' = [k \in Partitions |-> << >>]
    /\ headed' = headed \cup handles /\ ended' = ended \cup handles
    /\ UNCHANGED <<state, seq, unflushed, counts, files, session, manifest,
                   acked, spoiled>>

\* A file is lost, cut short or altered on disk after the process has ended.
Damage(k) ==
    /\ ~Alive /\ k \in files /\ spoiled # "damage"
    /\ spoiled' = "damage"
    /\ \/ files' = files \ {k} /\ UNCHANGED <<ended, disk>>
       \/ k \in ended /\ ended' = ended \ {k} /\ UNCHANGED <<files, disk>>
       \/ /\ disk[k] # << >>
          /\ disk' \in {[disk EXCEPT ![k] = Front(@)],
                        [disk EXCEPT ![k] = Append(Front(@), 0)]}
          /\ UNCHANGED <<files, ended>>
    /\ UNCHANGED <<memory, headed, session, manifest, acked>>

------------------------------------------------------------------------------
(* validate_archive, read_events: a later process *)

\* A complete gzip file can be read to its end, and so can an empty file.
Readable(k) == k \in ended \/ k \notin headed

\* validate_manifest_exists and the loading of both files.
MetadataLoads == {session, manifest.state} \cap {"none", "torn"} = {}

\* validate_partitions: every partition of the manifest exists, and their
\* counts make up the count of the manifest.
PartitionsAdd ==
    /\ \A e \in manifest.parts : e.key \in files
    /\ manifest.parts # {} =>
          manifest.count = SumFunction([e \in manifest.parts |-> e.count])

\* Mutant of ChecksumsMatch: the checksums are not compared.
ChecksumsIgnored == TRUE

\* validate_checksums: of the partitions, and of the manifest if it has one.
ChecksumsMatch ==
    /\ \A e \in manifest.parts : disk[e.key] = e.sum
    /\ manifest.sum # << >> =>
          manifest.sum = <<manifest.state, manifest.count, manifest.parts>>

\* validate_readable_partitions raises at a file without an end, for it does
\* not expect EOFError.
Verdict ==
    IF ~MetadataLoads \/ ~PartitionsAdd THEN "invalid"
    ELSE IF \E e \in manifest.parts : ~Readable(e.key) THEN "raises"
    ELSE IF (\A e \in manifest.parts : Len(disk[e.key]) = e.count) /\ ChecksumsMatch
    THEN "valid" ELSE "invalid"

\* The files read_events reads: those of the manifest, or all if it has none.
ReadFiles == IF manifest.parts # {} THEN {e.key : e \in manifest.parts} \cap files
             ELSE files

ReadRaises == \E k \in ReadFiles : ~Readable(k)

\* How many of the lines that read_events returns are event n.  It sorts them
\* by number.
TimesRead(n) ==
    Cardinality({p \in ReadFiles \X (1..MaxSeq) :
                    p[2] <= Len(disk[p[1]]) /\ disk[p[1]][p[2]] = n})

Next == \/ TearSession \/ WriteSession \/ OpenSession
        \/ \E k \in Partitions : \/ Write(k) \/ WriteFails(k) \/ CloseFile(k)
                                 \/ \E n \in 1..MaxSeq : Spill(k, n)
                                 \/ Damage(k)
        \/ Finalize \/ TearManifest \/ WriteManifest \/ EndFinalize
        \/ Kill \/ Abandon

Spec == Init /\ [][Next]_vars

------------------------------------------------------------------------------
(* Properties *)

\* Every variable has its type.
TypeOK ==
    /\ phase \in {"new", "opening", "recording", "closing", "manifest", "session",
                  "final", "dead"}
    /\ state \in ArchiveState
    /\ seq \in 0..MaxSeq /\ unflushed \in 0..MaxSeq
    /\ counts \in [Partitions -> 0..MaxSeq]
    /\ handles \subseteq files /\ files \subseteq Partitions
    /\ headed \subseteq Partitions /\ ended \subseteq headed
    /\ \A k \in Partitions : disk[k] \o buffer[k] \in Seq(0..MaxSeq)
    /\ session \in ArchiveState \cup {"none", "torn"}
    /\ manifest.state \in ArchiveState \cup {"none", "torn"}
    /\ acked \subseteq 1..seq
    /\ spoiled \in {"no", "write", "lost", "damage"}

\* A manifest that says COMPLETE speaks for an archive that passes the
\* validation, wherever in finalize_session the process died and whichever
\* files could not be opened or flushed, as long as session.json can be loaded
\* and no buffered lines were lost and no file suffered.
CompleteIsValid ==
    manifest.state = "COMPLETE" /\ session # "torn" /\ spoiled \in {"no", "write"}
       => Verdict = "valid"

\* A COMPLETE archive that passes the validation reads back whole: each event
\* whose write returned, once, and as many events as the manifest says.  Damage
\* never goes through.
ValidIsWhole ==
    manifest.state = "COMPLETE" /\ Verdict = "valid" =>
       /\ ~ReadRaises
       /\ \A n \in acked : TimesRead(n) = 1
       /\ SumFunction([k \in ReadFiles |-> Len(disk[k])]) = manifest.count

\* A crash costs fewer events than flush_every: all others are in the files,
\* even if it comes in the middle of finalize_session.
LossWindow ==
    spoiled = "no" /\ FlushEvery > 0 =>
       Cardinality(acked \ UNION {Range(disk[k]) : k \in Partitions}) < FlushEvery

\* validate_archive is the "full pre-replay validation gate": what it lets
\* through can be read.
GateHolds == ~Alive /\ Verdict = "valid" => ~ReadRaises

==============================================================================
