----------------------- MODULE EvidencePipelineProofs -----------------------
(***************************************************************************)
(* Proofs about EvidencePipeline, for any tasks, monitors and bound.       *)
(***************************************************************************)
EXTENDS EvidencePipeline, DataLemmas

------------------------------------------------------------------------------
(* Lemmas about the operators *)

\* Reached is a finite set of positions, and holds the first one.
LEMMA ReachedProperties ==
  ASSUME NEW hs \in Seq(Handlers)
  PROVE  /\ Reached(hs) \subseteq 1..Len(hs)
         /\ Cardinality(Reached(hs)) \in Nat
         /\ hs # << >> => 1 \in Reached(hs) /\ Cardinality(Reached(hs)) >= 1
<1>1. Reached(hs) \subseteq 1..Len(hs)
  BY DEF Reached
<1>2. IsFiniteSet(Reached(hs)) /\ Cardinality(Reached(hs)) \in Nat
  <2>1. Len(hs) \in Nat /\ IsFiniteSet(1..Len(hs))
    BY LenProperties, FS_Interval
  <2> QED  BY <1>1, <2>1, FS_Subset, FS_CardinalityType
<1>3. ASSUME hs # << >> PROVE 1 \in Reached(hs) /\ Cardinality(Reached(hs)) >= 1
  <2>1. 1 \in Reached(hs)
    BY <1>3, EmptySeq DEF Reached
  <2> QED  BY <1>2, <2>1, FS_EmptySet
<1> QED  BY <1>1, <1>2, <1>3

\* What is left of a snapshot after a burst: handlers that come after its first.
LEMMA RestOfSnapshot ==
  ASSUME NEW hs \in Seq(Handlers)
  PROVE  LET r == SubSeq(hs, Cardinality(Reached(hs)) + 1, Len(hs)) IN
         /\ r \in Seq(Handlers)
         /\ \A i \in 1..Len(r) : \E j \in 2..Len(hs) : r[i] = hs[j]
<1> DEFINE c == Cardinality(Reached(hs))
           r == SubSeq(hs, c + 1, Len(hs))
<1>1. c \in Nat /\ (hs # << >> => c >= 1) /\ Len(hs) \in Nat
  BY ReachedProperties, LenProperties
<1>2. \A i \in (c + 1)..Len(hs) : hs[i] \in Handlers
  BY <1>1, ElementOfSeq
<1>a. c + 1 \in Int /\ Len(hs) \in Int
  BY <1>1
<1> HIDE DEF c
<1>3. /\ r \in Seq(Handlers)
      /\ Len(r) = IF c + 1 <= Len(hs) THEN Len(hs) - (c + 1) + 1 ELSE 0
      /\ \A i \in 1..(Len(hs) - (c + 1) + 1) : r[i] = hs[c + 1 + i - 1]
  BY <1>a, <1>2, SubSeqProperties
<1>4. ASSUME NEW i \in 1..Len(r) PROVE \E j \in 2..Len(hs) : r[i] = hs[j]
  <2>1. c + 1 <= Len(hs) /\ hs # << >> /\ c >= 1
    BY <1>1, <1>3, EmptySeq
  <2>2. c + i \in 2..Len(hs) /\ r[i] = hs[c + i]
    BY <1>1, <1>3, <2>1
  <2> QED  BY <2>2
<1> QED  BY <1>3, <1>4 DEF c

------------------------------------------------------------------------------
(* The invariant *)

\* The archive handler is first in the bus while the pipeline runs, and there
\* is no other subscription of it.
ArchiveFirst ==
    /\ running => subscribers # << >> /\ subscribers[1] = Archive
    /\ \A i \in 2..Len(subscribers) : subscribers[i] \in Monitors

\* No suspended publish has still to call the archive.
ArchiveDone == \A t \in Tasks : \A i \in 1..Len(rest[t]) : rest[t][i] # Archive

\* The session's state and the flag of the pipeline go together.
RunsWhenRecording ==
    /\ running <=> state = "RECORDING"
    /\ state = "CREATING" => subscribers = << >> /\ seq = 0

\* Nothing in the archive has a number that was not given out.
ArchivedWereNumbered == \A i \in 1..Len(seen[Archive]) : seen[Archive][i] \in 1..seq

IInv == /\ TypeOK
        /\ ArchiveFirst
        /\ ArchiveDone
        /\ RunsWhenRecording
        /\ ArchivedWereNumbered
        /\ written <= seq
        /\ ArchiveInOrder
        /\ NoSilentLoss
        /\ StoppedIsLast

------------------------------------------------------------------------------
(* One publication *)

\* What taking an event in does to the handlers' logs.
LEMMA TakeInEffect ==
  ASSUME TypeOK, NEW hs \in Seq(Handlers), NEW P \in SUBSET (1..Len(hs)),
         NEW n \in 1..MaxSeq, TakeIn(hs, P, n)
  PROVE  /\ seen' \in [Handlers -> Seq(1..MaxSeq)]
         /\ seen'[Archive] = IF \E i \in P : hs[i] = Archive
                            THEN Append(seen[Archive], n) ELSE seen[Archive]
<1>1. \A h \in Handlers : seen[h] \in Seq(1..MaxSeq)
  BY DEF TypeOK
<1>2. \A h \in Handlers : Append(seen[h], n) \in Seq(1..MaxSeq)
  BY <1>1, AppendProperties
<1>3. Archive \in Handlers
  BY DEF Handlers
<1> QED  BY <1>1, <1>2, <1>3, Zenon DEF TakeIn

\* A snapshot the archive heads, as every snapshot of a running pipeline is.
HeadedByArchive(hs) ==
    /\ hs \in Seq(Handlers)
    /\ hs # << >> /\ hs[1] = Archive
    /\ \A i \in 2..Len(hs) : hs[i] \in Monitors

\* Publishing to such a snapshot either puts the event at the end of the
\* archive or raises, and leaves no call of the archive for later.
LEMMA Publishing ==
  ASSUME TypeOK, ArchiveDone, written <= seq, seq < MaxSeq,
         NEW t \in Tasks, NEW hs, HeadedByArchive(hs),
         Refused(t) \/ Published(t, hs) \/ PublishRaised(t, hs)
  PROVE  /\ seq' = seq + 1 /\ seq' \in 0..MaxSeq
         /\ written' \in 0..MaxSeq /\ written' <= seq'
         /\ event' \in [Tasks -> 0..MaxSeq]
         /\ rest' \in [Tasks -> Seq(Handlers)]
         /\ seen' \in [Handlers -> Seq(1..MaxSeq)]
         /\ audience' \in [1..MaxSeq -> SUBSET Handlers]
         /\ dropped' \in SUBSET (1..MaxSeq) /\ dropped \subseteq dropped'
         /\ ArchiveDone'
         /\ \/ seen'[Archive] = seen[Archive] /\ seq + 1 \in dropped'
            \/ seen'[Archive] = Append(seen[Archive], seq + 1)
         /\ Published(t, hs) => seen'[Archive] = Append(seen[Archive], seq + 1)
<1> DEFINE n == seq + 1
<1>1. n \in 1..MaxSeq /\ seq' = n
  BY PipelineAssumption DEF TypeOK, Refused, Published, PublishRaised
<1>2. /\ hs \in Seq(Handlers) /\ Reached(hs) \subseteq 1..Len(hs)
      /\ 1 \in Reached(hs)
  BY ReachedProperties DEF HeadedByArchive
<1>3. Range(hs) \in SUBSET Handlers
  BY <1>2, ElementOfSeq DEF Range
<1>4. CASE Refused(t)
  BY <1>1, <1>4 DEF Refused, Published, TypeOK, ArchiveDone
<1>5. CASE Published(t, hs)
  <2>1. TakeIn(hs, Reached(hs), n)
    BY <1>5 DEF Published, CallOn
  <2>2. /\ seen' \in [Handlers -> Seq(1..MaxSeq)]
        /\ seen'[Archive] = Append(seen[Archive], n)
    BY <1>1, <1>2, <2>1, TakeInEffect DEF HeadedByArchive
  <2>3. /\ rest' \in [Tasks -> Seq(Handlers)] /\ ArchiveDone'
    <3> DEFINE r == SubSeq(hs, Cardinality(Reached(hs)) + 1, Len(hs))
    <3>1. r \in Seq(Handlers) /\ \A i \in 1..Len(r) : \E j \in 2..Len(hs) : r[i] = hs[j]
      BY <1>2, RestOfSnapshot
    <3>2. \A i \in 1..Len(r) : r[i] # Archive
      BY <3>1, PipelineAssumption DEF HeadedByArchive
    <3>3. rest' = [rest EXCEPT ![t] = r]
      BY <1>5 DEF Published, CallOn
    <3> HIDE DEF r
    <3> QED  BY <3>1, <3>2, <3>3, Zenon DEF TypeOK, ArchiveDone
  <2>4. event' \in [Tasks -> 0..MaxSeq] /\ dropped' = dropped
    <3>1. PICK e \in {0, n} : event' = [event EXCEPT ![t] = e]
      BY <1>5, Zenon DEF Published, CallOn
    <3>2. dropped' = dropped
      BY <1>5 DEF Published, CallOn
    <3>3. e \in 0..MaxSeq
      BY <1>1, PipelineAssumption
    <3> QED  BY <3>1, <3>2, <3>3 DEF TypeOK
  <2>5. audience' \in [1..MaxSeq -> SUBSET Handlers]
    BY <1>1, <1>3, <1>5 DEF Published, TypeOK
  <2>6. written' \in 0..MaxSeq /\ written' <= n
    <3>1. written' \in {written, written + 1}
      BY <1>5, Zenon DEF Published
    <3> QED  BY <1>1, <3>1, PipelineAssumption DEF TypeOK
  <2> QED  BY <1>1, <2>2, <2>3, <2>4, <2>5, <2>6 DEF TypeOK
<1>6. CASE PublishRaised(t, hs)
  <2>1. PICK k \in 0..Len(hs) : /\ RaiseAfter(t, hs, k, n)
                                /\ written' \in {written, written + 1}
    BY <1>6 DEF PublishRaised
  <2>2. TakeIn(hs, Reached(hs) \cap 1..k, n)
    BY <2>1 DEF RaiseAfter
  <2>3. /\ seen' \in [Handlers -> Seq(1..MaxSeq)]
        /\ seen'[Archive] \in {seen[Archive], Append(seen[Archive], n)}
    BY <1>1, <1>2, <2>2, TakeInEffect
  <2>4. rest' \in [Tasks -> Seq(Handlers)] /\ ArchiveDone'
    BY <2>1, EmptySeq DEF RaiseAfter, TypeOK, ArchiveDone
  <2>5. event' \in [Tasks -> 0..MaxSeq] /\ dropped' = dropped \cup {n}
    <3>1. event' = [event EXCEPT ![t] = 0] /\ dropped' = dropped \cup {n}
      BY <2>1, Zenon DEF RaiseAfter
    <3>2. 0 \in 0..MaxSeq
      BY PipelineAssumption
    <3> QED  BY <3>1, <3>2 DEF TypeOK
  <2>6. audience' \in [1..MaxSeq -> SUBSET Handlers]
    BY <1>1, <1>3, <1>6 DEF PublishRaised, TypeOK
  <2>7. written' \in 0..MaxSeq /\ written' <= n
    BY <1>1, <2>1, PipelineAssumption DEF TypeOK
  <2>8. ~Published(t, hs) \/ seen'[Archive] = Append(seen[Archive], n)
    <3> SUFFICES ASSUME Published(t, hs) PROVE seen'[Archive] = Append(seen[Archive], n)
      OBVIOUS
    <3>1. TakeIn(hs, Reached(hs), n)
      BY DEF Published, CallOn
    <3> QED  BY <1>1, <1>2, <3>1, TakeInEffect DEF HeadedByArchive
  <2> QED  BY <1>1, <2>3, <2>4, <2>5, <2>6, <2>7, <2>8 DEF TypeOK
<1> QED  BY <1>4, <1>5, <1>6

\* One number given out, and put at the end of the archive or dropped with an
\* exception, keeps what is said of the archive.
LEMMA LogGrows ==
  ASSUME TypeOK, ArchivedWereNumbered, ArchiveInOrder, NoSilentLoss,
         seq' = seq + 1, dropped \subseteq dropped',
         \/ seen'[Archive] = seen[Archive] /\ seq + 1 \in dropped'
         \/ seen'[Archive] = Append(seen[Archive], seq + 1)
  PROVE  ArchivedWereNumbered' /\ ArchiveInOrder' /\ NoSilentLoss'
<1> DEFINE log == seen[Archive]
<1>1. log \in Seq(1..MaxSeq) /\ seq \in Nat
  BY DEF TypeOK, Handlers
<1>2. CASE seen'[Archive] = log /\ seq + 1 \in dropped'
  <2>1. ArchivedWereNumbered'
    BY <1>1, <1>2 DEF ArchivedWereNumbered
  <2>2. ArchiveInOrder'
    BY <1>2 DEF ArchiveInOrder
  <2>3. NoSilentLoss'
    BY <1>1, <1>2 DEF NoSilentLoss, Archived
  <2> QED  BY <2>1, <2>2, <2>3
<1>3. CASE seen'[Archive] = Append(log, seq + 1)
  <2> DEFINE new == seen'[Archive]
  <2>1. /\ Len(log) \in Nat /\ Len(new) = Len(log) + 1
        /\ \A i \in 1..Len(log) : new[i] = log[i]
        /\ new[Len(log) + 1] = seq + 1
        /\ DOMAIN new = 1..Len(new) /\ DOMAIN log = 1..Len(log)
    BY <1>1, <1>3
  <2> HIDE DEF new, log
  <2>a. \A i \in 1..Len(new) : \/ i \in 1..Len(log) /\ new[i] = log[i]
                               \/ i = Len(log) + 1 /\ new[i] = seq + 1
    BY <2>1
  <2>b. \A i \in 1..Len(log) : log[i] \in 1..seq
    BY DEF ArchivedWereNumbered, log
  <2>c. \A i, j \in 1..Len(log) : i < j => log[i] < log[j]
    BY DEF ArchiveInOrder, log
  <2>2. ArchivedWereNumbered'
    <3>1. \A i \in 1..Len(new) : new[i] \in 1..(seq + 1)
      BY <1>1, <2>a, <2>b
    <3> QED  BY <3>1 DEF ArchivedWereNumbered, new
  <2>3. ArchiveInOrder'
    <3>1. \A i, j \in 1..Len(new) : i < j => new[i] < new[j]
      <4> SUFFICES ASSUME NEW i \in 1..Len(new), NEW j \in 1..Len(new), i < j
                   PROVE  new[i] < new[j]
        OBVIOUS
      <4>1. i \in 1..Len(log) /\ new[i] = log[i] /\ log[i] \in 1..seq
        BY <2>1, <2>a, <2>b
      <4>2. (new[j] = log[j] /\ j \in 1..Len(log)) \/ new[j] = seq + 1
        BY <2>a
      <4> QED  BY <1>1, <2>c, <4>1, <4>2
    <3> QED  BY <3>1 DEF ArchiveInOrder, new
  <2>4. NoSilentLoss'
    <3>1. \A m \in Range(log) : m \in Range(new)
      BY <2>1 DEF Range
    <3>2. seq + 1 \in Range(new)
      BY <2>1 DEF Range
    <3> QED  BY <1>1, <3>1, <3>2 DEF NoSilentLoss, Archived, new, log
  <2> QED  BY <2>2, <2>3, <2>4
<1> QED  BY <1>2, <1>3

------------------------------------------------------------------------------
(* The invariant holds *)

\* A session not yet opened satisfies the invariant.
LEMMA InitInvariant == Init => IInv
<1> SUFFICES ASSUME Init PROVE IInv
  OBVIOUS
<1> USE PipelineAssumption DEF Init
<1>1. TypeOK
  <2>1. << >> \in Seq(Handlers) /\ << >> \in Seq(1..MaxSeq)
    BY EmptySeq
  <2>2. 0 \in 0..MaxSeq /\ "CREATING" \in ArchiveState
    BY DEF ArchiveState
  <2> QED  BY <2>1, <2>2 DEF TypeOK
<1>2. seen[Archive] = << >>
  BY DEF Handlers
<1> QED
  BY <1>1, <1>2 DEF IInv, ArchiveFirst, ArchiveDone, RunsWhenRecording,
     ArchivedWereNumbered, ArchiveInOrder, NoSilentLoss, StoppedIsLast

\* A list without one of its elements has no others.
LEMMA RemoveAtProperties ==
  ASSUME NEW S, NEW s \in Seq(S), NEW i \in 1..Len(s)
  PROVE  /\ RemoveAt(s, i) \in Seq(S)
         /\ Len(RemoveAt(s, i)) = Len(s) - 1
         /\ \A j \in 1..(Len(s) - 1) :
               RemoveAt(s, i)[j] = IF j < i THEN s[j] ELSE s[j + 1]
<1>1. Len(s) \in Nat /\ i - 1 \in Int /\ i + 1 \in Int /\ 1 \in Int
  BY LenProperties
<1>2. \A j \in 1..Len(s) : s[j] \in S
  BY ElementOfSeq
<1> DEFINE a == SubSeq(s, 1, i - 1)
           b == SubSeq(s, i + 1, Len(s))
<1>3. /\ a \in Seq(S) /\ Len(a) = i - 1
      /\ \A j \in 1..(i - 1) : a[j] = s[j]
  BY <1>1, <1>2, SubSeqProperties
<1>4. /\ b \in Seq(S) /\ Len(b) = Len(s) - i
      /\ \A j \in 1..(Len(s) - i) : b[j] = s[j + i]
  BY <1>1, <1>2, SubSeqProperties
<1> HIDE DEF a, b
<1> DEFINE ab == a \o b
<1>5. /\ ab \in Seq(S) /\ Len(ab) = Len(a) + Len(b)
      /\ \A j \in 1 .. Len(a) + Len(b) : ab[j] =
                  IF j <= Len(a) THEN a[j] ELSE b[j - Len(a)]
  BY <1>3, <1>4, ConcatProperties
<1>6. RemoveAt(s, i) = ab
  BY DEF RemoveAt, a, b, ab
<1> HIDE DEF ab
<1>7. ASSUME NEW j \in 1..(Len(s) - 1)
      PROVE  ab[j] = IF j < i THEN s[j] ELSE s[j + 1]
  <2>1. CASE j < i
    <3>1. j \in 1..(i - 1) /\ j <= Len(a) /\ j \in 1..(Len(a) + Len(b))
      BY <1>1, <1>3, <1>4, <2>1
    <3> QED  BY <1>3, <1>5, <2>1, <3>1
  <2>2. CASE j >= i
    <3>1. j - Len(a) \in 1..(Len(s) - i) /\ (j - Len(a)) + i = j + 1
      BY <1>1, <1>3, <2>2
    <3>2. ab[j] = b[j - Len(a)]
      BY <1>1, <1>3, <1>4, <1>5, <2>2
    <3>3. b[j - Len(a)] = s[(j - Len(a)) + i]
      BY <1>4, <3>1
    <3>4. ab[j] = s[j + 1]
      BY <3>1, <3>2, <3>3, Zenon
    <3>5. ~(j < i)
      BY <1>1, <2>2
    <3> QED  BY <3>4, <3>5, Zenon
  <2> QED  BY <1>1, <2>1, <2>2
<1> QED  BY <1>1, <1>3, <1>4, <1>5, <1>6, <1>7

\* Every step keeps the invariant.
LEMMA NextInvariant == IInv /\ [Next]_vars => IInv'
<1> SUFFICES ASSUME IInv, [Next]_vars PROVE IInv'
  OBVIOUS
<1> USE PipelineAssumption
<1>0. /\ TypeOK /\ ArchiveFirst /\ ArchiveDone /\ RunsWhenRecording
      /\ ArchivedWereNumbered /\ written <= seq /\ ArchiveInOrder
      /\ NoSilentLoss /\ StoppedIsLast
  BY DEF IInv
<1>1. ASSUME NEW m \in Monitors, Subscribe(m) PROVE IInv'
  <2> DEFINE old == subscribers
             new == Append(subscribers, m)
  <2>1. /\ subscribers' = new /\ old \in Seq(Handlers) /\ m \in Handlers
    BY <1>0, <1>1 DEF Subscribe, TypeOK, Handlers
  <2>2. /\ new \in Seq(Handlers) /\ new # << >> /\ Len(new) = Len(old) + 1
        /\ \A i \in 1..Len(old) : new[i] = old[i]
        /\ new[Len(old) + 1] = m
    BY <2>1, AppendProperties
  <2>3. Len(old) \in Nat /\ (old # << >> => Len(old) >= 1)
    BY <2>1, EmptySeq, LenProperties
  <2>4. running /\ old # << >> /\ old[1] = Archive /\ \A i \in 2..Len(old) : old[i] \in Monitors
    BY <1>0, <1>1 DEF Subscribe, ArchiveFirst
  <2> HIDE DEF new, old
  <2>5. new[1] = Archive /\ \A i \in 2..Len(new) : new[i] \in Monitors
    BY <2>2, <2>3, <2>4
  <2>6. ArchiveFirst'
    BY <2>1, <2>2, <2>5 DEF ArchiveFirst
  <2>7. UNCHANGED <<closed, state, running, seq, written, event, rest, seen,
                    audience, dropped>>
    BY <1>1 DEF Subscribe
  <2>8. RunsWhenRecording'
    BY <1>0, <2>4, <2>7 DEF RunsWhenRecording
  <2> QED
    BY <1>0, <2>1, <2>2, <2>6, <2>7, <2>8 DEF IInv, TypeOK, ArchiveDone,
       ArchivedWereNumbered, ArchiveInOrder, NoSilentLoss, Archived, StoppedIsLast
<1>2. ASSUME NEW m \in Monitors, Unsubscribe(m) PROVE IInv'
  <2>1. PICK p \in 1..Len(subscribers) :
           subscribers[p] = m /\ subscribers' = RemoveAt(subscribers, p)
    BY <1>2 DEF Unsubscribe
  <2> DEFINE old == subscribers
             new == RemoveAt(subscribers, p)
  <2>2. old \in Seq(Handlers) /\ Len(old) \in Nat
    BY <1>0, LenProperties DEF TypeOK
  <2>3. /\ new \in Seq(Handlers) /\ Len(new) = Len(old) - 1
        /\ \A j \in 1..(Len(old) - 1) : new[j] = IF j < p THEN old[j] ELSE old[j + 1]
    BY <2>2, RemoveAtProperties
  <2>4. \A i \in 2..Len(old) : old[i] \in Monitors
    BY <1>0 DEF ArchiveFirst
  <2>5. running => old # << >> /\ old[1] = Archive
    BY <1>0 DEF ArchiveFirst
  <2>6. p \in 1..Len(old) /\ old[p] = m /\ subscribers' = new
    BY <2>1
  <2>7. UNCHANGED <<closed, state, running, seq, written, event, rest, seen,
                    audience, dropped>>
    BY <1>2 DEF Unsubscribe
  <2>8. subscribers = << >> => FALSE
    BY <2>1, EmptySeq
  <2> HIDE DEF new, old
  <2>9. \A i \in 2..Len(new) : new[i] \in Monitors
    BY <2>2, <2>3, <2>4, <2>6
  <2>10. running => new # << >> /\ new[1] = Archive
    <3> SUFFICES ASSUME running PROVE new # << >> /\ new[1] = Archive
      OBVIOUS
    <3>1. p \in 2..Len(old)
      BY <2>2, <2>5, <2>6
    <3>2. Len(new) >= 1 /\ new[1] = old[1]
      BY <2>2, <2>3, <3>1
    <3> QED  BY <2>5, <3>2, EmptySeq
  <2>11. ArchiveFirst'
    BY <2>6, <2>7, <2>9, <2>10 DEF ArchiveFirst
  <2>12. RunsWhenRecording'
    BY <1>0, <2>7, <2>8 DEF RunsWhenRecording
  <2> QED
    BY <1>0, <2>3, <2>6, <2>7, <2>11, <2>12 DEF IInv, TypeOK, ArchiveDone,
       ArchivedWereNumbered, ArchiveInOrder, NoSilentLoss, Archived, StoppedIsLast
<1>3. ASSUME Close PROVE IInv'
  BY <1>0, <1>3 DEF Close, IInv, TypeOK, ArchiveFirst, ArchiveDone,
     RunsWhenRecording, ArchivedWereNumbered, ArchiveInOrder, NoSilentLoss,
     Archived, StoppedIsLast
<1>4. ASSUME NEW t \in Tasks, Ingest(t) PROVE IInv'
  <2>1. /\ running /\ seq < MaxSeq
        /\ Refused(t) \/ Published(t, subscribers) \/ PublishRaised(t, subscribers)
        /\ UNCHANGED <<subscribers, closed, state, running>>
    BY <1>4 DEF Ingest
  <2>2. HeadedByArchive(subscribers)
    BY <1>0, <2>1 DEF HeadedByArchive, ArchiveFirst, TypeOK
  <2>3. /\ seq' = seq + 1 /\ seq' \in 0..MaxSeq
        /\ written' \in 0..MaxSeq /\ written' <= seq'
        /\ event' \in [Tasks -> 0..MaxSeq]
        /\ rest' \in [Tasks -> Seq(Handlers)]
        /\ seen' \in [Handlers -> Seq(1..MaxSeq)]
        /\ audience' \in [1..MaxSeq -> SUBSET Handlers]
        /\ dropped' \in SUBSET (1..MaxSeq) /\ dropped \subseteq dropped'
        /\ ArchiveDone'
        /\ \/ seen'[Archive] = seen[Archive] /\ seq + 1 \in dropped'
           \/ seen'[Archive] = Append(seen[Archive], seq + 1)
    BY <1>0, <2>1, <2>2, Publishing
  <2>4. ArchivedWereNumbered' /\ ArchiveInOrder' /\ NoSilentLoss'
    BY <1>0, <2>3, LogGrows
  <2>5. TypeOK'
    BY <1>0, <2>1, <2>3 DEF TypeOK
  <2>6. ArchiveFirst' /\ RunsWhenRecording' /\ StoppedIsLast'
    BY <1>0, <2>1 DEF ArchiveFirst, RunsWhenRecording, StoppedIsLast
  <2> QED  BY <2>3, <2>4, <2>5, <2>6 DEF IInv
<1>5. ASSUME NEW t \in Tasks, Resume(t) PROVE IInv'
  <2> DEFINE hs == rest[t]
             n == event[t]
  <2>1. /\ hs \in Seq(Handlers) /\ n \in 1..MaxSeq
        /\ Reached(hs) \subseteq 1..Len(hs)
        /\ \A i \in 1..Len(hs) : hs[i] # Archive
    <3>1. hs \in Seq(Handlers) /\ n \in 1..MaxSeq
      BY <1>0, <1>5 DEF Resume, TypeOK
    <3> QED  BY <1>0, <3>1, ReachedProperties DEF ArchiveDone
  <2>2. UNCHANGED <<subscribers, closed, state, running, seq, written, audience>>
    BY <1>5 DEF Resume
  <2> DEFINE Effect ==
               /\ seen' \in [Handlers -> Seq(1..MaxSeq)]
               /\ seen'[Archive] = seen[Archive]
               /\ rest' \in [Tasks -> Seq(Handlers)] /\ ArchiveDone'
               /\ event' \in [Tasks -> 0..MaxSeq]
               /\ dropped' \in SUBSET (1..MaxSeq) /\ dropped \subseteq dropped'
  <2>3. Effect
    <3>1. CASE CallOn(t, hs, n)
      <4> DEFINE r == SubSeq(hs, Cardinality(Reached(hs)) + 1, Len(hs))
      <4>1. TakeIn(hs, Reached(hs), n)
        BY <3>1 DEF CallOn
      <4>2. seen' \in [Handlers -> Seq(1..MaxSeq)] /\ seen'[Archive] = seen[Archive]
        BY <1>0, <2>1, <4>1, TakeInEffect
      <4>3. r \in Seq(Handlers) /\ \A i \in 1..Len(r) : \E j \in 2..Len(hs) : r[i] = hs[j]
        BY <2>1, RestOfSnapshot
      <4>4. \A i \in 1..Len(r) : r[i] # Archive
        BY <2>1, <4>3
      <4>5. rest' = [rest EXCEPT ![t] = r] /\ dropped' = dropped
        BY <3>1 DEF CallOn
      <4>6. event' \in [Tasks -> 0..MaxSeq]
        <5>1. PICK e \in {0, n} : event' = [event EXCEPT ![t] = e]
          BY <3>1, Zenon DEF CallOn
        <5>2. e \in 0..MaxSeq
          BY <2>1
        <5> QED  BY <1>0, <5>1, <5>2 DEF TypeOK
      <4> HIDE DEF r
      <4>7. rest' \in [Tasks -> Seq(Handlers)] /\ ArchiveDone'
        BY <1>0, <4>3, <4>4, <4>5, Zenon DEF TypeOK, ArchiveDone
      <4> QED  BY <1>0, <4>2, <4>5, <4>6, <4>7 DEF TypeOK
    <3>2. ASSUME NEW k \in 0..Len(hs), RaiseAfter(t, hs, k, n)
          PROVE  Effect
      <4>1. TakeIn(hs, Reached(hs) \cap 1..k, n)
        BY <3>2 DEF RaiseAfter
      <4>a. (Reached(hs) \cap 1..k) \in SUBSET (1..Len(hs))
        BY <2>1
      <4>2. seen' \in [Handlers -> Seq(1..MaxSeq)] /\ seen'[Archive] = seen[Archive]
        BY <1>0, <2>1, <4>1, <4>a, TakeInEffect
      <4>3. /\ rest' = [rest EXCEPT ![t] = << >>] /\ event' = [event EXCEPT ![t] = 0]
            /\ dropped' = dropped \cup {n}
        BY <3>2, Zenon DEF RaiseAfter
      <4>4. /\ << >> \in Seq(Handlers) /\ Len(<< >>) = 0 /\ 0 \in 0..MaxSeq
        BY EmptySeq
      <4>5. rest' \in [Tasks -> Seq(Handlers)] /\ ArchiveDone'
        BY <1>0, <4>3, <4>4 DEF TypeOK, ArchiveDone
      <4> QED  BY <1>0, <2>1, <4>2, <4>3, <4>4, <4>5 DEF TypeOK
    <3> QED  BY <1>5, <3>1, <3>2 DEF Resume
  <2>4. TypeOK'
    BY <1>0, <2>2, <2>3 DEF TypeOK
  <2>5. ArchiveFirst' /\ RunsWhenRecording' /\ StoppedIsLast'
    BY <1>0, <2>2, <2>3 DEF ArchiveFirst, RunsWhenRecording, StoppedIsLast
  <2>6. ArchivedWereNumbered' /\ ArchiveInOrder' /\ NoSilentLoss'
    BY <1>0, <2>2, <2>3 DEF ArchivedWereNumbered, ArchiveInOrder, NoSilentLoss, Archived
  <2> QED  BY <1>0, <2>2, <2>3, <2>4, <2>5, <2>6 DEF IInv
<1>6. ASSUME NEW t \in Tasks, Start(t) PROVE IInv'
  <2> DEFINE hs == Append(subscribers, Archive)
  <2>1. state = "CREATING"
    BY <1>0, <1>6 DEF Start, TypeOK, CanTransition, Allowed, ArchiveState
  <2>2. subscribers = << >> /\ seq = 0 /\ Archive \in Handlers
    BY <1>0, <2>1 DEF RunsWhenRecording, Handlers
  <2>3. HeadedByArchive(hs)
    BY <2>2 DEF HeadedByArchive
  <2>4. /\ subscribers' = hs /\ state' = "RECORDING" /\ running' = TRUE
        /\ Refused(t) \/ Published(t, hs) \/ PublishRaised(t, hs)
        /\ UNCHANGED closed
    BY <1>6 DEF Start
  <2> HIDE DEF hs
  <2>5. /\ seq' = seq + 1 /\ seq' \in 0..MaxSeq
        /\ written' \in 0..MaxSeq /\ written' <= seq'
        /\ event' \in [Tasks -> 0..MaxSeq]
        /\ rest' \in [Tasks -> Seq(Handlers)]
        /\ seen' \in [Handlers -> Seq(1..MaxSeq)]
        /\ audience' \in [1..MaxSeq -> SUBSET Handlers]
        /\ dropped' \in SUBSET (1..MaxSeq) /\ dropped \subseteq dropped'
        /\ ArchiveDone'
        /\ \/ seen'[Archive] = seen[Archive] /\ seq + 1 \in dropped'
           \/ seen'[Archive] = Append(seen[Archive], seq + 1)
    <3>1. seq < MaxSeq
      BY <2>2
    <3> QED  BY <1>0, <2>3, <2>4, <3>1, Publishing
  <2>6. ArchivedWereNumbered' /\ ArchiveInOrder' /\ NoSilentLoss'
    BY <1>0, <2>5, LogGrows
  <2>7. TypeOK'
    BY <1>0, <2>3, <2>4, <2>5 DEF TypeOK, ArchiveState, HeadedByArchive
  <2>8. ArchiveFirst' /\ RunsWhenRecording' /\ StoppedIsLast'
    BY <2>3, <2>4 DEF ArchiveFirst, RunsWhenRecording, StoppedIsLast, HeadedByArchive
  <2> QED  BY <2>5, <2>6, <2>7, <2>8 DEF IInv
<1>7. ASSUME NEW t \in Tasks, Stop(t) PROVE IInv'
  <2>1. /\ running /\ seq < MaxSeq /\ Published(t, subscribers)
        /\ running' = FALSE /\ subscribers' = << >>
        /\ state' \in {"FINALIZING", "COMPLETE"} /\ UNCHANGED closed
    BY <1>7 DEF Stop, PipelineStop
  <2>2. HeadedByArchive(subscribers)
    BY <1>0, <2>1 DEF HeadedByArchive, ArchiveFirst, TypeOK
  <2>3. /\ seq' = seq + 1 /\ seq' \in 0..MaxSeq
        /\ written' \in 0..MaxSeq /\ written' <= seq'
        /\ event' \in [Tasks -> 0..MaxSeq]
        /\ rest' \in [Tasks -> Seq(Handlers)]
        /\ seen' \in [Handlers -> Seq(1..MaxSeq)]
        /\ audience' \in [1..MaxSeq -> SUBSET Handlers]
        /\ dropped' \in SUBSET (1..MaxSeq) /\ dropped \subseteq dropped'
        /\ ArchiveDone'
        /\ seen'[Archive] = Append(seen[Archive], seq + 1)
    BY <1>0, <2>1, <2>2, Publishing
  <2>4. ArchivedWereNumbered' /\ ArchiveInOrder' /\ NoSilentLoss'
    BY <1>0, <2>3, LogGrows
  <2>5. TypeOK'
    <3>1. << >> \in Seq(Handlers)
      BY EmptySeq
    <3> QED  BY <1>0, <2>1, <2>3, <3>1 DEF TypeOK, ArchiveState
  <2>6. ArchiveFirst' /\ RunsWhenRecording'
    BY <2>1, EmptySeq DEF ArchiveFirst, RunsWhenRecording
  <2>7. StoppedIsLast'
    <3>1. seen[Archive] \in Seq(1..MaxSeq) /\ seq + 1 \in 1..MaxSeq
      BY <1>0, <2>3 DEF TypeOK, Handlers
    <3>2. /\ seen'[Archive] # << >>
          /\ seen'[Archive][Len(seen'[Archive])] = seq + 1
      BY <2>3, <3>1, AppendProperties
    <3> QED  BY <2>3, <3>2 DEF StoppedIsLast
  <2> QED  BY <2>3, <2>4, <2>5, <2>6, <2>7 DEF IInv
<1>8. CASE UNCHANGED vars
  BY <1>0, <1>8 DEF vars, IInv, TypeOK, ArchiveFirst, ArchiveDone,
     RunsWhenRecording, ArchivedWereNumbered, ArchiveInOrder, NoSilentLoss,
     Archived, StoppedIsLast
<1> QED
  BY <1>1, <1>2, <1>3, <1>4, <1>5, <1>6, <1>7, <1>8 DEF Next

\* The invariant holds in every state of the pipeline.
LEMMA Invariance == Spec => []IInv
<1>1. Init => IInv
  BY InitInvariant
<1>2. IInv /\ [Next]_vars => IInv'
  BY NextInvariant
<1> QED  BY <1>1, <1>2, PTL DEF Spec

------------------------------------------------------------------------------
(* Who took an event in *)

\* No list of handlers and no handler's log repeats anything.
NoRepeats ==
    /\ Once(subscribers)
    /\ \A t \in Tasks : Once(rest[t])
    /\ \A h \in Handlers : Once(seen[h]) /\ Range(seen[h]) \subseteq 1..seq

\* A task has a publish of its own, which has not raised, and calls no handler
\* that was not subscribed when it began.
Suspended ==
    /\ dropped \subseteq 1..seq
    /\ \A t \in Tasks : /\ event[t] \in 0..seq /\ event[t] \notin dropped
                        /\ event[t] = 0 => rest[t] = << >>
                        /\ event[t] # 0 => Range(rest[t]) \subseteq audience[event[t]]
    /\ \A t, u \in Tasks : event[t] = event[u] /\ event[t] # 0 => t = u

\* A suspended publish of event n has still to call h.
Due(h, n) == \E t \in Tasks : event[t] = n /\ h \in Range(rest[t])

\* An event that was not dropped is with those it was published to, but for
\* those it is due to.
Delivered ==
    \A n \in (1..seq) \ dropped, h \in Handlers :
       n \in Range(seen[h]) <=> h \in audience[n] /\ ~Due(h, n)

\* What counts as written is in the archive.
Counted == written <= Len(seen[Archive])

Deliveries == NoRepeats /\ Suspended /\ Delivered /\ Counted

\* A burst calls the first handlers, up to one that suspends or to the last.
LEMMA ReachedIsPrefix ==
  ASSUME NEW hs \in Seq(Handlers)
  PROVE  \E c \in 0..Len(hs) :
            /\ Reached(hs) = 1..c /\ Cardinality(Reached(hs)) = c
            /\ c < Len(hs) => c \in 1..Len(hs) /\ hs[c] \in Suspending
<1> DEFINE T == {i \in 1..Len(hs) : hs[i] \in Suspending}
<1>1. Len(hs) \in Nat
  BY LenProperties
<1>2. \A c \in 0..Len(hs) : Cardinality(1..c) = c
  <2> TAKE c \in 0..Len(hs)
  <2>1. 1 \in Int /\ c \in Int /\ c \in Nat
    BY <1>1
  <2>2. Cardinality(1..c) = IF 1 > c THEN 0 ELSE c - 1 + 1
    BY <2>1, FS_Interval
  <2> QED  BY <2>1, <2>2
<1>3. CASE T = {}
  <2>1. Reached(hs) = 1..Len(hs)
    BY <1>1, <1>3 DEF Reached
  <2> QED  BY <1>1, <1>2, <2>1
<1>4. CASE T # {}
  <2>1. PICK p \in T : \A i \in T : p <= i
    <3>1. T \in SUBSET Nat
      BY <1>1
    <3> HIDE DEF T
    <3> QED  BY <1>4, <3>1, LeastNumber
  <2>2. p \in 1..Len(hs) /\ hs[p] \in Suspending
    OBVIOUS
  <2>3. \A i \in 1..Len(hs) : i < p => hs[i] \notin Suspending
    BY <1>1, <2>1
  <2>4. ASSUME NEW i \in 1..Len(hs)
        PROVE  i \in Reached(hs) <=> i <= p
    <3>1. i \in Nat /\ p \in Nat
      BY <1>1, <2>2
    <3>2. CASE i <= p
      <4>1. \A j \in 1..(i - 1) : j \in 1..Len(hs) /\ j < p
        BY <1>1, <2>2, <3>1, <3>2
      <4>2. \A j \in 1..(i - 1) : hs[j] \notin Suspending
        BY <2>3, <4>1
      <4> QED  BY <3>2, <4>2 DEF Reached
    <3>3. CASE ~(i <= p)
      <4>1. p \in 1..(i - 1)
        BY <1>1, <2>2, <3>1, <3>3
      <4> QED  BY <2>2, <3>3, <4>1 DEF Reached
    <3> QED  BY <3>2, <3>3
  <2>5. Reached(hs) = 1..p
    <3>1. Reached(hs) \subseteq 1..Len(hs)
      BY DEF Reached
    <3>2. \A i \in 1..Len(hs) : i <= p <=> i \in 1..p
      BY <1>1
    <3>3. 1..p \subseteq 1..Len(hs)
      BY <1>1, <2>2
    <3>4. \A i : i \in Reached(hs) <=> i \in 1..p
      BY <2>4, <3>1, <3>2, <3>3
    <3> HIDE DEF T
    <3> QED  BY <3>4, Zenon
  <2> QED  BY <1>1, <1>2, <2>2, <2>5
<1> QED  BY <1>3, <1>4

\* What a burst leaves for later: nothing, or the handlers it has not called.
Left(hs, P, e, r) ==
    /\ r \in Seq(Handlers) /\ Once(r)
    /\ e = 0 => r = << >>
    /\ Range(r) = Range(hs) \ {hs[i] : i \in P}

LEMMA BurstLeaves ==
  ASSUME NEW t \in Tasks, NEW hs \in Seq(Handlers), Once(hs), NEW n \in Nat \ {0},
         CallOn(t, hs, n)
  PROVE  \E r, e : /\ rest' = [rest EXCEPT ![t] = r] /\ event' = [event EXCEPT ![t] = e]
                   /\ e \in {0, n} /\ Left(hs, Reached(hs), e, r)
<1>0. PICK L \in Nat : L = Len(hs) /\ DOMAIN hs = 1..L
  BY LenProperties
<1>1. PICK c \in 0..L :
         /\ Reached(hs) = 1..c /\ Cardinality(Reached(hs)) = c
         /\ c < L => c \in 1..L /\ hs[c] \in Suspending
  BY <1>0, ReachedIsPrefix
<1> DEFINE r == SubSeq(hs, c + 1, L)
           e == IF \E i \in Reached(hs) : hs[i] \in Suspending THEN n ELSE 0
<1>2. rest' = [rest EXCEPT ![t] = r] /\ event' = [event EXCEPT ![t] = e]
  BY <1>0, <1>1 DEF CallOn
<1>3. /\ c \in Nat /\ c <= L /\ c + 1 \in Int /\ L \in Int
      /\ \A i \in (c + 1)..L : hs[i] \in Handlers
  <2>1. (c + 1)..L \subseteq 1..L
    OBVIOUS
  <2>2. \A i \in 1..L : hs[i] \in Handlers
    BY <1>0, ElementOfSeq
  <2> QED  BY <2>1, <2>2
<1>4. /\ r \in Seq(Handlers)
      /\ Len(r) = IF c + 1 <= L THEN L - (c + 1) + 1 ELSE 0
      /\ \A i \in 1..(L - (c + 1) + 1) : r[i] = hs[c + 1 + i - 1]
  BY <1>3, SubSeqProperties
<1> HIDE DEF r
<1>5. /\ Len(r) = L - c /\ DOMAIN r = 1..(L - c)
      /\ \A i \in 1..(L - c) : r[i] = hs[c + i] /\ c + i \in (c + 1)..L
  <2>1. Len(r) = L - c /\ L - (c + 1) + 1 = L - c
    BY <1>4
  <2>2. \A i \in 1..(L - c) : c + 1 + i - 1 = c + i /\ c + i \in (c + 1)..L
    OBVIOUS
  <2> QED  BY <1>4, <2>1, <2>2, LenProperties
<1>6. Once(r)
  <2> SUFFICES ASSUME NEW i \in 1..(L - c), NEW j \in 1..(L - c), r[i] = r[j]
               PROVE  i = j
    BY <1>5 DEF Once
  <2>1. hs[c + i] = hs[c + j] /\ c + i \in DOMAIN hs /\ c + j \in DOMAIN hs
    BY <1>0, <1>5
  <2>2. c + i = c + j
    BY <2>1 DEF Once
  <2> QED  BY <2>2
<1>7. e = 0 => r = << >>
  <2>1. CASE c < L
    <3>1. \E i \in Reached(hs) : hs[i] \in Suspending
      BY <1>1, <2>1
    <3> QED  BY <3>1
  <2>2. CASE ~(c < L)
    <3>1. Len(r) = 0
      BY <1>5, <2>2
    <3> QED  BY <1>4, <3>1, EmptySeq
  <2> QED  BY <2>1, <2>2
<1>8. Range(r) = Range(hs) \ {hs[i] : i \in Reached(hs)}
  <2>1. ASSUME NEW i \in 1..(L - c)
        PROVE  r[i] \in Range(hs) /\ \A j \in 1..c : r[i] # hs[j]
    <3>1. r[i] = hs[c + i] /\ c + i \in DOMAIN hs
      BY <1>0, <1>5
    <3>2. \A j \in 1..c : j \in DOMAIN hs /\ c + i # j
      BY <1>0
    <3> QED  BY <3>1, <3>2 DEF Once, Range
  <2>2. ASSUME NEW i \in DOMAIN hs, i \notin 1..c PROVE hs[i] \in Range(r)
    <3>1. i - c \in 1..(L - c) /\ c + (i - c) = i
      BY <1>0, <2>2
    <3>2. r[i - c] = hs[i]
      BY <1>5, <3>1
    <3> QED  BY <1>5, <3>1, <3>2 DEF Range
  <2>3. \A x \in Range(r) : x \in Range(hs) \ {hs[i] : i \in Reached(hs)}
    BY <1>1, <1>5, <2>1 DEF Range
  <2>4. \A x \in Range(hs) \ {hs[i] : i \in Reached(hs)} : x \in Range(r)
    BY <1>1, <2>2 DEF Range
  <2> QED  BY <2>3, <2>4
<1>9. e \in {0, n}
  OBVIOUS
<1> HIDE DEF e
<1> QED  BY <1>2, <1>4, <1>6, <1>7, <1>8, <1>9 DEF Left

\* The handlers at the positions P, and no others, have the event once more.
LEMMA TakenIn ==
  ASSUME TypeOK, NEW hs \in Seq(Handlers), NEW P \in SUBSET (DOMAIN hs),
         NEW n \in 1..MaxSeq, TakeIn(hs, P, n), NEW h \in Handlers
  PROVE  /\ Range(seen'[h]) = Range(seen[h]) \cup
                                (IF h \in {hs[i] : i \in P} THEN {n} ELSE {})
         /\ Once(seen[h]) /\ (h \in {hs[i] : i \in P} => n \notin Range(seen[h]))
               => Once(seen'[h])
<1>1. seen[h] \in Seq(1..MaxSeq)
  BY DEF TypeOK
<1>2. CASE h \in {hs[i] : i \in P}
  <2>1. seen'[h] = Append(seen[h], n)
    BY <1>2 DEF TakeIn
  <2>2. /\ Range(Append(seen[h], n)) = Range(seen[h]) \cup {n}
        /\ Once(seen[h]) /\ n \notin Range(seen[h]) => Once(Append(seen[h], n))
    BY <1>1, OnceAppend
  <2> QED  BY <1>2, <2>1, <2>2
<1>3. CASE h \notin {hs[i] : i \in P}
  <2>1. seen'[h] = seen[h]
    BY <1>3 DEF TakeIn
  <2> QED  BY <1>3, <2>1
<1> QED  BY <1>2, <1>3

\* Task t goes on with, or begins, its publish of n: hs are the handlers it has
\* yet to call, and nobody else has anything to do with n.
Going(t, hs, n) ==
    /\ hs \in Seq(Handlers) /\ Once(hs)
    /\ seq' \in Nat /\ n \in 1..MaxSeq /\ n \notin dropped /\ event[t] \in {0, n}
    /\ 1..seq' = (1..seq) \cup {n}
    /\ \A u \in Tasks \ {t} : event[u] # n
    /\ Range(hs) \subseteq audience'[n]
    /\ \A h \in Handlers : n \in Range(seen[h]) <=> h \in audience'[n] \ Range(hs)
    /\ \A m \in 1..seq : m # n => audience'[m] = audience[m]

\* A burst of that publish, which raised or left what it has not called.
Burst(t, hs, P, n, e, r) ==
    /\ TakeIn(hs, P, n)
    /\ rest' = [rest EXCEPT ![t] = r]
    /\ event' = [event EXCEPT ![t] = e]
    /\ \/ dropped' = dropped \cup {n} /\ e = 0 /\ r = << >>
       \/ dropped' = dropped /\ e \in {0, n} /\ Left(hs, P, e, r)

\* A burst keeps what is said of the deliveries.
LEMMA BurstDelivers ==
  ASSUME TypeOK, NoRepeats, Suspended, Delivered,
         NEW t \in Tasks, NEW hs, NEW n, Going(t, hs, n),
         NEW P \in SUBSET (DOMAIN hs), NEW e, NEW r, Burst(t, hs, P, n, e, r)
  PROVE  /\ \A u \in Tasks : Once(rest'[u])
         /\ \A h \in Handlers : Once(seen'[h]) /\ Range(seen'[h]) \subseteq 1..seq'
         /\ Suspended' /\ Delivered'
<1> DEFINE C == {hs[i] : i \in P}
<1>0. seq \in Nat /\ n # 0 /\ 0 \notin dropped /\ 0 \notin 1..seq
  BY DEF TypeOK, Suspended, Going
<1>1. C \subseteq Range(hs)
  BY DEF Range
<1>2. /\ Once(r)
      /\ e = 0 => r = << >>
      /\ Range(r) \subseteq Range(hs)
      /\ e # 0 => e = n
  <2>1. CASE e = 0 /\ r = << >>
    BY <2>1, EmptySeq DEF Once, Range
  <2>2. CASE e \in {0, n} /\ Left(hs, P, e, r)
    BY <2>2 DEF Left
  <2> QED  BY <2>1, <2>2 DEF Burst
<1>3. ASSUME NEW h \in Handlers
      PROVE  /\ Once(seen'[h])
             /\ Range(seen'[h]) = Range(seen[h]) \cup (IF h \in C THEN {n} ELSE {})
  <2>1. Once(seen[h])
    BY DEF NoRepeats
  <2>2. h \in C => n \notin Range(seen[h])
    BY <1>1 DEF Going
  <2> QED  BY <2>1, <2>2, TakenIn DEF Going, Burst
<1>4. /\ rest'[t] = r /\ event'[t] = e
      /\ \A u \in Tasks \ {t} : rest'[u] = rest[u] /\ event'[u] = event[u]
  BY DEF Burst, TypeOK
<1>5. \A u \in Tasks : Once(rest'[u])
  BY <1>2, <1>4 DEF NoRepeats
<1>6. \A h \in Handlers : Once(seen'[h]) /\ Range(seen'[h]) \subseteq 1..seq'
  <2>1. \A h \in Handlers : Range(seen[h]) \subseteq 1..seq
    BY DEF NoRepeats
  <2> QED  BY <1>3, <2>1 DEF Going
<1> HIDE DEF C
<1>7. Suspended'
  <2>1. dropped' \subseteq 1..seq'
    BY DEF Burst, Going, Suspended
  <2>2. ASSUME NEW u \in Tasks
        PROVE  /\ event'[u] \in 0..seq' /\ event'[u] \notin dropped'
               /\ event'[u] = 0 => rest'[u] = << >>
               /\ event'[u] # 0 => Range(rest'[u]) \subseteq audience'[event'[u]]
    <3>1. CASE u = t
      <4>1. e \in 0..seq'
        BY <1>2 DEF Going
      <4>2. e \notin dropped'
        BY <1>0, <1>2 DEF Burst, Going
      <4>3. e # 0 => Range(r) \subseteq audience'[e]
        BY <1>2 DEF Going
      <4> QED  BY <1>2, <1>4, <3>1, <4>1, <4>2, <4>3
    <3>2. CASE u # t
      <4>1. /\ event[u] \in 0..seq /\ event[u] \notin dropped /\ event[u] # n
            /\ event[u] = 0 => rest[u] = << >>
            /\ event[u] # 0 => Range(rest[u]) \subseteq audience[event[u]]
        BY <3>2 DEF Suspended, Going
      <4>2. event[u] = 0 \/ event[u] \in 1..seq
        BY <1>0, <4>1
      <4>3. event[u] \in 0..seq'
        BY <4>2 DEF Going
      <4>4. event[u] # 0 => audience'[event[u]] = audience[event[u]]
        BY <4>1, <4>2 DEF Going
      <4>5. event[u] \notin dropped'
        BY <4>1 DEF Burst
      <4> QED  BY <1>4, <3>2, <4>1, <4>3, <4>4, <4>5
    <3> QED  BY <3>1, <3>2
  <2>3. ASSUME NEW u \in Tasks, NEW v \in Tasks, event'[u] = event'[v], event'[u] # 0
        PROVE  u = v
    BY <1>2, <1>4, <2>3 DEF Going, Suspended
  <2> QED  BY <2>1, <2>2, <2>3 DEF Suspended
<1>8. Delivered'
  <2> SUFFICES ASSUME NEW m \in (1..seq') \ dropped', NEW h \in Handlers
               PROVE  m \in Range(seen'[h]) <=>
                         h \in audience'[m] /\ ~ \E u \in Tasks : event'[u] = m /\ h \in Range(rest'[u])
    BY DEF Delivered, Due
  <2>1. CASE m = n
    <3>1. dropped' = dropped /\ Left(hs, P, e, r) /\ e \in {0, n}
      BY <2>1 DEF Burst
    <3>2. Range(r) = Range(hs) \ C
      BY <3>1 DEF Left, C
    <3>3. (\E u \in Tasks : event'[u] = m /\ h \in Range(rest'[u])) <=> e = n /\ h \in Range(r)
      BY <1>4, <2>1 DEF Going
    <3>4. h \in Range(r) => e = n
      BY <1>2, EmptySeq DEF Range
    <3>5. m \in Range(seen'[h]) <=> h \in audience'[n] \ Range(hs) \/ h \in C
      BY <1>3, <2>1 DEF Going
    <3>6. Range(hs) \subseteq audience'[n]
      BY DEF Going
    <3> QED  BY <1>1, <2>1, <3>2, <3>3, <3>4, <3>5, <3>6
  <2>2. CASE m # n
    <3>1. m \in (1..seq) \ dropped /\ audience'[m] = audience[m] /\ m # 0
      BY <1>0, <2>2 DEF Going, Burst
    <3>2. event[t] # m /\ event'[t] # m
      BY <1>2, <1>4, <2>2, <3>1 DEF Going
    <3>3. (\E u \in Tasks : event'[u] = m /\ h \in Range(rest'[u])) <=> Due(h, m)
      BY <1>4, <3>2 DEF Due
    <3>4. m \in Range(seen'[h]) <=> m \in Range(seen[h])
      BY <1>3, <2>2
    <3> QED  BY <3>1, <3>3, <3>4 DEF Delivered
  <2> QED  BY <2>1, <2>2
<1> QED  BY <1>5, <1>6, <1>7, <1>8

\* The archive, at the head of the snapshot, takes the event in first.
LEMMA ArchiveTakesIn ==
  ASSUME TypeOK, NEW hs, HeadedByArchive(hs), NEW P \in SUBSET (1..Len(hs)),
         NEW n \in 1..MaxSeq, TakeIn(hs, P, n)
  PROVE  /\ Len(seen[Archive]) \in Nat /\ Len(seen'[Archive]) \in Nat
         /\ Len(seen'[Archive]) >= Len(seen[Archive])
         /\ 1 \in P => Len(seen'[Archive]) = Len(seen[Archive]) + 1
<1>1. hs \in Seq(Handlers) /\ hs[1] = Archive
  BY DEF HeadedByArchive
<1>2. seen'[Archive] = IF \E i \in P : hs[i] = Archive
                      THEN Append(seen[Archive], n) ELSE seen[Archive]
  BY <1>1, TakeInEffect
<1>3. seen[Archive] \in Seq(1..MaxSeq)
  BY DEF TypeOK, Handlers
<1>4. /\ Len(seen[Archive]) \in Nat
      /\ Len(Append(seen[Archive], n)) = Len(seen[Archive]) + 1
  BY <1>3, AppendProperties, LenProperties
<1> QED  BY <1>1, <1>2, <1>4

\* Publishing a new event keeps what is said of the deliveries.
LEMMA PublishDelivers ==
  ASSUME TypeOK, Deliveries, seq < MaxSeq,
         NEW t \in Tasks, event[t] = 0, NEW hs, HeadedByArchive(hs), Once(hs),
         Refused(t) \/ Published(t, hs) \/ PublishRaised(t, hs), Once(subscribers')
  PROVE  Deliveries'
<1> DEFINE n == seq + 1
<1>1. /\ n \in 1..MaxSeq /\ seq' = n /\ seq \in Nat /\ 1..seq' = (1..seq) \cup {n}
      /\ written \in Nat
  BY PipelineAssumption DEF TypeOK, Refused, Published, PublishRaised
<1>2. NoRepeats /\ Suspended /\ Delivered /\ Counted /\ hs \in Seq(Handlers)
  BY DEF Deliveries, HeadedByArchive
<1>3. n \notin dropped /\ n \notin 1..seq /\ \A u \in Tasks : event[u] # n
  BY <1>1, <1>2 DEF Suspended
<1>4. PICK L \in Nat : L = Len(hs) /\ DOMAIN hs = 1..L
  BY <1>2, LenProperties
<1>5. CASE Refused(t)
  <2>1. /\ seq' = seq + 1 /\ audience' = audience /\ dropped' = dropped \cup {seq + 1}
        /\ UNCHANGED <<written, event, rest, seen>>
    BY <1>5 DEF Refused
  <2>2. NoRepeats'
    BY <1>1, <1>2, <2>1 DEF NoRepeats
  <2>3. Suspended'
    <3>1. dropped' \subseteq 1..seq'
      BY <1>1, <1>2, <2>1 DEF Suspended
    <3>2. \A u \in Tasks : event[u] \in 0..seq' /\ event[u] \notin dropped'
      BY <1>1, <1>2, <1>3, <2>1 DEF Suspended
    <3> QED  BY <1>2, <2>1, <3>1, <3>2 DEF Suspended
  <2>4. Delivered'
    <3>1. (1..seq') \ dropped' \subseteq (1..seq) \ dropped
      BY <1>1, <2>1
    <3> QED  BY <1>2, <2>1, <3>1 DEF Delivered, Due
  <2>5. Counted'
    BY <1>2, <2>1 DEF Counted
  <2> QED  BY <2>2, <2>3, <2>4, <2>5 DEF Deliveries
<1>6. ASSUME audience' = [audience EXCEPT ![n] = Range(hs)]
      PROVE  Going(t, hs, n)
  <2>1. audience'[n] = Range(hs) /\ \A m \in 1..seq : m # n => audience'[m] = audience[m]
    BY <1>1, <1>6 DEF TypeOK
  <2>2. \A h \in Handlers : n \notin Range(seen[h])
    BY <1>2, <1>3 DEF NoRepeats
  <2> QED  BY <1>1, <1>2, <1>3, <2>1, <2>2 DEF Going
<1>7. CASE Published(t, hs)
  <2>1. /\ audience' = [audience EXCEPT ![n] = Range(hs)]
        /\ CallOn(t, hs, n) /\ written' \in {written, written + 1}
    BY <1>7 DEF Published
  <2>2. PICK r, e : /\ rest' = [rest EXCEPT ![t] = r] /\ event' = [event EXCEPT ![t] = e]
                    /\ e \in {0, n} /\ Left(hs, Reached(hs), e, r)
    <3>1. n \in Nat \ {0}
      BY <1>1
    <3> QED  BY <1>2, <2>1, <3>1, BurstLeaves
  <2>3. Burst(t, hs, Reached(hs), n, e, r)
    BY <2>1, <2>2 DEF Burst, CallOn
  <2>4. Reached(hs) \in SUBSET (DOMAIN hs) /\ 1 \in Reached(hs)
    BY <1>4, ReachedProperties DEF HeadedByArchive
  <2>5. /\ \A u \in Tasks : Once(rest'[u])
        /\ \A h \in Handlers : Once(seen'[h]) /\ Range(seen'[h]) \subseteq 1..seq'
        /\ Suspended' /\ Delivered'
    BY <1>2, <1>6, <2>1, <2>3, <2>4, BurstDelivers
  <2>6. Counted'
    <3>1. TakeIn(hs, Reached(hs), n)
      BY <2>1 DEF CallOn
    <3>2. Len(seen'[Archive]) = Len(seen[Archive]) + 1 /\ Len(seen[Archive]) \in Nat
      BY <1>1, <1>4, <2>4, <3>1, ArchiveTakesIn
    <3> QED  BY <1>1, <1>2, <2>1, <3>2 DEF Counted
  <2> QED  BY <2>5, <2>6 DEF Deliveries, NoRepeats
<1>8. CASE PublishRaised(t, hs)
  <2>1. PICK k \in 0..L :
           /\ RaiseAfter(t, hs, k, n)
           /\ written' \in {written, written + 1}
           /\ k = 0 => written' = written
    BY <1>4, <1>8 DEF PublishRaised
  <2>2. audience' = [audience EXCEPT ![n] = Range(hs)]
    BY <1>8 DEF PublishRaised
  <2> DEFINE P == Reached(hs) \cap 1..k
  <2>3. P \in SUBSET (DOMAIN hs) /\ (k > 0 => 1 \in P)
    <3>1. Reached(hs) \subseteq 1..L /\ 1 \in Reached(hs)
      BY <1>4, ReachedProperties DEF HeadedByArchive
    <3> QED  BY <1>4, <3>1
  <2>4. Burst(t, hs, P, n, 0, << >>)
    BY <2>1 DEF Burst, RaiseAfter
  <2>5. /\ \A u \in Tasks : Once(rest'[u])
        /\ \A h \in Handlers : Once(seen'[h]) /\ Range(seen'[h]) \subseteq 1..seq'
        /\ Suspended' /\ Delivered'
    <3> HIDE DEF P
    <3> QED  BY <1>2, <1>6, <2>2, <2>3, <2>4, BurstDelivers
  <2>6. Counted'
    <3>1. TakeIn(hs, P, n)
      BY <2>1 DEF RaiseAfter
    <3> HIDE DEF P
    <3>2. /\ Len(seen[Archive]) \in Nat /\ Len(seen'[Archive]) \in Nat
          /\ Len(seen'[Archive]) >= Len(seen[Archive])
          /\ 1 \in P => Len(seen'[Archive]) = Len(seen[Archive]) + 1
      BY <1>1, <1>4, <2>3, <3>1, ArchiveTakesIn
    <3>3. k = 0 \/ k > 0
      BY <2>1
    <3> QED  BY <1>1, <1>2, <2>1, <2>3, <3>2, <3>3 DEF Counted
  <2> QED  BY <2>5, <2>6 DEF Deliveries, NoRepeats
<1> QED  BY <1>5, <1>7, <1>8

\* So does a publish that goes on.
LEMMA ResumeDelivers ==
  ASSUME TypeOK, ArchiveDone, Deliveries, NEW t \in Tasks, Resume(t)
  PROVE  Deliveries'
<1> DEFINE hs == rest[t]
           n == event[t]
<1>1. /\ n # 0 /\ UNCHANGED <<subscribers, seq, written, audience>>
      /\ CallOn(t, hs, n) \/ \E k \in 0..Len(hs) : RaiseAfter(t, hs, k, n)
  BY DEF Resume
<1>2. NoRepeats /\ Suspended /\ Delivered /\ Counted
  BY DEF Deliveries
<1>3. /\ hs \in Seq(Handlers) /\ n \in 1..MaxSeq /\ seq \in Nat /\ n \in 1..seq
      /\ n \notin dropped
  BY <1>1, <1>2 DEF TypeOK, Suspended
<1>4. PICK L \in Nat : L = Len(hs) /\ DOMAIN hs = 1..L
  BY <1>3, LenProperties
<1>5. Going(t, hs, n)
  <2>1. \A u \in Tasks \ {t} : event[u] # n
    BY <1>1, <1>2 DEF Suspended
  <2>2. Range(hs) \subseteq audience'[n]
    BY <1>1, <1>2 DEF Suspended
  <2>3. ASSUME NEW h \in Handlers
        PROVE  n \in Range(seen[h]) <=> h \in audience'[n] \ Range(hs)
    <3>1. Due(h, n) <=> h \in Range(hs)
      BY <2>1 DEF Due
    <3> QED  BY <1>1, <1>2, <1>3, <3>1 DEF Delivered
  <2>4. Once(hs)
    BY <1>2 DEF NoRepeats
  <2> QED  BY <1>1, <1>3, <2>1, <2>2, <2>3, <2>4 DEF Going
<1>6. PICK P, r, e : P \in SUBSET (DOMAIN hs) /\ Burst(t, hs, P, n, e, r)
  <2>1. CASE CallOn(t, hs, n)
    <3>1. n \in Nat \ {0} /\ Once(hs)
      BY <1>3, <1>5 DEF Going
    <3>2. PICK r, e : /\ rest' = [rest EXCEPT ![t] = r] /\ event' = [event EXCEPT ![t] = e]
                      /\ e \in {0, n} /\ Left(hs, Reached(hs), e, r)
      BY <1>3, <2>1, <3>1, BurstLeaves
    <3>3. Burst(t, hs, Reached(hs), n, e, r)
      BY <2>1, <3>2 DEF Burst, CallOn
    <3>4. Reached(hs) \in SUBSET (DOMAIN hs)
      BY <1>3, <1>4, ReachedProperties
    <3> QED  BY <3>3, <3>4
  <2>2. ASSUME NEW k \in 0..L, RaiseAfter(t, hs, k, n)
        PROVE  \E P, r, e : P \in SUBSET (DOMAIN hs) /\ Burst(t, hs, P, n, e, r)
    <3> DEFINE P == Reached(hs) \cap 1..k
    <3>1. Burst(t, hs, P, n, 0, << >>)
      BY <2>2 DEF Burst, RaiseAfter
    <3>2. P \in SUBSET (DOMAIN hs)
      BY <1>3, <1>4, ReachedProperties
    <3> QED  BY <3>1, <3>2
  <2> QED  BY <1>1, <1>4, <2>1, <2>2
<1>7. /\ \A u \in Tasks : Once(rest'[u])
      /\ \A h \in Handlers : Once(seen'[h]) /\ Range(seen'[h]) \subseteq 1..seq'
      /\ Suspended' /\ Delivered'
  <2> HIDE DEF hs, n
  <2> QED  BY <1>2, <1>5, <1>6, BurstDelivers
<1>8. Counted'
  <2>1. \A i \in 1..L : hs[i] # Archive
    BY <1>4 DEF ArchiveDone
  <2>2. TakeIn(hs, P, n) /\ P \in SUBSET (1..L)
    BY <1>4, <1>6 DEF Burst
  <2>3. seen'[Archive] = seen[Archive]
    BY <1>3, <1>4, <2>1, <2>2, TakeInEffect
  <2> QED  BY <1>1, <1>2, <2>3 DEF Counted
<1>9. Once(subscribers')
  BY <1>1, <1>2 DEF NoRepeats
<1> QED  BY <1>7, <1>8, <1>9 DEF Deliveries, NoRepeats

\* A list that repeats nothing repeats nothing either when it loses an element.
LEMMA OnceRemoved ==
  ASSUME NEW S, NEW s \in Seq(S), Once(s), NEW i \in 1..Len(s)
  PROVE  Once(RemoveAt(s, i))
<1>0. PICK L \in Nat : L = Len(s) /\ DOMAIN s = 1..L
  BY LenProperties
<1> DEFINE c == RemoveAt(s, i)
<1>1. /\ c \in Seq(S) /\ Len(c) = L - 1
      /\ \A j \in 1..(L - 1) : c[j] = IF j < i THEN s[j] ELSE s[j + 1]
  BY <1>0, RemoveAtProperties
<1> HIDE DEF c
<1>2. DOMAIN c = 1..(L - 1)
  BY <1>1, LenProperties
<1>3. ASSUME NEW j \in 1..(L - 1), NEW k \in 1..(L - 1), c[j] = c[k] PROVE j = k
  <2>1. \A m \in 1..(L - 1) : m \in DOMAIN s /\ m + 1 \in DOMAIN s /\ m \in Int
    BY <1>0
  <2>2. CASE j < i /\ k < i
    BY <1>1, <1>3, <2>1, <2>2 DEF Once
  <2>3. CASE j < i /\ ~(k < i)
    <3>1. s[j] = s[k + 1]
      BY <1>1, <1>3, <2>3
    <3>2. j = k + 1
      BY <2>1, <3>1 DEF Once
    <3> QED  BY <1>0, <2>1, <2>3, <3>2
  <2>4. CASE ~(j < i) /\ k < i
    <3>1. s[j + 1] = s[k]
      BY <1>1, <1>3, <2>4
    <3>2. j + 1 = k
      BY <2>1, <3>1 DEF Once
    <3> QED  BY <1>0, <2>1, <2>4, <3>2
  <2>5. CASE ~(j < i) /\ ~(k < i)
    <3>1. s[j + 1] = s[k + 1]
      BY <1>1, <1>3, <2>5
    <3>2. j + 1 = k + 1
      BY <2>1, <3>1 DEF Once
    <3> QED  BY <2>1, <3>2
  <2> QED  BY <2>2, <2>3, <2>4, <2>5
<1> QED  BY <1>2, <1>3 DEF Once, c

\* Nothing has been published in a session not yet opened.
LEMMA InitDelivers == Init => Deliveries
<1> SUFFICES ASSUME Init PROVE Deliveries
  OBVIOUS
<1> USE DEF Init
<1>1. /\ subscribers = << >> /\ seq = 0 /\ written = 0 /\ dropped = {}
      /\ \A t \in Tasks : event[t] = 0 /\ rest[t] = << >>
      /\ \A h \in Handlers : seen[h] = << >>
      /\ Archive \in Handlers
  BY DEF Handlers
<1>2. Once(<< >>) /\ Range(<< >>) = {}
  BY EmptySeq DEF Once, Range
<1>3. NoRepeats
  BY <1>1, <1>2 DEF NoRepeats
<1>4. Suspended
  BY <1>1 DEF Suspended
<1>5. Delivered
  BY <1>1 DEF Delivered
<1>6. Counted
  BY <1>1, EmptySeq DEF Counted
<1> QED  BY <1>3, <1>4, <1>5, <1>6 DEF Deliveries

\* Every step keeps what is said of the deliveries.
LEMMA NextDelivers == IInv /\ Deliveries /\ [Next]_vars => Deliveries'
<1> SUFFICES ASSUME IInv, Deliveries, [Next]_vars PROVE Deliveries'
  OBVIOUS
<1>0. /\ TypeOK /\ ArchiveFirst /\ ArchiveDone /\ RunsWhenRecording
      /\ Once(subscribers) /\ subscribers \in Seq(Handlers)
  BY DEF IInv, Deliveries, NoRepeats, TypeOK
<1>1. ASSUME Once(subscribers'), UNCHANGED <<seq, written, event, rest, seen, audience, dropped>>
      PROVE  Deliveries'
  BY <1>1 DEF Deliveries, NoRepeats, Suspended, Delivered, Due, Counted
<1>2. ASSUME NEW m \in Monitors, Subscribe(m) PROVE Deliveries'
  <2>1. Once(Append(subscribers, m))
    <3>1. m \notin Range(subscribers) /\ m \in Handlers
      BY <1>2 DEF Subscribe, Handlers
    <3> QED  BY <1>0, <3>1, OnceAppend
  <2> QED  BY <1>1, <1>2, <2>1 DEF Subscribe
<1>3. ASSUME NEW m \in Monitors, Unsubscribe(m) PROVE Deliveries'
  <2>1. PICK i \in 1..Len(subscribers) : subscribers' = RemoveAt(subscribers, i)
    BY <1>3 DEF Unsubscribe
  <2>2. Once(RemoveAt(subscribers, i))
    BY <1>0, OnceRemoved
  <2> QED  BY <1>1, <1>3, <2>1, <2>2 DEF Unsubscribe
<1>4. ASSUME Close PROVE Deliveries'
  BY <1>0, <1>1, <1>4 DEF Close
<1>5. ASSUME NEW t \in Tasks, Ingest(t) PROVE Deliveries'
  <2>1. HeadedByArchive(subscribers)
    BY <1>0, <1>5 DEF Ingest, HeadedByArchive, ArchiveFirst
  <2>2. Once(subscribers')
    BY <1>0, <1>5 DEF Ingest
  <2> QED  BY <1>0, <1>5, <2>1, <2>2, PublishDelivers DEF Ingest
<1>6. ASSUME NEW t \in Tasks, Resume(t) PROVE Deliveries'
  BY <1>0, <1>6, ResumeDelivers
<1>7. ASSUME NEW t \in Tasks, Start(t) PROVE Deliveries'
  <2> DEFINE hs == Append(subscribers, Archive)
  <2>1. state = "CREATING"
    BY <1>0, <1>7 DEF Start, TypeOK, CanTransition, Allowed, ArchiveState
  <2>2. subscribers = << >> /\ seq = 0 /\ Archive \in Handlers
    BY <1>0, <2>1 DEF RunsWhenRecording, Handlers
  <2>3. HeadedByArchive(hs)
    BY <2>2 DEF HeadedByArchive
  <2>4. Once(hs)
    <3>1. Archive \notin Range(subscribers)
      BY <2>2, EmptySeq DEF Range
    <3> QED  BY <1>0, <2>2, <3>1, OnceAppend
  <2>5. /\ subscribers' = hs
        /\ Refused(t) \/ Published(t, hs) \/ PublishRaised(t, hs)
    BY <1>7 DEF Start
  <2>6. seq < MaxSeq /\ event[t] = 0
    BY <2>2, PipelineAssumption DEF Deliveries, Suspended
  <2> HIDE DEF hs
  <2> QED  BY <1>0, <2>3, <2>4, <2>5, <2>6, PublishDelivers
<1>8. ASSUME NEW t \in Tasks, Stop(t) PROVE Deliveries'
  <2>1. HeadedByArchive(subscribers)
    BY <1>0, <1>8 DEF Stop, PipelineStop, HeadedByArchive, ArchiveFirst
  <2>2. Once(subscribers')
    BY <1>8, EmptySeq DEF Stop, PipelineStop, Once
  <2> QED  BY <1>0, <1>8, <2>1, <2>2, PublishDelivers DEF Stop, PipelineStop
<1>9. CASE UNCHANGED vars
  BY <1>0, <1>1, <1>9 DEF vars
<1> QED  BY <1>2, <1>3, <1>4, <1>5, <1>6, <1>7, <1>8, <1>9 DEF Next

\* It holds in every state of the pipeline.
LEMMA DeliveriesInvariance == Spec => []Deliveries
<1>1. Init => Deliveries
  BY InitDelivers
<1>2. IInv /\ Deliveries /\ [Next]_vars => Deliveries'
  BY NextDelivers
<1> QED  BY <1>1, <1>2, Invariance, PTL DEF Spec

\* It says of each event who took it in, and how often.
LEMMA DeliveredOnce == IInv /\ Deliveries => WholeAudience
<1> SUFFICES ASSUME IInv, Deliveries, NEW n \in (1..seq) \ dropped,
                    \A t \in Tasks : event[t] # n, NEW h \in Handlers
             PROVE  Cardinality({i \in 1..Len(seen[h]) : seen[h][i] = n})
                       = IF h \in audience[n] THEN 1 ELSE 0
  BY DEF WholeAudience
<1> DEFINE K == {i \in 1..Len(seen[h]) : seen[h][i] = n}
<1>1. Once(seen[h]) /\ DOMAIN seen[h] = 1..Len(seen[h])
  BY LenProperties DEF IInv, TypeOK, Deliveries, NoRepeats
<1>2. n \in Range(seen[h]) <=> h \in audience[n]
  BY DEF Deliveries, Delivered, Due
<1>3. CASE h \in audience[n]
  <2>1. PICK i \in 1..Len(seen[h]) : seen[h][i] = n
    BY <1>1, <1>2, <1>3 DEF Range
  <2>2. K = {i}
    BY <1>1, <2>1 DEF Once
  <2> QED  BY <1>3, <2>2, FS_Singleton
<1>4. CASE h \notin audience[n]
  <2>1. K = {}
    BY <1>1, <1>2, <1>4 DEF Range
  <2> QED  BY <1>4, <2>1, FS_EmptySet
<1> QED  BY <1>3, <1>4

\* It bounds what the archive misses.
LEMMA MissedAreCounted == IInv /\ Deliveries => LossIsCounted
<1> SUFFICES ASSUME IInv, Deliveries
             PROVE  Cardinality((1..seq) \ Archived) <= seq - written
  BY DEF LossIsCounted
<1>1. seen[Archive] \in Seq(1..MaxSeq) /\ seq \in Nat /\ written \in Nat /\ Archive \in Handlers
  BY PipelineAssumption DEF IInv, TypeOK, Handlers
<1>2. Once(seen[Archive]) /\ Archived \subseteq 1..seq /\ written <= Len(seen[Archive])
  BY <1>1 DEF Deliveries, NoRepeats, Counted, Archived
<1>3. IsFiniteSet(Archived) /\ Cardinality(Archived) = Len(seen[Archive])
  BY <1>1, <1>2, RangeOfOnce DEF Archived
<1>4. IsFiniteSet(1..seq) /\ Cardinality(1..seq) = seq
  <2>1. 1 \in Int /\ seq \in Int
    BY <1>1
  <2>2. /\ IsFiniteSet(1..seq)
        /\ Cardinality(1..seq) = IF 1 > seq THEN 0 ELSE seq - 1 + 1
    BY <2>1, FS_Interval
  <2> QED  BY <1>1, <2>2
<1>5. Cardinality((1..seq) \ Archived)
        = Cardinality(1..seq) - Cardinality((1..seq) \cap Archived)
  BY <1>4, FS_Difference
<1>6. (1..seq) \cap Archived = Archived
  BY <1>2
<1>7. PICK L \in Nat : L = Len(seen[Archive])
  BY <1>1, LenProperties
<1>8. Cardinality((1..seq) \ Archived) = seq - L
  BY <1>3, <1>4, <1>5, <1>6, <1>7, Zenon
<1>9. written <= L
  BY <1>2, <1>7, Zenon
<1> QED  BY <1>1, <1>8, <1>9

------------------------------------------------------------------------------
(* Theorems *)

\* Every variable keeps its type: ingest, publish, the runner's start and stop.
THEOREM TypeCorrectness == Spec => []TypeOK
<1>1. IInv => TypeOK
  BY DEF IInv
<1> QED  BY <1>1, Invariance, PTL

\* For any number of tasks and monitors, whichever of them suspend, the
\* archive holds events in the order EvidencePipeline.ingest numbered them.
THEOREM ArchiveOrder == Spec => []ArchiveInOrder
<1>1. IInv => ArchiveInOrder
  BY DEF IInv
<1> QED  BY <1>1, Invariance, PTL

\* Every number ingest gave out is in the archive or its ingest raised.
THEOREM NoLoss == Spec => []NoSilentLoss
<1>1. IInv => NoSilentLoss
  BY DEF IInv
<1> QED  BY <1>1, Invariance, PTL

\* recorder.stopped is the last event of a session that left RECORDING.
THEOREM StoppedLast == Spec => []StoppedIsLast
<1>1. IInv => StoppedIsLast
  BY DEF IInv
<1> QED  BY <1>1, Invariance, PTL

\* For any number of tasks and monitors, whichever of them suspend and however
\* they come and go: an event whose publish ended was taken in once by each
\* handler of the snapshot EventBus.publish took, and by no other.
THEOREM WholeSnapshot == Spec => []WholeAudience
<1>1. IInv /\ Deliveries => WholeAudience
  BY DeliveredOnce
<1> QED  BY <1>1, Invariance, DeliveriesInvariance, PTL

\* messages_received - messages_written is never less than what is missing.
THEOREM LossCounted == Spec => []LossIsCounted
<1>1. IInv /\ Deliveries => LossIsCounted
  BY MissedAreCounted
<1> QED  BY <1>1, Invariance, DeliveriesInvariance, PTL

\* A step of the pipeline is a Record of the evidence log or leaves it alone.
LEMMA StepOfTheLog ==
  IInv /\ [Next]_vars
    => [Log!Record]_<<seen[Archive], state \in {"FINALIZING", "COMPLETE"}>>
<1> DEFINE log == seen[Archive]
           sealed == state \in {"FINALIZING", "COMPLETE"}
<1> SUFFICES ASSUME IInv, [Next]_vars,
                    ~ (log' = log /\ sealed' = sealed)
             PROVE  Log!Record
  BY DEF Log!Record
<1> USE PipelineAssumption
<1>0. /\ TypeOK /\ ArchiveFirst /\ ArchiveDone /\ RunsWhenRecording
      /\ ArchivedWereNumbered /\ written <= seq
      /\ log \in Seq(1..MaxSeq) /\ seq \in Nat
  BY DEF IInv, TypeOK, Handlers
<1>1. ASSUME log' = Append(log, seq + 1), ~sealed PROVE Log!Record
  <2>1. /\ Len(log) \in Nat /\ Len(log') = Len(log) + 1
        /\ log'[Len(log) + 1] = seq + 1
    BY <1>0, <1>1
  <2>2. \A i \in 1..Len(log) : log[i] < seq + 1
    BY <1>0 DEF ArchivedWereNumbered
  <2>3. sealed' \in BOOLEAN
    OBVIOUS
  <2> QED  BY <1>1, <2>1, <2>2, <2>3 DEF Log!Record
<1>2. ASSUME NEW t \in Tasks, NEW hs, HeadedByArchive(hs), seq < MaxSeq,
             Refused(t) \/ Published(t, hs) \/ PublishRaised(t, hs),
             ~sealed, sealed' = sealed \/ Published(t, hs)
      PROVE  Log!Record
  <2>1. /\ log' = log \/ log' = Append(log, seq + 1)
        /\ Published(t, hs) => log' = Append(log, seq + 1)
    BY <1>0, <1>2, Publishing
  <2> QED  BY <1>1, <1>2, <2>1
<1>3. ASSUME NEW m \in Monitors, Subscribe(m) \/ Unsubscribe(m) PROVE FALSE
  BY <1>3 DEF Subscribe, Unsubscribe
<1>4. ASSUME Close PROVE FALSE
  BY <1>4 DEF Close
<1>5. ASSUME NEW t \in Tasks, Ingest(t) PROVE Log!Record
  <2>1. HeadedByArchive(subscribers)
    BY <1>0, <1>5 DEF Ingest, HeadedByArchive, ArchiveFirst, TypeOK
  <2>2. ~sealed /\ sealed' = sealed
    BY <1>0, <1>5 DEF Ingest, RunsWhenRecording
  <2> QED  BY <1>2, <1>5, <2>1, <2>2 DEF Ingest
<1>6. ASSUME NEW t \in Tasks, Resume(t) PROVE FALSE
  <2> DEFINE hs == rest[t]
             n == event[t]
  <2>1. /\ hs \in Seq(Handlers) /\ n \in 1..MaxSeq
        /\ Reached(hs) \subseteq 1..Len(hs)
        /\ \A i \in 1..Len(hs) : hs[i] # Archive
    <3>1. hs \in Seq(Handlers) /\ n \in 1..MaxSeq
      BY <1>0, <1>6 DEF Resume, TypeOK
    <3> QED  BY <1>0, <3>1, ReachedProperties DEF ArchiveDone
  <2>2. PICK P \in SUBSET Reached(hs) : TakeIn(hs, P, n)
    BY <1>6 DEF Resume, CallOn, RaiseAfter
  <2>3. log' = log
    BY <1>0, <2>1, <2>2, TakeInEffect
  <2> QED  BY <1>6, <2>3 DEF Resume
<1>7. ASSUME NEW t \in Tasks, Start(t) PROVE Log!Record
  <2> DEFINE hs == Append(subscribers, Archive)
  <2>1. state = "CREATING"
    BY <1>0, <1>7 DEF Start, TypeOK, CanTransition, Allowed, ArchiveState
  <2>2. subscribers = << >> /\ seq = 0 /\ Archive \in Handlers
    BY <1>0, <2>1 DEF RunsWhenRecording, Handlers
  <2>3. HeadedByArchive(hs) /\ seq < MaxSeq
    BY <2>2 DEF HeadedByArchive
  <2>4. ~sealed /\ sealed' = sealed
    BY <1>7, <2>1 DEF Start
  <2>5. Refused(t) \/ Published(t, hs) \/ PublishRaised(t, hs)
    BY <1>7 DEF Start
  <2> HIDE DEF hs
  <2> QED  BY <1>2, <2>3, <2>4, <2>5
<1>8. ASSUME NEW t \in Tasks, Stop(t) PROVE Log!Record
  <2>1. HeadedByArchive(subscribers)
    BY <1>0, <1>8 DEF Stop, PipelineStop, HeadedByArchive, ArchiveFirst, TypeOK
  <2>2. ~sealed /\ seq < MaxSeq /\ Published(t, subscribers)
    BY <1>0, <1>8 DEF Stop, PipelineStop, RunsWhenRecording
  <2> QED  BY <1>2, <2>1, <2>2
<1>9. CASE UNCHANGED vars
  BY <1>9 DEF vars
<1> QED  BY <1>3, <1>4, <1>5, <1>6, <1>7, <1>8, <1>9 DEF Next

\* The pipeline implements the evidence log: what is archived grows in order
\* and does not change once the session has left RECORDING.
THEOREM ImplementsLog == Spec => ArchiveIsALog
<1>1. Init => Log!LogInit
  BY DEF Init, Log!LogInit, Handlers
<1>2. IInv /\ [Next]_vars
        => [Log!Record]_<<seen[Archive], state \in {"FINALIZING", "COMPLETE"}>>
  BY StepOfTheLog
<1> QED  BY <1>1, <1>2, Invariance, PTL DEF Spec, ArchiveIsALog, Log!LogSpec
==============================================================================
