--------------------------- MODULE JsonlSinkProofs ---------------------------
(***************************************************************************)
(* Proofs about JsonlSink, for any finite set of partitions, any           *)
(* flush_every and any number of events.                                   *)
(***************************************************************************)
EXTENDS JsonlSink, DataLemmas, SequenceTheorems

------------------------------------------------------------------------------
(* The invariant *)

\* The lines of each partition, in its file or on the way there.
AllLines == [k \in Partitions |-> disk[k] \o buffer[k]]

\* The events with a line in a file.
OnDisk == UNION {Range(disk[k]) : k \in Partitions}

\* The sequences and numbers are such; nothing counts more than was written.
Shape ==
    /\ disk \in [Partitions -> Seq(0..MaxSeq)]
    /\ buffer \in [Partitions -> Seq(0..MaxSeq)]
    /\ unflushed <= seq
    /\ \A k \in Partitions : counts[k] <= seq

\* The lines L of the partitions: no event has two, and none is missing that
\* the counts do not miss; they miss none as long as no buffer was lost.
Ledger(L) ==
    /\ L \in [Partitions -> Seq(1..seq)]
    /\ \A j, k \in Partitions : \A i \in 1..Len(L[j]), m \in 1..Len(L[k]) :
          L[j][i] = L[k][m] => j = k /\ i = m
    /\ \A k \in Partitions : /\ Len(L[k]) <= counts[k]
                             /\ spoiled \in {"no", "write"} => Len(L[k]) = counts[k]
    /\ \A n \in acked :
          \/ \E k \in Partitions : \E i \in 1..Len(L[k]) : L[k][i] = n
          \/ \E k \in Partitions : Len(L[k]) < counts[k]

\* Until the manifest describes the files.
Writing == phase \in {"new", "opening", "recording", "closing", "manifest"}

Open ==
    /\ Writing => Ledger(AllLines)
    /\ Writing => files \ handles \subseteq ended
    /\ Writing => \A k \in Partitions : counts[k] # 0 => k \in files
    /\ phase \in {"new", "opening", "recording"} => files = handles
    /\ phase \in {"manifest", "session", "final", "dead"} => handles = {}
    /\ \A k \in Partitions : buffer[k] # << >> => k \in handles

\* Where the session is determines what its metadata can be.
Metadata ==
    /\ phase = "new" => manifest = NoFile
    /\ phase = "opening" => manifest \in {NoFile, Torn}
    /\ phase \in {"recording", "closing"} => manifest = OpenManifest
    /\ phase = "manifest" => manifest = Torn
    /\ phase \in {"session", "final"} => manifest.state = "COMPLETE"
    /\ session = "none" => phase \in {"new", "dead"} /\ manifest.state = "none"

\* The partitions that the manifest describes, and their lines.
Keys == {e.key : e \in manifest.parts}

Described == [k \in Partitions |->
                 IF k \in Keys THEN (CHOOSE e \in manifest.parts : e.key = k).sum ELSE << >>]

DescribedEntry(k) == [key |-> k, count |-> counts[k], sum |-> Described[k]]

\* A complete manifest describes what was written; damage is what the files can
\* differ by.
Sealed ==
    manifest.state = "COMPLETE" =>
       /\ phase \in {"session", "final", "dead"}
       /\ manifest = Manifest("COMPLETE", SumFunctionOnSet(counts, Partitions),
                              {DescribedEntry(k) : k \in Keys})
       /\ files \subseteq Keys /\ Keys \subseteq Partitions
       /\ Ledger(Described)
       /\ \A k \in Partitions : counts[k] # 0 => k \in Keys
       /\ spoiled \in {"no", "write"} =>
             files = Keys /\ \A k \in Keys : k \in ended /\ disk[k] = Described[k]

\* Unless a write failed, all events but the last unflushed ones are in the files.
Window ==
    spoiled = "no" =>
       /\ \A n \in acked : n <= seq - unflushed => n \in OnDisk
       /\ FlushEvery > 0 => unflushed < FlushEvery

IInv == /\ TypeOK
        /\ Shape
        /\ Open
        /\ Metadata
        /\ Sealed
        /\ Window

------------------------------------------------------------------------------
(* Lines move from the buffers to the files *)

Line == 0..MaxSeq

\* The types of what holds numbers and lines.
LEMMA Types ==
  ASSUME TypeOK, Shape
  PROVE  /\ seq \in Nat /\ seq <= MaxSeq /\ unflushed \in Nat /\ unflushed <= seq
         /\ MaxSeq \in Nat /\ FlushEvery \in Nat
         /\ counts \in [Partitions -> Nat] /\ \A k \in Partitions : counts[k] <= seq
         /\ disk \in [Partitions -> Seq(Line)] /\ buffer \in [Partitions -> Seq(Line)]
         /\ handles \subseteq files /\ files \subseteq Partitions
         /\ headed \subseteq Partitions /\ ended \subseteq headed
         /\ acked \subseteq 1..seq
BY SinkAssumption DEF TypeOK, Shape, Line

\* What is needed of concatenation.
LEMMA Pieces ==
  ASSUME NEW S, NEW d \in Seq(S), NEW f \in Seq(S), NEW r \in Seq(S)
  PROVE  /\ d \o f \in Seq(S) /\ d \o << >> = d
         /\ (d \o f) \o r = d \o (f \o r)
         /\ Range(d \o f) = Range(d) \cup Range(f)
         /\ f \o r = << >> => f = << >> /\ r = << >>
<1>1. d \o f \in Seq(S) /\ d \o << >> = d
  BY ConcatProperties, ConcatEmptySeq
<1>2. (d \o f) \o r = d \o (f \o r)
  BY ConcatAssociative
<1>3. Range(d \o f) = Range(d) \cup Range(f)
  BY RangeConcatenation
<1>4. f \o r = << >> => f = << >> /\ r = << >>
  BY ConcatEqualIffEmpty
<1> QED  BY <1>1, <1>2, <1>3, <1>4

\* A sequence of elements of T.
LEMMA Retyped ==
  ASSUME NEW S, NEW T, NEW s \in Seq(S), \A i \in 1..Len(s) : s[i] \in T
  PROVE  s \in Seq(T)
<1>1. Len(s) \in Nat /\ s = [i \in 1..Len(s) |-> s[i]]
  BY LenProperties
<1>2. s \in [1..Len(s) -> T]
  BY <1>1
<1> QED  BY <1>1, <1>2, SeqDef

\* A flush, or a write without one: the lines of k have one more, the others
\* are what they were, and what was in a file still is.
LEMMA FlushedLines ==
  ASSUME disk \in [Partitions -> Seq(Line)], buffer \in [Partitions -> Seq(Line)],
         NEW k \in Partitions, NEW n \in Line, NEW H, Flushed(H, k, n)
  PROVE  /\ disk' \in [Partitions -> Seq(Line)] /\ buffer' \in [Partitions -> Seq(Line)]
         /\ AllLines' = [AllLines EXCEPT ![k] = Append(@, n)]
         /\ \A j \in Partitions : /\ Range(disk[j]) \subseteq Range(disk'[j])
                                  /\ j \in H => buffer'[j] = << >>
                                  /\ j \notin H /\ j # k => buffer'[j] = buffer[j]
<1> DEFINE new(j) == IF j = k THEN <<n>> ELSE << >>
<1>1. ASSUME NEW j \in Partitions
      PROVE  /\ disk'[j] \in Seq(Line) /\ buffer'[j] \in Seq(Line)
             /\ disk'[j] \o buffer'[j] = IF j = k THEN Append(disk[j] \o buffer[j], n)
                                         ELSE disk[j] \o buffer[j]
             /\ Range(disk[j]) \subseteq Range(disk'[j])
             /\ j \in H => buffer'[j] = << >>
             /\ j \notin H /\ j # k => buffer'[j] = buffer[j]
  <2>1. /\ disk[j] \in Seq(Line) /\ buffer[j] \in Seq(Line) /\ << >> \in Seq(Line)
        /\ <<n>> \in Seq(Line) /\ new(j) \in Seq(Line)
    OBVIOUS
  <2>2. disk[j] \o buffer[j] \in Seq(Line)
    BY <2>1, ConcatProperties
  <2>3. Append(disk[j] \o buffer[j], n) = (disk[j] \o buffer[j]) \o <<n>>
    BY <2>2, AppendIsConcat
  <2>4. CASE j \in H
    <3>1. disk'[j] = (disk[j] \o buffer[j]) \o new(j) /\ buffer'[j] = << >>
      BY <2>4 DEF Flushed
    <3>2. disk'[j] \in Seq(Line) /\ disk'[j] \o << >> = disk'[j]
      BY <2>1, <2>2, <3>1, ConcatProperties, ConcatEmptySeq
    <3>3. Range(disk'[j]) = (Range(disk[j]) \cup Range(buffer[j])) \cup Range(new(j))
      <4>1. Range(disk[j] \o buffer[j]) = Range(disk[j]) \cup Range(buffer[j])
        BY <2>1, RangeConcatenation
      <4>2. Range((disk[j] \o buffer[j]) \o new(j))
              = Range(disk[j] \o buffer[j]) \cup Range(new(j))
        <5> DEFINE s == disk[j] \o buffer[j]
                   t == new(j)
        <5>1. s \in Seq(Line) /\ t \in Seq(Line)
          BY <2>1, <2>2
        <5> HIDE DEF s, t
        <5>2. Range(s \o t) = Range(s) \cup Range(t)
          BY <5>1, RangeConcatenation
        <5> QED  BY <5>2 DEF s, t
      <4> QED  BY <3>1, <4>1, <4>2
    <3>4. (disk[j] \o buffer[j]) \o << >> = disk[j] \o buffer[j]
      BY <2>2, ConcatEmptySeq
    <3> QED  BY <2>1, <2>3, <2>4, <3>1, <3>2, <3>3, <3>4
  <2>5. CASE j \notin H
    <3>1. disk'[j] = disk[j]
          /\ buffer'[j] = IF j = k THEN Append(buffer[j], n) ELSE buffer[j]
      BY <2>5 DEF Flushed
    <3>2. Append(buffer[j], n) = buffer[j] \o <<n>> /\ Append(buffer[j], n) \in Seq(Line)
      BY <2>1, AppendIsConcat, AppendProperties
    <3>3. disk[j] \o (buffer[j] \o <<n>>) = (disk[j] \o buffer[j]) \o <<n>>
      BY <2>1, ConcatAssociative
    <3> QED  BY <2>1, <2>3, <2>5, <3>1, <3>2, <3>3
  <2> QED  BY <2>4, <2>5
<1>2. /\ disk' = [j \in Partitions |-> disk'[j]]
      /\ buffer' = [j \in Partitions |-> buffer'[j]]
  BY DEF Flushed
<1>3. disk' \in [Partitions -> Seq(Line)] /\ buffer' \in [Partitions -> Seq(Line)]
  BY <1>1, <1>2
<1>4. AllLines' = [AllLines EXCEPT ![k] = Append(@, n)]
  BY <1>1 DEF AllLines
<1> QED  BY <1>1, <1>3, <1>4

\* What moves to the files leaves all lines what they were.
Moved ==
    /\ disk' \in [Partitions -> Seq(Line)] /\ buffer' \in [Partitions -> Seq(Line)]
    /\ AllLines' = AllLines
    /\ \A j \in Partitions : /\ Range(disk[j]) \subseteq Range(disk'[j])
                             /\ buffer[j] = << >> => disk'[j] = disk[j] /\ buffer'[j] = << >>

\* It is so if each file gains a front part of its buffer.
LEMMA MovedLines ==
  ASSUME disk \in [Partitions -> Seq(Line)], buffer \in [Partitions -> Seq(Line)],
         NEW front, NEW rest,
         disk' = [j \in Partitions |-> disk[j] \o front[j]],
         buffer' = [j \in Partitions |-> rest[j]],
         \A j \in Partitions : /\ front[j] \in Seq(Line) /\ rest[j] \in Seq(Line)
                               /\ front[j] \o rest[j] = buffer[j]
  PROVE  Moved
<1>1. ASSUME NEW j \in Partitions
      PROVE  /\ disk'[j] \in Seq(Line) /\ buffer'[j] \in Seq(Line)
             /\ disk'[j] \o buffer'[j] = disk[j] \o buffer[j]
             /\ Range(disk[j]) \subseteq Range(disk'[j])
             /\ buffer[j] = << >> => disk'[j] = disk[j] /\ buffer'[j] = << >>
  <2>1. /\ disk[j] \in Seq(Line) /\ front[j] \in Seq(Line) /\ rest[j] \in Seq(Line)
        /\ disk'[j] = disk[j] \o front[j] /\ buffer'[j] = rest[j]
    OBVIOUS
  <2>2. disk'[j] \in Seq(Line) /\ Range(disk'[j]) = Range(disk[j]) \cup Range(front[j])
    BY <2>1, Pieces
  <2>3. disk'[j] \o buffer'[j] = disk[j] \o (front[j] \o rest[j])
    <3>1. (disk[j] \o front[j]) \o rest[j] = disk[j] \o (front[j] \o rest[j])
      <4> DEFINE d == disk[j]
                 f == front[j]
                 r == rest[j]
      <4>1. d \in Seq(Line) /\ f \in Seq(Line) /\ r \in Seq(Line)
        BY <2>1
      <4> HIDE DEF d, f, r
      <4>2. (d \o f) \o r = d \o (f \o r)
        BY <4>1, ConcatAssociative
      <4> QED  BY <4>2 DEF d, f, r
    <3> QED  BY <2>1, <3>1
  <2>4. ASSUME buffer[j] = << >> PROVE disk'[j] = disk[j] /\ buffer'[j] = << >>
    <3>1. front[j] = << >> /\ rest[j] = << >>
      <4>1. front[j] \o rest[j] = << >> => front[j] = << >> /\ rest[j] = << >>
        BY <2>1, Pieces
      <4> QED  BY <2>4, <4>1
    <3>2. disk[j] \o << >> = disk[j]
      BY <2>1, ConcatEmptySeq
    <3> QED  BY <2>1, <3>1, <3>2
  <2> QED  BY <2>1, <2>2, <2>3, <2>4
<1>2. disk' \in [Partitions -> Seq(Line)] /\ buffer' \in [Partitions -> Seq(Line)]
  BY <1>1
<1>3. AllLines' = AllLines
  BY <1>1 DEF AllLines
<1> QED  BY <1>1, <1>2, <1>3 DEF Moved

------------------------------------------------------------------------------
(* The ledger *)

\* What was spoiled so that lines are missing stays so.
SpoiledStays == spoiled' \in {"no", "write"} => spoiled \in {"no", "write"}

\* The same lines account for the same events.
LEMMA LedgerSame ==
  ASSUME NEW L, Ledger(L), seq \in Nat, seq' \in {seq, seq + 1}, SpoiledStays,
         UNCHANGED <<counts, acked>>
  PROVE  /\ L \in [Partitions -> Seq(1..seq')]
         /\ \A j, k \in Partitions : \A i \in 1..Len(L[j]), m \in 1..Len(L[k]) :
               L[j][i] = L[k][m] => j = k /\ i = m
         /\ \A k \in Partitions : /\ Len(L[k]) <= counts'[k]
                                  /\ spoiled' \in {"no", "write"} => Len(L[k]) = counts'[k]
         /\ \A n \in acked' :
               \/ \E k \in Partitions : \E i \in 1..Len(L[k]) : L[k][i] = n
               \/ \E k \in Partitions : Len(L[k]) < counts'[k]
<1>1. L \in [Partitions -> Seq(1..seq')]
  <2>1. 1..seq \subseteq 1..seq'
    OBVIOUS
  <2>2. \A k \in Partitions : L[k] \in Seq(1..seq')
    BY <2>1, SeqMonotonic DEF Ledger
  <2> QED  BY <2>2 DEF Ledger
<1> QED  BY <1>1, Zenon DEF Ledger, SpoiledStays

\* M are the lines L, of which those of k have become t.
LinesOf(L, M, k, t) == M = [L EXCEPT ![k] = t]

\* An event that is written has a line, and is counted; its write may return.
LEMMA LedgerMore ==
  ASSUME NEW L, NEW M, Ledger(L), NEW k \in Partitions, LinesOf(L, M, k, Append(L[k], seq')),
         seq \in Nat, counts \in [Partitions -> Nat], seq' = seq + 1, SpoiledStays,
         counts' = [counts EXCEPT ![k] = @ + 1],
         acked' \subseteq acked \cup {seq'}
  PROVE  /\ M \in [Partitions -> Seq(1..seq')]
         /\ \A j, l \in Partitions : \A i \in 1..Len(M[j]), m \in 1..Len(M[l]) :
               M[j][i] = M[l][m] => j = l /\ i = m
         /\ \A l \in Partitions : /\ Len(M[l]) <= counts'[l]
                                  /\ spoiled' \in {"no", "write"} => Len(M[l]) = counts'[l]
         /\ \A n \in acked' :
               \/ \E l \in Partitions : \E i \in 1..Len(M[l]) : M[l][i] = n
               \/ \E l \in Partitions : Len(M[l]) < counts'[l]
<1> DEFINE x == seq'
<1> USE DEF LinesOf
<1>1. \A j \in Partitions : /\ L[j] \in Seq(1..seq) /\ Len(L[j]) \in Nat
                            /\ \A i \in 1..Len(L[j]) : L[j][i] \in 1..seq
  BY LenProperties, ElementOfSeq DEF Ledger
<1>2. x \in Nat /\ x = seq + 1 /\ 1..seq \subseteq 1..x /\ x \in 1..x /\ x \notin 1..seq
  OBVIOUS
<1>3. \A j \in Partitions : L[j] \in Seq(1..x)
  BY <1>1, <1>2, SeqMonotonic
<1>4. /\ Append(L[k], x) \in Seq(1..x)
      /\ Len(Append(L[k], x)) = Len(L[k]) + 1
      /\ \A i \in 1..Len(L[k]) : Append(L[k], x)[i] = L[k][i]
      /\ Append(L[k], x)[Len(L[k]) + 1] = x
  BY <1>2, <1>3, AppendProperties
<1>5. /\ M \in [Partitions -> Seq(1..x)]
      /\ M[k] = Append(L[k], x)
      /\ \A j \in Partitions \ {k} : M[j] = L[j]
  BY <1>3, <1>4 DEF Ledger
<1> HIDE DEF x
<1>6. \A j \in Partitions : \A i \in 1..Len(M[j]) :
         IF j = k /\ i = Len(L[k]) + 1 THEN M[j][i] = x
         ELSE M[j][i] = L[j][i] /\ M[j][i] \in 1..seq /\ i \in 1..Len(L[j])
  <2>1. ASSUME NEW j \in Partitions \ {k}, NEW i \in 1..Len(M[j])
        PROVE  M[j][i] = L[j][i] /\ M[j][i] \in 1..seq /\ i \in 1..Len(L[j])
    BY <1>1, <1>5
  <2>2. ASSUME NEW i \in 1..Len(M[k])
        PROVE  IF i = Len(L[k]) + 1 THEN M[k][i] = x
               ELSE M[k][i] = L[k][i] /\ M[k][i] \in 1..seq /\ i \in 1..Len(L[k])
    BY <1>1, <1>4, <1>5
  <2> QED  BY <2>1, <2>2
<1>7. ASSUME NEW j \in Partitions, NEW l \in Partitions,
             NEW i \in 1..Len(M[j]), NEW m \in 1..Len(M[l]), M[j][i] = M[l][m]
      PROVE  j = l /\ i = m
  BY <1>2, <1>6, <1>7 DEF Ledger
<1>8. ASSUME NEW l \in Partitions
      PROVE  /\ Len(M[l]) <= counts'[l]
             /\ spoiled' \in {"no", "write"} => Len(M[l]) = counts'[l]
             /\ Len(L[l]) < counts[l] => Len(M[l]) < counts'[l]
  <2>1. counts'[l] = IF l = k THEN counts[l] + 1 ELSE counts[l]
    OBVIOUS
  <2>2. Len(M[l]) = IF l = k THEN Len(L[l]) + 1 ELSE Len(L[l])
    BY <1>4, <1>5
  <2>3. /\ Len(L[l]) <= counts[l]
        /\ spoiled' \in {"no", "write"} => Len(L[l]) = counts[l]
    BY DEF Ledger, SpoiledStays
  <2>4. Len(L[l]) \in Nat /\ counts[l] \in Nat
    BY <1>1
  <2> QED  BY <2>1, <2>2, <2>3, <2>4
<1>9. ASSUME NEW n \in acked'
      PROVE  \/ \E l \in Partitions : \E i \in 1..Len(M[l]) : M[l][i] = n
             \/ \E l \in Partitions : Len(M[l]) < counts'[l]
  <2>1. CASE n = x
    <3>1. Len(L[k]) + 1 \in 1..Len(M[k]) /\ M[k][Len(L[k]) + 1] = x
      BY <1>1, <1>4, <1>5
    <3> QED  BY <2>1, <3>1
  <2>2. CASE n \in acked
    <3>1. CASE \E l \in Partitions : \E i \in 1..Len(L[l]) : L[l][i] = n
      <4>1. PICK l \in Partitions : \E i \in 1..Len(L[l]) : L[l][i] = n
        BY <3>1
      <4>2. PICK i \in 1..Len(L[l]) : L[l][i] = n
        BY <4>1
      <4>3. i \in 1..Len(M[l]) /\ M[l][i] = n
        BY <1>1, <1>4, <1>5, <4>2
      <4> QED  BY <4>3
    <3>2. CASE \E l \in Partitions : Len(L[l]) < counts[l]
      BY <1>8, <3>2
    <3> QED  BY <2>2, <3>1, <3>2 DEF Ledger
  <2> QED  BY <2>1, <2>2 DEF x
<1> QED  BY <1>5, <1>7, <1>8, <1>9 DEF x

\* Lines that are lost leave the front of a partition; its count misses them.
LEMMA LedgerLess ==
  ASSUME NEW L, NEW M, Ledger(L), NEW k \in Partitions,
         NEW S, NEW d \in Seq(S), NEW b \in Seq(S), L[k] = d \o b, LinesOf(L, M, k, d),
         seq \in Nat, counts \in [Partitions -> Nat],
         seq' = seq + 1, spoiled' = "lost", UNCHANGED <<counts, acked>>
  PROVE  /\ M \in [Partitions -> Seq(1..seq')]
         /\ \A j, l \in Partitions : \A i \in 1..Len(M[j]), m \in 1..Len(M[l]) :
               M[j][i] = M[l][m] => j = l /\ i = m
         /\ \A l \in Partitions : /\ Len(M[l]) <= counts'[l]
                                  /\ spoiled' \in {"no", "write"} => Len(M[l]) = counts'[l]
         /\ \A n \in acked' :
               \/ \E l \in Partitions : \E i \in 1..Len(M[l]) : M[l][i] = n
               \/ \E l \in Partitions : Len(M[l]) < counts'[l]
<1> USE DEF LinesOf
<1>1. \A j \in Partitions : L[j] \in Seq(1..seq) /\ Len(L[j]) \in Nat
  BY LenProperties DEF Ledger
<1>2. /\ Len(d) \in Nat /\ Len(b) \in Nat /\ Len(L[k]) = Len(d) + Len(b)
      /\ \A i \in 1..Len(d) : L[k][i] = d[i]
  BY ConcatProperties, LenProperties
<1>3. M[k] = d /\ DOMAIN M = Partitions /\ M = [j \in Partitions |-> M[j]]
      /\ \A j \in Partitions \ {k} : M[j] = L[j]
  BY DEF Ledger
<1>4. \A j \in Partitions : \A i \in 1..Len(M[j]) : i \in 1..Len(L[j]) /\ M[j][i] = L[j][i]
  BY <1>1, <1>2, <1>3
<1>5. M \in [Partitions -> Seq(1..seq')]
  <2>1. 1..seq \subseteq 1..seq'
    OBVIOUS
  <2>2. \A j \in Partitions : L[j] \in Seq(1..seq')
    BY <1>1, <2>1, SeqMonotonic
  <2>3. d \in Seq(1..seq')
    <3>1. \A i \in 1..Len(d) : d[i] \in 1..seq'
      <4>1. ASSUME NEW i \in 1..Len(d) PROVE d[i] \in 1..seq'
        <5>1. i \in 1..Len(L[k]) /\ L[k][i] = d[i]
          BY <1>2
        <5>2. L[k][i] \in 1..seq'
          BY <2>2, <5>1, ElementOfSeq
        <5> QED  BY <5>1, <5>2
      <4> QED  BY <4>1
    <3> QED  BY <3>1, Retyped
  <2> QED  BY <1>3, <2>2, <2>3
<1>6. ASSUME NEW j \in Partitions, NEW l \in Partitions,
             NEW i \in 1..Len(M[j]), NEW m \in 1..Len(M[l]), M[j][i] = M[l][m]
      PROVE  j = l /\ i = m
  BY <1>4, <1>6 DEF Ledger
<1>7. ASSUME NEW l \in Partitions
      PROVE  /\ Len(M[l]) <= counts[l]
             /\ Len(L[l]) < counts[l] => Len(M[l]) < counts[l]
  <2>1. Len(M[l]) <= Len(L[l]) /\ Len(M[l]) \in Nat /\ Len(L[l]) \in Nat /\ counts[l] \in Nat
    BY <1>1, <1>2, <1>3
  <2>2. Len(L[l]) <= counts[l]
    BY DEF Ledger
  <2> QED  BY <2>1, <2>2
<1>8. ASSUME NEW n \in acked
      PROVE  \/ \E l \in Partitions : \E i \in 1..Len(M[l]) : M[l][i] = n
             \/ \E l \in Partitions : Len(M[l]) < counts[l]
  <2>1. CASE \E l \in Partitions : \E i \in 1..Len(L[l]) : L[l][i] = n
    <3>1. PICK l \in Partitions : \E i \in 1..Len(L[l]) : L[l][i] = n
      BY <2>1
    <3>2. PICK i \in 1..Len(L[l]) : L[l][i] = n
      BY <3>1
    <3>3. CASE i \in 1..Len(M[l])
      BY <1>4, <3>2, <3>3
    <3>4. CASE i \notin 1..Len(M[l])
      <4>1. Len(M[l]) < Len(L[l]) /\ Len(M[l]) \in Nat
        BY <1>1, <1>2, <1>3, <3>4
      <4>2. Len(L[l]) <= counts[l]
        BY DEF Ledger
      <4>3. Len(L[l]) \in Nat /\ counts[l] \in Nat
        BY <1>1
      <4> QED  BY <4>1, <4>2, <4>3
    <3> QED  BY <3>3, <3>4
  <2>2. CASE \E l \in Partitions : Len(L[l]) < counts[l]
    BY <1>7, <2>2
  <2> QED  BY <2>1, <2>2 DEF Ledger
<1> QED  BY <1>5, <1>6, <1>7, <1>8

------------------------------------------------------------------------------
(* The steps that only touch metadata *)

\* The type invariant, given the types of what holds lines.
LEMMA TypeParts ==
  ASSUME Shape, seq \in 0..MaxSeq,
         phase \in {"new", "opening", "recording", "closing", "manifest", "session",
                    "final", "dead"},
         state \in ArchiveState, unflushed \in Nat, counts \in [Partitions -> Nat],
         handles \subseteq files, files \subseteq Partitions,
         headed \subseteq Partitions, ended \subseteq headed,
         session \in ArchiveState \cup {"none", "torn"},
         manifest.state \in ArchiveState \cup {"none", "torn"},
         acked \subseteq 1..seq, spoiled \in {"no", "write", "lost", "damage"}
  PROVE  TypeOK
<1>1. unflushed \in 0..MaxSeq /\ counts \in [Partitions -> 0..MaxSeq]
  <2>1. seq <= MaxSeq /\ seq \in Nat /\ unflushed <= seq /\ MaxSeq \in Nat
    BY SinkAssumption DEF Shape
  <2>2. \A k \in Partitions : counts[k] \in Nat /\ counts[k] <= seq
    BY DEF Shape
  <2>3. \A k \in Partitions : counts[k] \in 0..MaxSeq
    BY <2>1, <2>2
  <2> QED  BY <2>1, <2>3
<1>2. ASSUME NEW k \in Partitions PROVE disk[k] \o buffer[k] \in Seq(0..MaxSeq)
  <2>1. disk[k] \in Seq(0..MaxSeq) /\ buffer[k] \in Seq(0..MaxSeq)
    BY DEF Shape
  <2> QED  BY <2>1, ConcatProperties
<1> QED  BY <1>1, <1>2 DEF TypeOK

\* Files and memory stay what they are.
Still == UNCHANGED <<seq, unflushed, counts, handles, buffer, parts, acked, spoiled>>

Recording == {"new", "opening", "recording"}
AfterClosing == {"manifest", "session", "final", "dead"}

LEMMA StillFiles ==
  ASSUME IInv, Still,
         phase' \in Recording => phase \in Recording,
         phase' = "closing" => phase \in Recording \cup {"closing"},
         phase' \in AfterClosing => handles = {},
         phase' = "manifest" => phase \in {"closing", "manifest"}
  PROVE  Shape' /\ Open' /\ Window'
<1>1. AllLines' = AllLines
  BY DEF AllLines, Still, parts
<1>2. ASSUME Writing' PROVE Ledger(AllLines)'
  <2>1. Writing
    BY <1>2 DEF Writing, Recording, AfterClosing
  <2> QED  BY <1>1, <2>1 DEF IInv, Open, Ledger, Still
<1>3. Open'
  BY <1>2 DEF IInv, Open, Writing, Recording, AfterClosing, Still, parts
<1>4. Shape' /\ Window'
  BY DEF IInv, Shape, Window, OnDisk, Still, parts
<1> QED  BY <1>3, <1>4

\* So do they after the manifest has described them.
LEMMA StillSealed ==
  ASSUME IInv, UNCHANGED <<seq, counts, files, disk, acked, spoiled, manifest>>,
         ended \subseteq ended',
         phase \in {"session", "final", "dead"} => phase' \in {"session", "final", "dead"}
  PROVE  Sealed'
<1>1. Keys' = Keys /\ Described' = Described
      /\ \A k : DescribedEntry(k)' = DescribedEntry(k)
  BY DEF Keys, Described, DescribedEntry
<1>2. ASSUME Ledger(Described) PROVE Ledger(Described)'
  BY <1>1, <1>2 DEF Ledger
<1> QED  BY <1>1, <1>2 DEF IInv, Sealed

\* States that are not of the archive.
LEMMA NotStates ==
  ASSUME TRUE
  PROVE  /\ "none" \notin ArchiveState /\ "torn" \notin ArchiveState
         /\ {"CREATING", "RECORDING", "FINALIZING", "COMPLETE"} \subseteq ArchiveState
         /\ NoFile.state = "none" /\ Torn.state = "torn" /\ OpenManifest.state = "RECORDING"
         /\ \A n, P : Manifest("COMPLETE", n, P).state = "COMPLETE"
BY DEF ArchiveState, NoFile, Torn, OpenManifest, Manifest

LEMMA InitInvariant == Init => IInv
<1> SUFFICES ASSUME Init PROVE IInv
  OBVIOUS
<1>1. /\ << >> \in Seq(Line) /\ << >> \in Seq(1..0) /\ Len(<< >>) = 0 /\ << >> \o << >> = << >>
      /\ MaxSeq \in Nat /\ FlushEvery \in Nat /\ 1..Len(<< >>) = {}
  BY SinkAssumption
<1>2. Shape
  BY <1>1 DEF Init, Shape, Line
<1>3. TypeOK
  BY <1>1, <1>2, NotStates, TypeParts DEF Init
<1>4. Ledger(AllLines)
  <2>1. AllLines = [k \in Partitions |-> << >>]
    BY <1>1 DEF Init, AllLines
  <2> QED  BY <1>1, <2>1 DEF Init, Ledger
<1>5. Open
  BY <1>4 DEF Init, Open
<1>6. Metadata
  BY NotStates DEF Init, Metadata
<1>7. Sealed
  BY NotStates DEF Init, Sealed
<1>8. Window
  BY <1>1 DEF Init, Window
<1> QED  BY <1>2, <1>3, <1>5, <1>6, <1>7, <1>8 DEF IInv

LEMMA TearSessionInv == IInv /\ TearSession => IInv'
<1> SUFFICES ASSUME IInv, TearSession PROVE IInv'
  OBVIOUS
<1>1. Shape' /\ Open' /\ Window'
  BY StillFiles DEF TearSession, Still, memory, parts, Recording, AfterClosing, IInv, Open
<1>2. Sealed'
  BY StillSealed DEF TearSession, memory, parts
<1>3. TypeOK'
  BY DEF IInv, TypeOK, TearSession, memory, parts
<1>4. Metadata'
  BY DEF IInv, Metadata, TearSession, memory
<1> QED  BY <1>1, <1>2, <1>3, <1>4 DEF IInv

LEMMA WriteSessionInv == IInv /\ WriteSession => IInv'
<1> SUFFICES ASSUME IInv, WriteSession PROVE IInv'
  OBVIOUS
<1>1. Shape' /\ Open' /\ Window'
  BY StillFiles DEF WriteSession, Still, parts, Recording, AfterClosing
<1>2. Sealed'
  BY StillSealed DEF WriteSession, parts
<1>3. TypeOK'
  BY DEF IInv, TypeOK, WriteSession, parts
<1>4. Metadata'
  BY NotStates DEF IInv, TypeOK, Metadata, WriteSession
<1> QED  BY <1>1, <1>2, <1>3, <1>4 DEF IInv

LEMMA OpenSessionInv == IInv /\ OpenSession => IInv'
<1> SUFFICES ASSUME IInv, OpenSession PROVE IInv'
  OBVIOUS
<1>1. Shape' /\ Open' /\ Window'
  BY StillFiles DEF OpenSession, Still, parts, Recording, AfterClosing
<1>2. Sealed'
  BY NotStates DEF OpenSession, Sealed
<1>3. TypeOK'
  BY NotStates DEF IInv, TypeOK, OpenSession, parts
<1>4. Metadata'
  BY NotStates DEF IInv, TypeOK, Metadata, OpenSession
<1> QED  BY <1>1, <1>2, <1>3, <1>4 DEF IInv

LEMMA FinalizeInv == IInv /\ Finalize => IInv'
<1> SUFFICES ASSUME IInv, Finalize PROVE IInv'
  OBVIOUS
<1>1. Shape' /\ Open' /\ Window'
  BY StillFiles DEF Finalize, Still, parts, Recording, AfterClosing
<1>2. Sealed'
  BY StillSealed DEF Finalize, parts
<1>3. TypeOK'
  BY NotStates DEF IInv, TypeOK, Finalize, parts
<1>4. Metadata'
  BY DEF IInv, Metadata, Finalize
<1> QED  BY <1>1, <1>2, <1>3, <1>4 DEF IInv

LEMMA TearManifestInv == IInv /\ TearManifest => IInv'
<1> SUFFICES ASSUME IInv, TearManifest PROVE IInv'
  OBVIOUS
<1>1. Shape' /\ Open' /\ Window'
  BY StillFiles DEF TearManifest, CanDescribe, Still, parts, Recording, AfterClosing
<1>2. Sealed'
  BY NotStates DEF TearManifest, Sealed
<1>3. TypeOK'
  BY NotStates DEF IInv, TypeOK, TearManifest, CanDescribe, parts
<1>4. Metadata'
  BY NotStates DEF IInv, TypeOK, Metadata, TearManifest, CanDescribe
<1> QED  BY <1>1, <1>2, <1>3, <1>4 DEF IInv

LEMMA EndFinalizeInv == IInv /\ EndFinalize => IInv'
<1> SUFFICES ASSUME IInv, EndFinalize PROVE IInv'
  OBVIOUS
<1>1. Shape' /\ Open' /\ Window'
  BY StillFiles DEF EndFinalize, Still, parts, Recording, AfterClosing, IInv, Open
<1>2. Sealed'
  BY StillSealed DEF EndFinalize, parts
<1>3. TypeOK'
  BY NotStates DEF IInv, TypeOK, EndFinalize, parts
<1>4. Metadata'
  BY NotStates DEF IInv, TypeOK, Metadata, EndFinalize
<1> QED  BY <1>1, <1>2, <1>3, <1>4 DEF IInv

\* The manifest that is written describes the files as they are.
LEMMA WriteManifestInv == IInv /\ WriteManifest => IInv'
<1> SUFFICES ASSUME IInv, WriteManifest PROVE IInv'
  OBVIOUS
<1>0. handles = {} /\ Writing /\ Ledger(AllLines)
  BY DEF IInv, Open, Writing, WriteManifest
<1>1. Shape' /\ Open' /\ Window'
  BY <1>0, StillFiles DEF WriteManifest, Still, parts, Recording, AfterClosing
<1>2. Sealed'
  <2>1. ASSUME NEW k \in Partitions
        PROVE  /\ AllLines[k] = disk[k] /\ disk[k] \in Seq(Line) /\ Len(disk[k]) \in Nat
               /\ disk[k] # << >> => Len(disk[k]) # 0
    <3>1. disk[k] \in Seq(Line) /\ buffer[k] = << >>
      BY <1>0 DEF IInv, Open, Shape, Line
    <3> QED  BY <3>1, ConcatEmptySeq, LenProperties, EmptySeq DEF AllLines
  <2>2. Keys' = files /\ files \subseteq Partitions
    <3>1. manifest'.parts = {Entry(k) : k \in files}
      BY DEF WriteManifest, Manifest
    <3>2. \A k \in files : Entry(k).key = k
      BY DEF Entry
    <3> QED  BY <3>1, <3>2 DEF Keys, IInv, TypeOK
  <2>3. ASSUME NEW k \in Partitions \ files PROVE counts[k] = 0 /\ disk[k] = << >>
    <3>1. counts[k] = 0
      BY <1>0 DEF IInv, Open
    <3>2. Len(AllLines[k]) <= 0
      BY <1>0, <3>1 DEF Ledger
    <3> QED  BY <2>1, <3>1, <3>2
  <2>4. ASSUME NEW k \in files
        PROVE  (CHOOSE e \in manifest'.parts : e.key = k) = Entry(k)
    <3>1. manifest'.parts = {Entry(j) : j \in files}
      BY DEF WriteManifest, Manifest
    <3>2. \A j \in files : Entry(j).key = j
      BY DEF Entry
    <3> QED  BY <3>1, <3>2
  <2>5. Described' = AllLines
    <3>1. ASSUME NEW k \in Partitions PROVE Described'[k] = disk[k]
      <4>1. CASE k \in files
        <5>1. Described'[k] = Entry(k).sum
          BY <2>2, <2>4, <4>1, Zenon DEF Described
        <5> QED  BY <5>1 DEF Entry
      <4>2. CASE k \notin files
        BY <2>2, <2>3, <4>2 DEF Described
      <4> QED  BY <4>1, <4>2
    <3> QED  BY <2>1, <3>1 DEF Described, AllLines
  <2>6. Ledger(Described)'
    BY <1>0, <2>5 DEF Ledger, WriteManifest, parts
  <2>7. {DescribedEntry(k)' : k \in files} = {Entry(k) : k \in files}
    <3>1. ASSUME NEW k \in files PROVE DescribedEntry(k)' = Entry(k)
      BY <2>1, <2>2, <2>5 DEF DescribedEntry, Entry, WriteManifest
    <3> QED  BY <3>1
  <2>8. manifest' = Manifest("COMPLETE", SumFunctionOnSet(counts', Partitions),
                             {DescribedEntry(k)' : k \in Keys'})
    BY <2>2, <2>7 DEF WriteManifest
  <2>9. ASSUME NEW k \in files PROVE k \in ended' /\ disk'[k] = Described'[k]
    BY <1>0, <2>1, <2>2, <2>5 DEF WriteManifest, IInv, Open, parts
  <2>10. \A k \in Partitions : counts'[k] # 0 => k \in files
    BY <2>3 DEF WriteManifest
  <2> QED  BY <2>2, <2>6, <2>8, <2>9, <2>10 DEF Sealed, WriteManifest, parts
<1>3. TypeOK'
  BY NotStates DEF IInv, TypeOK, WriteManifest, parts
<1>4. Metadata'
  BY NotStates DEF IInv, TypeOK, Metadata, WriteManifest
<1> QED  BY <1>1, <1>2, <1>3, <1>4 DEF IInv

------------------------------------------------------------------------------
(* The steps that move lines *)

\* Metadata stays what it is; the manifest is not complete.
LEMMA StillMetadata ==
  ASSUME IInv, phase \in {"recording", "closing"}, UNCHANGED <<phase, session, manifest>>
  PROVE  Metadata' /\ Sealed'
<1>1. manifest = OpenManifest
  BY DEF IInv, Metadata
<1>2. Sealed'
  BY <1>1, NotStates DEF Sealed
<1>3. Metadata'
  BY DEF IInv, Metadata
<1> QED  BY <1>2, <1>3

\* What was in a file is in it still.
LEMMA StillOnDisk ==
  ASSUME \A j \in Partitions : Range(disk[j]) \subseteq Range(disk'[j])
  PROVE  OnDisk \subseteq OnDisk'
BY DEF OnDisk

\* An event that is written and counted, whichever handles H are flushed.
LEMMA CountedInv ==
  ASSUME IInv, NEW k \in Partitions, NEW H, H \subseteq handles',
         phase = "recording", seq < MaxSeq, Counted(k), Flushed(H, k, seq'),
         unflushed' \in 0..(unflushed + 1), acked' \subseteq acked \cup {seq'},
         spoiled' \in {spoiled, "write"}, SpoiledStays,
         UNCHANGED <<phase, state, ended, session, manifest>>
  PROVE  /\ TypeOK' /\ Shape' /\ Open' /\ Metadata' /\ Sealed'
         /\ Ledger(AllLines)' /\ OnDisk \subseteq OnDisk'
         /\ disk' \in [Partitions -> Seq(Line)]
         /\ \A j \in H : buffer'[j] = << >>
<1>1. /\ seq \in Nat /\ seq <= MaxSeq /\ unflushed \in Nat /\ unflushed <= seq /\ MaxSeq \in Nat
      /\ counts \in [Partitions -> Nat] /\ \A j \in Partitions : counts[j] <= seq
      /\ disk \in [Partitions -> Seq(Line)] /\ buffer \in [Partitions -> Seq(Line)]
      /\ handles \subseteq files /\ files \subseteq Partitions
      /\ headed \subseteq Partitions /\ ended \subseteq headed /\ acked \subseteq 1..seq
  BY Types DEF IInv
<1>2. seq' = seq + 1 /\ seq' \in Line /\ seq' \in 0..MaxSeq /\ unflushed' \in Nat
      /\ unflushed' <= seq'
  BY <1>1 DEF Counted, Line
<1>3. /\ disk' \in [Partitions -> Seq(Line)] /\ buffer' \in [Partitions -> Seq(Line)]
      /\ AllLines' = [AllLines EXCEPT ![k] = Append(@, seq')]
      /\ \A j \in Partitions : /\ Range(disk[j]) \subseteq Range(disk'[j])
                               /\ j \in H => buffer'[j] = << >>
                               /\ j \notin H /\ j # k => buffer'[j] = buffer[j]
  BY <1>1, <1>2, FlushedLines
<1>4. /\ handles' = handles \cup {k} /\ files' = files \cup {k}
      /\ counts' = [counts EXCEPT ![k] = @ + 1] /\ headed' = headed \cup H
  BY DEF Counted, Flushed
<1>5. Ledger(AllLines)'
  <2>1. Ledger(AllLines)
    BY DEF IInv, Open, Writing
  <2> DEFINE L == AllLines
             M == AllLines'
  <2>2. /\ seq \in Nat /\ counts \in [Partitions -> Nat] /\ seq' = seq + 1
        /\ counts' = [counts EXCEPT ![k] = @ + 1]
        /\ SpoiledStays /\ acked' \subseteq acked \cup {seq'} /\ k \in Partitions
    BY <1>1, <1>2, <1>4
  <2>3. Ledger(L) /\ LinesOf(L, M, k, Append(L[k], seq'))
    BY <1>3, <2>1 DEF LinesOf
  <2> HIDE DEF L, M
  <2>4. /\ M \in [Partitions -> Seq(1..seq')]
        /\ \A j, l \in Partitions : \A i \in 1..Len(M[j]), m \in 1..Len(M[l]) :
              M[j][i] = M[l][m] => j = l /\ i = m
        /\ \A l \in Partitions : /\ Len(M[l]) <= counts'[l]
                                 /\ spoiled' \in {"no", "write"} => Len(M[l]) = counts'[l]
        /\ \A n \in acked' :
              \/ \E l \in Partitions : \E i \in 1..Len(M[l]) : M[l][i] = n
              \/ \E l \in Partitions : Len(M[l]) < counts'[l]
    BY <2>2, <2>3, LedgerMore, Zenon
  <2> QED  BY <2>4, Zenon DEF Ledger, M
<1>6. Shape'
  <2>1. \A j \in Partitions : counts'[j] <= seq'
    BY <1>1, <1>2, <1>4
  <2> QED  BY <1>2, <1>3, <2>1 DEF Shape, Line
<1>7. Open'
  <2>1. files = handles /\ \A j \in Partitions : /\ buffer[j] # << >> => j \in handles
                                                 /\ counts[j] # 0 => j \in files
    BY DEF IInv, Open, Writing
  <2>2. \A j \in Partitions : /\ buffer'[j] # << >> => j \in handles'
                              /\ counts'[j] # 0 => j \in files'
    BY <1>1, <1>3, <1>4, <2>1
  <2>3. files' = handles'
    BY <1>4, <2>1
  <2> QED  BY <1>5, <2>2, <2>3 DEF Open, Writing
<1>8. TypeOK'
  <2>1. handles' \subseteq files' /\ files' \subseteq Partitions /\ headed' \subseteq Partitions
        /\ ended' \subseteq headed'
    <3>1. files = handles
      BY DEF IInv, Open
    <3> QED  BY <1>1, <1>4, <3>1
  <2>2. acked' \subseteq 1..seq'
    BY <1>1, <1>2
  <2>3. counts' \in [Partitions -> 0..MaxSeq]
    <3>1. \A j \in Partitions : counts'[j] \in 0..MaxSeq
      BY <1>1, <1>2, <1>4
    <3> QED  BY <1>4, <3>1 DEF IInv, TypeOK
  <2>4. \A j \in Partitions : disk'[j] \o buffer'[j] \in Seq(0..MaxSeq)
    BY <1>3, ConcatProperties DEF Line
  <2>5. unflushed' \in 0..MaxSeq
    BY <1>1, <1>2
  <2> QED  BY <1>2, <2>1, <2>2, <2>3, <2>4, <2>5 DEF IInv, TypeOK
<1>9. Metadata' /\ Sealed'
  BY StillMetadata
<1>10. OnDisk \subseteq OnDisk'
  BY <1>3, StillOnDisk
<1>11. H \subseteq Partitions
  BY <1>8 DEF TypeOK
<1> QED  BY <1>3, <1>5, <1>6, <1>7, <1>8, <1>9, <1>10, <1>11

LEMMA WriteInv == ASSUME NEW k \in Partitions, IInv, Write(k) PROVE IInv'
<1> DEFINE H == IF FlushIsDue THEN handles' ELSE {}
<1>1. /\ seq \in Nat /\ unflushed \in Nat /\ unflushed <= seq /\ FlushEvery \in Nat
      /\ acked \subseteq 1..seq
  BY Types DEF IInv
<1>2. /\ Flushed(H, k, seq') /\ unflushed' = IF FlushIsDue THEN 0 ELSE unflushed + 1
      /\ seq' = seq + 1 /\ acked' = acked \cup {seq'}
  BY DEF Write, Counted
<1>3. /\ TypeOK' /\ Shape' /\ Open' /\ Metadata' /\ Sealed'
      /\ Ledger(AllLines)' /\ OnDisk \subseteq OnDisk'
      /\ disk' \in [Partitions -> Seq(Line)]
      /\ \A j \in H : buffer'[j] = << >>
  <2>1. H \subseteq handles' /\ unflushed' \in 0..(unflushed + 1)
    BY <1>1, <1>2
  <2>2. /\ phase = "recording" /\ seq < MaxSeq /\ Counted(k)
        /\ acked' \subseteq acked \cup {seq'} /\ spoiled' \in {spoiled, "write"} /\ SpoiledStays
        /\ UNCHANGED <<phase, state, ended, session, manifest>>
    BY DEF Write, SpoiledStays
  <2>3. Flushed(H, k, seq')
    BY <1>2
  <2> HIDE DEF H
  <2> QED  BY <2>1, <2>2, <2>3, CountedInv
<1>4. Window'
  <2> SUFFICES ASSUME spoiled = "no" PROVE /\ \A n \in acked' : n <= seq' - unflushed' => n \in OnDisk'
                                           /\ FlushEvery > 0 => unflushed' < FlushEvery
    BY DEF Window, Write
  <2>1. CASE FlushIsDue
    <3>1. ASSUME NEW j \in Partitions PROVE buffer'[j] = << >> /\ AllLines'[j] = disk'[j]
      <4>1. buffer'[j] = << >>
        BY <1>3, <2>1 DEF Open
      <4>2. disk'[j] \in Seq(Line)
        BY <1>3
      <4> QED  BY <4>1, <4>2, ConcatEmptySeq DEF AllLines
    <3>2. ASSUME NEW n \in acked' PROVE n \in OnDisk'
      <4>1. \A j \in Partitions : Len(AllLines'[j]) = counts'[j] /\ ~ (Len(AllLines'[j]) < counts'[j])
        <5>1. counts' \in [Partitions -> 0..MaxSeq]
          BY <1>3 DEF TypeOK
        <5>2. spoiled' = "no"
          BY DEF Write
        <5>3. \A j \in Partitions : Len(AllLines'[j]) = counts'[j]
          BY <1>3, <5>2 DEF Ledger
        <5> QED  BY <5>1, <5>3
      <4>2. PICK j \in Partitions : \E i \in 1..Len(AllLines'[j]) : AllLines'[j][i] = n
        BY <1>3, <4>1 DEF Ledger
      <4>3. PICK i \in 1..Len(disk'[j]) : disk'[j][i] = n
        BY <3>1, <4>2
      <4>4. i \in DOMAIN disk'[j]
        BY <1>3, LenProperties
      <4>5. n \in Range(disk'[j])
        BY <4>3, <4>4 DEF Range
      <4> QED  BY <4>5 DEF OnDisk
    <3> QED  BY <1>1, <1>2, <2>1, <3>2
  <2>2. CASE ~FlushIsDue
    <3>1. seq' - unflushed' = seq - unflushed
      BY <1>1, <1>2, <2>2
    <3>2. ~ (seq' <= seq' - unflushed')
      BY <1>1, <1>2, <2>2
    <3>3. \A n \in acked : n <= seq - unflushed => n \in OnDisk
      BY DEF IInv, Window
    <3>4. FlushEvery > 0 => unflushed' < FlushEvery
      BY <1>1, <1>2, <2>2 DEF FlushIsDue
    <3> QED  BY <1>2, <1>3, <3>1, <3>2, <3>3, <3>4
  <2> QED  BY <2>1, <2>2
<1> QED  BY <1>3, <1>4 DEF IInv

\* The file cannot be opened, a flush fails half-way, or a buffer is lost.
LEMMA WriteFailsInv == ASSUME NEW k \in Partitions, IInv, WriteFails(k) PROVE IInv'
<1>1. /\ seq \in Nat /\ seq <= MaxSeq /\ unflushed \in Nat /\ unflushed <= seq /\ MaxSeq \in Nat
      /\ counts \in [Partitions -> Nat] /\ \A j \in Partitions : counts[j] <= seq
      /\ disk \in [Partitions -> Seq(Line)] /\ buffer \in [Partitions -> Seq(Line)]
      /\ acked \subseteq 1..seq
  BY Types DEF IInv
<1>2. /\ phase = "recording" /\ seq < MaxSeq /\ Ledger(AllLines)
      /\ spoiled \in {"no", "write", "lost", "damage"}
      /\ UNCHANGED <<phase, state, ended, session, manifest, acked>>
  BY DEF WriteFails, IInv, Open, Writing, TypeOK
<1>3. CASE /\ k \notin handles /\ seq' = seq + 1 /\ spoiled' = Worse("write")
           /\ UNCHANGED <<handles, files, counts, unflushed, buffer, disk, headed>>
  <2>1. SpoiledStays /\ spoiled' # "no" /\ spoiled' \in {"no", "write", "lost", "damage"}
    BY <1>2, <1>3 DEF SpoiledStays, Worse
  <2>2. AllLines' = AllLines
    BY <1>3 DEF AllLines
  <2>3. Ledger(AllLines)'
    <3> DEFINE L == AllLines
    <3>1. Ledger(L) /\ seq' \in {seq, seq + 1} /\ UNCHANGED <<counts, acked>>
      BY <1>2, <1>3
    <3> HIDE DEF L
    <3>2. /\ L \in [Partitions -> Seq(1..seq')]
          /\ \A j, l \in Partitions : \A i \in 1..Len(L[j]), m \in 1..Len(L[l]) :
                L[j][i] = L[l][m] => j = l /\ i = m
          /\ \A l \in Partitions : /\ Len(L[l]) <= counts'[l]
                                   /\ spoiled' \in {"no", "write"} => Len(L[l]) = counts'[l]
          /\ \A n \in acked' :
                \/ \E l \in Partitions : \E i \in 1..Len(L[l]) : L[l][i] = n
                \/ \E l \in Partitions : Len(L[l]) < counts'[l]
      BY <1>1, <2>1, <3>1, LedgerSame, Zenon
    <3> QED  BY <2>2, <3>2 DEF Ledger, L
  <2>4. Shape'
    BY <1>1, <1>3 DEF Shape, Line
  <2>5. Open'
    BY <1>2, <1>3, <2>3 DEF IInv, Open, Writing
  <2>6. TypeOK'
    <3>1. seq' \in 0..MaxSeq /\ acked' \subseteq 1..seq'
      BY <1>1, <1>2, <1>3
    <3> QED  BY <1>2, <1>3, <2>1, <3>1 DEF IInv, TypeOK
  <2>7. Window'
    BY <2>1 DEF Window
  <2> QED  BY <1>2, <2>4, <2>5, <2>6, <2>7, StillMetadata DEF IInv
<1>4. CASE /\ Counted(k) /\ unflushed' = unflushed + 1 /\ spoiled' = Worse("write")
           /\ \E H \in SUBSET handles' : H # handles' /\ Flushed(H, k, seq')
  <2>1. PICK H : H \subseteq handles' /\ Flushed(H, k, seq')
    BY <1>4
  <2>2. /\ SpoiledStays /\ spoiled' # "no" /\ spoiled' \in {spoiled, "write"}
        /\ unflushed' \in 0..(unflushed + 1) /\ acked' \subseteq acked \cup {seq'}
    BY <1>1, <1>2, <1>4 DEF SpoiledStays, Worse
  <2>3. TypeOK' /\ Shape' /\ Open' /\ Metadata' /\ Sealed'
    BY <1>2, <1>4, <2>1, <2>2, CountedInv
  <2>4. Window'
    BY <2>2 DEF Window
  <2> QED  BY <2>3, <2>4 DEF IInv
<1>5. CASE /\ k \in handles /\ seq' = seq + 1 /\ buffer' = [buffer EXCEPT ![k] = << >>]
           /\ spoiled' = "lost"
           /\ UNCHANGED <<handles, files, counts, unflushed, disk, headed>>
  <2>1. disk[k] \in Seq(Line) /\ buffer[k] \in Seq(Line) /\ disk[k] \o << >> = disk[k]
    BY <1>1, ConcatEmptySeq
  <2>2. AllLines[k] = disk[k] \o buffer[k] /\ LinesOf(AllLines, AllLines', k, disk[k])
    BY <1>1, <1>5, <2>1 DEF AllLines, LinesOf
  <2>3. Ledger(AllLines)'
    <3> DEFINE L == AllLines
               M == AllLines'
               d == disk[k]
               b == buffer[k]
    <3>1. /\ Ledger(L) /\ d \in Seq(Line) /\ b \in Seq(Line) /\ L[k] = d \o b
          /\ LinesOf(L, M, k, d) /\ seq' = seq + 1 /\ spoiled' = "lost"
          /\ UNCHANGED <<counts, acked>>
      BY <1>2, <1>5, <2>1, <2>2
    <3> HIDE DEF L, M, d, b
    <3>2. /\ M \in [Partitions -> Seq(1..seq')]
          /\ \A j, l \in Partitions : \A i \in 1..Len(M[j]), m \in 1..Len(M[l]) :
                M[j][i] = M[l][m] => j = l /\ i = m
          /\ \A l \in Partitions : /\ Len(M[l]) <= counts'[l]
                                   /\ spoiled' \in {"no", "write"} => Len(M[l]) = counts'[l]
          /\ \A n \in acked' :
                \/ \E l \in Partitions : \E i \in 1..Len(M[l]) : M[l][i] = n
                \/ \E l \in Partitions : Len(M[l]) < counts'[l]
      BY <1>1, <3>1, LedgerLess, Zenon
    <3> QED  BY <3>2, Zenon DEF Ledger, M
  <2>4. Shape'
    <3>1. << >> \in Seq(Line)
      OBVIOUS
    <3> QED  BY <1>1, <1>5, <3>1 DEF Shape, Line
  <2>5. Open'
    BY <1>1, <1>2, <1>5, <2>3 DEF IInv, Open, Writing
  <2>6. TypeOK'
    <3>1. seq' \in 0..MaxSeq /\ acked' \subseteq 1..seq'
      BY <1>1, <1>2, <1>5
    <3>2. \A j \in Partitions : disk'[j] \o buffer'[j] \in Seq(0..MaxSeq)
      BY <2>4, ConcatProperties DEF Shape
    <3> QED  BY <1>2, <1>5, <3>1, <3>2 DEF IInv, TypeOK
  <2>7. Window'
    BY <1>5 DEF Window
  <2> QED  BY <1>2, <2>4, <2>5, <2>6, <2>7, StillMetadata DEF IInv
<1> QED  BY <1>3, <1>4, <1>5, Zenon DEF WriteFails

\* Lines that move, and nothing else that counts.
LEMMA MovedInv ==
  ASSUME IInv, Moved, UNCHANGED <<seq, unflushed, counts, acked, spoiled>>
  PROVE  /\ Shape' /\ Window' /\ (Writing => Ledger(AllLines)')
         /\ \A j \in Partitions : disk'[j] \o buffer'[j] \in Seq(0..MaxSeq)
<1>1. Shape'
  BY DEF IInv, Shape, Moved, Line
<1>2. Window'
  BY StillOnDisk DEF IInv, Window, Moved
<1>3. Writing => Ledger(AllLines)'
  BY DEF IInv, Open, Moved, Ledger
<1>4. \A j \in Partitions : disk'[j] \o buffer'[j] \in Seq(0..MaxSeq)
  BY <1>1, ConcatProperties DEF Shape
<1> QED  BY <1>1, <1>2, <1>3, <1>4

\* The front part of a buffer reaches the file.
LEMMA SpillInv == ASSUME NEW k \in Partitions, NEW n \in 1..MaxSeq, IInv, Spill(k, n) PROVE IInv'
<1> DEFINE front == [j \in Partitions |-> IF j = k THEN SubSeq(buffer[j], 1, n) ELSE << >>]
           rest == [j \in Partitions |-> IF j = k THEN SubSeq(buffer[j], n + 1, Len(buffer[j]))
                                         ELSE buffer[j]]
<1>1. /\ disk \in [Partitions -> Seq(Line)] /\ buffer \in [Partitions -> Seq(Line)]
      /\ handles \subseteq files /\ files \subseteq Partitions
      /\ headed \subseteq Partitions /\ ended \subseteq headed
  BY Types DEF IInv
<1>2. k \in handles /\ n \in 1..Len(buffer[k]) /\ headed' = headed \cup {k}
      /\ disk' = [disk EXCEPT ![k] = @ \o SubSeq(buffer[k], 1, n)]
      /\ buffer' = [buffer EXCEPT ![k] = SubSeq(@, n + 1, Len(@))]
      /\ UNCHANGED <<phase, state, seq, unflushed, counts, handles, files, ended,
                     session, manifest, acked, spoiled>>
  BY DEF Spill
<1>3. ASSUME NEW j \in Partitions
      PROVE  /\ front[j] \in Seq(Line) /\ rest[j] \in Seq(Line)
             /\ front[j] \o rest[j] = buffer[j]
             /\ disk'[j] = disk[j] \o front[j] /\ buffer'[j] = rest[j]
  <2>1. /\ disk[j] \in Seq(Line) /\ buffer[j] \in Seq(Line) /\ << >> \in Seq(Line)
        /\ Len(buffer[j]) \in Nat /\ \A i \in 1..Len(buffer[j]) : buffer[j][i] \in Line
    BY <1>1, LenProperties, ElementOfSeq
  <2>2. CASE j = k
    <3> DEFINE b == buffer[k]
    <3>1. b \in Seq(Line) /\ Len(b) \in Nat /\ n \in 1..Len(b)
          /\ \A i \in 1..Len(b) : b[i] \in Line
      BY <1>2, <2>1, <2>2
    <3> HIDE DEF b
    <3>2. SubSeq(b, 1, n) \in Seq(Line) /\ SubSeq(b, n + 1, Len(b)) \in Seq(Line)
      <4>1. \A i \in 1..n : b[i] \in Line
        BY <3>1
      <4>2. \A i \in (n + 1)..Len(b) : b[i] \in Line
        BY <3>1
      <4>3. n \in Int /\ n + 1 \in Int /\ Len(b) \in Int /\ 1 \in Int
        BY <3>1
      <4> QED  BY <4>1, <4>2, <4>3, SubSeqProperties
    <3>3. SubSeq(b, 1, n) \o SubSeq(b, n + 1, Len(b)) = b
      <4>1. 1 \in 1..(Len(b) + 1) /\ n \in (1 - 1)..Len(b) /\ Len(b) \in n..Len(b)
        BY <3>1
      <4>2. SubSeq(b, 1, n) \o SubSeq(b, n + 1, Len(b)) = SubSeq(b, 1, Len(b))
        BY <3>1, <4>1, ConcatAdjacentSubSeq
      <4> QED  BY <3>1, <4>2, SubSeqFull
    <3>4. disk'[k] = disk[k] \o SubSeq(b, 1, n) /\ buffer'[k] = SubSeq(b, n + 1, Len(b))
      BY <1>1, <1>2 DEF b
    <3> QED  BY <2>2, <3>2, <3>3, <3>4 DEF b
  <2>3. CASE j # k
    <3>1. disk[j] \o << >> = disk[j] /\ << >> \o buffer[j] = buffer[j]
      BY <2>1, ConcatEmptySeq
    <3> QED  BY <1>1, <1>2, <2>1, <2>3, <3>1
  <2> QED  BY <2>2, <2>3
<1>4. Moved
  <2>1. /\ disk' = [j \in Partitions |-> disk[j] \o front[j]]
        /\ buffer' = [j \in Partitions |-> rest[j]]
    BY <1>1, <1>2, <1>3
  <2>2. \A j \in Partitions : /\ front[j] \in Seq(Line) /\ rest[j] \in Seq(Line)
                              /\ front[j] \o rest[j] = buffer[j]
    BY <1>3, Zenon
  <2> HIDE DEF front, rest
  <2> QED  BY <1>1, <2>1, <2>2, MovedLines, Zenon
<1>5. /\ Shape' /\ Window' /\ (Writing => Ledger(AllLines)')
      /\ \A j \in Partitions : disk'[j] \o buffer'[j] \in Seq(0..MaxSeq)
  BY <1>2, <1>4, MovedInv
<1>6. Open'
  <2>1. \A j \in Partitions : buffer[j] = << >> => buffer'[j] = << >>
    BY <1>4 DEF Moved
  <2> QED  BY <1>2, <1>5, <2>1 DEF IInv, Open, Writing
<1>7. Sealed'
  <2>1. manifest'.state # "COMPLETE"
    BY <1>2 DEF IInv, Sealed, Open
  <2> QED  BY <2>1 DEF Sealed
<1>8. Metadata'
  BY <1>2 DEF IInv, Metadata
<1>9. TypeOK'
  BY <1>1, <1>2, <1>5 DEF IInv, TypeOK
<1> QED  BY <1>5, <1>6, <1>7, <1>8, <1>9 DEF IInv

\* A file is closed: what its buffer held is in it, and it has an end.
LEMMA CloseFileInv == ASSUME NEW k \in Partitions, IInv, CloseFile(k) PROVE IInv'
<1> DEFINE front == [j \in Partitions |-> IF j = k THEN buffer[j] ELSE << >>]
           rest == [j \in Partitions |-> IF j = k THEN << >> ELSE buffer[j]]
<1>1. /\ disk \in [Partitions -> Seq(Line)] /\ buffer \in [Partitions -> Seq(Line)]
      /\ handles \subseteq files /\ files \subseteq Partitions
      /\ headed \subseteq Partitions /\ ended \subseteq headed
  BY Types DEF IInv
<1>2. /\ phase = "closing" /\ k \in handles /\ handles' = handles \ {k}
      /\ headed' = headed \cup {k} /\ ended' = ended \cup {k}
      /\ disk' = [disk EXCEPT ![k] = @ \o buffer[k]]
      /\ buffer' = [buffer EXCEPT ![k] = << >>]
      /\ UNCHANGED <<phase, state, seq, unflushed, counts, files, session, manifest,
                     acked, spoiled>>
  BY DEF CloseFile
<1>3. ASSUME NEW j \in Partitions
      PROVE  /\ front[j] \in Seq(Line) /\ rest[j] \in Seq(Line)
             /\ front[j] \o rest[j] = buffer[j]
             /\ disk'[j] = disk[j] \o front[j] /\ buffer'[j] = rest[j]
  <2>1. disk[j] \in Seq(Line) /\ buffer[j] \in Seq(Line) /\ << >> \in Seq(Line)
    BY <1>1
  <2>2. disk[j] \o << >> = disk[j] /\ << >> \o buffer[j] = buffer[j] /\ buffer[j] \o << >> = buffer[j]
    BY <2>1, ConcatEmptySeq
  <2> QED  BY <1>1, <1>2, <2>1, <2>2
<1>4. Moved
  <2>1. /\ disk' = [j \in Partitions |-> disk[j] \o front[j]]
        /\ buffer' = [j \in Partitions |-> rest[j]]
    BY <1>1, <1>2, <1>3
  <2>2. \A j \in Partitions : /\ front[j] \in Seq(Line) /\ rest[j] \in Seq(Line)
                              /\ front[j] \o rest[j] = buffer[j]
    BY <1>3, Zenon
  <2> HIDE DEF front, rest
  <2> QED  BY <1>1, <2>1, <2>2, MovedLines, Zenon
<1>5. /\ Shape' /\ Window' /\ (Writing => Ledger(AllLines)')
      /\ \A j \in Partitions : disk'[j] \o buffer'[j] \in Seq(0..MaxSeq)
  BY <1>2, <1>4, MovedInv
<1>6. Open'
  <2>1. \A j \in Partitions : buffer'[j] # << >> => buffer[j] # << >> /\ j # k
    BY <1>1, <1>2
  <2>2. Writing /\ Writing'
    BY <1>2 DEF Writing
  <2> QED  BY <1>2, <1>5, <2>1, <2>2 DEF IInv, Open
<1>7. TypeOK'
  BY <1>1, <1>2, <1>5 DEF IInv, TypeOK
<1> QED  BY <1>2, <1>5, <1>6, <1>7, StillMetadata DEF IInv

\* The process is killed: what is in the buffers is gone.
LEMMA KillInv == IInv /\ Kill => IInv'
<1> SUFFICES ASSUME IInv, Kill PROVE IInv'
  OBVIOUS
<1>1. /\ disk \in [Partitions -> Seq(Line)] /\ << >> \in Seq(Line)
  BY Types DEF IInv
<1>2. /\ phase' = "dead" /\ handles' = {} /\ buffer' = [k \in Partitions |-> << >>]
      /\ UNCHANGED <<state, seq, unflushed, counts, files, headed, ended, disk, session,
                     manifest, acked, spoiled>>
  BY DEF Kill, parts
<1>3. Shape' /\ Window'
  BY <1>1, <1>2 DEF IInv, Shape, Window, OnDisk, Line
<1>4. Open'
  BY <1>2 DEF Open, Writing
<1>5. Sealed'
  BY <1>2, StillSealed
<1>6. Metadata'
  BY <1>2, NotStates DEF IInv, Metadata
<1>7. TypeOK'
  <2>1. \A k \in Partitions : disk'[k] \o buffer'[k] \in Seq(0..MaxSeq)
    BY <1>3, ConcatProperties DEF Shape
  <2> QED  BY <1>2, <2>1 DEF IInv, TypeOK
<1> QED  BY <1>3, <1>4, <1>5, <1>6, <1>7 DEF IInv

\* The process ends with an exception: the files are closed.
LEMMA AbandonInv == IInv /\ Abandon => IInv'
<1> SUFFICES ASSUME IInv, Abandon PROVE IInv'
  OBVIOUS
<1> DEFINE rest == [k \in Partitions |-> << >>]
<1>1. /\ disk \in [Partitions -> Seq(Line)] /\ buffer \in [Partitions -> Seq(Line)]
      /\ handles \subseteq files /\ files \subseteq Partitions
      /\ headed \subseteq Partitions /\ ended \subseteq headed /\ << >> \in Seq(Line)
  BY Types DEF IInv
<1>2. /\ phase' = "dead" /\ handles' = {} /\ buffer' = [k \in Partitions |-> << >>]
      /\ disk' = [k \in Partitions |-> disk[k] \o buffer[k]]
      /\ headed' = headed \cup handles /\ ended' = ended \cup handles
      /\ UNCHANGED <<state, seq, unflushed, counts, files, session, manifest, acked, spoiled>>
  BY DEF Abandon
<1>3. Moved
  <2>1. \A k \in Partitions : /\ buffer[k] \in Seq(Line) /\ rest[k] \in Seq(Line)
                              /\ buffer[k] \o rest[k] = buffer[k]
    BY <1>1, ConcatEmptySeq
  <2>2. buffer' = [k \in Partitions |-> rest[k]]
    BY <1>2
  <2> HIDE DEF rest
  <2> QED  BY <1>1, <1>2, <2>1, <2>2, MovedLines
<1>4. /\ Shape' /\ Window'
      /\ \A k \in Partitions : disk'[k] \o buffer'[k] \in Seq(0..MaxSeq)
  BY <1>2, <1>3, MovedInv
<1>5. Open'
  BY <1>2 DEF Open, Writing
<1>6. Sealed'
  <2>1. CASE manifest.state = "COMPLETE"
    <3>1. \A k \in Partitions : buffer[k] = << >>
      BY <2>1 DEF IInv, Sealed, Open
    <3>2. disk' = disk
      BY <1>1, <1>2, <1>3, <3>1 DEF Moved
    <3> QED  BY <1>2, <3>2, StillSealed
  <2>2. CASE manifest.state # "COMPLETE"
    BY <1>2, <2>2 DEF Sealed
  <2> QED  BY <2>1, <2>2
<1>7. Metadata'
  BY <1>2, NotStates DEF IInv, Metadata
<1>8. TypeOK'
  BY <1>1, <1>2, <1>4 DEF IInv, TypeOK
<1> QED  BY <1>4, <1>5, <1>6, <1>7, <1>8 DEF IInv

\* A file suffers; nothing that the invariant says of a damaged archive is about
\* the files.
LEMMA DamageInv == ASSUME NEW k \in Partitions, IInv, Damage(k) PROVE IInv'
<1>1. /\ disk \in [Partitions -> Seq(Line)] /\ buffer \in [Partitions -> Seq(Line)]
      /\ handles \subseteq files /\ files \subseteq Partitions
      /\ headed \subseteq Partitions /\ ended \subseteq headed
      /\ MaxSeq \in Nat /\ seq \in Nat
  BY Types DEF IInv
<1>2. /\ phase \in {"final", "dead"} /\ spoiled' = "damage" /\ handles = {}
      /\ UNCHANGED <<phase, state, seq, unflushed, counts, handles, buffer, headed,
                     session, manifest, acked>>
      /\ files' \subseteq files /\ ended' \subseteq ended
  BY DEF Damage, Alive, memory, IInv, Open
<1>3. disk' \in [Partitions -> Seq(Line)]
  <2>1. CASE disk' = disk
    BY <1>1, <2>1
  <2>2. CASE /\ disk[k] # << >>
             /\ disk' \in {[disk EXCEPT ![k] = Front(@)],
                           [disk EXCEPT ![k] = Append(Front(@), 0)]}
    <3>1. disk[k] \in Seq(Line) /\ Len(disk[k]) \in Nat
          /\ \A i \in 1..(Len(disk[k]) - 1) : disk[k][i] \in Line
      BY <1>1, LenProperties, ElementOfSeq
    <3>2. Front(disk[k]) \in Seq(Line)
      BY <3>1, SubSeqProperties DEF Front
    <3>3. Append(Front(disk[k]), 0) \in Seq(Line)
      BY <1>1, <3>2, AppendProperties DEF Line
    <3> QED  BY <1>1, <2>2, <3>2, <3>3
  <2> QED  BY <2>1, <2>2 DEF Damage
<1>4. Shape' /\ Window'
  BY <1>1, <1>2, <1>3 DEF IInv, Shape, Window, Line
<1>5. Open'
  BY <1>2 DEF IInv, Open, Writing
<1>6. Sealed'
  <2> SUFFICES ASSUME manifest.state = "COMPLETE" PROVE Sealed'
    BY <1>2 DEF Sealed
  <2>1. Keys' = Keys /\ Described' = Described
        /\ \A j : DescribedEntry(j)' = DescribedEntry(j)
    BY <1>2 DEF Keys, Described, DescribedEntry
  <2>2. Ledger(Described)'
    <3>1. SpoiledStays /\ spoiled' = "damage"
      BY <1>2 DEF SpoiledStays
    <3>2. Ledger(Described)
      BY DEF IInv, Sealed
    <3> QED  BY <1>2, <2>1, <3>1, <3>2 DEF Ledger
  <2> QED  BY <1>2, <2>1, <2>2 DEF IInv, Sealed
<1>7. Metadata'
  BY <1>2 DEF IInv, Metadata
<1>8. TypeOK'
  <2>1. \A j \in Partitions : disk'[j] \o buffer'[j] \in Seq(0..MaxSeq)
    BY <1>4, ConcatProperties DEF Shape
  <2> QED  BY <1>1, <1>2, <2>1 DEF IInv, TypeOK
<1> QED  BY <1>4, <1>5, <1>6, <1>7, <1>8 DEF IInv

LEMMA NextInvariant == IInv /\ [Next]_vars => IInv'
<1>1. CASE Next
  <2>1. ASSUME IInv, NEW k \in Partitions,
               Write(k) \/ WriteFails(k) \/ CloseFile(k) \/ (\E n \in 1..MaxSeq : Spill(k, n)) \/ Damage(k)
        PROVE  IInv'
    BY <2>1, WriteInv, WriteFailsInv, CloseFileInv, SpillInv, DamageInv
  <2> QED  BY <1>1, <2>1, TearSessionInv, WriteSessionInv, OpenSessionInv, FinalizeInv,
              TearManifestInv, WriteManifestInv, EndFinalizeInv, KillInv, AbandonInv DEF Next
<1>2. CASE UNCHANGED vars
  <2> SUFFICES ASSUME IInv PROVE IInv'
    OBVIOUS
  <2>1. Still /\ UNCHANGED <<phase, state, session, manifest>>
    BY <1>2 DEF vars, memory, parts, Still
  <2>2. Shape' /\ Open' /\ Window'
    BY <2>1, StillFiles DEF IInv, Open, Recording, AfterClosing
  <2>3. Sealed'
    BY <2>1, StillSealed DEF Still, parts
  <2>4. Metadata' /\ TypeOK'
    BY <2>1 DEF IInv, Metadata, TypeOK, Still, parts
  <2> QED  BY <2>2, <2>3, <2>4 DEF IInv
<1> QED  BY <1>1, <1>2

LEMMA Invariance == Spec => []IInv
<1>1. Init => IInv
  BY InitInvariant
<1>2. IInv /\ [Next]_vars => IInv'
  BY NextInvariant
<1> QED  BY <1>1, <1>2, PTL DEF Spec

------------------------------------------------------------------------------
(* What follows from it *)

\* Every variable has its type.
THEOREM TypeCorrectness == Spec => []TypeOK
<1>1. IInv => TypeOK
  BY DEF IInv
<1> QED  BY <1>1, Invariance, PTL

\* A crash costs fewer events than flush_every: those that no file holds are
\* among the last ones written, since the flush.
THEOREM LossIsBounded == Spec => []LossWindow
<1>1. ASSUME IInv PROVE LossWindow
  <2> SUFFICES ASSUME spoiled = "no", FlushEvery > 0
               PROVE  Cardinality(acked \ OnDisk) < FlushEvery
    BY DEF LossWindow, OnDisk
  <2>1. /\ seq \in Nat /\ unflushed \in Nat /\ unflushed <= seq /\ FlushEvery \in Nat
        /\ acked \subseteq 1..seq
    BY <1>1, Types DEF IInv
  <2>2. /\ \A n \in acked : n <= seq - unflushed => n \in OnDisk
        /\ unflushed < FlushEvery
    BY <1>1 DEF IInv, Window
  <2> DEFINE Newest == (seq - unflushed + 1)..seq
             c == Cardinality(Newest)
             d == Cardinality(acked \ OnDisk)
  <2>3. acked \ OnDisk \in SUBSET Newest
    <3>1. ASSUME NEW n \in acked \ OnDisk PROVE n \in Newest
      BY <2>1, <2>2
    <3> QED  BY <3>1
  <2>4. IsFiniteSet(Newest) /\ c = unflushed
    BY <2>1, FS_Interval
  <2>5. d <= c /\ d \in Nat
    BY <2>3, <2>4, FS_Subset, FS_CardinalityType
  <2> HIDE DEF c, d
  <2>6. d < FlushEvery
    BY <2>1, <2>2, <2>4, <2>5
  <2> QED  BY <2>6 DEF d
<1> QED  BY <1>1, Invariance, PTL

\* The entries of a complete manifest, and that their counts make up its own.
LEMMA CompleteManifest ==
  ASSUME IInv, manifest.state = "COMPLETE"
  PROVE  /\ \A e \in manifest.parts : /\ e.key \in Keys /\ e.count = counts[e.key]
                                      /\ e.sum = Described[e.key]
         /\ IsFiniteSet(Keys) /\ Keys \subseteq Partitions
         /\ \A k \in Keys : \E e \in manifest.parts : e.key = k
         /\ manifest.count = SumFunctionOnSet(counts, Keys)
         /\ manifest.count = SumFunction([e \in manifest.parts |-> e.count])
         /\ manifest.sum = <<manifest.state, manifest.count, manifest.parts>>
<1>1. manifest = Manifest("COMPLETE", SumFunctionOnSet(counts, Partitions),
                          {DescribedEntry(k) : k \in Keys})
      /\ Keys \subseteq Partitions /\ \A k \in Partitions : counts[k] # 0 => k \in Keys
  BY DEF IInv, Sealed
<1>2. /\ manifest.parts = {DescribedEntry(k) : k \in Keys}
      /\ manifest.count = SumFunctionOnSet(counts, Partitions)
      /\ manifest.sum = <<manifest.state, manifest.count, manifest.parts>>
  BY <1>1, Zenon DEF Manifest
<1>3. IsFiniteSet(Keys) /\ IsFiniteSet(Partitions)
  BY <1>1, SinkAssumption, FS_Subset
<1>4. \A k \in Partitions : counts[k] \in Nat
  BY Types DEF IInv
<1>5. manifest.count = SumFunctionOnSet(counts, Keys)
  <2>1. Keys \in SUBSET Partitions /\ \A k \in Partitions \ Keys : counts[k] = 0
    BY <1>1
  <2> QED  BY <1>2, <1>3, <1>4, <2>1, SumOfZeros
<1>6. SumFunctionOnSet(counts, Keys) = SumFunction([e \in manifest.parts |-> e.count])
  <2> DEFINE h == [k \in Keys |-> DescribedEntry(k)]
             g == [e \in manifest.parts |-> e.count]
  <2>1. /\ \A k \in Keys : g[h[k]] = counts[k]
        /\ \A j, k \in Keys : h[j] = h[k] => j = k
        /\ {h[k] : k \in Keys} = manifest.parts
    BY <1>2 DEF DescribedEntry
  <2>2. SumFunction(g) = SumFunctionOnSet(g, manifest.parts)
    BY DEF SumFunction
  <2>3. \A k \in Keys : counts[k] \in Nat
    BY <1>1, <1>4
  <2>4. SumFunctionOnSet(counts, Keys) = SumFunctionOnSet(g, {h[k] : k \in Keys})
    <3> DEFINE S == Keys
               f == counts
    <3>1. IsFiniteSet(S) /\ \A x \in S : f[x] \in Nat
      BY <1>3, <2>3
    <3>2. (\A x \in S : g[h[x]] = f[x]) /\ \A x, y \in S : h[x] = h[y] => x = y
      BY <2>1
    <3> HIDE DEF g, h, f, S
    <3>3. SumFunctionOnSet(f, S) = SumFunctionOnSet(g, {h[x] : x \in S})
      BY <3>1, <3>2, SumImage
    <3> QED  BY <3>3 DEF f, S
  <2> QED  BY <2>1, <2>2, <2>4 DEF g
<1>7. \A e \in manifest.parts : /\ e.key \in Keys /\ e.count = counts[e.key]
                                /\ e.sum = Described[e.key]
  BY <1>2 DEF DescribedEntry
<1>8. \A k \in Keys : \E e \in manifest.parts : e.key = k
  BY DEF Keys
<1> QED  BY <1>1, <1>2, <1>3, <1>5, <1>6, <1>7, <1>8

\* A complete manifest speaks for an archive that passes the validation.
THEOREM CompleteArchivesPass == Spec => []CompleteIsValid
<1>1. ASSUME IInv PROVE CompleteIsValid
  <2> SUFFICES ASSUME manifest.state = "COMPLETE", session # "torn",
                      spoiled \in {"no", "write"}
               PROVE  Verdict = "valid"
    BY DEF CompleteIsValid
  <2>1. /\ \A e \in manifest.parts : /\ e.key \in Keys /\ e.count = counts[e.key]
                                     /\ e.sum = Described[e.key]
        /\ Keys \subseteq Partitions
        /\ manifest.count = SumFunction([e \in manifest.parts |-> e.count])
        /\ manifest.sum = <<manifest.state, manifest.count, manifest.parts>>
    BY <1>1, CompleteManifest
  <2>2. /\ files = Keys /\ \A k \in Keys : k \in ended /\ disk[k] = Described[k]
        /\ \A k \in Partitions : Len(Described[k]) = counts[k]
    BY <1>1 DEF IInv, Sealed, Ledger
  <2>3. MetadataLoads
    BY <1>1 DEF IInv, Metadata, MetadataLoads
  <2>4. PartitionsAdd
    BY <2>1, <2>2 DEF PartitionsAdd
  <2>5. \A e \in manifest.parts : /\ Readable(e.key) /\ disk[e.key] = e.sum
                                  /\ Len(disk[e.key]) = e.count
    BY <2>1, <2>2 DEF Readable
  <2>6. ChecksumsMatch
    BY <2>1, <2>5 DEF ChecksumsMatch
  <2> QED  BY <2>3, <2>4, <2>5, <2>6 DEF Verdict
<1> QED  BY <1>1, Invariance, PTL

\* A complete archive that passes the validation reads back whole.
THEOREM ValidArchivesAreWhole == Spec => []ValidIsWhole
<1>1. ASSUME IInv PROVE ValidIsWhole
  <2> SUFFICES ASSUME manifest.state = "COMPLETE", Verdict = "valid"
               PROVE  /\ ~ReadRaises
                      /\ \A n \in acked : TimesRead(n) = 1
                      /\ SumFunction([k \in ReadFiles |-> Len(disk[k])]) = manifest.count
    BY DEF ValidIsWhole
  <2>1. /\ \A e \in manifest.parts : /\ e.key \in Keys /\ e.count = counts[e.key]
                                     /\ e.sum = Described[e.key]
        /\ IsFiniteSet(Keys) /\ Keys \subseteq Partitions
        /\ \A k \in Keys : \E e \in manifest.parts : e.key = k
        /\ manifest.count = SumFunctionOnSet(counts, Keys)
    BY <1>1, CompleteManifest
  <2>2. /\ PartitionsAdd /\ ChecksumsMatch
        /\ \A e \in manifest.parts : Readable(e.key) /\ Len(disk[e.key]) = e.count
    BY DEF Verdict
  <2>3. \A k \in Keys : /\ k \in files /\ Readable(k) /\ disk[k] = Described[k]
                        /\ Len(disk[k]) = counts[k]
    BY <2>1, <2>2 DEF PartitionsAdd, ChecksumsMatch
  <2>4. ReadFiles = Keys
    <3>1. files \subseteq Keys /\ Keys = {e.key : e \in manifest.parts}
      BY <1>1 DEF IInv, Sealed, Keys
    <3> QED  BY <2>3, <3>1 DEF ReadFiles
  <2>5. ~ReadRaises
    BY <2>3, <2>4 DEF ReadRaises
  <2>6. /\ seq \in Nat /\ seq <= MaxSeq /\ MaxSeq \in Nat
        /\ \A k \in Partitions : counts[k] \in Nat /\ counts[k] <= seq
    BY <1>1, Types DEF IInv
  <2>7. Ledger(Described)
    BY <1>1 DEF IInv, Sealed
  <2>8. ASSUME NEW n \in acked PROVE TimesRead(n) = 1
    <3>0. PICK k \in Partitions : \E i \in 1..Len(Described[k]) : Described[k][i] = n
      <4>1. \A k \in Partitions : ~ (Len(Described[k]) < counts[k])
        <5>1. \A k \in Keys : Len(Described[k]) = counts[k]
          BY <2>3
        <5>2. \A k \in Partitions \ Keys : counts[k] = 0
          BY <1>1 DEF IInv, Sealed
        <5>3. \A k \in Partitions : Len(Described[k]) \in Nat
          BY <2>7, LenProperties DEF Ledger
        <5> QED  BY <2>6, <5>1, <5>2, <5>3
      <4> QED  BY <2>7, <4>1 DEF Ledger
    <3>1. PICK i \in 1..Len(Described[k]) : Described[k][i] = n
      BY <3>0
    <3>2. k \in Keys
      BY <3>1 DEF Described
    <3>3. i \in 1..MaxSeq /\ i <= Len(disk[k]) /\ disk[k][i] = n
      BY <2>1, <2>3, <2>6, <3>1, <3>2
    <3> DEFINE P == {p \in ReadFiles \X (1..MaxSeq) :
                        p[2] <= Len(disk[p[1]]) /\ disk[p[1]][p[2]] = n}
    <3>4. ASSUME NEW p \in P PROVE p = <<k, i>>
      <4>1. /\ p = <<p[1], p[2]>> /\ p[1] \in Keys /\ p[1] \in Partitions
            /\ p[2] \in 1..Len(Described[p[1]]) /\ Described[p[1]][p[2]] = n
        BY <2>1, <2>3, <2>4, <2>6
      <4>2. p[1] = k /\ p[2] = i
        BY <2>7, <3>1, <4>1 DEF Ledger
      <4> QED  BY <4>1, <4>2
    <3>5. <<k, i>> \in P
      BY <2>4, <3>2, <3>3
    <3>6. P = {<<k, i>>}
      BY <3>4, <3>5
    <3> QED  BY <3>6, FS_Singleton DEF TimesRead
  <2>9. SumFunction([k \in ReadFiles |-> Len(disk[k])]) = manifest.count
    <3> DEFINE g == [k \in Keys |-> Len(disk[k])]
    <3>1. \A k \in Keys : counts[k] \in Nat /\ g[k] = counts[k]
      BY <2>1, <2>3, <2>6
    <3>2. SumFunction(g) = SumFunctionOnSet(g, Keys)
      BY DEF SumFunction
    <3> HIDE DEF g
    <3>3. SumFunctionOnSet(counts, Keys) = SumFunctionOnSet(g, Keys)
      BY <2>1, <3>1, SumEqual, Zenon
    <3> QED  BY <2>1, <2>4, <3>2, <3>3 DEF g
  <2> QED  BY <2>5, <2>8, <2>9
<1> QED  BY <1>1, Invariance, PTL
=============================================================================
