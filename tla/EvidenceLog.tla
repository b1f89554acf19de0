----------------------------- MODULE EvidenceLog -----------------------------
(***************************************************************************)
(* What the recorder promises of the evidence it keeps, whatever tasks,    *)
(* subscribers and failures are behind it: a log of sequence numbers that  *)
(* only grows, by one number at a time and always by one larger than every *)
(* number in it, and that never changes again once it is sealed.           *)
(***************************************************************************)
EXTENDS Integers, Sequences

VARIABLES log,     \* the sequence numbers recorded so far, oldest first
          sealed   \* TRUE once the archive is final

LogInit == log = << >> /\ sealed = FALSE

\* One number more; the event that closes a session is recorded by the step
\* that seals it.
Record == /\ ~sealed
          /\ Len(log') = Len(log) + 1
          /\ log' = Append(log, log'[Len(log) + 1])
          /\ \A i \in 1..Len(log) : log[i] < log'[Len(log) + 1]
          /\ sealed' \in BOOLEAN

LogSpec == LogInit /\ [][Record]_<<log, sealed>>
==============================================================================
