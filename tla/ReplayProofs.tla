----------------------------- MODULE ReplayProofs -----------------------------
(***************************************************************************)
(* Proofs about Replay, for any number of events and calls of the operator. *)
(***************************************************************************)
EXTENDS Replay, TLAPS

------------------------------------------------------------------------------
(* The invariant *)

\* The event of this turn is on its way to the subscribers, or was when one raised.
Begun == IF pc \in {"publishing", "raised"} THEN 1 ELSE 0

\* The events before this turn's have been emitted; the run awaits something only
\* for an event there is.
Position ==
    /\ emitted = next - 1
    /\ pc \notin {"top", "ended"} => next <= N
    /\ let <= next - 1 + Begun /\ late <= next - 1 + Begun
    /\ steps <= calls

\* One more event is certain to be let through a paused cursor: it is past the
\* cursor already and sleeps, or a step was asked for with no event on its way.
OneMore ==
    IF pc = "sleeping" \/ (stepRequested /\ pc \in {"top", "waiting"}) THEN 1 ELSE 0

\* What was let through, and what certainly will be, was asked for, but for one.
AskedFor ==
    /\ let <= steps + 1
    /\ state = "paused" => let + OneMore <= steps + 1

\* Of a run that is stopped only the event that sleeps can still come.
UnderWay ==
    /\ late <= 1
    /\ ~stop \/ pc = "sleeping" => late = 0

IInv == TypeOK /\ Position /\ AskedFor /\ UnderWay

------------------------------------------------------------------------------
(* The steps *)

LEMMA InitInvariant == Init => IInv
<1> SUFFICES ASSUME Init PROVE IInv
  OBVIOUS
<1>1. TypeOK
  <2>1. paced \subseteq 2..N /\ stepRequested \in BOOLEAN /\ stop \in BOOLEAN
    BY DEF Init
  <2>2. next \in 1..(N + 1) /\ emitted \in 0..N /\ let \in 0..N /\ late \in 0..N
        /\ calls \in 0..MaxCalls /\ steps \in 0..MaxCalls
    BY ReplayAssumption DEF Init
  <2> QED  BY <2>1, <2>2 DEF Init, TypeOK
<1>2. Position /\ AskedFor /\ UnderWay
  BY DEF Init, Position, Begun, OneMore, AskedFor, UnderWay
<1> QED  BY <1>1, <1>2 DEF IInv

\* The numbers and flags of TypeOK.
LEMMA Numbers ==
  ASSUME TypeOK
  PROVE  /\ next \in 1..(N + 1) /\ emitted \in 0..N /\ calls \in 0..MaxCalls
         /\ steps \in 0..MaxCalls /\ let \in 0..N /\ late \in 0..N
         /\ stepRequested \in BOOLEAN /\ stop \in BOOLEAN
BY DEF TypeOK

\* The loop ends.
LEMMA EndInv ==
  ASSUME IInv, pc \in {"top", "waiting"}, End
  PROVE  IInv'
<1>1. /\ pc' = "ended" /\ state' \in {"stopped", "completed"}
      /\ UNCHANGED <<next, emitted, stepRequested, paced, stop, calls, steps, let, late>>
  BY DEF End, operator, history
<1>2. TypeOK'
  BY <1>1 DEF IInv, TypeOK
<1>3. Position' /\ AskedFor' /\ UnderWay'
  BY <1>1, Numbers, ReplayAssumption
     DEF IInv, Position, Begun, AskedFor, OneMore, UnderWay
<1> QED  BY <1>2, <1>3 DEF IInv

\* An event is published, or its publication goes on: a paused cursor lets a new
\* one through only if it sleeps or was asked for, a stopped run only if it sleeps.
LEMMA PublishInv ==
  ASSUME IInv, pc \in {"top", "waiting", "sleeping", "publishing"}, next <= N, Publish,
         state = "paused" /\ pc # "publishing" => OneMore = 1,
         stop /\ pc # "publishing" => pc = "sleeping"
  PROVE  IInv'
<1> USE Numbers, ReplayAssumption DEF IInv
<1>1. /\ let' = (IF pc # "publishing" /\ state = "paused" THEN let + 1 ELSE let)
      /\ late' = (IF pc # "publishing" /\ stop THEN late + 1 ELSE late)
      /\ UNCHANGED <<state, paced, stop, calls, steps>>
  BY DEF Publish, cursor, operator
<1>2. \/ /\ pc' \in {"publishing", "raised"}
         /\ UNCHANGED <<next, emitted, stepRequested>>
      \/ /\ pc' = "top" /\ next' = next + 1 /\ emitted' = emitted + 1
         /\ stepRequested' = (stepRequested /\ state # "paused")
  BY DEF Publish, cursor, StepAfter
<1>3. Position'
  BY <1>1, <1>2 DEF Position, Begun
<1>4. AskedFor'
  <2>1. CASE state = "paused"
    <3>1. pc' = "top" => ~stepRequested'
      BY <2>1 DEF Publish, StepAfter
    <3> QED  BY <1>1, <1>2, <2>1, <3>1 DEF AskedFor, OneMore
  <2>2. CASE state # "paused"
    BY <1>1, <1>2, <2>2 DEF AskedFor, OneMore
  <2> QED  BY <2>1, <2>2
<1>5. UnderWay'
  BY <1>1, <1>2 DEF UnderWay
<1>6. let' \in 0..N /\ late' \in 0..N /\ next' \in 1..(N + 1) /\ emitted' \in 0..N
  BY <1>1, <1>2, <1>3 DEF Position, Begun
<1>7. TypeOK'
  BY <1>1, <1>2, <1>6 DEF TypeOK
<1> QED  BY <1>3, <1>4, <1>5, <1>7

\* The run goes to sleep, or waits on.
LEMMA AwaitInv ==
  ASSUME IInv, next <= N, pc \in {"top", "waiting"}, pc' \in {"waiting", "sleeping"},
         UNCHANGED <<next, emitted, cursor, operator, history>>,
         pc' = "sleeping" => (state = "paused" => OneMore = 1) /\ ~stop
  PROVE  IInv'
<1> USE Numbers, ReplayAssumption DEF IInv
<1>1. UNCHANGED <<next, emitted, state, stepRequested, paced, stop, calls, steps, let, late>>
  BY DEF cursor, operator, history
<1>2. TypeOK'
  BY <1>1 DEF TypeOK
<1>3. Position'
  BY <1>1 DEF Position, Begun
<1>4. AskedFor' /\ UnderWay'
  BY <1>1 DEF AskedFor, OneMore, UnderWay
<1> QED  BY <1>2, <1>3, <1>4

\* The cursor lets an event through.
LEMMA ThroughInv ==
  ASSUME IInv, next <= N, pc \in {"top", "waiting"}, ~ShouldWait, Through
  PROVE  IInv'
<1>1. state = "paused" => OneMore = 1
  BY DEF ShouldWait, OneMore
<1>2. CASE stop
  BY <1>2, EndInv DEF Through, Stopped
<1>3. CASE ~stop /\ next \in paced
  BY <1>1, <1>3, AwaitInv DEF Through, Stopped
<1>4. CASE ~stop /\ next \notin paced
  BY <1>1, <1>4, PublishInv DEF Through, Stopped
<1> QED  BY <1>2, <1>3, <1>4

LEMMA NextInvariant == IInv /\ [Next]_vars => IInv'
<1> SUFFICES ASSUME IInv, [Next]_vars PROVE IInv'
  OBVIOUS
<1>1. CASE Turn
  <2>1. CASE AllDone \/ Stopped
    BY <1>1, <2>1, EndInv DEF Turn
  <2>2. CASE ~AllDone /\ ~Stopped
    <3>1. next <= N
      BY <2>2, Numbers, ReplayAssumption DEF AllDone, IInv
    <3>2. CASE ShouldWait
      BY <1>1, <2>2, <3>1, <3>2, AwaitInv DEF Turn
    <3>3. CASE ~ShouldWait
      BY <1>1, <2>2, <3>1, <3>3, ThroughInv DEF Turn
    <3> QED  BY <3>2, <3>3
  <2> QED  BY <2>1, <2>2
<1>2. CASE Poll
  BY <1>2, ThroughInv DEF Poll, IInv, Position
<1>3. CASE Wake
  BY <1>3, PublishInv DEF Wake, IInv, Position, OneMore
<1>4. CASE Return
  BY <1>4, PublishInv DEF Return, IInv, Position
<1>5. CASE Pause \/ Resume \/ Step \/ Stop
  <2> USE Numbers, ReplayAssumption DEF IInv
  <2>1. /\ calls' = calls + 1 /\ calls < MaxCalls
        /\ UNCHANGED <<paced, pc, next, emitted, late>>
    BY <1>5 DEF Pause, Resume, Step, Stop, Call
  <2>2. \/ /\ state' = "paused" /\ UNCHANGED <<stepRequested, stop>>
           /\ IF state = "paused" THEN UNCHANGED <<steps, let>>
              ELSE steps' = 0 /\ let' = 0
        \/ state' = "playing" /\ stepRequested' = FALSE /\ UNCHANGED <<stop, steps, let>>
        \/ stepRequested' = TRUE /\ steps' = steps + 1 /\ UNCHANGED <<state, stop, let>>
        \/ stop' = TRUE /\ state' = "stopped" /\ UNCHANGED <<stepRequested, steps, let>>
    BY <1>5 DEF Pause, Resume, Step, Stop
  <2>3. Position' /\ steps' \in 0..MaxCalls /\ let' \in 0..N /\ calls' \in 0..MaxCalls
    BY <2>1, <2>2 DEF Position, Begun
  <2>4. AskedFor'
    BY <2>1, <2>2 DEF AskedFor, OneMore
  <2>5. UnderWay'
    BY <2>1, <2>2 DEF UnderWay
  <2>6. TypeOK'
    BY <2>1, <2>2, <2>3 DEF TypeOK
  <2> QED  BY <2>3, <2>4, <2>5, <2>6
<1>6. CASE UNCHANGED vars
  BY <1>6 DEF vars, cursor, operator, history, IInv, TypeOK, Position, Begun, AskedFor,
              OneMore, UnderWay
<1> QED  BY <1>1, <1>2, <1>3, <1>4, <1>5, <1>6 DEF Next, Run

LEMMA Invariance == Spec => []IInv
BY InitInvariant, NextInvariant, PTL DEF Spec

------------------------------------------------------------------------------
(* The theorems *)

\* Every variable keeps its type: the run's position and the events it has emitted
\* stay within the N there are, and so do the counts of the events that a pause or
\* a stop let out, however often the operator calls.
THEOREM TypeCorrectness == Spec => []TypeOK
<1>1. IInv => TypeOK
  BY DEF IInv
<1> QED  BY <1>1, Invariance, PTL

\* However the operator pauses, resumes and steps while the run awaits, a paused
\* cursor lets at most one event through that no step asked for (OneWithoutStep).
THEOREM AtMostOneWithoutStep == Spec => []OneWithoutStep
<1>1. IInv => OneWithoutStep
  BY DEF IInv, AskedFor, OneWithoutStep
<1> QED  BY <1>1, Invariance, PTL

\* After stop at most one event is published, the one that slept (OneAfterStop).
THEOREM AtMostOneAfterStop == Spec => []OneAfterStop
<1>1. IInv => OneAfterStop
  BY DEF IInv, UnderWay, OneAfterStop
<1> QED  BY <1>1, Invariance, PTL
==============================================================================
