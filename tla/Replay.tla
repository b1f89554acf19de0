------------------------------- MODULE Replay -------------------------------
(***************************************************************************)
(* replay/engine.py and replay/cursor.py: the task that runs               *)
(* ReplayEngine.run, and an operator (another task of the same loop) who   *)
(* calls pause, resume, step and stop whenever the run awaits something.   *)
(*                                                                         *)
(* The events are 1..N, as read_events and filter_events returned them.    *)
(* What the run awaits is in pc:                                           *)
(*   waiting     a turn of wait_while_paused, asyncio.sleep(0.05)          *)
(*   sleeping    the time between two events, if it is not zero            *)
(*   publishing  a subscriber of the bus                                   *)
(* A step is what the run does from one await to the next.                 *)
(***************************************************************************)
EXTENDS Integers, FiniteSets

CONSTANTS N,         \* the number of events to replay
          MaxCalls   \* bound: calls of the operator

ASSUME ReplayAssumption == N \in Nat /\ MaxCalls \in Nat

VARIABLES
    paced,          \* the events that come later than the one before them
    pc,             \* what the run awaits; "ended" or "raised" after it
    next,           \* the event of this turn of the loop
    emitted,        \* emitted
    state,          \* ReplayCursor.state
    stepRequested,  \* ReplayCursor._step_requested
    stop,           \* ReplayEngine._stop
    calls,          \* the calls of the operator so far
    steps,          \* history: calls of step since the cursor was paused
    let,            \* history: events published paused since the cursor was paused
    late            \* history: events published since stop was called

cursor == <<state, stepRequested>>
operator == <<paced, stop, calls, steps>>
history == <<let, late>>
vars == <<pc, next, emitted, cursor, operator, history>>

Init == /\ paced \in SUBSET (2..N)
        /\ pc = "top" /\ next = 1 /\ emitted = 0
        /\ state = "playing" /\ stepRequested = FALSE /\ stop \in BOOLEAN
        /\ calls = 0 /\ steps = 0 /\ let = 0 /\ late = 0

\* Mutant of ShouldWait: a request for a step is not looked at.
ShouldWaitWhenPaused == state = "paused"

\* Mutant of ShouldWait: a cursor that was stopped waits too.
ShouldWaitUnlessPlaying == state # "playing" /\ ~stepRequested

\* should_wait.
ShouldWait == state = "paused" /\ ~stepRequested

\* Mutant of Stopped: the cursor is asked, which pause and resume have changed.
StoppedByCursor == state = "stopped"

\* _stop.
Stopped == stop

\* Mutant of AllDone: one turn too many.
AllDoneLate == next > N + 1

\* The loop over the events has come to its end.
AllDone == next > N

------------------------------------------------------------------------------
(* ReplayEngine.run *)

\* The loop is over: stopped, or completed.
End == /\ pc' = "ended"
       /\ state' = IF Stopped THEN "stopped" ELSE "completed"
       /\ UNCHANGED <<next, emitted, stepRequested, operator, history>>

\* Mutant of StepAfter: a step is never used up.
StepAfterKept == stepRequested

\* consume_step, if the cursor is paused.
StepAfter == stepRequested /\ state # "paused"

\* publish awaits a subscriber, raises, or is done; then the cursor advances
\* and a step is used up.  What it began while paused or stopped is counted.
Publish ==
    /\ let' = IF pc # "publishing" /\ state = "paused" THEN let + 1 ELSE let
    /\ late' = IF pc # "publishing" /\ stop THEN late + 1 ELSE late
    /\ \/ /\ pc # "publishing" /\ pc' = "publishing"
          /\ UNCHANGED <<next, emitted, cursor, operator>>
       \/ /\ pc' = "raised"
          /\ UNCHANGED <<next, emitted, cursor, operator>>
       \/ /\ pc' = "top"
          /\ next' = next + 1 /\ emitted' = emitted + 1
          /\ stepRequested' = StepAfter
          /\ UNCHANGED <<state, operator>>

\* The cursor lets the event through.
Through ==
    IF Stopped THEN End
    ELSE IF next \in paced
    THEN pc' = "sleeping" /\ UNCHANGED <<next, emitted, cursor, operator, history>>
    ELSE Publish

\* The top of the loop.
Turn ==
    /\ pc = "top"
    /\ IF AllDone \/ Stopped THEN End
       ELSE IF ShouldWait
       THEN pc' = "waiting" /\ UNCHANGED <<next, emitted, cursor, operator, history>>
       ELSE Through

\* Another turn of wait_while_paused.
Poll == /\ pc = "waiting" /\ ~ShouldWait
        /\ Through

Wake == pc = "sleeping" /\ Publish

Return == pc = "publishing" /\ Publish

Run == Turn \/ Poll \/ Wake \/ Return

------------------------------------------------------------------------------
(* The operator *)

Awaiting == pc \in {"waiting", "sleeping", "publishing"}

Call == /\ Awaiting /\ calls < MaxCalls
        /\ calls' = calls + 1
        /\ UNCHANGED <<paced, pc, next, emitted, late>>

Pause == /\ Call
         /\ state' = "paused"
         /\ IF state = "paused" THEN UNCHANGED <<steps, let>>
            ELSE steps' = 0 /\ let' = 0
         /\ UNCHANGED <<stepRequested, stop>>

Resume == /\ Call
          /\ state' = "playing" /\ stepRequested' = FALSE
          /\ UNCHANGED <<stop, steps, let>>

Step == /\ Call
        /\ stepRequested' = TRUE
        /\ steps' = steps + 1
        /\ UNCHANGED <<state, stop, let>>

Stop == /\ Call
        /\ stop' = TRUE /\ state' = "stopped"
        /\ UNCHANGED <<stepRequested, steps, let>>

Next == Run \/ Pause \/ Resume \/ Step \/ Stop

Spec == Init /\ [][Next]_vars

\* The loop runs the task whenever it can go on; the operator is free.
FairSpec == Spec /\ WF_vars(Run)

------------------------------------------------------------------------------
(* Properties *)

\* Every variable has its type.
TypeOK ==
    /\ paced \subseteq 2..N
    /\ pc \in {"top", "waiting", "sleeping", "publishing", "ended", "raised"}
    /\ next \in 1..(N + 1) /\ emitted \in 0..N
    /\ state \in {"playing", "paused", "completed", "stopped"}
    /\ {stepRequested, stop} \subseteq BOOLEAN
    /\ calls \in 0..MaxCalls /\ steps \in 0..MaxCalls
    /\ let \in 0..N /\ late \in 0..N

Over == pc \in {"ended", "raised"}

\* A pause lets at most one event through that no step asked for: the one under
\* way when it came, or the one of a step asked for before it, never both.
OneWithoutStep == let <= steps + 1

\* stop lets at most one event out, the one under way.
OneAfterStop == late <= 1

\* A step that is asked for while the run waits brings an event, unless the
\* operator resumes or stops it first.
StepAdvances ==
    \A k \in 0..N : (pc = "waiting" /\ stepRequested /\ emitted = k)
                      ~> (emitted > k \/ Over \/ ~stepRequested \/ stop)

\* A run that is left playing comes to its end, and so does one that is stopped
\* and not paused after that.
PlaysToItsEnd == <>[](state \in {"playing", "stopped"}) => <>Over

\* "Allow one event through while paused": a step that is asked for while the
\* cursor is paused, an event still on its way to the subscribers, lets the next
\* event through, unless the operator resumes or stops the run.
StepServed ==
    \A k \in 1..N :
       (pc = "publishing" /\ next = k /\ state = "paused" /\ stepRequested)
          ~> \/ next > k + 1 \/ (next = k + 1 /\ pc \in {"sleeping", "publishing"})
             \/ Over \/ state # "paused"
==============================================================================
