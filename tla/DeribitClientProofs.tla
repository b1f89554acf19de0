------------------------ MODULE DeribitClientProofs ------------------------
(***************************************************************************)
(* Proofs about DeribitClient, for any number of sockets, any scenarios of *)
(* trouble and any bound of the delay.                                     *)
(*                                                                         *)
(* Who can be where, and that reader 1 comes after the runner if that      *)
(* connects, is Stages.  From it: there is a current connection or a       *)
(* reader on its way to one (Restoring), because whoever destroys a        *)
(* connection is itself on its way, unless it ends at an event it cannot   *)
(* emit (fallen).  While at most one feed is replaced it is reader 1 that  *)
(* replaces it (OnlyFirst); what can be fed at each of its stages is the   *)
(* reader that the next cleanup ends (Feeds), and an outage that is not    *)
(* reported has been noted (Noted).                                        *)
(***************************************************************************)
EXTENDS DeribitClient, TLAPS

------------------------------------------------------------------------------
(* What the procedures do *)

States == {"DISCONNECTED", "CONNECTING", "CONNECTED", "AUTHENTICATED", "RECONNECTING"}

Places == {"unborn", "up", "starting", "idle", "reading", "cancelling", "closing",
           "backoff", "lock", "opening", "auth", "heartbeat", "resubscribe", "stopping",
           "off", "aborted", "done"}

Replies == {"none", "wait", "reply", "error", "failed"}

\* Task t is at c and the others are where they were.
Moves(t, c) == /\ pc' \in [Tasks -> Places]
               /\ pc'[t] = c
               /\ \A u \in Tasks \ {t} : pc'[u] = pc[u]

\* What the client's fields can be before a cleanup.
Fields == [ws : 0..MaxSockets, state : States, attempt : 0..MaxAttempt, authed : BOOLEAN]

\* The types of what a cleanup changes besides pc; no task that has ended at an
\* event comes back.
CleanTypes == /\ readerTask' \in 0..MaxSockets /\ attempt' \in 0..MaxAttempt
              /\ target' \in [Tasks -> 0..MaxSockets]
              /\ pend' \in [Tasks -> Replies]
              /\ \A u \in Tasks : pend'[u] = "wait" => pend[u] = "wait"
              /\ fallen' \in BOOLEAN /\ (fallen => fallen')

LEMMA TasksAreDistinct ==
  /\ main \in Tasks /\ runner \in Tasks /\ main # runner
  /\ main \notin Sockets /\ runner \notin Sockets /\ 0 \notin Tasks
  /\ 1 \in Sockets /\ Sockets \subseteq Tasks /\ Sockets \subseteq 0..MaxSockets
  /\ \A t \in Tasks : t \in Sockets \/ t = main \/ t = runner
  /\ MaxSockets \in Nat /\ MaxAttempt \in Nat
BY ClientAssumption DEF Tasks, Sockets

LEMMA MoveTypes ==
  ASSUME TypeOK, NEW t \in Tasks, NEW c \in Places, pc' = [pc EXCEPT ![t] = c]
  PROVE  Moves(t, c)
BY DEF TypeOK, Moves, Places

\* What a step has made of the fields is what they can be.
LEMMA FoundTypes ==
  ASSUME TypeOK
  PROVE  /\ Found \in Fields
         /\ [Found EXCEPT !.state = "AUTHENTICATED", !.authed = TRUE] \in Fields
         /\ \A n \in Sockets :
               [Found EXCEPT !.ws = n, !.state = "CONNECTED", !.attempt = 0] \in Fields
<1>1. /\ ws \in 0..MaxSockets /\ state \in States /\ attempt \in 0..MaxAttempt
      /\ authed \in BOOLEAN
  BY DEF TypeOK, States
<1>2. "CONNECTED" \in States /\ "AUTHENTICATED" \in States /\ 0 \in 0..MaxAttempt
  BY TasksAreDistinct DEF States
<1>3. Sockets \subseteq 0..MaxSockets
  BY TasksAreDistinct
<1>4. Found \in Fields
  BY <1>1 DEF Found, Fields
<1>5. [Found EXCEPT !.state = "AUTHENTICATED", !.authed = TRUE] \in Fields
  BY <1>2, <1>4 DEF Fields
<1>6. ASSUME NEW n \in Sockets
      PROVE  [Found EXCEPT !.ws = n, !.state = "CONNECTED", !.attempt = 0] \in Fields
  BY <1>2, <1>3, <1>4 DEF Fields
<1> QED  BY <1>4, <1>5, <1>6

\* Where the end of a cleanup leaves its task: main returns, a reader sleeps
\* before its next attempt, or ends at the event before the sleep.
Finishes(t) ==
    /\ state' = "DISCONNECTED"
    /\ \/ t = main /\ pc'[t] = "off"
       \/ t # main /\ pc'[t] = "backoff" /\ ~Refusing
       \/ t # main /\ pc'[t] = "done" /\ (Refusing \/ fallen')

\* No task of the client but a reader ends at an event in a cleanup.
MainIsCaught(t) == t = main => fallen' = fallen

LEMMA EndCleanupEffect ==
  ASSUME TypeOK, NEW t \in Tasks, NEW a \in 0..MaxAttempt, EndCleanup(t, a)
  PROVE  /\ attempt' \in 0..MaxAttempt /\ fallen' \in BOOLEAN /\ (fallen => fallen')
         /\ MainIsCaught(t) /\ Moves(t, pc'[t]) /\ Finishes(t)
<1>0. fallen \in BOOLEAN
  BY DEF TypeOK
<1>1. state' = "DISCONNECTED"
  BY DEF EndCleanup
<1>2. attempt' \in 0..MaxAttempt
  BY ClientAssumption DEF EndCleanup, Capped
<1>3. CASE t = main /\ pc' = [pc EXCEPT ![t] = "off"] /\ UNCHANGED fallen
  <2>1. Moves(t, "off")
    BY <1>3, MoveTypes DEF Places
  <2>2. Moves(t, pc'[t]) /\ pc'[t] = "off"
    BY <2>1 DEF Moves
  <2> QED  BY <1>0, <1>1, <1>2, <1>3, <2>2 DEF Finishes, MainIsCaught
<1>4. CASE t # main /\ ~Refusing /\ pc' = [pc EXCEPT ![t] = "backoff"] /\ UNCHANGED fallen
  <2>1. Moves(t, "backoff")
    BY <1>4, MoveTypes DEF Places
  <2>2. Moves(t, pc'[t]) /\ pc'[t] = "backoff"
    BY <2>1 DEF Moves
  <2> QED  BY <1>0, <1>1, <1>2, <1>4, <2>2 DEF Finishes, MainIsCaught
<1>5. CASE t # main /\ pc' = [pc EXCEPT ![t] = "done"] /\ fallen' = (fallen \/ ~Refusing)
  <2>1. Moves(t, "done")
    BY <1>5, MoveTypes DEF Places
  <2>2. Moves(t, pc'[t]) /\ pc'[t] = "done"
    BY <2>1 DEF Moves
  <2>3. fallen' \in BOOLEAN /\ (fallen => fallen') /\ (Refusing \/ fallen')
    BY <1>5, Zenon
  <2> QED  BY <1>1, <1>2, <1>5, <2>2, <2>3 DEF Finishes, MainIsCaught
<1> QED  BY <1>3, <1>4, <1>5, Zenon DEF EndCleanup

LEMMA SweepEffect ==
  ASSUME TypeOK, NEW t \in Tasks, NEW f \in Fields, Sweep(t, f)
  PROVE  /\ readerTask' = 0 /\ CleanTypes /\ MainIsCaught(t) /\ Moves(t, pc'[t])
         /\ \/ pc'[t] = "closing" /\ state' = f.state /\ fallen' = fallen
            \/ Finishes(t)
<1>0. fallen \in BOOLEAN /\ f.ws \in 0..MaxSockets /\ f.attempt \in 0..MaxAttempt
  BY DEF TypeOK, Fields
<1>1. readerTask' = 0 /\ 0 \in 0..MaxSockets
  BY ClientAssumption DEF Sweep
<1>2. /\ pend' \in [Tasks -> Replies]
      /\ \A u \in Tasks : pend'[u] = "wait" => pend[u] = "wait"
  <2>1. \A u \in Tasks : pend[u] \in Replies
    BY DEF TypeOK, Replies
  <2>2. \A u \in Tasks : (IF u = t THEN "none"
                          ELSE IF pend[u] = "wait" THEN "failed" ELSE pend[u]) \in Replies
    BY <2>1 DEF Replies
  <2>3. pend' = [u \in Tasks |-> IF u = t THEN "none"
                              ELSE IF pend[u] = "wait" THEN "failed" ELSE pend[u]]
    BY DEF Sweep
  <2> QED  BY <2>2, <2>3
<1>3. CASE f.ws # 0
  <2>1. /\ pc' = [pc EXCEPT ![t] = "closing"] /\ target' = [target EXCEPT ![t] = f.ws]
        /\ state' = f.state /\ attempt' = f.attempt /\ fallen' = fallen
    BY <1>3 DEF Sweep
  <2>2. Moves(t, "closing")
    BY <2>1, MoveTypes DEF Places
  <2>3. target' \in [Tasks -> 0..MaxSockets]
    BY <1>0, <2>1 DEF TypeOK
  <2>4. Moves(t, pc'[t]) /\ pc'[t] = "closing"
    BY <2>2 DEF Moves
  <2> QED  BY <1>0, <1>1, <1>2, <2>1, <2>3, <2>4 DEF CleanTypes, MainIsCaught
<1>4. CASE f.ws = 0
  <2>1. EndCleanup(t, f.attempt) /\ target' = [target EXCEPT ![t] = 0]
    BY <1>4 DEF Sweep
  <2>2. target' \in [Tasks -> 0..MaxSockets]
    BY <1>1, <2>1 DEF TypeOK
  <2> QED  BY <1>0, <1>1, <1>2, <2>1, <2>2, EndCleanupEffect DEF CleanTypes
<1> QED  BY <1>3, <1>4

\* A cleanup takes its task on and may end the current reader, which is not
\* reading any more.
CleansUp(t) ==
    /\ CleanTypes /\ MainIsCaught(t)
    /\ pc' \in [Tasks -> Places] /\ readerTask' \in {0, readerTask}
    /\ pc'[t] \in {"cancelling", "closing"} \/ Finishes(t)
    /\ \A u \in Tasks \ {t} :
          pc'[u] = pc[u] \/ (pc[u] = "reading" /\ pc'[u] = "done" /\ u = readerTask)
    /\ \A r \in Sockets : r = readerTask => pc'[r] # "reading"

LEMMA CleanupEffect ==
  ASSUME TypeOK, NEW t \in Tasks, NEW f \in Fields, Cleanup(t, f)
  PROVE  CleansUp(t) /\ (state' = f.state \/ Finishes(t))
<1>0. "cancelling" \in Places /\ "done" \in Places /\ fallen \in BOOLEAN
      /\ f.attempt \in 0..MaxAttempt
  BY DEF Places, TypeOK, Fields
<1>1. CASE readerTask # 0 /\ pc[readerTask] # "done"
  <2>1. /\ pc' = [u \in Tasks |-> IF u = t THEN "cancelling"
                                  ELSE IF u = readerTask /\ pc[u] = "reading"
                                  THEN "done" ELSE pc[u]]
        /\ target' = [target EXCEPT ![t] = readerTask]
        /\ pend' = [pend EXCEPT ![t] = "none"]
        /\ state' = f.state /\ attempt' = f.attempt
        /\ UNCHANGED <<readerTask, fallen>>
    BY <1>1 DEF Cleanup
  <2>2. \A u \in Tasks : pc[u] \in Places
    BY DEF TypeOK, Places
  <2>3. /\ pc'[t] = "cancelling" /\ pc' \in [Tasks -> Places]
        /\ \A u \in Tasks \ {t} : pc'[u] = pc[u] \/ (pc[u] = "reading" /\ pc'[u] = "done" /\ u = readerTask)
        /\ \A r \in Tasks : r = readerTask => pc'[r] # "reading"
    BY <1>0, <2>1, <2>2
  <2>4. CleanTypes
    BY <1>0, <2>1 DEF CleanTypes, TypeOK, Replies
  <2> QED  BY <2>1, <2>3, <2>4, TasksAreDistinct DEF CleansUp, MainIsCaught
<1>2. CASE ~ (readerTask # 0 /\ pc[readerTask] # "done")
  <2>1. Sweep(t, f)
    BY <1>2 DEF Cleanup
  <2>2. /\ readerTask' = 0 /\ CleanTypes /\ MainIsCaught(t) /\ Moves(t, pc'[t])
        /\ \/ pc'[t] = "closing" /\ state' = f.state
           \/ Finishes(t)
    BY <2>1, SweepEffect
  <2>3. \A r \in Sockets : r = readerTask => pc[r] # "reading"
    BY <1>2, TasksAreDistinct
  <2>4. pc'[t] # "reading"
    BY <2>2 DEF Finishes
  <2> QED  BY <2>2, <2>3, <2>4, TasksAreDistinct DEF CleansUp, Moves
<1> QED  BY <1>1, <1>2

\* A task that only ends.
JustEnds(t, f) ==
    /\ Moves(t, "done") /\ CleanTypes /\ readerTask' = readerTask
    /\ fallen' = fallen /\ authed' = f.authed /\ state' = f.state

LEMMA EndsEffect ==
  ASSUME TypeOK, NEW t \in Tasks, NEW f \in Fields, Ends(t, f)
  PROVE  JustEnds(t, f)
<1>1. /\ pc' = [pc EXCEPT ![t] = "done"] /\ pend' = [pend EXCEPT ![t] = "none"]
      /\ state' = f.state /\ attempt' = f.attempt /\ authed' = f.authed
      /\ UNCHANGED <<readerTask, target, fallen>>
  BY DEF Ends
<1>2. fallen \in BOOLEAN /\ f.attempt \in 0..MaxAttempt
  BY DEF TypeOK, Fields
<1>3. CleanTypes
  BY <1>1, <1>2 DEF CleanTypes, TypeOK, Replies
<1>4. Moves(t, "done")
  BY <1>1, MoveTypes DEF Places
<1> QED  BY <1>1, <1>3, <1>4 DEF JustEnds

\* A reader that reconnects cleans up, or ends if the client is shut down.
Reconnects(t, f) ==
    /\ lock' = IF lock = t THEN 0 ELSE lock
    /\ \/ shutdown /\ JustEnds(t, f)
       \/ ~shutdown /\ CleansUp(t) /\ authed' = FALSE
          /\ (state' = "RECONNECTING" \/ Finishes(t))

LEMMA ReconnectEffect ==
  ASSUME TypeOK, NEW t \in Tasks, NEW f \in Fields, Reconnect(t, f)
  PROVE  Reconnects(t, f)
<1>1. lock' = IF lock = t THEN 0 ELSE lock
  BY DEF Reconnect
<1>2. CASE shutdown /\ Ends(t, f)
  BY <1>1, <1>2, EndsEffect DEF Reconnects
<1>3. CASE ~shutdown /\ authed' = FALSE /\ Cleanup(t, [f EXCEPT !.state = "RECONNECTING"])
  <2>1. [f EXCEPT !.state = "RECONNECTING"] \in Fields
        /\ [f EXCEPT !.state = "RECONNECTING"].state = "RECONNECTING"
    BY DEF Fields, States
  <2>2. CleansUp(t) /\ (state' = "RECONNECTING" \/ Finishes(t))
    BY <1>3, <2>1, CleanupEffect
  <2> QED  BY <1>1, <1>3, <2>2 DEF Reconnects
<1> QED  BY <1>2, <1>3 DEF Reconnect

\* When connect() raises, a reader reconnects and the runner gives up.
Raises(t, f) ==
    \/ t # runner /\ Reconnects(t, f)
    \/ t = runner /\ JustEnds(t, f) /\ lock' = IF lock = t THEN 0 ELSE lock

LEMMA ConnectRaisesEffect ==
  ASSUME TypeOK, NEW t \in Tasks, NEW f \in Fields, ConnectRaises(t, f)
  PROVE  Raises(t, f)
<1>1. CASE t # runner
  BY <1>1, ReconnectEffect DEF ConnectRaises, Raises
<1>2. CASE t = runner
  BY <1>2, EndsEffect DEF ConnectRaises, Raises
<1> QED  BY <1>1, <1>2

------------------------------------------------------------------------------
(* Types *)

\* Trouble only grows.
LEMMA SufferEffect ==
  ASSUME TypeOK, NEW k \in Troubles, Suffer(k)
  PROVE  /\ troubles' \in [Troubles -> Nat] /\ troubles'[k] = troubles[k] + 1
         /\ \A j \in Troubles \ {k} : troubles'[j] = troubles[j]
BY DEF Suffer, TypeOK

\* No trouble, or one that ends no feed.
Harmless == troubles' = troubles \/ \E k \in {"closes", "faults", "refusals"} : Suffer(k)

LEMMA HarmlessTypes == TypeOK /\ Harmless => troubles' \in [Troubles -> Nat]
BY SufferEffect DEF Harmless, Troubles, TypeOK

LEMMA EmissionIsHarmless == EmissionRaises => Harmless
BY DEF EmissionRaises, Harmless

\* The types of the client's own variables.
ClientTypes ==
    /\ ws \in 0..MaxSockets /\ readerTask \in 0..MaxSockets /\ state \in States
    /\ attempt \in 0..MaxAttempt /\ lock \in Tasks \cup {0}
    /\ authed \in BOOLEAN /\ disconnectAt \in BOOLEAN /\ shutdown \in BOOLEAN
    /\ fallen \in BOOLEAN

\* The types of the tasks' states and requests.
TaskTypes ==
    /\ pc \in [Tasks -> Places] /\ target \in [Tasks -> 0..MaxSockets]
    /\ pend \in [Tasks -> Replies] /\ sentOn \in [Tasks -> 0..MaxSockets]

\* The types of the rest.
NetTypes ==
    /\ sock \in [Sockets -> {"unused", "open", "lost", "closed"}]
    /\ subscribed \subseteq Sockets /\ outage \in BOOLEAN
    /\ troubles \in [Troubles -> Nat]

LEMMA TypesSplit == TypeOK <=> ClientTypes /\ TaskTypes /\ NetTypes
BY DEF TypeOK, ClientTypes, TaskTypes, NetTypes, States, Places, Replies

LEMMA RaisesTypes ==
  ASSUME TypeOK, NEW t \in Tasks, NEW f \in Fields, Raises(t, f) \/ Reconnects(t, f),
         ws' \in 0..MaxSockets, sentOn' \in [Tasks -> 0..MaxSockets],
         UNCHANGED shutdown, disconnectAt' \in BOOLEAN
  PROVE  ClientTypes' /\ TaskTypes'
<1>0. ClientTypes /\ TaskTypes /\ f.state \in States /\ f.authed \in BOOLEAN
  BY TypesSplit DEF Fields
<1>1. /\ lock' \in Tasks \cup {0} /\ pc' \in [Tasks -> Places] /\ CleanTypes
      /\ readerTask' \in {0, readerTask}
  BY <1>0 DEF Raises, Reconnects, JustEnds, Moves, CleansUp, ClientTypes
<1>2. authed' \in {f.authed, FALSE}
  <2>1. CASE Reconnects(t, f)
    BY <2>1, Zenon DEF Reconnects, JustEnds
  <2>2. CASE JustEnds(t, f)
    BY <2>2, Zenon DEF JustEnds
  <2> QED  BY <2>1, <2>2 DEF Raises
<1>3. state' \in States
  BY <1>0 DEF Raises, Reconnects, JustEnds, Finishes, States
<1> QED  BY <1>0, <1>1, <1>2, <1>3 DEF ClientTypes, TaskTypes, CleanTypes

\* Entering connect.
Enters(t) ==
    \/ lock = 0 /\ lock' = t /\ state' = "CONNECTING" /\ Moves(t, "opening")
       /\ \A u \in Tasks : pc[u] = "lock" => pc[t] = "lock"
    \/ Moves(t, "lock") /\ lock' = lock /\ state' = state
       /\ (lock # 0 \/ \E u \in Tasks : pc[u] = "lock" /\ pc[t] # "lock")

LEMMA EnterEffect ==
  ASSUME TypeOK, NEW t \in Tasks, Enter(t)
  PROVE  Enters(t)
<1>1. CASE lock = 0 /\ \A u \in Tasks : pc[u] = "lock" => pc[t] = "lock"
  <2>1. lock' = t /\ state' = "CONNECTING" /\ pc' = [pc EXCEPT ![t] = "opening"]
    BY <1>1 DEF Enter
  <2>2. Moves(t, "opening")
    BY <2>1, MoveTypes DEF Places
  <2> QED  BY <1>1, <2>1, <2>2 DEF Enters
<1>2. CASE ~ (lock = 0 /\ \A u \in Tasks : pc[u] = "lock" => pc[t] = "lock")
  <2>1. pc' = [pc EXCEPT ![t] = "lock"] /\ UNCHANGED <<lock, state>>
    BY <1>2 DEF Enter
  <2>2. Moves(t, "lock")
    BY <2>1, MoveTypes DEF Places
  <2> QED  BY <1>2, <2>1, <2>2 DEF Enters
<1> QED  BY <1>1, <1>2

LEMMA TypesInit == Init => TypeOK
<1> SUFFICES ASSUME Init PROVE ClientTypes /\ TaskTypes /\ NetTypes
  BY TypesSplit
<1>1. 0 \in 0..MaxSockets /\ 1 \in 0..MaxSockets /\ 0 \in 0..MaxAttempt /\ {1} \subseteq Sockets
  BY ClientAssumption DEF Sockets
<1>2. ClientTypes
  BY <1>1, ClientAssumption DEF Init, ClientTypes, States
<1>3. TaskTypes
  BY <1>1 DEF Init, TaskTypes, Places, Replies
<1>4. NetTypes
  BY <1>1 DEF Init, NetTypes
<1> QED  BY <1>2, <1>3, <1>4

\* A request that is awaited went out on a socket.
Sent == \A t \in Tasks : pend[t] = "wait" => sentOn[t] \in Sockets

LEMMA TypesNext == TypeOK /\ Sent /\ [Next]_vars => TypeOK'
<1> SUFFICES ASSUME TypeOK, Sent, [Next]_vars PROVE ClientTypes' /\ TaskTypes' /\ NetTypes'
  BY DEF TypeOK, ClientTypes, TaskTypes, NetTypes, States, Places, Replies
<1> USE TasksAreDistinct
<1>0. ClientTypes /\ TaskTypes /\ NetTypes
  BY TypesSplit
<1>1. ASSUME NEW t \in Tasks, Cancelled(t) PROVE ClientTypes' /\ TaskTypes' /\ NetTypes'
  <2>1. readerTask' = 0 /\ CleanTypes /\ pc' \in [Tasks -> Places] /\ state' \in States
    <3>1. Sweep(t, Found) /\ Found.state \in States
      BY <1>0, <1>1 DEF Cancelled, Found, ClientTypes
    <3> QED  BY <3>1, SweepEffect, FoundTypes DEF Moves, Finishes, States
  <2> QED  BY <1>0, <1>1, <2>1 DEF Cancelled, ClientTypes, TaskTypes, NetTypes, CleanTypes
<1>2. ASSUME NEW t \in Tasks, Closed(t) PROVE ClientTypes' /\ TaskTypes' /\ NetTypes'
  <2>1. /\ state' \in States /\ attempt' \in 0..MaxAttempt /\ pc' \in [Tasks -> Places]
        /\ fallen' \in BOOLEAN
    BY <1>0, <1>2, EndCleanupEffect DEF Closed, ClientTypes, Finishes, States, Moves
  <2>2. sock' \in [Sockets -> {"unused", "open", "lost", "closed"}]
    BY <1>0, <1>2 DEF Closed, NetTypes
  <2>3. target' \in [Tasks -> 0..MaxSockets] /\ ws' \in 0..MaxSockets
    BY <1>0, <1>2 DEF Closed, TaskTypes
  <2> QED  BY <1>0, <1>2, <2>1, <2>2, <2>3 DEF Closed, ClientTypes, TaskTypes, NetTypes
<1>3. ASSUME NEW t \in Tasks, Wake(t) \/ Acquire(t) PROVE ClientTypes' /\ TaskTypes' /\ NetTypes'
  <2>1. lock' \in Tasks \cup {0} /\ state' \in States /\ pc' \in [Tasks -> Places]
    <3>1. CASE Enter(t)
      BY <1>0, <3>1, EnterEffect DEF Enters, Moves, States, ClientTypes
    <3>2. CASE pc' = [pc EXCEPT ![t] = "done"] /\ UNCHANGED <<lock, state>>
      BY <1>0, <3>2 DEF ClientTypes, TaskTypes, Places
    <3> QED  BY <1>3, <3>1, <3>2 DEF Wake, Acquire
  <2> QED  BY <1>0, <1>3, <2>1 DEF Wake, Acquire, ClientTypes, TaskTypes, NetTypes
<1>4. ASSUME Run PROVE ClientTypes' /\ TaskTypes' /\ NetTypes'
  <2>1. lock' \in Tasks \cup {0} /\ state' \in States /\ pc' \in [Tasks -> Places]
    <3>1. CASE Enter(runner)
      BY <1>0, <3>1, EnterEffect DEF Enters, Moves, States, ClientTypes
    <3>2. CASE pc' = [pc EXCEPT ![runner] = "idle"] /\ UNCHANGED <<lock, state>>
      BY <1>0, <3>2 DEF ClientTypes, TaskTypes, Places
    <3> QED  BY <1>4, <3>1, <3>2 DEF Run
  <2> QED  BY <1>0, <1>4, <2>1 DEF Run, ClientTypes, TaskTypes, NetTypes
<1>5. ASSUME NEW t \in Tasks, NEW n \in Sockets, Opened(t, n)
      PROVE  ClientTypes' /\ TaskTypes' /\ NetTypes'
  <2>1. /\ sock' \in [Sockets -> {"unused", "open", "lost", "closed"}]
        /\ subscribed' \subseteq Sockets /\ outage' \in BOOLEAN
        /\ ws' \in 0..MaxSockets /\ UNCHANGED <<shutdown, disconnectAt>>
    BY <1>0, <1>5 DEF Opened, NetTypes
  <2>2. CASE /\ EmissionRaises /\ UNCHANGED sentOn
             /\ ConnectRaises(t, [Found EXCEPT !.ws = n, !.state = "CONNECTED", !.attempt = 0])
    <3>1. Raises(t, [Found EXCEPT !.ws = n, !.state = "CONNECTED", !.attempt = 0])
      BY <2>2, ConnectRaisesEffect, FoundTypes
    <3>2. ClientTypes' /\ TaskTypes'
      BY <1>0, <2>1, <2>2, <3>1, RaisesTypes, FoundTypes DEF ClientTypes, TaskTypes
    <3> QED  BY <2>1, <2>2, <3>2, EmissionIsHarmless, HarmlessTypes DEF NetTypes
  <2>3. CASE /\ state' = "CONNECTED" /\ attempt' = 0 /\ readerTask' = n
             /\ pc' = [pc EXCEPT ![n] = "reading",
                                 ![t] = IF HasCredentials /\ ~authed THEN "auth" ELSE "heartbeat"]
             /\ pend' = [pend EXCEPT ![t] = "wait"] /\ sentOn' = [sentOn EXCEPT ![t] = n]
             /\ UNCHANGED <<authed, lock, target, fallen, troubles>>
    <3>1. ClientTypes'
      BY <1>0, <2>1, <2>3 DEF ClientTypes, States
    <3>2. TaskTypes'
      BY <1>0, <2>3 DEF TaskTypes, Places, Replies
    <3> QED  BY <1>0, <2>1, <2>3, <3>1, <3>2 DEF NetTypes
  <2> QED  BY <1>5, <2>2, <2>3 DEF Opened
<1>6. ASSUME NEW t \in Tasks, OpenFails(t) PROVE ClientTypes' /\ TaskTypes' /\ NetTypes'
  <2>1. Raises(t, Found)
    BY <1>6, ConnectRaisesEffect, FoundTypes DEF OpenFails
  <2>2. troubles' \in [Troubles -> Nat]
    BY <1>6, SufferEffect DEF OpenFails, Troubles
  <2>3. ClientTypes' /\ TaskTypes'
    BY <1>0, <1>6, <2>1, RaisesTypes, FoundTypes DEF OpenFails, ClientTypes, TaskTypes
  <2> QED  BY <1>0, <1>6, <2>2, <2>3 DEF OpenFails, NetTypes
<1>7. ASSUME NEW t \in Tasks, RequestRaises(t) PROVE ClientTypes' /\ TaskTypes' /\ NetTypes'
  <2>1. Raises(t, Found)
    BY <1>7, ConnectRaisesEffect, FoundTypes DEF RequestRaises
  <2>2. troubles' \in [Troubles -> Nat]
    BY <1>0, <1>7, SufferEffect DEF RequestRaises, Troubles, NetTypes
  <2>3. ClientTypes' /\ TaskTypes'
    BY <1>0, <1>7, <2>1, RaisesTypes, FoundTypes DEF RequestRaises, ClientTypes, TaskTypes
  <2> QED  BY <1>0, <1>7, <2>2, <2>3 DEF RequestRaises, NetTypes
<1>8. ASSUME NEW t \in Tasks, AuthReply(t) PROVE ClientTypes' /\ TaskTypes' /\ NetTypes'
  <2>0. UNCHANGED <<ws, shutdown, disconnectAt, sock, subscribed, outage>>
    BY <1>8 DEF AuthReply
  <2>1. NetTypes'
    <3>1. Harmless
      BY <1>8, EmissionIsHarmless DEF AuthReply, Harmless
    <3> QED  BY <1>0, <2>0, <3>1, HarmlessTypes DEF NetTypes
  <2>2. ASSUME NEW f \in Fields, ConnectRaises(t, f), UNCHANGED sentOn
        PROVE  ClientTypes' /\ TaskTypes'
    BY <1>0, <2>0, <2>2, ConnectRaisesEffect, RaisesTypes DEF ClientTypes, TaskTypes
  <2>3. CASE /\ authed' = TRUE /\ state' = "AUTHENTICATED" /\ Ask(t, "heartbeat")
             /\ UNCHANGED <<readerTask, attempt, target, lock, fallen>>
    BY <1>0, <2>0, <2>1, <2>3 DEF Ask, ClientTypes, TaskTypes, States, Places, Replies
  <2> QED  BY <1>8, <2>1, <2>2, <2>3, FoundTypes DEF AuthReply
<1>9. ASSUME NEW t \in Tasks, HeartbeatReply(t) PROVE ClientTypes' /\ TaskTypes' /\ NetTypes'
  <2>0. UNCHANGED <<ws, shutdown, disconnectAt, sock, subscribed, outage>>
    BY <1>9 DEF HeartbeatReply
  <2>1. NetTypes'
    <3>1. Harmless
      BY <1>9, EmissionIsHarmless DEF HeartbeatReply, Harmless
    <3> QED  BY <1>0, <2>0, <3>1, HarmlessTypes DEF NetTypes
  <2>2. CASE ConnectRaises(t, Found) /\ UNCHANGED sentOn
    BY <1>0, <2>0, <2>1, <2>2, ConnectRaisesEffect, RaisesTypes, FoundTypes DEF ClientTypes, TaskTypes
  <2>3. CASE /\ pc' = [pc EXCEPT ![t] = IF t = runner THEN "idle" ELSE "done"]
             /\ pend' = [pend EXCEPT ![t] = "none"] /\ lock' = 0
             /\ UNCHANGED <<readerTask, target, state, attempt, authed, sentOn, fallen>>
    BY <1>0, <2>0, <2>1, <2>3 DEF ClientTypes, TaskTypes, Places, Replies
  <2>4. CASE /\ NextRequest(t) # "none" /\ lock' = 0 /\ Ask(t, NextRequest(t))
             /\ UNCHANGED <<readerTask, target, state, attempt, authed, fallen>>
    BY <1>0, <2>0, <2>1, <2>4 DEF Ask, NextRequest, ClientTypes, TaskTypes, Places, Replies
  <2> QED  BY <1>9, <2>2, <2>3, <2>4 DEF HeartbeatReply
<1>10. ASSUME NEW t \in Tasks, Resubscribed(t) PROVE ClientTypes' /\ TaskTypes' /\ NetTypes'
  <2>1. CASE EmissionRaises /\ Reconnect(t, Found) /\ UNCHANGED <<disconnectAt, outage>>
    <3>1. Reconnects(t, Found)
      BY <2>1, ReconnectEffect, FoundTypes
    <3>2. troubles' \in [Troubles -> Nat]
      BY <2>1, EmissionIsHarmless, HarmlessTypes
    <3>3. ClientTypes' /\ TaskTypes'
      BY <1>0, <1>10, <2>1, <3>1, RaisesTypes, FoundTypes DEF Resubscribed, ClientTypes, TaskTypes
    <3> QED  BY <1>0, <1>10, <2>1, <3>2, <3>3 DEF Resubscribed, NetTypes
  <2>2. CASE /\ Ends(t, Found) /\ disconnectAt' = FALSE /\ outage' = (outage /\ ~disconnectAt)
             /\ UNCHANGED <<lock, troubles>>
    <3>1. JustEnds(t, Found) /\ Found.state = state /\ Found.authed = authed
      BY <2>2, EndsEffect, FoundTypes DEF Found
    <3>2. outage' \in BOOLEAN
      BY <2>2, Zenon
    <3> QED  BY <1>0, <1>10, <2>2, <3>1, <3>2
             DEF Resubscribed, JustEnds, Moves, CleanTypes, ClientTypes, TaskTypes, NetTypes
  <2> QED  BY <1>10, <2>1, <2>2 DEF Resubscribed
<1>11. ASSUME NEW r \in Sockets, Break(r) PROVE ClientTypes' /\ TaskTypes' /\ NetTypes'
  BY <1>0, <1>11 DEF Break, client, ClientTypes, TaskTypes, NetTypes, Places
<1>12. ASSUME NEW r \in Sockets, ConnectionLost(r) PROVE ClientTypes' /\ TaskTypes' /\ NetTypes'
  <2>1. disconnectAt' \in BOOLEAN
    BY <1>12 DEF ConnectionLost, Disconnected
  <2>2. ClientTypes' /\ TaskTypes'
    <3>1. CASE Reconnect(r, Found)
      <4>1. Reconnects(r, Found)
        BY <3>1, ReconnectEffect, FoundTypes
      <4> QED  BY <1>0, <1>12, <2>1, <4>1, RaisesTypes, FoundTypes
               DEF ConnectionLost, ClientTypes, TaskTypes
    <3>2. CASE /\ pc' = [pc EXCEPT ![r] = "done"] /\ fallen' = TRUE
               /\ UNCHANGED <<readerTask, state, attempt, authed, lock, target, pend>>
      BY <1>0, <1>12, <2>1, <3>2 DEF ConnectionLost, ClientTypes, TaskTypes, Places
    <3> QED  BY <1>12, <3>1, <3>2 DEF ConnectionLost
  <2>3. outage' \in BOOLEAN
    BY <1>12, Zenon DEF ConnectionLost
  <2> QED  BY <1>0, <1>12, <2>2, <2>3 DEF ConnectionLost, NetTypes
<1>13. ASSUME NEW r \in Sockets, LoopEnds(r) PROVE ClientTypes' /\ TaskTypes' /\ NetTypes'
  <2>1. outage' \in BOOLEAN
    BY <1>13, Zenon DEF LoopEnds
  <2> QED  BY <1>0, <1>13, <2>1 DEF LoopEnds, client, ClientTypes, TaskTypes, NetTypes, Places
<1>14. ASSUME NEW r \in Sockets, NEW t \in Tasks, Reply(r, t)
       PROVE  ClientTypes' /\ TaskTypes' /\ NetTypes'
  <2>1. troubles' \in [Troubles -> Nat]
    BY <1>0, <1>14, SufferEffect DEF Reply, Troubles, NetTypes
  <2>2. pend' \in [Tasks -> Replies] /\ subscribed' \subseteq Sockets
    BY <1>0, <1>14 DEF Reply, TaskTypes, NetTypes, Replies
  <2> QED  BY <1>0, <1>14, <2>1, <2>2 DEF Reply, client, ClientTypes, TaskTypes, NetTypes
<1>15. ASSUME NEW r \in Sockets, MarketRaises(r) PROVE ClientTypes' /\ TaskTypes' /\ NetTypes'
  <2>1. Reconnects(r, Found)
    BY <1>15, ReconnectEffect, FoundTypes DEF MarketRaises
  <2>2. ClientTypes' /\ TaskTypes'
    BY <1>0, <1>15, <2>1, RaisesTypes, FoundTypes DEF MarketRaises, ClientTypes, TaskTypes
  <2>3. troubles' \in [Troubles -> Nat]
    BY <1>15, SufferEffect DEF MarketRaises, Troubles
  <2> QED  BY <1>0, <1>15, <2>2, <2>3 DEF MarketRaises, NetTypes
<1>16. ASSUME NEW t \in Tasks, Accept(t) PROVE ClientTypes' /\ TaskTypes' /\ NetTypes'
  <2>1. subscribed' \subseteq Sockets
    <3>1. sentOn[t] \in Sockets
      BY <1>16 DEF Accept, Sent
    <3> QED  BY <1>0, <1>16, <3>1 DEF Accept, NetTypes
  <2> QED  BY <1>0, <1>16, <2>1 DEF Accept, client, ClientTypes, TaskTypes, NetTypes
<1>17. ASSUME NEW s \in Sockets, Lose(s) \/ ServerCloses(s)
       PROVE  ClientTypes' /\ TaskTypes' /\ NetTypes'
  <2>1. troubles' \in [Troubles -> Nat]
    BY <1>17, SufferEffect DEF Lose, ServerCloses, Troubles
  <2> QED  BY <1>0, <1>17, <2>1 DEF Lose, ServerCloses, client, ClientTypes, TaskTypes, NetTypes
<1>18. ASSUME CancelRunner PROVE ClientTypes' /\ TaskTypes' /\ NetTypes'
  BY <1>0, <1>18 DEF CancelRunner, ClientTypes, TaskTypes, NetTypes, Places, Replies
<1>19. ASSUME Disconnect PROVE ClientTypes' /\ TaskTypes' /\ NetTypes'
  <2>1. CASE Cleanup(main, Found)
    <3>1. CleansUp(main) /\ state' \in States
      BY <1>0, <2>1, CleanupEffect, FoundTypes DEF Found, Finishes, ClientTypes, States
    <3> QED  BY <1>0, <1>19, <3>1 DEF Disconnect, CleansUp, CleanTypes, ClientTypes, TaskTypes, NetTypes
  <2>2. CASE /\ pc' = [pc EXCEPT ![main] = "aborted"] /\ fallen' = TRUE
             /\ UNCHANGED <<readerTask, state, attempt, target, pend>>
    BY <1>0, <1>19, <2>2 DEF Disconnect, ClientTypes, TaskTypes, NetTypes, Places
  <2> QED  BY <1>19, <2>1, <2>2 DEF Disconnect
<1>20. CASE UNCHANGED vars
  BY <1>0, <1>20 DEF vars, client, ClientTypes, TaskTypes, NetTypes
<1> QED
  BY <1>1, <1>2, <1>3, <1>4, <1>5, <1>6, <1>7, <1>8, <1>9, <1>10, <1>11, <1>12, <1>13,
     <1>14, <1>15, <1>16, <1>17, <1>18, <1>19, <1>20 DEF Next, Step, Read

LEMMA SentNext == TypeOK /\ Sent /\ [Next]_vars => Sent'
<1> SUFFICES ASSUME TypeOK, Sent, [Next]_vars PROVE Sent'
  OBVIOUS
<1> USE TasksAreDistinct
<1>0. ClientTypes /\ TaskTypes /\ NetTypes
  BY TypesSplit
<1>1. ASSUME sentOn' = sentOn, \A u \in Tasks : pend'[u] = "wait" => pend[u] = "wait"
      PROVE  Sent'
  BY <1>1 DEF Sent
<1>2. ASSUME NEW t \in Tasks, NEW what, Ask(t, what), CanAsk PROVE Sent'
  <2>1. ws \in Sockets
    BY <1>0, <1>2 DEF CanAsk, ClientTypes, Sockets
  <2> QED  BY <1>0, <1>2, <2>1 DEF Ask, Sent, TaskTypes
<1>3. ASSUME NEW f \in Fields, NEW t \in Tasks, Raises(t, f) \/ Reconnects(t, f), sentOn' = sentOn
      PROVE  Sent'
  BY <1>1, <1>3 DEF Raises, Reconnects, JustEnds, CleansUp, CleanTypes
<1>4. ASSUME NEW f \in Fields, NEW t \in Tasks, ConnectRaises(t, f), sentOn' = sentOn
      PROVE  Sent'
  BY <1>3, <1>4, ConnectRaisesEffect
<1>5. ASSUME NEW t \in Tasks, Cancelled(t) \/ Closed(t) \/ Wake(t) \/ Acquire(t) PROVE Sent'
  <2>1. CASE Cancelled(t)
    BY <1>1, <2>1, SweepEffect, FoundTypes DEF Cancelled, CleanTypes
  <2> QED  BY <1>1, <1>5, <2>1 DEF Closed, Wake, Acquire
<1>6. ASSUME NEW t \in Tasks, NEW n \in Sockets, Opened(t, n) PROVE Sent'
  <2>1. CASE /\ ConnectRaises(t, [Found EXCEPT !.ws = n, !.state = "CONNECTED", !.attempt = 0])
             /\ UNCHANGED sentOn
    BY <1>4, <2>1, FoundTypes
  <2>2. CASE pend' = [pend EXCEPT ![t] = "wait"] /\ sentOn' = [sentOn EXCEPT ![t] = n]
    BY <1>0, <2>2 DEF Sent, TaskTypes
  <2> QED  BY <1>6, <2>1, <2>2 DEF Opened
<1>7. ASSUME NEW t \in Tasks, OpenFails(t) \/ RequestRaises(t) PROVE Sent'
  BY <1>4, <1>7, FoundTypes DEF OpenFails, RequestRaises
<1>8. ASSUME NEW t \in Tasks, AuthReply(t) PROVE Sent'
  BY <1>2, <1>4, <1>8, FoundTypes DEF AuthReply
<1>9. ASSUME NEW t \in Tasks, HeartbeatReply(t) PROVE Sent'
  <2>1. CASE sentOn' = sentOn /\ pend' = [pend EXCEPT ![t] = "none"]
    BY <1>0, <1>1, <2>1 DEF TaskTypes
  <2> QED  BY <1>2, <1>4, <1>9, <2>1, FoundTypes DEF HeartbeatReply
<1>10. ASSUME NEW t \in Tasks, Resubscribed(t) \/ Accept(t) PROVE Sent'
  <2>1. CASE Reconnect(t, Found) /\ UNCHANGED sentOn
    BY <1>3, <2>1, ReconnectEffect, FoundTypes
  <2>2. CASE Ends(t, Found) /\ UNCHANGED sentOn
    BY <1>1, <2>2, EndsEffect, FoundTypes DEF JustEnds, CleanTypes
  <2> QED  BY <1>1, <1>10, <2>1, <2>2 DEF Resubscribed, Accept
<1>11. ASSUME NEW r \in Sockets, Break(r) \/ LoopEnds(r) \/ Lose(r) \/ ServerCloses(r) PROVE Sent'
  BY <1>1, <1>11 DEF Break, LoopEnds, Lose, ServerCloses
<1>12. ASSUME NEW r \in Sockets, ConnectionLost(r) \/ MarketRaises(r) PROVE Sent'
  <2>1. CASE Reconnect(r, Found) /\ UNCHANGED sentOn
    BY <1>3, <2>1, ReconnectEffect, FoundTypes
  <2> QED  BY <1>1, <1>12, <2>1 DEF ConnectionLost, MarketRaises
<1>13. ASSUME NEW r \in Sockets, NEW t \in Tasks, Reply(r, t) PROVE Sent'
  BY <1>0, <1>1, <1>13 DEF Reply, TaskTypes
<1>14. ASSUME Run \/ CancelRunner PROVE Sent'
  BY <1>0, <1>1, <1>14 DEF Run, CancelRunner, TaskTypes
<1>15. ASSUME Disconnect PROVE Sent'
  BY <1>1, <1>15, CleanupEffect, FoundTypes DEF Disconnect, CleansUp, CleanTypes
<1>16. CASE UNCHANGED vars
  BY <1>1, <1>16 DEF vars
<1> QED
  BY <1>5, <1>6, <1>7, <1>8, <1>9, <1>10, <1>11, <1>12, <1>13, <1>14, <1>15, <1>16
     DEF Next, Step, Read

------------------------------------------------------------------------------
(* Who is where *)

\* The places of a task that holds the lock, and of one that has yet to open a
\* connection.
Holding == {"opening", "auth", "heartbeat"}
Waiting == {"cancelling", "closing", "backoff", "lock"}
ToOpen  == Waiting \cup {"opening"}

\* Where a reader can be.
ReaderPlaces == ToOpen \cup {"unborn", "reading", "auth", "heartbeat", "resubscribe", "done"}

\* Each task has places of its own; the runner never waits for the lock.
PlaceOf ==
    /\ pc[main] \in {"up", "stopping", "cancelling", "closing", "off", "aborted"}
    /\ pc[runner] \in Holding \cup {"starting", "idle", "done"}
    /\ \A r \in Sockets : pc[r] \in ReaderPlaces

\* The lock is with the task that is connecting.
Locked == \A t \in Tasks : lock = t <=> pc[t] \in Holding

\* disconnect() comes after the runner has been cancelled.
Stopping == /\ shutdown <=> pc[main] \notin {"up", "stopping"}
            /\ pc[main] # "up" => pc[runner] = "done"

\* Until the runner's first step no reader has gone further than its first sleep.
\* When the state says DISCONNECTED reader 1 sleeps, or has ended at the event
\* before its sleep.
NotYetRun ==
    pc[runner] = "starting" =>
       /\ \A t \in Tasks : pc[t] \notin Holding \cup {"lock", "resubscribe"}
       /\ state = "DISCONNECTED" => pc[1] = "backoff" \/ (fallen /\ pc[1] = "done")

\* Until the runner has opened its connection, socket 1 was the only one.
FirstConnection ==
    pc[runner] \in {"starting", "opening"} =>
       /\ \A r \in Sockets \ {1} : pc[r] = "unborn" /\ sock[r] # "open"
       /\ pc[runner] = "opening" => pc[1] \in Waiting \cup {"done"}

\* While the runner connects, reader 1 waits and will connect again after it,
\* unless a task has ended at an event.
AnotherWaits ==
    pc[runner] \in Holding => pc[1] \in Waiting \/ fallen

Stages == PlaceOf /\ Locked /\ Stopping /\ NotYetRun /\ FirstConnection /\ AnotherWaits

\* The other tasks stay where they are, but for a reader that ends, and one that
\* begins if task t has opened a socket for it.
OthersStay(t) ==
    /\ \A u \in Tasks \ {t} :
          \/ pc'[u] = pc[u]
          \/ u \in Sockets /\ pc[u] = "reading" /\ pc'[u] = "done"
          \/ u \in Sockets /\ pc[u] \in {"unborn", "done"} /\ pc'[u] = "reading" /\ pc[t] = "opening"
    /\ \A s \in Sockets : sock'[s] = "open" => sock[s] = "open" \/ pc[t] = "opening"
    /\ fallen => fallen'

\* A step of reader t that takes the lock only when it is free, and leaves the
\* places where it waits only without the runner holding the lock, unless it ends
\* at an event.
ReaderStep(t) ==
    /\ pc[t] \notin {"unborn", "done"} /\ pc'[t] \in ReaderPlaces \ {"unborn"}
    /\ OthersStay(t)
    /\ shutdown' = shutdown
    /\ IF pc'[t] \in Holding THEN lock' = t /\ lock \in {0, t}
                             ELSE lock' = IF lock = t THEN 0 ELSE lock
    /\ pc[t] \in Waiting => pc'[t] \in Waiting \/ shutdown \/ lock = 0
                            \/ (pc'[t] = "done" /\ fallen')
    /\ pc[runner] = "starting" =>
          /\ pc'[t] \notin Holding \cup {"lock", "resubscribe"}
          /\ state' = "DISCONNECTED" =>
                \/ pc'[t] = "backoff" \/ (pc'[t] = "done" /\ fallen')
                \/ state = "DISCONNECTED" /\ pc[t] # "backoff"

LEMMA ReaderStepStages ==
  ASSUME TypeOK, Stages, NEW t \in Sockets, ReaderStep(t)
  PROVE  Stages'
<1> USE TasksAreDistinct
<1>0. PlaceOf /\ Locked /\ Stopping /\ NotYetRun /\ FirstConnection /\ AnotherWaits
  BY DEF Stages
<1>1. /\ pc'[main] = pc[main] /\ pc'[runner] = pc[runner]
      /\ pc[main] \notin Holding /\ pc[t] \in ReaderPlaces
  BY <1>0 DEF ReaderStep, OthersStay, PlaceOf, Holding
<1>2. \A r \in Sockets : pc'[r] \in ReaderPlaces
  BY <1>0 DEF ReaderStep, OthersStay, PlaceOf, ReaderPlaces
<1>3. PlaceOf'
  BY <1>0, <1>1, <1>2 DEF PlaceOf
<1>4. Locked'
  <2> SUFFICES ASSUME NEW u \in Tasks PROVE lock' = u <=> pc'[u] \in Holding
    BY DEF Locked
  <2>1. CASE u = t
    BY <1>0, <2>1 DEF ReaderStep, OthersStay, Locked, Holding
  <2>2. CASE u # t
    <3>1. pc'[u] \in Holding <=> pc[u] \in Holding
      BY <2>2 DEF ReaderStep, OthersStay, Holding
    <3>2. lock' = u <=> lock = u
      BY <1>0, <2>2 DEF ReaderStep, OthersStay, Locked, Holding
    <3> QED  BY <1>0, <3>1, <3>2 DEF Locked
  <2> QED  BY <2>1, <2>2
<1>5. Stopping'
  BY <1>0, <1>1 DEF ReaderStep, OthersStay, Stopping
<1>a. ASSUME pc[runner] \in Holding PROVE lock = runner /\ ~shutdown /\ pc[t] # "opening"
  BY <1>0, <1>a DEF Locked, Stopping, Holding
<1>b. ASSUME pc[runner] \in {"starting", "opening"} PROVE t = 1 /\ pc[t] # "opening"
  BY <1>0, <1>a, <1>b DEF FirstConnection, ReaderStep, NotYetRun, Holding
<1>6. NotYetRun'
  <2> SUFFICES ASSUME pc[runner] = "starting"
               PROVE  /\ \A u \in Tasks : pc'[u] \notin Holding \cup {"lock", "resubscribe"}
                      /\ state' = "DISCONNECTED" =>
                            pc'[1] = "backoff" \/ (fallen' /\ pc'[1] = "done")
    BY <1>1 DEF NotYetRun
  <2>1. \A u \in Tasks : pc'[u] \notin Holding \cup {"lock", "resubscribe"}
    BY <1>0 DEF NotYetRun, ReaderStep, OthersStay, Holding
  <2>2. t = 1
    BY <1>b
  <2> QED  BY <1>0, <2>1, <2>2 DEF NotYetRun, ReaderStep
<1>7. FirstConnection'
  <2> SUFFICES ASSUME pc[runner] \in {"starting", "opening"}
               PROVE  /\ \A r \in Sockets \ {1} : pc'[r] = "unborn" /\ sock'[r] # "open"
                      /\ pc[runner] = "opening" => pc'[1] \in Waiting \cup {"done"}
    BY <1>1 DEF FirstConnection
  <2>1. t = 1 /\ pc[t] # "opening"
    BY <1>b
  <2>2. \A r \in Sockets \ {1} : pc'[r] = "unborn" /\ sock'[r] # "open"
    BY <1>0, <2>1 DEF FirstConnection, ReaderStep, OthersStay
  <2>3. ASSUME pc[runner] = "opening" PROVE pc'[1] \in Waiting \cup {"done"}
    <3>1. pc[1] \in Waiting /\ lock = runner /\ ~shutdown
      BY <1>0, <1>a, <2>1, <2>3 DEF FirstConnection, ReaderStep, Holding
    <3> QED  BY <2>1, <3>1 DEF ReaderStep
  <2> QED  BY <2>2, <2>3
<1>8. AnotherWaits'
  <2> SUFFICES ASSUME pc[runner] \in Holding, ~fallen' PROVE pc'[1] \in Waiting
    BY <1>1 DEF AnotherWaits
  <2>1. pc[1] \in Waiting /\ lock = runner /\ ~shutdown
    BY <1>0, <1>a DEF AnotherWaits, ReaderStep, OthersStay
  <2> QED  BY <2>1 DEF ReaderStep, OthersStay, Waiting
<1> QED  BY <1>3, <1>4, <1>5, <1>6, <1>7, <1>8 DEF Stages

\* A step of the runner: it connects when the state says DISCONNECTED.
RunnerStep(c) ==
    /\ pc'[runner] = c /\ OthersStay(runner) /\ c \in Holding \cup {"idle", "done"}
    /\ shutdown' = shutdown
    /\ IF c \in Holding THEN lock' = runner /\ lock \in {0, runner}
                        ELSE lock' = IF lock = runner THEN 0 ELSE lock
    /\ pc[main] # "up" => c = "done"
    /\ c = "opening" => pc[runner] = "starting" /\ state = "DISCONNECTED"
    /\ c \in {"auth", "heartbeat"} => pc[runner] \in Holding

LEMMA RunnerStepStages ==
  ASSUME TypeOK, Stages, NEW c, RunnerStep(c)
  PROVE  Stages'
<1> USE TasksAreDistinct
<1>0. PlaceOf /\ Locked /\ Stopping /\ NotYetRun /\ FirstConnection /\ AnotherWaits
  BY DEF Stages
<1>1. /\ pc'[main] = pc[main] /\ pc'[runner] = c
      /\ \A r \in Sockets : \/ pc'[r] = pc[r]
                            \/ pc[r] = "reading" /\ pc'[r] = "done"
                            \/ pc[r] \in {"unborn", "done"} /\ pc'[r] = "reading"
                               /\ pc[runner] = "opening"
  BY DEF RunnerStep, OthersStay
<1>2. PlaceOf'
  BY <1>0, <1>1 DEF RunnerStep, PlaceOf, ReaderPlaces
<1>3. Locked'
  <2> SUFFICES ASSUME NEW u \in Tasks PROVE lock' = u <=> pc'[u] \in Holding
    BY DEF Locked
  <2> QED  BY <1>0, <1>1 DEF RunnerStep, Locked, OthersStay, Holding
<1>4. Stopping'
  BY <1>0, <1>1 DEF RunnerStep, Stopping
<1>5. NotYetRun'
  BY <1>1 DEF NotYetRun, RunnerStep, Holding
<1>6. FirstConnection'
  <2> SUFFICES ASSUME c = "opening"
               PROVE  /\ \A r \in Sockets \ {1} : pc'[r] = "unborn" /\ sock'[r] # "open"
                      /\ pc'[1] \in Waiting \cup {"done"}
    BY <1>1 DEF FirstConnection, RunnerStep, Holding
  <2>1. pc[runner] = "starting" /\ pc[1] \in {"backoff", "done"}
    BY <1>0 DEF RunnerStep, NotYetRun
  <2> QED  BY <1>0, <1>1, <2>1 DEF FirstConnection, RunnerStep, OthersStay, Waiting
<1>7. AnotherWaits'
  <2> SUFFICES ASSUME c \in Holding, ~fallen' PROVE pc'[1] \in Waiting
    BY <1>1 DEF AnotherWaits
  <2>1. ~fallen
    BY DEF RunnerStep, OthersStay
  <2>2. CASE c = "opening"
    <3>1. pc[runner] = "starting" /\ pc[1] = "backoff"
      BY <1>0, <2>1, <2>2 DEF RunnerStep, NotYetRun
    <3> QED  BY <1>1, <3>1 DEF Waiting
  <2>3. CASE c # "opening"
    <3>1. pc[1] \in Waiting
      BY <1>0, <2>1, <2>3 DEF RunnerStep, AnotherWaits, Holding
    <3> QED  BY <1>1, <3>1 DEF Waiting
  <2> QED  BY <2>2, <2>3
<1> QED  BY <1>2, <1>3, <1>4, <1>5, <1>6, <1>7 DEF Stages

\* A step that changes no place, not the lock, the state or the shutdown.
LEMMA StillStages ==
  ASSUME TypeOK, Stages, pc' = pc, lock' = lock, shutdown' = shutdown, state' = state,
         fallen' = fallen, \A s \in Sockets : sock'[s] = "open" => sock[s] = "open"
  PROVE  Stages'
BY DEF Stages, PlaceOf, Locked, Stopping, NotYetRun, FirstConnection, AnotherWaits

\* A step of main in its disconnect().
MainStep ==
    /\ pc'[main] \in {"stopping", "cancelling", "closing", "off", "aborted"}
    /\ pc'[runner] = "done"
    /\ \A r \in Sockets : pc'[r] = pc[r] \/ (pc[r] = "reading" /\ pc'[r] = "done")
    /\ lock' = IF lock = runner THEN 0 ELSE lock
    /\ shutdown' <=> pc'[main] # "stopping"

LEMMA MainStepStages ==
  ASSUME TypeOK, Stages, MainStep
  PROVE  Stages'
<1> USE TasksAreDistinct
<1>0. PlaceOf /\ Locked
  BY DEF Stages
<1>1. PlaceOf'
  BY <1>0 DEF MainStep, PlaceOf, ReaderPlaces
<1>2. Locked'
  <2> SUFFICES ASSUME NEW u \in Tasks PROVE lock' = u <=> pc'[u] \in Holding
    BY DEF Locked
  <2>1. CASE u \in Sockets
    BY <1>0, <2>1 DEF MainStep, Locked, Holding
  <2>2. CASE u \in {main, runner}
    BY <1>0, <2>2 DEF MainStep, Locked, Holding, PlaceOf
  <2> QED  BY <2>1, <2>2
<1>3. Stopping'
  BY DEF MainStep, Stopping
<1>4. NotYetRun' /\ FirstConnection' /\ AnotherWaits'
  BY DEF MainStep, NotYetRun, FirstConnection, AnotherWaits, Holding
<1> QED  BY <1>1, <1>2, <1>3, <1>4 DEF Stages

LEMMA StagesInit == Init => Stages
<1> SUFFICES ASSUME Init PROVE Stages
  OBVIOUS
<1> USE TasksAreDistinct
<1>1. /\ pc[main] = "up" /\ pc[runner] = "starting" /\ pc[1] = "reading"
      /\ \A r \in Sockets \ {1} : pc[r] = "unborn"
      /\ \A r \in Sockets \ {1} : sock[r] = "unused"
      /\ lock = 0 /\ ~shutdown /\ state # "DISCONNECTED"
  BY DEF Init, Sockets
<1>2. PlaceOf
  BY <1>1 DEF PlaceOf, ReaderPlaces
<1>3. \A t \in Tasks : pc[t] \notin Holding \cup {"lock", "resubscribe"}
  BY <1>1 DEF Holding
<1> QED
  BY <1>1, <1>2, <1>3 DEF Stages, Locked, Stopping, NotYetRun, FirstConnection, AnotherWaits, Holding

\* Sockets are opened only by a task that is opening one.
OpensOnly(t) == \A s \in Sockets : sock'[s] = "open" => sock[s] = "open" \/ pc[t] = "opening"

LEMMA StagesNext == TypeOK /\ Stages /\ [Next]_vars => Stages'
<1> SUFFICES ASSUME TypeOK, Stages, [Next]_vars PROVE Stages'
  OBVIOUS
<1> USE TasksAreDistinct
<1>0. /\ PlaceOf /\ Locked /\ Stopping /\ NotYetRun /\ FirstConnection /\ AnotherWaits
      /\ ClientTypes /\ TaskTypes /\ NetTypes
  BY TypesSplit DEF Stages
<1>b. Refusing => shutdown
  BY <1>0 DEF Refusing, Stopping
<1>c. pc[runner] = "starting" => ~shutdown /\ lock = 0
  BY <1>0 DEF NotYetRun, Stopping, Locked, ClientTypes
<1>1. ASSUME NEW r \in Sockets, NEW f \in Fields, Reconnects(r, f), shutdown' = shutdown,
             OpensOnly(r), pc[r] \in Holding \cup {"reading", "resubscribe"}
      PROVE  Stages'
  <2>1. CASE shutdown
    <3>1. JustEnds(r, f) /\ Moves(r, "done") /\ lock' = IF lock = r THEN 0 ELSE lock
      BY <1>1, <2>1 DEF Reconnects, JustEnds
    <3>2. OthersStay(r)
      BY <1>1, <3>1 DEF OthersStay, Moves, OpensOnly, JustEnds
    <3>3. ReaderStep(r)
      BY <1>1, <1>c, <2>1, <3>1, <3>2 DEF ReaderStep, Moves, ReaderPlaces, Holding, Waiting
    <3> QED  BY <3>3, ReaderStepStages
  <2>2. CASE ~shutdown
    <3>1. /\ CleansUp(r) /\ lock' = IF lock = r THEN 0 ELSE lock
          /\ state' = "RECONNECTING" \/ Finishes(r)
      BY <1>1, <2>2 DEF Reconnects
    <3>2. OthersStay(r)
      <4>1. \A u \in Tasks : pc[u] = "reading" => u \in Sockets
        BY <1>0 DEF PlaceOf, Holding
      <4> QED  BY <1>1, <3>1, <4>1 DEF CleansUp, CleanTypes, OthersStay, OpensOnly
    <3>3. /\ pc'[r] \in {"cancelling", "closing", "backoff", "done"}
          /\ state' = "DISCONNECTED" => pc'[r] = "backoff" \/ (pc'[r] = "done" /\ fallen')
      BY <1>1, <1>b, <2>2, <3>1 DEF CleansUp, Finishes
    <3>4. ReaderStep(r)
      BY <1>1, <3>1, <3>2, <3>3 DEF ReaderStep, ReaderPlaces, ToOpen, Holding, Waiting
    <3> QED  BY <3>4, ReaderStepStages
  <2> QED  BY <2>1, <2>2
<1>2. ASSUME NEW f \in Fields, JustEnds(runner, f), lock' = (IF lock = runner THEN 0 ELSE lock),
             shutdown' = shutdown, OpensOnly(runner)
      PROVE  Stages'
  <2>1. RunnerStep("done")
    BY <1>2 DEF JustEnds, CleanTypes, Moves, RunnerStep, OthersStay, OpensOnly, Holding
  <2> QED  BY <2>1, RunnerStepStages
<1>3. ASSUME NEW t \in Tasks, NEW f \in Fields, ConnectRaises(t, f), shutdown' = shutdown,
             OpensOnly(t), pc[t] \in Holding \cup {"resubscribe"}
      PROVE  Stages'
  <2>1. t # main
    BY <1>0, <1>3 DEF PlaceOf, Holding
  <2>2. Raises(t, f)
    BY <1>3, ConnectRaisesEffect
  <2>3. CASE t = runner
    BY <1>2, <1>3, <2>2, <2>3 DEF Raises
  <2>4. CASE t \in Sockets
    BY <1>1, <1>3, <2>2, <2>4 DEF Raises
  <2> QED  BY <2>1, <2>3, <2>4
<1>4. ASSUME NEW t \in Tasks, pc[t] \in {"cancelling", "closing"}, UNCHANGED <<shutdown, lock>>,
             OpensOnly(t), Moves(t, pc'[t]), fallen => fallen',
             (pc'[t] = "closing" /\ state' = state) \/ Finishes(t)
      PROVE  Stages'
  <2>1. CASE t = main
    <3>1. lock # runner /\ shutdown
      BY <1>0, <1>4, <2>1 DEF Locked, Stopping, Holding
    <3>2. MainStep
      BY <1>0, <1>4, <2>1, <3>1 DEF MainStep, Moves, Finishes, Stopping
    <3> QED  BY <3>2, MainStepStages
  <2>2. CASE t # main
    <3>1. t \in Sockets
      BY <1>0, <1>4, <2>2 DEF PlaceOf, Holding
    <3>2. lock # t
      BY <1>0, <1>4 DEF Locked, Holding
    <3>3. \/ pc'[t] = "closing" /\ state' = state
          \/ pc'[t] = "backoff"
          \/ pc'[t] = "done" /\ (shutdown \/ fallen')
      BY <1>4, <1>b, <2>2 DEF Finishes
    <3>4. OthersStay(t)
      BY <1>4 DEF Moves, OthersStay, OpensOnly
    <3>5. ReaderStep(t)
      BY <1>4, <1>c, <3>2, <3>3, <3>4 DEF ReaderStep, ReaderPlaces, ToOpen, Holding, Waiting
    <3> QED  BY <3>1, <3>5, ReaderStepStages
  <2> QED  BY <2>1, <2>2
<1>5. ASSUME NEW t \in Tasks, Cancelled(t) PROVE Stages'
  <2>1. /\ Moves(t, pc'[t]) /\ CleanTypes
        /\ (pc'[t] = "closing" /\ state' = Found.state) \/ Finishes(t)
    BY <1>5, SweepEffect, FoundTypes DEF Cancelled
  <2> QED  BY <1>4, <1>5, <2>1 DEF Cancelled, CleanTypes, Found, OpensOnly
<1>6. ASSUME NEW t \in Tasks, Closed(t) PROVE Stages'
  <2>1. Moves(t, pc'[t]) /\ Finishes(t) /\ (fallen => fallen')
    BY <1>0, <1>6, EndCleanupEffect DEF Closed, ClientTypes
  <2>2. OpensOnly(t)
    BY <1>0, <1>6 DEF Closed, OpensOnly, NetTypes
  <2> QED  BY <1>4, <1>6, <2>1, <2>2 DEF Closed
<1>7. ASSUME NEW t \in Tasks, Wake(t) \/ Acquire(t) PROVE Stages'
  <2>1. /\ t \in Sockets /\ pc[t] \in {"backoff", "lock"} /\ pc[runner] # "starting"
        /\ UNCHANGED <<shutdown, sock, fallen>>
    BY <1>0, <1>7 DEF Wake, Acquire, PlaceOf, Holding, NotYetRun
  <2>2. CASE Enter(t)
    <3>1. Enters(t)
      BY <2>2, EnterEffect
    <3>2. lock # t
      BY <1>0, <2>1 DEF Locked, Holding
    <3>3. OthersStay(t)
      BY <2>1, <3>1 DEF Enters, Moves, OthersStay
    <3>4. ReaderStep(t)
      BY <2>1, <3>1, <3>2, <3>3 DEF Enters, Moves, ReaderStep, ReaderPlaces, ToOpen, Holding, Waiting
    <3> QED  BY <2>1, <3>4, ReaderStepStages
  <2>3. CASE shutdown /\ pc' = [pc EXCEPT ![t] = "done"] /\ UNCHANGED <<lock, state>>
    <3>1. Moves(t, "done") /\ lock # t
      BY <1>0, <2>1, <2>3, MoveTypes DEF Places, Locked, Holding
    <3>2. ReaderStep(t)
      BY <2>1, <2>3, <3>1 DEF Moves, ReaderStep, OthersStay, ReaderPlaces, Holding
    <3> QED  BY <2>1, <3>2, ReaderStepStages
  <2> QED  BY <1>7, <2>2, <2>3 DEF Wake, Acquire
<1>8. ASSUME Run PROVE Stages'
  <2>1. /\ pc[runner] = "starting" /\ pc[main] = "up" /\ lock = 0
        /\ UNCHANGED <<shutdown, sock, fallen>>
    BY <1>0, <1>8, <1>c DEF Run, Stopping
  <2>2. CASE Enter(runner) /\ state = "DISCONNECTED"
    <3>1. Enters(runner) /\ \A u \in Tasks : pc[u] # "lock"
      BY <1>0, <2>1, <2>2, EnterEffect DEF NotYetRun
    <3>2. lock' = runner /\ Moves(runner, "opening")
      BY <2>1, <3>1 DEF Enters
    <3>3. RunnerStep("opening")
      BY <2>1, <2>2, <3>2 DEF RunnerStep, Moves, OthersStay, Holding
    <3> QED  BY <3>3, RunnerStepStages
  <2>3. CASE pc' = [pc EXCEPT ![runner] = "idle"] /\ UNCHANGED <<lock, state>>
    <3>1. Moves(runner, "idle")
      BY <2>3, MoveTypes DEF Places
    <3>2. RunnerStep("idle")
      BY <2>1, <2>3, <3>1 DEF RunnerStep, Moves, OthersStay, Holding
    <3> QED  BY <3>2, RunnerStepStages
  <2> QED  BY <1>8, <2>2, <2>3 DEF Run
<1>9. ASSUME NEW t \in Tasks, NEW n \in Sockets, Opened(t, n) PROVE Stages'
  <2>1. /\ pc[t] = "opening" /\ pc[n] \in {"unborn", "done"} /\ n # t /\ t # main /\ lock = t
        /\ shutdown' = shutdown /\ OpensOnly(t)
    BY <1>0, <1>9 DEF Opened, Free, PlaceOf, Locked, Holding, OpensOnly
  <2>2. CASE ConnectRaises(t, [Found EXCEPT !.ws = n, !.state = "CONNECTED", !.attempt = 0])
    BY <1>3, <2>1, <2>2, FoundTypes DEF Holding
  <2>3. CASE /\ state' = "CONNECTED" /\ UNCHANGED <<lock, fallen>>
             /\ pc' = [pc EXCEPT ![n] = "reading",
                                 ![t] = IF HasCredentials /\ ~authed THEN "auth" ELSE "heartbeat"]
    <3>1. pc[main] = "up" \/ t # runner
      BY <1>0, <2>1 DEF Stopping
    <3>2. pc'[t] \in {"auth", "heartbeat"} /\ OthersStay(t)
      BY <1>0, <2>1, <2>3 DEF TaskTypes, OthersStay, OpensOnly
    <3>3. CASE t \in Sockets
      <4>1. ReaderStep(t)
        BY <1>c, <2>1, <2>3, <3>2 DEF ReaderStep, ReaderPlaces, Holding, Waiting
      <4> QED  BY <3>3, <4>1, ReaderStepStages
    <3>4. CASE t = runner
      <4>1. RunnerStep(pc'[t])
        BY <2>1, <2>3, <3>1, <3>2, <3>4 DEF RunnerStep, Holding
      <4> QED  BY <4>1, RunnerStepStages
    <3> QED  BY <2>1, <3>3, <3>4
  <2> QED  BY <1>9, <2>2, <2>3 DEF Opened
<1>10. ASSUME NEW t \in Tasks, OpenFails(t) \/ RequestRaises(t) PROVE Stages'
  BY <1>3, <1>10, FoundTypes DEF OpenFails, RequestRaises, Holding, OpensOnly
<1>11. ASSUME NEW t \in Tasks, AuthReply(t) PROVE Stages'
  <2>1. ASSUME NEW f \in Fields, ConnectRaises(t, f) PROVE Stages'
    BY <1>3, <1>11, <2>1 DEF AuthReply, Holding, OpensOnly
  <2>2. CASE Ask(t, "heartbeat") /\ UNCHANGED <<lock, fallen>> /\ state' = "AUTHENTICATED"
    <3>1. /\ pc[t] = "auth" /\ lock = t /\ t # main /\ Moves(t, "heartbeat")
          /\ UNCHANGED <<shutdown, sock>> /\ (pc[main] = "up" \/ t # runner) /\ lock # 0
      BY <1>0, <1>11, <2>2, MoveTypes DEF AuthReply, Ask, PlaceOf, Locked, Stopping, Holding, Places
    <3>2. OthersStay(t)
      BY <2>2, <3>1 DEF OthersStay, Moves
    <3>3. CASE t \in Sockets
      <4>1. ReaderStep(t)
        BY <1>c, <2>2, <3>1, <3>2 DEF ReaderStep, Moves, ReaderPlaces, Holding, Waiting
      <4> QED  BY <3>3, <4>1, ReaderStepStages
    <3>4. CASE t = runner
      <4>1. RunnerStep("heartbeat")
        BY <2>2, <3>1, <3>2, <3>4 DEF RunnerStep, Moves, Holding
      <4> QED  BY <4>1, RunnerStepStages
    <3> QED  BY <3>1, <3>3, <3>4
  <2> QED  BY <1>11, <2>1, <2>2, FoundTypes DEF AuthReply
<1>12. ASSUME NEW t \in Tasks, HeartbeatReply(t) PROVE Stages'
  <2>1. CASE ConnectRaises(t, Found)
    BY <1>3, <1>12, <2>1, FoundTypes DEF HeartbeatReply, Holding, OpensOnly
  <2>2. CASE ~ConnectRaises(t, Found)
    <3>1. /\ pc[t] = "heartbeat" /\ lock = t /\ t # main /\ lock' = 0 /\ state' = state
          /\ UNCHANGED <<shutdown, sock, fallen>> /\ (pc[main] = "up" \/ t # runner)
          /\ pc' = [pc EXCEPT ![t] = IF t = runner THEN "idle" ELSE "resubscribe"]
      BY <1>0, <1>12, <2>2 DEF HeartbeatReply, NextRequest, Ask, PlaceOf, Locked, Stopping, Holding
    <3>2. CASE t \in Sockets
      <4>1. Moves(t, "resubscribe")
        BY <3>1, <3>2, MoveTypes DEF Places
      <4>2. ReaderStep(t)
        BY <1>c, <3>1, <4>1 DEF ReaderStep, OthersStay, Moves, ReaderPlaces, Holding, Waiting
      <4> QED  BY <3>2, <4>2, ReaderStepStages
    <3>3. CASE t = runner
      <4>1. Moves(t, "idle")
        BY <3>1, <3>3, MoveTypes DEF Places
      <4>2. RunnerStep("idle")
        BY <3>1, <3>3, <4>1 DEF RunnerStep, OthersStay, Moves, Holding
      <4> QED  BY <4>2, RunnerStepStages
    <3> QED  BY <3>1, <3>2, <3>3
  <2> QED  BY <2>1, <2>2
<1>13. ASSUME NEW r \in Sockets, pc[r] \in {"reading", "resubscribe"}, Moves(r, "done"),
              UNCHANGED <<lock, shutdown, state, sock>>, fallen => fallen'
       PROVE  Stages'
  <2>1. lock # r
    BY <1>0, <1>13 DEF Locked, Holding
  <2>2. ReaderStep(r)
    BY <1>13, <2>1 DEF ReaderStep, OthersStay, Moves, ReaderPlaces, Holding, Waiting
  <2> QED  BY <2>2, ReaderStepStages
<1>14. ASSUME NEW t \in Tasks, Resubscribed(t) PROVE Stages'
  <2>1. t \in Sockets /\ pc[t] = "resubscribe" /\ UNCHANGED <<shutdown, sock>>
    BY <1>0, <1>14 DEF Resubscribed, PlaceOf, Holding
  <2>2. CASE Reconnect(t, Found)
    BY <1>1, <2>1, <2>2, ReconnectEffect, FoundTypes DEF OpensOnly
  <2>3. CASE Ends(t, Found) /\ UNCHANGED lock
    <3>1. Moves(t, "done") /\ state' = state /\ fallen' = fallen
      BY <2>3, EndsEffect, FoundTypes DEF JustEnds, Found
    <3> QED  BY <1>13, <2>1, <2>3, <3>1
  <2> QED  BY <1>14, <2>2, <2>3 DEF Resubscribed
<1>15. ASSUME NEW r \in Sockets, Break(r) \/ LoopEnds(r) PROVE Stages'
  <2>1. Moves(r, "done")
    BY <1>15, MoveTypes DEF Break, LoopEnds, Places
  <2> QED  BY <1>13, <1>15, <2>1 DEF Break, LoopEnds, Reading, client
<1>16. ASSUME NEW r \in Sockets, ConnectionLost(r) \/ MarketRaises(r) PROVE Stages'
  <2>1. pc[r] = "reading" /\ UNCHANGED <<shutdown, sock>>
    BY <1>16 DEF ConnectionLost, MarketRaises, Reading
  <2>2. CASE Reconnect(r, Found)
    BY <1>1, <2>1, <2>2, ReconnectEffect, FoundTypes DEF OpensOnly
  <2>3. CASE pc' = [pc EXCEPT ![r] = "done"] /\ fallen' = TRUE /\ UNCHANGED <<lock, state>>
    <3>1. Moves(r, "done")
      BY <2>3, MoveTypes DEF Places
    <3> QED  BY <1>13, <2>1, <2>3, <3>1
  <2> QED  BY <1>16, <2>2, <2>3 DEF ConnectionLost, MarketRaises
<1>17. ASSUME NEW r \in Sockets, NEW t \in Tasks, Reply(r, t) \/ Accept(t) \/ Lose(r) \/ ServerCloses(r)
       PROVE  Stages'
  <2>1. \A s \in Sockets : sock'[s] = "open" => sock[s] = "open"
    BY <1>0, <1>17 DEF Reply, Accept, Lose, ServerCloses, NetTypes
  <2> QED  BY <1>17, <2>1, StillStages DEF Reply, Accept, Lose, ServerCloses, client
<1>18. ASSUME CancelRunner PROVE Stages'
  <2>1. MainStep
    BY <1>0, <1>18 DEF CancelRunner, MainStep, TaskTypes, Stopping
  <2> QED  BY <2>1, MainStepStages
<1>19. ASSUME Disconnect PROVE Stages'
  <2>1. lock # runner /\ pc[runner] = "done" /\ shutdown' /\ lock' = lock
    BY <1>0, <1>19 DEF Disconnect, Stopping, Locked, Holding
  <2>2. CASE Cleanup(main, Found)
    <3>1. CleansUp(main)
      BY <2>2, CleanupEffect, FoundTypes
    <3>2. MainStep
      BY <2>1, <3>1 DEF CleansUp, Finishes, MainStep
    <3> QED  BY <3>2, MainStepStages
  <2>3. CASE pc' = [pc EXCEPT ![main] = "aborted"]
    <3>1. MainStep
      BY <1>0, <2>1, <2>3 DEF MainStep, TaskTypes
    <3> QED  BY <3>1, MainStepStages
  <2> QED  BY <1>19, <2>2, <2>3 DEF Disconnect
<1>20. CASE UNCHANGED vars
  BY <1>20, StillStages DEF vars, client
<1> QED
  BY <1>5, <1>6, <1>7, <1>8, <1>9, <1>10, <1>11, <1>12, <1>14, <1>15, <1>16, <1>17,
     <1>18, <1>19, <1>20 DEF Next, Step, Read

------------------------------------------------------------------------------
(* A client that is not stopped comes back *)

\* The shutdown is final, and troubles are only added to.
LEMMA OnlyGrows ==
  TypeOK /\ [Next]_vars
    => /\ shutdown => shutdown'
       /\ \A k \in Troubles : troubles'[k] \in Nat /\ troubles[k] \in Nat /\ troubles'[k] >= troubles[k]
<1> SUFFICES ASSUME TypeOK, [Next]_vars
             PROVE  /\ shutdown => shutdown'
                    /\ \A k \in Troubles : troubles'[k] \in Nat /\ troubles[k] \in Nat /\ troubles'[k] >= troubles[k]
  OBVIOUS
<1>0. \A k \in Troubles : troubles[k] \in Nat
  BY DEF TypeOK
<1>1. ASSUME NEW k \in Troubles, Suffer(k)
      PROVE  \A j \in Troubles : troubles'[j] \in Nat /\ troubles'[j] >= troubles[j]
  BY <1>0, <1>1, SufferEffect
<1>2. (shutdown => shutdown') /\ (troubles' = troubles \/ \E k \in Troubles : Suffer(k))
  <2>1. ASSUME NEW t \in Tasks, Step(t)
        PROVE  shutdown' = shutdown /\ (troubles' = troubles \/ \E k \in Troubles : Suffer(k))
    BY <2>1 DEF Step, Cancelled, Closed, Wake, Acquire, Opened, RequestRaises, AuthReply,
       HeartbeatReply, Resubscribed, EmissionRaises, Troubles
  <2>2. ASSUME NEW t \in Tasks, OpenFails(t) \/ Accept(t) \/ Run
        PROVE  shutdown' = shutdown /\ (troubles' = troubles \/ \E k \in Troubles : Suffer(k))
    BY <2>2 DEF OpenFails, Accept, Run, Troubles, client
  <2>3. ASSUME NEW r \in Sockets, Read(r)
        PROVE  shutdown' = shutdown /\ (troubles' = troubles \/ \E k \in Troubles : Suffer(k))
    BY <2>3 DEF Read, Break, ConnectionLost, LoopEnds, Reply, Troubles, client
  <2>4. ASSUME NEW r \in Sockets, MarketRaises(r) \/ Lose(r) \/ ServerCloses(r)
        PROVE  shutdown' = shutdown /\ (troubles' = troubles \/ \E k \in Troubles : Suffer(k))
    BY <2>4 DEF MarketRaises, Lose, ServerCloses, Troubles, client
  <2>5. ASSUME CancelRunner \/ Disconnect
        PROVE  (shutdown => shutdown') /\ troubles' = troubles
    BY <2>5 DEF CancelRunner, Disconnect
  <2> QED  BY <2>1, <2>2, <2>3, <2>4, <2>5, TasksAreDistinct DEF Next, vars, client
<1> QED  BY <1>0, <1>1, <1>2

\* A task that has ended at an event does not come back.
LEMMA FallenStays == TypeOK /\ [Next]_vars => (fallen => fallen')
<1> SUFFICES ASSUME TypeOK, [Next]_vars PROVE fallen => fallen'
  OBVIOUS
<1> USE TasksAreDistinct, FoundTypes
<1>1. ASSUME NEW t \in Tasks, NEW f \in Fields, ConnectRaises(t, f) PROVE fallen => fallen'
  BY <1>1, ConnectRaisesEffect DEF Raises, Reconnects, JustEnds, CleansUp, CleanTypes
<1>2. ASSUME NEW t \in Tasks, NEW f \in Fields, Reconnect(t, f) PROVE fallen => fallen'
  BY <1>2, ReconnectEffect DEF Reconnects, JustEnds, CleansUp, CleanTypes
<1>3. ASSUME NEW t \in Tasks, Cancelled(t) PROVE fallen => fallen'
  BY <1>3, SweepEffect DEF Cancelled, CleanTypes
<1>4. ASSUME NEW t \in Tasks, Closed(t) PROVE fallen => fallen'
  <2>1. attempt \in 0..MaxAttempt
    BY DEF TypeOK
  <2> QED  BY <1>4, <2>1, EndCleanupEffect DEF Closed
<1>5. ASSUME NEW t \in Tasks, NEW n \in Sockets, Opened(t, n) PROVE fallen => fallen'
  BY <1>1, <1>5 DEF Opened
<1>6. ASSUME NEW t \in Tasks, OpenFails(t) \/ RequestRaises(t) \/ AuthReply(t) \/ HeartbeatReply(t)
      PROVE  fallen => fallen'
  BY <1>1, <1>6 DEF OpenFails, RequestRaises, AuthReply, HeartbeatReply
<1>7. ASSUME NEW t \in Tasks, Resubscribed(t) PROVE fallen => fallen'
  BY <1>2, <1>7 DEF Resubscribed, Ends
<1>8. ASSUME NEW r \in Sockets, ConnectionLost(r) \/ MarketRaises(r) PROVE fallen => fallen'
  BY <1>2, <1>8 DEF ConnectionLost, MarketRaises
<1>9. ASSUME NEW t \in Tasks, NEW r \in Sockets,
             \/ Wake(t) \/ Acquire(t) \/ Run \/ Accept(t) \/ Break(r) \/ LoopEnds(r) \/ Reply(r, t)
             \/ Lose(r) \/ ServerCloses(r) \/ CancelRunner \/ UNCHANGED vars
      PROVE  fallen => fallen'
  BY <1>9 DEF Wake, Acquire, Run, Accept, Break, LoopEnds, Reply, Lose, ServerCloses,
              CancelRunner, vars
<1>10. ASSUME Disconnect PROVE fallen => fallen'
  BY <1>10, CleanupEffect DEF Disconnect, CleansUp, CleanTypes
<1> QED
  BY <1>3, <1>4, <1>5, <1>6, <1>7, <1>8, <1>9, <1>10 DEF Next, Step, Read

\* The current socket is not one that this client has closed.
NotClosed == ~shutdown /\ troubles.closes = 0 /\ ws # 0 => sock[ws] \in {"open", "lost"}

LEMMA NotClosedNext == TypeOK /\ NotClosed /\ [Next]_vars => NotClosed'
<1> SUFFICES ASSUME TypeOK, NotClosed, [Next]_vars,
                    ~shutdown', troubles'.closes = 0, ws' # 0
             PROVE  sock'[ws'] \in {"open", "lost"}
  BY DEF NotClosed
<1>0. ClientTypes /\ TaskTypes /\ NetTypes /\ ~shutdown /\ troubles.closes = 0
  <2>1. "closes" \in Troubles
    BY DEF Troubles
  <2> QED  BY <2>1, TypesSplit, OnlyGrows
<1>1. CASE UNCHANGED <<ws, sock>>
  BY <1>0, <1>1 DEF NotClosed
<1>2. ASSUME NEW t \in Tasks, Closed(t) PROVE FALSE
  BY <1>2 DEF Closed
<1>3. ASSUME NEW t \in Tasks, NEW n \in Sockets, Opened(t, n) PROVE sock'[ws'] \in {"open", "lost"}
  BY <1>0, <1>3 DEF Opened, NetTypes
<1>4. ASSUME NEW s \in Sockets, Lose(s) PROVE sock'[ws'] \in {"open", "lost"}
  <2>1. ws \in Sockets /\ ws' = ws
    BY <1>0, <1>4 DEF Lose, client, ClientTypes, Sockets
  <2> QED  BY <1>0, <1>4, <2>1 DEF Lose, NetTypes, NotClosed
<1>5. ASSUME NEW s \in Sockets, ServerCloses(s) PROVE FALSE
  <2>1. troubles'.closes = troubles.closes + 1
    BY <1>5, SufferEffect DEF ServerCloses, Troubles
  <2> QED  BY <1>0, <2>1
<1>6. ASSUME NEW t \in Tasks, Step(t)
      PROVE  UNCHANGED <<ws, sock>> \/ Closed(t) \/ \E n \in Sockets : Opened(t, n)
  BY <1>6 DEF Step, Cancelled, Wake, Acquire, RequestRaises, AuthReply, HeartbeatReply, Resubscribed
<1>7. ASSUME NEW t \in Tasks, OpenFails(t) \/ Accept(t) \/ Run PROVE UNCHANGED <<ws, sock>>
  BY <1>7 DEF OpenFails, Accept, Run, client
<1>8. ASSUME NEW r \in Sockets, Read(r) \/ MarketRaises(r) PROVE UNCHANGED <<ws, sock>>
  BY <1>8 DEF Read, Break, ConnectionLost, LoopEnds, Reply, MarketRaises, client
<1>9. ASSUME CancelRunner \/ Disconnect \/ UNCHANGED vars PROVE UNCHANGED <<ws, sock>>
  BY <1>9 DEF CancelRunner, Disconnect, vars, client
<1> QED
  BY <1>1, <1>2, <1>3, <1>4, <1>5, <1>6, <1>7, <1>8, <1>9, TasksAreDistinct DEF Next

\* Reader r is yet to resubscribe the current socket, or awaits the reply.
Resubscribing(r) == \/ pc[r] \in {"auth", "heartbeat"}
                    \/ pc[r] = "resubscribe" /\ sentOn[r] = ws /\ pend[r] = "wait"

\* The current reader reads the current socket, which has a subscription or will.
Current ==
    /\ ws \in Sockets /\ readerTask = ws /\ Reading(ws)
    /\ ws \in subscribed \/ \E r \in Sockets : Resubscribing(r)

\* A reader is on its way to open a connection.
OnItsWay == \E r \in Sockets : pc[r] \in ToOpen

\* There is a current connection, or a reader on its way to open one, however
\* many tasks reconnect at once.
Restoring ==
    ~shutdown /\ ~fallen /\ troubles.closes = 0 /\ troubles.refusals = 0
       => Current \/ OnItsWay

\* A current connection stays one when its reader goes on reading and whoever
\* resubscribes goes on with that.
LEMMA CurrentStays ==
  ASSUME Current, ws' = ws, readerTask' = readerTask, pc'[ws] = "reading",
         subscribed \subseteq subscribed',
         \A r \in Sockets : Resubscribing(r) => Resubscribing(r)' \/ ws \in subscribed'
  PROVE  Current'
BY DEF Current, Reading

LEMMA RestoringNext ==
  TypeOK /\ Stages /\ NotClosed /\ Restoring /\ [Next]_vars => Restoring'
<1> SUFFICES ASSUME TypeOK, Stages, NotClosed, Restoring, [Next]_vars,
                    ~shutdown', ~fallen', troubles'.closes = 0, troubles'.refusals = 0
             PROVE  Current' \/ OnItsWay'
  BY DEF Restoring
<1> USE TasksAreDistinct
<1>0. /\ PlaceOf /\ Locked /\ Stopping /\ AnotherWaits
      /\ ClientTypes /\ TaskTypes /\ NetTypes
  BY TypesSplit DEF Stages
<1>1. ~shutdown /\ ~fallen /\ troubles.closes = 0 /\ troubles.refusals = 0 /\ ~Refusing
  <2>1. "closes" \in Troubles /\ "refusals" \in Troubles
    BY DEF Troubles
  <2>2. ~shutdown /\ ~fallen /\ troubles.closes = 0 /\ troubles.refusals = 0
    BY <2>1, OnlyGrows, FallenStays
  <2> QED  BY <1>0, <2>2 DEF Refusing, Stopping
<1>2. Current \/ OnItsWay
  BY <1>1 DEF Restoring
<1>3. pc[main] \in {"up", "stopping"}
  BY <1>0, <1>1 DEF Stopping
<1>4. ASSUME NEW r \in Sockets, pc'[r] \in ToOpen PROVE OnItsWay'
  BY <1>4 DEF OnItsWay
<1>5. ASSUME NEW r \in Sockets, NEW f \in Fields, Reconnects(r, f) PROVE OnItsWay'
  BY <1>1, <1>4, <1>5 DEF Reconnects, CleansUp, Finishes, ToOpen, Waiting
<1>6. ASSUME NEW c, Moves(runner, c), pc[runner] \in Holding PROVE OnItsWay'
  BY <1>0, <1>1, <1>4, <1>6 DEF AnotherWaits, Moves, ToOpen
<1>7. ASSUME NEW t \in Tasks, NEW f \in Fields, ConnectRaises(t, f),
             pc[t] \in Holding \cup {"resubscribe"}
      PROVE  OnItsWay'
  <2>1. t # main
    BY <1>0, <1>7 DEF PlaceOf, Holding
  <2>2. t = runner => pc[runner] \in Holding
    BY <1>0, <1>7 DEF PlaceOf
  <2>3. Raises(t, f)
    BY <1>7, ConnectRaisesEffect
  <2> QED  BY <1>5, <1>6, <2>1, <2>2, <2>3 DEF Raises, JustEnds
<1>8. ASSUME NEW t \in Tasks, Cancelled(t) PROVE OnItsWay'
  <2>1. t \in Sockets
    BY <1>0, <1>3, <1>8 DEF Cancelled, PlaceOf, Holding
  <2>2. pc'[t] \in {"closing", "backoff"}
    BY <1>1, <1>8, <2>1, SweepEffect, FoundTypes DEF Cancelled, Finishes
  <2> QED  BY <1>4, <2>1, <2>2 DEF ToOpen, Waiting
<1>9. ASSUME NEW t \in Tasks, Closed(t) PROVE OnItsWay'
  <2>1. t \in Sockets
    BY <1>0, <1>3, <1>9 DEF Closed, PlaceOf, Holding
  <2>2. pc'[t] = "backoff"
    BY <1>0, <1>1, <1>9, <2>1, EndCleanupEffect DEF Closed, Finishes, ClientTypes
  <2> QED  BY <1>4, <2>1, <2>2 DEF ToOpen, Waiting
<1>10. ASSUME NEW t \in Tasks, Wake(t) \/ Acquire(t) PROVE OnItsWay'
  <2>1. t \in Sockets
    BY <1>0, <1>10 DEF Wake, Acquire, PlaceOf, Holding
  <2>2. Enters(t)
    BY <1>1, <1>10, EnterEffect DEF Wake, Acquire
  <2>3. pc'[t] \in {"opening", "lock"}
    BY <2>2 DEF Enters, Moves
  <2> QED  BY <1>4, <2>1, <2>3 DEF ToOpen, Waiting
<1>11. ASSUME UNCHANGED <<ws, readerTask, sentOn>>, subscribed \subseteq subscribed',
              \A r \in Sockets : pc'[r] = pc[r] /\ pend'[r] = pend[r]
       PROVE  Current' \/ OnItsWay'
  <2>1. CASE OnItsWay
    BY <1>4, <1>11, <2>1 DEF OnItsWay
  <2>2. CASE Current
    <3>1. pc'[ws] = "reading"
      BY <1>11, <2>2 DEF Current, Reading
    <3>2. \A r \in Sockets : Resubscribing(r) => Resubscribing(r)'
      BY <1>11 DEF Resubscribing
    <3> QED  BY <1>11, <2>2, <3>1, <3>2, CurrentStays
  <2> QED  BY <1>2, <2>1, <2>2
<1>12. ASSUME Run PROVE Current' \/ OnItsWay'
  <2>1. \A r \in Sockets : pc'[r] = pc[r]
    <3>1. CASE Enter(runner)
      BY <3>1, EnterEffect DEF Enters, Moves
    <3>2. CASE pc' = [pc EXCEPT ![runner] = "idle"]
      BY <1>0, <3>2 DEF TaskTypes
    <3> QED  BY <1>12, <3>1, <3>2 DEF Run
  <2> QED  BY <1>11, <1>12, <2>1 DEF Run
<1>13. ASSUME NEW t \in Tasks, NEW n \in Sockets, Opened(t, n) PROVE Current' \/ OnItsWay'
  <2>1. pc[t] = "opening" /\ pc[n] \in {"unborn", "done"} /\ n # t /\ t # main /\ ws' = n
    BY <1>0, <1>13 DEF Opened, Free, PlaceOf, Holding
  <2>2. CASE ConnectRaises(t, [Found EXCEPT !.ws = n, !.state = "CONNECTED", !.attempt = 0])
    BY <1>7, <2>1, <2>2, FoundTypes DEF Holding
  <2>3. CASE /\ readerTask' = n
             /\ pc' = [pc EXCEPT ![n] = "reading",
                                 ![t] = IF HasCredentials /\ ~authed THEN "auth" ELSE "heartbeat"]
    <3>1. /\ pc'[n] = "reading" /\ pc'[t] \in {"auth", "heartbeat"}
          /\ \A u \in Tasks \ {n, t} : pc'[u] = pc[u]
      BY <1>0, <2>1, <2>3 DEF TaskTypes
    <3>2. CASE t \in Sockets
      BY <2>1, <2>3, <3>1, <3>2 DEF Current, Reading, Resubscribing
    <3>3. CASE t = runner
      <4>1. pc[1] \in Waiting
        BY <1>0, <1>1, <2>1, <3>3 DEF AnotherWaits, Holding
      <4>2. 1 # n /\ 1 # t
        BY <2>1, <3>3, <4>1 DEF Waiting
      <4> QED  BY <1>4, <3>1, <4>1, <4>2 DEF ToOpen
    <3> QED  BY <2>1, <3>2, <3>3
  <2> QED  BY <1>13, <2>2, <2>3 DEF Opened
<1>14. ASSUME NEW t \in Tasks, OpenFails(t) \/ RequestRaises(t) PROVE OnItsWay'
  BY <1>7, <1>14, FoundTypes DEF OpenFails, RequestRaises, Holding
<1>15. ASSUME NEW t \in Sockets, pc[t] # "reading", pc[t] \notin ToOpen,
              UNCHANGED <<ws, readerTask>>, subscribed \subseteq subscribed',
              \A u \in Tasks \ {t} : pc'[u] = pc[u] /\ pend'[u] = pend[u] /\ sentOn'[u] = sentOn[u],
              Current /\ Resubscribing(t) => Resubscribing(t)'
       PROVE  Current' \/ OnItsWay'
  <2>1. CASE OnItsWay
    BY <1>4, <1>15, <2>1 DEF OnItsWay
  <2>2. CASE Current
    <3>1. pc'[ws] = "reading"
      BY <1>15, <2>2 DEF Current, Reading
    <3>2. \A r \in Sockets : Resubscribing(r) => Resubscribing(r)'
      BY <1>15, <2>2 DEF Resubscribing
    <3> QED  BY <1>15, <2>2, <3>1, <3>2, CurrentStays
  <2> QED  BY <1>2, <2>1, <2>2
<1>16. ASSUME NEW t \in Tasks, AuthReply(t) PROVE Current' \/ OnItsWay'
  <2>1. ASSUME NEW f \in Fields, ConnectRaises(t, f) PROVE OnItsWay'
    BY <1>7, <1>16, <2>1 DEF AuthReply, Holding
  <2>2. CASE Ask(t, "heartbeat") /\ UNCHANGED readerTask
    <3>1. /\ pc[t] = "auth" /\ t # main /\ Moves(t, "heartbeat")
          /\ UNCHANGED <<ws, readerTask, subscribed>>
          /\ \A u \in Tasks \ {t} : pend'[u] = pend[u] /\ sentOn'[u] = sentOn[u]
      BY <1>0, <1>16, <2>2, MoveTypes DEF AuthReply, Ask, PlaceOf, Holding, Places, TaskTypes
    <3>2. CASE t \in Sockets
      BY <1>15, <3>1, <3>2 DEF Moves, Resubscribing, ToOpen, Waiting
    <3>3. CASE t = runner
      BY <1>6, <3>1, <3>3 DEF Holding
    <3> QED  BY <3>1, <3>2, <3>3
  <2> QED  BY <1>16, <2>1, <2>2, FoundTypes DEF AuthReply
<1>17. ASSUME NEW t \in Tasks, HeartbeatReply(t) PROVE Current' \/ OnItsWay'
  <2>0. pc[t] = "heartbeat" /\ t # main
    BY <1>0, <1>17 DEF HeartbeatReply, PlaceOf, Holding
  <2>1. CASE ConnectRaises(t, Found)
    BY <1>7, <2>0, <2>1, FoundTypes DEF Holding
  <2>2. CASE ~ConnectRaises(t, Found) /\ t = runner
    <3>1. Moves(runner, "idle")
      BY <1>17, <2>2, MoveTypes DEF HeartbeatReply, NextRequest, Places
    <3> QED  BY <1>6, <2>0, <2>2, <3>1 DEF Holding
  <2>3. CASE ~ConnectRaises(t, Found) /\ t \in Sockets
    <3>1. /\ Ask(t, "resubscribe") /\ UNCHANGED <<ws, readerTask, subscribed>>
      BY <1>17, <2>3 DEF HeartbeatReply, NextRequest
    <3>2. /\ pc'[t] = "resubscribe" /\ sentOn'[t] = ws /\ pend'[t] = "wait"
          /\ \A u \in Tasks \ {t} : pc'[u] = pc[u] /\ pend'[u] = pend[u] /\ sentOn'[u] = sentOn[u]
      BY <1>0, <3>1 DEF Ask, TaskTypes
    <3> QED  BY <1>15, <2>0, <2>3, <3>1, <3>2 DEF Resubscribing, ToOpen, Waiting
  <2> QED  BY <2>0, <2>1, <2>2, <2>3
<1>18. ASSUME NEW t \in Tasks, Resubscribed(t) PROVE Current' \/ OnItsWay'
  <2>1. t \in Sockets /\ pc[t] = "resubscribe" /\ pend[t] # "wait"
    BY <1>0, <1>18 DEF Resubscribed, PlaceOf, Holding
  <2>2. CASE Reconnect(t, Found)
    BY <1>5, <2>1, <2>2, ReconnectEffect, FoundTypes
  <2>3. CASE Ends(t, Found)
    <3>1. /\ UNCHANGED <<ws, readerTask, subscribed>>
          /\ \A u \in Tasks \ {t} : pc'[u] = pc[u] /\ pend'[u] = pend[u] /\ sentOn'[u] = sentOn[u]
      BY <1>0, <1>18, <2>3 DEF Resubscribed, Ends, TaskTypes
    <3> QED  BY <1>15, <2>1, <3>1 DEF Resubscribing, ToOpen, Waiting
  <2> QED  BY <1>18, <2>2, <2>3 DEF Resubscribed
<1>19. ASSUME NEW r \in Sockets, Break(r) PROVE FALSE
  BY <1>1, <1>19 DEF Break
<1>20. ASSUME NEW r \in Sockets, LoopEnds(r) PROVE Current' \/ OnItsWay'
  <2>1. /\ pc[r] = "reading" /\ sock[r] = "closed"
        /\ UNCHANGED <<ws, readerTask, subscribed, pend, sentOn>>
        /\ \A u \in Tasks \ {r} : pc'[u] = pc[u]
    BY <1>0, <1>20 DEF LoopEnds, Reading, client, TaskTypes
  <2>2. CASE OnItsWay
    BY <1>4, <2>1, <2>2 DEF OnItsWay, ToOpen, Waiting
  <2>3. CASE Current
    <3>1. ws # r /\ ws \in Sockets
      BY <1>1, <2>1, <2>3 DEF Current, NotClosed
    <3>2. \A u \in Sockets : Resubscribing(u) => Resubscribing(u)'
      BY <2>1 DEF Resubscribing
    <3>3. pc'[ws] = "reading"
      BY <2>1, <2>3, <3>1 DEF Current, Reading
    <3> QED  BY <2>1, <2>3, <3>2, <3>3, CurrentStays
  <2> QED  BY <1>2, <2>2, <2>3
<1>21. ASSUME NEW r \in Sockets, ConnectionLost(r) \/ MarketRaises(r) PROVE OnItsWay'
  <2>1. Reconnect(r, Found)
    BY <1>21 DEF ConnectionLost, MarketRaises
  <2> QED  BY <1>5, <2>1, ReconnectEffect, FoundTypes
<1>22. ASSUME NEW r \in Sockets, NEW t \in Tasks, Reply(r, t) PROVE Current' \/ OnItsWay'
  <2>1. /\ UNCHANGED <<ws, readerTask, pc, sentOn>> /\ subscribed \subseteq subscribed'
        /\ \A u \in Tasks \ {t} : pend'[u] = pend[u]
        /\ sentOn[t] = r
    BY <1>0, <1>22 DEF Reply, client, TaskTypes
  <2>2. pc[t] = "resubscribe" => r \in subscribed'
    <3>1. CASE Suffer("refusals")
      BY <1>1, <3>1, SufferEffect DEF Troubles
    <3> QED  BY <1>22, <3>1 DEF Reply
  <2>3. CASE OnItsWay
    BY <1>4, <2>1, <2>3 DEF OnItsWay
  <2>4. CASE Current
    <3>1. \A u \in Sockets : Resubscribing(u) => Resubscribing(u)' \/ ws \in subscribed'
      BY <2>1, <2>2 DEF Resubscribing
    <3>2. pc'[ws] = "reading"
      BY <2>1, <2>4 DEF Current, Reading
    <3> QED  BY <2>1, <2>4, <3>1, <3>2, CurrentStays
  <2> QED  BY <1>2, <2>3, <2>4
<1>23. ASSUME NEW t \in Tasks, NEW s \in Sockets, Accept(t) \/ Lose(s) \/ ServerCloses(s)
       PROVE  Current' \/ OnItsWay'
  BY <1>11, <1>23 DEF Accept, Lose, ServerCloses, client
<1>24. ASSUME CancelRunner PROVE Current' \/ OnItsWay'
  BY <1>0, <1>11, <1>24 DEF CancelRunner, TaskTypes
<1>25. ASSUME Disconnect PROVE FALSE
  BY <1>25 DEF Disconnect
<1>26. CASE UNCHANGED vars
  BY <1>11, <1>26 DEF vars, client
<1> QED
  BY <1>8, <1>9, <1>10, <1>12, <1>13, <1>14, <1>16, <1>17, <1>18, <1>19, <1>20, <1>21,
     <1>22, <1>23, <1>24, <1>25, <1>26 DEF Next, Step, Read

------------------------------------------------------------------------------
(* While one feed is replaced *)

\* Market data of reader r's socket, which may be lost, goes to the archive.
Fed(r) == Reading(r) /\ r \in subscribed

Calm == troubles.losses + troubles.raises = 0

\* With at most one feed replaced, it is reader 1's, and reader 1 replaces it.
OnlyFirst ==
    AtMostOneReplaced =>
       /\ \A r \in Sockets \ {1} : pc[r] \in {"unborn", "reading", "done"}
       /\ \A s \in Sockets : sock[s] = "lost" => s = 1 /\ troubles.losses = 1
       /\ Calm => pc[1] \in {"reading", "done"} /\ (fallen => shutdown)
       /\ Calm \/ pc[1] = "reading" =>
             \A r \in Sockets \ {1} : pc[r] = "unborn" /\ sock[r] # "open"

\* Where the replacement has more to do.
Replacing == ToOpen \cup {"auth", "heartbeat", "resubscribe"}

\* Who takes a step of a reconnection, and what that says of reader 1.
LEMMA FirstActs ==
  ASSUME TypeOK, Stages, OnlyFirst, AtMostOneReplaced, NEW t \in Tasks
  PROVE  /\ t \in Sockets /\ pc[t] \in Replacing => t = 1
         /\ pc[t] \in Holding \cup {"resubscribe"} => t \in {1, runner}
         /\ pc[t] = "resubscribe" => t = 1
         /\ t = runner /\ pc[t] \in Holding => ~Calm
         /\ t = runner /\ pc[t] = "opening" =>
               /\ pc[1] \in Waiting \cup {"done"}
               /\ \A r \in Sockets \ {1} : pc[r] = "unborn" /\ sock[r] # "open"
         /\ pc[1] \in Replacing => ~Calm
<1> USE TasksAreDistinct
<1>0. /\ PlaceOf /\ Stopping /\ FirstConnection /\ AnotherWaits
      /\ \A r \in Sockets \ {1} : pc[r] \in {"unborn", "reading", "done"}
      /\ Calm => pc[1] \in {"reading", "done"} /\ (fallen => shutdown)
  BY DEF Stages, OnlyFirst
<1>1. t \in Sockets /\ pc[t] \in Replacing => t = 1
  BY <1>0 DEF Replacing, ToOpen, Waiting
<1>2. pc[t] \in Holding \cup {"resubscribe"} => t \in {1, runner}
  BY <1>0, <1>1 DEF PlaceOf, Holding, Replacing, ToOpen
<1>3. pc[1] \in Replacing => ~Calm
  BY <1>0 DEF Replacing, ToOpen, Waiting
<1>4. t = runner /\ pc[t] \in Holding => ~Calm
  <2>1. pc[runner] \in Holding => ~shutdown /\ (pc[1] \in Waiting \/ fallen)
    BY <1>0 DEF Stopping, AnotherWaits, Holding
  <2> QED  BY <1>0, <1>3, <2>1 DEF Replacing, ToOpen
<1>5. t = runner /\ pc[t] = "opening" =>
         /\ pc[1] \in Waiting \cup {"done"}
         /\ \A r \in Sockets \ {1} : pc[r] = "unborn" /\ sock[r] # "open"
  BY <1>0 DEF FirstConnection
<1>6. pc[t] = "resubscribe" => t = 1
  BY <1>0, <1>2 DEF PlaceOf, Holding
<1> QED  BY <1>1, <1>2, <1>3, <1>4, <1>5, <1>6

\* What is replaced once has been replaced at most once before.
LEMMA ReplacedGrows ==
  TypeOK /\ [Next]_vars
    => /\ AtMostOneReplaced' => AtMostOneReplaced
       /\ Calm' => Calm
       /\ \A k \in Troubles : troubles'[k] = 0 => troubles[k] = 0
       /\ troubles.losses \in Nat /\ troubles.raises \in Nat
<1> SUFFICES ASSUME TypeOK, [Next]_vars
             PROVE  /\ AtMostOneReplaced' => AtMostOneReplaced
                    /\ Calm' => Calm
                    /\ \A k \in Troubles : troubles'[k] = 0 => troubles[k] = 0
                    /\ troubles.losses \in Nat /\ troubles.raises \in Nat
  OBVIOUS
<1>1. \A k \in Troubles : troubles'[k] \in Nat /\ troubles[k] \in Nat /\ troubles'[k] >= troubles[k]
  BY OnlyGrows
<1>2. "losses" \in Troubles /\ "raises" \in Troubles
  BY DEF Troubles
<1> QED  BY <1>1, <1>2 DEF AtMostOneReplaced, Calm

\* Calm is not disturbed by troubles of another kind.
LEMMA CalmStays ==
  ASSUME TypeOK, Harmless
  PROVE  troubles'.losses = troubles.losses /\ troubles'.raises = troubles.raises
         /\ Calm' = Calm
<1>1. /\ troubles'["losses"] = troubles["losses"]
      /\ troubles'["raises"] = troubles["raises"]
  BY SufferEffect DEF Harmless, Troubles
<1> QED  BY <1>1 DEF Calm

LEMMA OnlyFirstInit == Init => OnlyFirst
<1> SUFFICES ASSUME Init PROVE OnlyFirst
  OBVIOUS
<1>1. /\ pc[1] = "reading" /\ ~fallen
      /\ \A r \in Sockets \ {1} : pc[r] = "unborn" /\ sock[r] # "open"
      /\ \A s \in Sockets : sock[s] # "lost"
  BY TasksAreDistinct DEF Init
<1> QED  BY <1>1 DEF OnlyFirst

\* A step in which reader 1, if it moves, ends or goes on replacing, and the
\* others at most end.
FirstStep ==
    /\ \/ pc'[1] = pc[1]
       \/ pc[1] = "reading" /\ pc'[1] = "done"
       \/ pc[1] \in Replacing /\ pc'[1] \in Replacing \cup {"done"}
    /\ \A r \in Sockets \ {1} : pc'[r] = pc[r] \/ (pc[r] = "reading" /\ pc'[r] = "done")

\* Before anything is replaced no task but main ends at an event.
NoFallInCalm == fallen' => fallen \/ shutdown' \/ ~Calm

LEMMA FirstStepKeeps ==
  ASSUME TypeOK, Stages, OnlyFirst, AtMostOneReplaced, FirstStep, NoFallInCalm,
         \A s \in Sockets : sock'[s] = sock[s] \/ sock'[s] = "closed",
         shutdown => shutdown', troubles'.losses = troubles.losses, Calm' = Calm
  PROVE  OnlyFirst'
<1>0. /\ \A r \in Sockets \ {1} : pc[r] \in {"unborn", "reading", "done"}
      /\ \A s \in Sockets : sock[s] = "lost" => s = 1 /\ troubles.losses = 1
      /\ Calm => pc[1] \in {"reading", "done"} /\ (fallen => shutdown)
      /\ Calm \/ pc[1] = "reading" =>
            \A r \in Sockets \ {1} : pc[r] = "unborn" /\ sock[r] # "open"
  BY DEF OnlyFirst
<1>1. \A r \in Sockets \ {1} : pc'[r] \in {"unborn", "reading", "done"}
  BY <1>0 DEF FirstStep
<1>2. \A s \in Sockets : sock'[s] = "lost" => s = 1 /\ troubles'.losses = 1
  BY <1>0
<1>3. Calm => pc'[1] \in {"reading", "done"} /\ (fallen' => shutdown')
  BY <1>0 DEF FirstStep, NoFallInCalm, Replacing, ToOpen, Waiting
<1>4. Calm \/ pc'[1] = "reading" =>
         \A r \in Sockets \ {1} : pc'[r] = "unborn" /\ sock'[r] # "open"
  <2>1. pc'[1] = "reading" => pc[1] = "reading"
    BY DEF FirstStep, Replacing, ToOpen, Waiting
  <2> QED  BY <1>0, <2>1 DEF FirstStep
<1> QED  BY <1>1, <1>2, <1>3, <1>4 DEF OnlyFirst

\* What reader 1 does when it reconnects.
LEMMA ReconnectsFirst ==
  ASSUME TypeOK, Stages, NEW f \in Fields, Reconnects(1, f)
  PROVE  /\ pc'[1] \in {"cancelling", "closing", "backoff", "done"}
         /\ ~shutdown /\ ~fallen' => pc'[1] # "done"
         /\ shutdown => fallen' = fallen
         /\ \A r \in Sockets \ {1} : pc'[r] = pc[r] \/ (pc[r] = "reading" /\ pc'[r] = "done")
<1>1. Refusing => shutdown
  BY DEF Stages, Stopping, Refusing
<1> QED  BY <1>1, TasksAreDistinct DEF Reconnects, CleansUp, JustEnds, Finishes, Moves

LEMMA OnlyFirstNext == TypeOK /\ Stages /\ OnlyFirst /\ [Next]_vars => OnlyFirst'
<1> SUFFICES ASSUME TypeOK, Stages, OnlyFirst, [Next]_vars, AtMostOneReplaced' PROVE OnlyFirst'
  BY DEF OnlyFirst
<1> USE TasksAreDistinct
<1>0. /\ PlaceOf /\ Stopping /\ ClientTypes /\ TaskTypes /\ NetTypes /\ AtMostOneReplaced
      /\ troubles.losses \in Nat /\ troubles.raises \in Nat
      /\ troubles'.losses \in Nat /\ troubles'.raises \in Nat
      /\ shutdown => shutdown'
  BY TypesSplit, ReplacedGrows, OnlyGrows DEF Stages, Troubles
<1>b. /\ \A r \in Sockets \ {1} : pc[r] \in {"unborn", "reading", "done"}
      /\ \A s \in Sockets : sock[s] = "lost" => s = 1 /\ troubles.losses = 1
      /\ Calm => pc[1] \in {"reading", "done"} /\ (fallen => shutdown)
      /\ Calm \/ pc[1] = "reading" =>
            \A r \in Sockets \ {1} : pc[r] = "unborn" /\ sock[r] # "open"
  BY <1>0 DEF OnlyFirst
<1>1. ASSUME FirstStep, NoFallInCalm, sock' = sock, Harmless
      PROVE  OnlyFirst'
  BY <1>0, <1>1, CalmStays, FirstStepKeeps
<1>2. ASSUME NEW t \in Tasks, NEW f \in Fields, ConnectRaises(t, f),
             pc[t] \in Holding \cup {"resubscribe"}
      PROVE  /\ FirstStep /\ NoFallInCalm
             /\ t = 1 => pc'[1] # "reading"
             /\ t = runner => pc'[1] = pc[1]
             /\ \A r \in Sockets \ {1} : pc'[r] = pc[r] \/ (pc[r] = "reading" /\ pc'[r] = "done")
  <2>1. t \in {1, runner} /\ Raises(t, f) /\ ~Calm
    BY <1>0, <1>2, FirstActs, ConnectRaisesEffect DEF Replacing, Holding, ToOpen
  <2>2. CASE t = 1
    <3>1. Reconnects(1, f)
      BY <2>1, <2>2 DEF Raises
    <3> QED  BY <1>2, <2>1, <2>2, <3>1, ReconnectsFirst
             DEF FirstStep, NoFallInCalm, Replacing, ToOpen, Waiting, Holding
  <2>3. CASE t = runner
    <3>1. JustEnds(runner, f) /\ pc'[1] = pc[1] /\ \A r \in Sockets : pc'[r] = pc[r]
      BY <2>1, <2>3 DEF Raises, JustEnds, Moves
    <3> QED  BY <2>1, <2>3, <3>1 DEF FirstStep, NoFallInCalm
  <2> QED  BY <2>1, <2>2, <2>3
<1>3. ASSUME NEW t \in Tasks, NEW c, Moves(t, c),
             \/ t \in {main, runner}
             \/ pc[t] \in Replacing /\ c \in Replacing \cup {"done"}
             \/ t \in Sockets /\ pc[t] = "reading" /\ c = "done"
      PROVE  FirstStep
  <2>1. CASE t \in {main, runner}
    BY <2>1, <1>3 DEF Moves, FirstStep
  <2>2. CASE t \in Sockets
    BY <1>0, <1>3, <2>2, FirstActs DEF Moves, FirstStep
  <2> QED  BY <2>1, <2>2
<1>4. ASSUME NEW t \in Tasks, pc[t] \in {"cancelling", "closing"}, Moves(t, pc'[t]),
             MainIsCaught(t), Finishes(t) \/ (pc'[t] = "closing" /\ fallen' = fallen)
      PROVE  FirstStep /\ NoFallInCalm
  <2>1. CASE t = main
    BY <1>3, <1>4, <2>1 DEF MainIsCaught, NoFallInCalm
  <2>2. CASE t # main
    <3>1. t = 1 /\ pc[t] \in Replacing
      BY <1>0, <1>4, <2>2, FirstActs DEF PlaceOf, Holding, Replacing, ToOpen, Waiting
    <3>2. pc'[t] \in Replacing \cup {"done"}
      BY <1>4, <2>2 DEF Finishes, Replacing, ToOpen, Waiting
    <3>3. ~Calm
      BY <1>0, <3>1, FirstActs
    <3> QED  BY <1>3, <1>4, <3>1, <3>2, <3>3 DEF NoFallInCalm
  <2> QED  BY <2>1, <2>2
<1>5. ASSUME NEW t \in Tasks, Cancelled(t) PROVE OnlyFirst'
  <2>1. FirstStep /\ NoFallInCalm
    BY <1>4, <1>5, SweepEffect, FoundTypes DEF Cancelled
  <2> QED  BY <1>1, <1>5, <2>1 DEF Cancelled, Harmless
<1>6. ASSUME NEW t \in Tasks, Closed(t) PROVE OnlyFirst'
  <2>1. FirstStep /\ NoFallInCalm
    BY <1>0, <1>4, <1>6, EndCleanupEffect DEF Closed, ClientTypes
  <2>2. \A s \in Sockets : sock'[s] = sock[s] \/ sock'[s] = "closed"
    BY <1>0, <1>6 DEF Closed, NetTypes
  <2>3. Harmless
    BY <1>6 DEF Closed, Harmless
  <2> QED  BY <1>0, <2>1, <2>2, <2>3, CalmStays, FirstStepKeeps
<1>7. ASSUME NEW t \in Tasks, Wake(t) \/ Acquire(t) PROVE OnlyFirst'
  <2>1. \E c \in {"lock", "opening", "done"} : Moves(t, c)
    <3>1. CASE Enter(t)
      BY <3>1, EnterEffect DEF Enters
    <3>2. CASE pc' = [pc EXCEPT ![t] = "done"]
      BY <3>2, MoveTypes DEF Places
    <3> QED  BY <1>7, <3>1, <3>2 DEF Wake, Acquire
  <2>2. FirstStep
    BY <1>3, <1>7, <2>1 DEF Wake, Acquire, Replacing, ToOpen, Waiting
  <2> QED  BY <1>1, <1>7, <2>2 DEF Wake, Acquire, NoFallInCalm, Harmless
<1>8. ASSUME Run PROVE OnlyFirst'
  <2>1. \E c : Moves(runner, c)
    <3>1. CASE Enter(runner)
      BY <3>1, EnterEffect DEF Enters
    <3>2. CASE pc' = [pc EXCEPT ![runner] = "idle"]
      BY <3>2, MoveTypes DEF Places
    <3> QED  BY <1>8, <3>1, <3>2 DEF Run
  <2>2. FirstStep
    BY <1>3, <2>1
  <2> QED  BY <1>1, <1>8, <2>2 DEF Run, NoFallInCalm, Harmless
<1>9. ASSUME NEW t \in Tasks, NEW n \in Sockets, Opened(t, n) PROVE OnlyFirst'
  <2>1. /\ pc[t] = "opening" /\ pc[n] \in {"unborn", "done"} /\ t \in {1, runner}
        /\ sock' = [sock EXCEPT ![n] = "open"]
    BY <1>0, <1>9, FirstActs DEF Opened, Free, Holding
  <2>2. /\ ~Calm /\ (t = 1 => n # 1)
        /\ t = runner => /\ pc[1] \in Waiting \cup {"done"}
                         /\ \A r \in Sockets \ {1} : pc[r] = "unborn" /\ sock[r] # "open"
    BY <1>0, <2>1, FirstActs DEF Holding, ToOpen, Replacing
  <2>3. Harmless
    BY <1>9, EmissionIsHarmless DEF Opened, Harmless
  <2>4. ~Calm' /\ troubles'.losses = troubles.losses
    BY <2>2, <2>3, CalmStays
  <2>5. \A s \in Sockets : sock'[s] = "lost" => sock[s] = "lost"
    BY <1>0, <2>1 DEF NetTypes
  <2>6. CASE ConnectRaises(t, [Found EXCEPT !.ws = n, !.state = "CONNECTED", !.attempt = 0])
    <3>1. /\ pc'[1] # "reading"
          /\ \A r \in Sockets \ {1} : pc'[r] = pc[r] \/ (pc[r] = "reading" /\ pc'[r] = "done")
      BY <1>2, <2>1, <2>2, <2>6, FoundTypes DEF Holding, Waiting
    <3> QED  BY <1>b, <2>4, <2>5, <3>1 DEF OnlyFirst
  <2>7. CASE pc' = [pc EXCEPT ![n] = "reading",
                              ![t] = IF HasCredentials /\ ~authed THEN "auth" ELSE "heartbeat"]
    <3>1. /\ \A r \in Sockets \ {1, n} : pc'[r] = pc[r]
          /\ pc'[n] = "reading" /\ (n # 1 => pc'[1] # "reading")
      BY <1>0, <2>1, <2>2, <2>7 DEF TaskTypes, Waiting
    <3>2. n = 1 => \A r \in Sockets \ {1} : pc'[r] = "unborn" /\ sock'[r] # "open"
      BY <1>0, <2>1, <2>2, <3>1 DEF NetTypes
    <3> QED  BY <1>b, <2>4, <2>5, <3>1, <3>2 DEF OnlyFirst
  <2> QED  BY <1>9, <2>6, <2>7 DEF Opened
<1>10. ASSUME NEW t \in Tasks, OpenFails(t) \/ RequestRaises(t) PROVE OnlyFirst'
  <2>1. FirstStep /\ NoFallInCalm
    BY <1>2, <1>10, FoundTypes DEF OpenFails, RequestRaises, Holding
  <2> QED  BY <1>1, <1>10, <2>1 DEF OpenFails, RequestRaises, Harmless
<1>11. ASSUME NEW t \in Tasks, AuthReply(t) PROVE OnlyFirst'
  <2>1. Harmless /\ sock' = sock
    BY <1>11, EmissionIsHarmless DEF AuthReply, Harmless
  <2>2. ASSUME NEW f \in Fields, ConnectRaises(t, f) PROVE FirstStep /\ NoFallInCalm
    BY <1>2, <1>11, <2>2 DEF AuthReply, Holding
  <2>3. CASE Ask(t, "heartbeat") /\ UNCHANGED fallen
    <3>1. Moves(t, "heartbeat")
      BY <2>3, MoveTypes DEF Ask, Places
    <3> QED  BY <1>1, <1>3, <1>11, <2>1, <2>3, <3>1 DEF AuthReply, NoFallInCalm, Replacing
  <2> QED  BY <1>1, <1>11, <2>1, <2>2, <2>3, FoundTypes DEF AuthReply
<1>12. ASSUME NEW t \in Tasks, HeartbeatReply(t) PROVE OnlyFirst'
  <2>1. Harmless /\ sock' = sock
    BY <1>12, EmissionIsHarmless DEF HeartbeatReply, Harmless
  <2>2. CASE ConnectRaises(t, Found)
    BY <1>1, <1>2, <1>12, <2>1, <2>2, FoundTypes DEF HeartbeatReply, Holding
  <2>3. CASE ~ConnectRaises(t, Found)
    <3>1. \E c \in {"resubscribe", "done"} : t = runner \/ Moves(t, c)
      BY <1>12, <2>3, MoveTypes DEF HeartbeatReply, NextRequest, Ask, Places
    <3>2. t = runner => Moves(t, "idle")
      BY <1>12, <2>3, MoveTypes DEF HeartbeatReply, NextRequest, Places
    <3>3. FirstStep
      BY <1>3, <1>12, <3>1, <3>2 DEF HeartbeatReply, Replacing
    <3> QED  BY <1>1, <1>12, <2>1, <2>3, <3>3 DEF HeartbeatReply, NoFallInCalm
  <2> QED  BY <2>2, <2>3
<1>13. ASSUME NEW t \in Tasks, Resubscribed(t) PROVE OnlyFirst'
  <2>1. Harmless /\ sock' = sock /\ pc[t] = "resubscribe" /\ t = 1 /\ ~Calm
    BY <1>0, <1>13, EmissionIsHarmless, FirstActs DEF Resubscribed, Harmless, Replacing
  <2>2. CASE Reconnect(1, Found)
    <3>1. FirstStep
      BY <2>1, <2>2, ReconnectEffect, ReconnectsFirst, FoundTypes
         DEF FirstStep, Replacing, ToOpen, Waiting
    <3> QED  BY <1>1, <2>1, <3>1 DEF NoFallInCalm
  <2>3. CASE Ends(1, Found)
    <3>1. Moves(1, "done")
      BY <2>3, MoveTypes DEF Ends, Places
    <3>2. FirstStep
      BY <1>3, <2>1, <3>1 DEF Replacing
    <3> QED  BY <1>1, <2>1, <3>2 DEF NoFallInCalm
  <2> QED  BY <1>13, <2>1, <2>2, <2>3 DEF Resubscribed
<1>14. ASSUME NEW r \in Sockets, Break(r) \/ LoopEnds(r) PROVE OnlyFirst'
  <2>1. Moves(r, "done") /\ pc[r] = "reading"
    BY <1>14, MoveTypes DEF Break, LoopEnds, Reading, Places
  <2>2. FirstStep
    BY <1>3, <2>1
  <2> QED  BY <1>1, <1>14, <2>2 DEF Break, LoopEnds, NoFallInCalm, Harmless
<1>15. ASSUME NEW r \in Sockets, ConnectionLost(r) \/ MarketRaises(r) PROVE OnlyFirst'
  <2>1. r = 1 /\ ~Calm' /\ troubles'.losses = troubles.losses /\ sock' = sock
    <3>1. CASE ConnectionLost(r)
      BY <1>0, <1>b, <3>1 DEF ConnectionLost, Calm
    <3>2. CASE MarketRaises(r)
      <4>1. /\ troubles'["raises"] = troubles["raises"] + 1
            /\ troubles'["losses"] = troubles["losses"]
        BY <3>2, SufferEffect DEF MarketRaises, Troubles
      <4>2. Calm /\ ~Calm'
        BY <1>0, <4>1 DEF AtMostOneReplaced, Calm
      <4> QED  BY <1>b, <3>2, <4>1, <4>2 DEF MarketRaises, Reading
    <3> QED  BY <1>15, <3>1, <3>2
  <2>2. /\ pc'[1] # "reading"
        /\ \A u \in Sockets \ {1} : pc'[u] = pc[u] \/ (pc[u] = "reading" /\ pc'[u] = "done")
    <3>1. CASE Reconnect(1, Found)
      BY <3>1, ReconnectEffect, ReconnectsFirst, FoundTypes
    <3>2. CASE pc' = [pc EXCEPT ![1] = "done"]
      BY <1>0, <3>2 DEF TaskTypes
    <3> QED  BY <1>15, <2>1, <3>1, <3>2 DEF ConnectionLost, MarketRaises
  <2> QED  BY <1>b, <2>1, <2>2 DEF OnlyFirst
<1>16. ASSUME NEW s \in Sockets, Lose(s) PROVE OnlyFirst'
  <2>1. /\ troubles'["losses"] = troubles["losses"] + 1
        /\ troubles'["raises"] = troubles["raises"]
    BY <1>16, SufferEffect DEF Lose, Troubles
  <2>2. Calm /\ ~Calm' /\ troubles'.losses = 1
    BY <1>0, <2>1 DEF AtMostOneReplaced, Calm
  <2>3. s = 1 /\ troubles.losses # 1
    BY <1>0, <1>b, <1>16, <2>2 DEF Lose, Calm
  <2>4. pc' = pc /\ \A u \in Sockets \ {1} : sock'[u] = sock[u]
    BY <1>0, <1>16, <2>3 DEF Lose, NetTypes
  <2> QED  BY <1>b, <2>2, <2>3, <2>4 DEF OnlyFirst
<1>17. ASSUME NEW s \in Sockets, ServerCloses(s) PROVE OnlyFirst'
  <2>1. /\ pc' = pc /\ Harmless /\ fallen' = fallen
        /\ \A u \in Sockets : sock'[u] = sock[u] \/ sock'[u] = "closed"
    BY <1>0, <1>17 DEF ServerCloses, Harmless, NetTypes
  <2> QED  BY <1>0, <2>1, CalmStays, FirstStepKeeps DEF FirstStep, NoFallInCalm
<1>18. ASSUME NEW r \in Sockets, NEW t \in Tasks, Reply(r, t) \/ Accept(t) PROVE OnlyFirst'
  BY <1>1, <1>18 DEF Reply, Accept, FirstStep, NoFallInCalm, Harmless
<1>19. ASSUME CancelRunner PROVE OnlyFirst'
  <2>1. FirstStep
    BY <1>0, <1>19 DEF CancelRunner, TaskTypes, FirstStep
  <2> QED  BY <1>1, <1>19, <2>1 DEF CancelRunner, NoFallInCalm, Harmless
<1>20. ASSUME Disconnect PROVE OnlyFirst'
  <2>1. shutdown' /\ sock' = sock /\ troubles' = troubles
    BY <1>20 DEF Disconnect
  <2>2. CASE Cleanup(main, Found)
    <3>1. FirstStep
      BY <2>2, CleanupEffect, FoundTypes DEF CleansUp, FirstStep
    <3> QED  BY <1>1, <2>1, <3>1 DEF NoFallInCalm, Harmless
  <2>3. CASE pc' = [pc EXCEPT ![main] = "aborted"]
    <3>1. FirstStep
      BY <1>0, <2>3 DEF TaskTypes, FirstStep
    <3> QED  BY <1>1, <2>1, <3>1 DEF NoFallInCalm, Harmless
  <2> QED  BY <1>20, <2>2, <2>3 DEF Disconnect
<1>21. CASE UNCHANGED vars
  BY <1>1, <1>21 DEF vars, client, FirstStep, NoFallInCalm, Harmless
<1> QED
  BY <1>5, <1>6, <1>7, <1>8, <1>9, <1>10, <1>11, <1>12, <1>13, <1>14, <1>15, <1>16,
     <1>17, <1>18, <1>19, <1>20, <1>21 DEF Next, Step, Read

------------------------------------------------------------------------------
(* One feed at a time *)

NoneFed == \A r \in Sockets : ~Fed(r)

\* Where a new connection of reader 1 has not been subscribed yet.
NoFeedYet == ToOpen \cup {"auth", "heartbeat"}

\* What is fed while reader 1 is where it is.
FedOnce ==
    /\ \A r, s \in Sockets : Fed(r) /\ Fed(s) => r = s
    /\ pc[1] \in NoFeedYet => NoneFed
    /\ pc[1] = "resubscribe" => \A r \in Sockets : Fed(r) => r = sentOn[1]

\* While nobody stops the client, what is fed is what the next cleanup ends.
FedByReader ==
    /\ \A r \in Sockets : Fed(r) => readerTask = r
    /\ pc[1] \in {"auth", "heartbeat"} => \A r \in Sockets : ws = r /\ Reading(r) => readerTask = r
    /\ pc[1] = "resubscribe" => \A r \in Sockets : sentOn[1] = r /\ Reading(r) => readerTask = r
    /\ troubles.closes = 0 => \A r \in Sockets : Fed(r) => sock[r] # "closed"

Feeds == AtMostOneReplaced => FedOnce /\ (~shutdown => FedByReader)

LEMMA FeedsInit == Init => Feeds
<1> SUFFICES ASSUME Init PROVE Feeds
  OBVIOUS
<1>1. /\ pc[1] = "reading" /\ \A r \in Sockets : r \in subscribed => r = 1
      /\ readerTask = 1 /\ sock[1] = "open"
  BY TasksAreDistinct DEF Init
<1> QED  BY <1>1 DEF Feeds, FedOnce, FedByReader, Fed, NoFeedYet, ToOpen, Waiting

\* Nothing is fed, and reader 1 has asked for nothing.
LEMMA QuietFeeds ==
  ASSUME NoneFed', pc'[1] \notin {"auth", "heartbeat", "resubscribe"}
  PROVE  Feeds'
BY DEF Feeds, FedOnce, FedByReader, NoneFed

\* Nothing more is fed, and reader 1 is no further.
NoMoreFed ==
    /\ \A r \in Sockets : pc'[r] = "reading" => pc[r] = "reading"
    /\ subscribed' \subseteq subscribed
    /\ pc'[1] \in NoFeedYet => pc[1] \in NoFeedYet
    /\ pc'[1] \in {"auth", "heartbeat"} => pc[1] \in {"auth", "heartbeat"}
    /\ pc'[1] = "resubscribe" => pc[1] = "resubscribe" /\ sentOn'[1] = sentOn[1]

\* Nor are the client's own variables different, unless it is stopped.
SameClient ==
    ~shutdown' =>
      /\ ~shutdown /\ readerTask' = readerTask /\ ws' = ws
      /\ troubles'.closes = 0 =>
           troubles.closes = 0 /\ \A r \in Sockets : sock'[r] = "closed" => sock[r] = "closed"

LEMMA FewerFeeds ==
  ASSUME Feeds, AtMostOneReplaced, NoMoreFed, SameClient
  PROVE  Feeds'
<1>0. FedOnce /\ (~shutdown => FedByReader)
  BY DEF Feeds
<1>1. \A r \in Sockets : Fed(r)' => Fed(r)
  BY DEF Fed, Reading, NoMoreFed
<1>2. FedOnce'
  BY <1>0, <1>1 DEF FedOnce, NoneFed, NoMoreFed
<1>3. ASSUME ~shutdown' PROVE FedByReader'
  BY <1>0, <1>1, <1>3 DEF FedByReader, NoMoreFed, SameClient, Reading
<1> QED  BY <1>2, <1>3 DEF Feeds

\* A reconnection of reader 1 ends the only feed.
LEMMA ReconnectsFeeds ==
  ASSUME TypeOK, Stages, Feeds, AtMostOneReplaced, NEW f \in Fields, Reconnects(1, f),
         pc[1] \in Holding \cup {"resubscribe", "reading"},
         UNCHANGED <<ws, shutdown, sock, sentOn>>, subscribed' = subscribed,
         troubles'.closes = 0 => troubles.closes = 0
  PROVE  Feeds'
<1> USE TasksAreDistinct
<1>0. FedOnce /\ (~shutdown => FedByReader)
  BY DEF Feeds
<1>1. /\ pc'[1] \in {"cancelling", "closing", "backoff", "done"}
      /\ \A r \in Sockets \ {1} : pc'[r] = pc[r] \/ (pc[r] = "reading" /\ pc'[r] = "done")
  BY ReconnectsFirst
<1>2. CASE shutdown
  <2>1. pc'[1] = "done"
    BY <1>2 DEF Reconnects, JustEnds, Moves
  <2>2. NoMoreFed
    BY <1>1, <2>1 DEF NoMoreFed, NoFeedYet, ToOpen, Waiting
  <2>3. SameClient
    BY <1>2 DEF SameClient
  <2> QED  BY <2>2, <2>3, FewerFeeds
<1>3. CASE ~shutdown
  <2>1. /\ CleansUp(1)
        /\ \A r \in Sockets : r = readerTask => pc'[r] # "reading"
    BY <1>3 DEF Reconnects, CleansUp
  <2>2. \A r \in Sockets : Fed(r)' => Fed(r)
    BY <1>1 DEF Fed, Reading
  <2>3. NoneFed'
    BY <1>0, <1>3, <2>1, <2>2 DEF NoneFed, Fed, Reading, FedByReader
  <2> QED  BY <1>1, <2>3, QuietFeeds
<1> QED  BY <1>2, <1>3

LEMMA FeedsNext ==
  TypeOK /\ Stages /\ OnlyFirst /\ Feeds /\ [Next]_vars => Feeds'
<1> SUFFICES ASSUME TypeOK, Stages, OnlyFirst, Feeds, [Next]_vars, AtMostOneReplaced'
             PROVE  Feeds'
  BY DEF Feeds
<1> USE TasksAreDistinct
<1>0. /\ PlaceOf /\ Stopping /\ ClientTypes /\ TaskTypes /\ NetTypes /\ AtMostOneReplaced
      /\ troubles'.closes = 0 => troubles.closes = 0
      /\ FedOnce /\ (~shutdown => FedByReader)
  BY TypesSplit, ReplacedGrows DEF Stages, Troubles, Feeds
<1>1. ASSUME NEW t \in Tasks, NEW f \in Fields, ConnectRaises(t, f),
             UNCHANGED <<ws, shutdown, sock, sentOn>>, subscribed' = subscribed,
             pc[t] \in Holding \cup {"resubscribe"}
      PROVE  Feeds'
  <2>1. t \in {1, runner} /\ Raises(t, f)
    BY <1>0, <1>1, FirstActs, ConnectRaisesEffect
  <2>2. CASE t = 1
    <3>1. Reconnects(1, f)
      BY <2>1, <2>2 DEF Raises
    <3> QED  BY <1>0, <1>1, <2>2, <3>1, ReconnectsFeeds
  <2>3. CASE t = runner
    <3>1. Moves(runner, "done") /\ readerTask' = readerTask
      BY <2>1, <2>3 DEF Raises, JustEnds
    <3>2. NoMoreFed /\ SameClient
      BY <1>0, <1>1, <3>1 DEF Moves, NoMoreFed, SameClient
    <3> QED  BY <1>0, <3>2, FewerFeeds
  <2> QED  BY <2>1, <2>2, <2>3
<1>2. ASSUME \A r \in Sockets : pc'[r] = pc[r], subscribed' \subseteq subscribed,
             sentOn'[1] = sentOn[1], SameClient
      PROVE  Feeds'
  <2>1. NoMoreFed
    BY <1>2 DEF NoMoreFed
  <2> QED  BY <1>0, <1>2, <2>1, FewerFeeds
<1>3. ASSUME NEW c, c \notin {"auth", "heartbeat", "resubscribe", "reading"}, Moves(1, c),
             pc[1] \in NoFeedYet, subscribed' = subscribed
      PROVE  Feeds'
  <2>1. NoneFed' /\ pc'[1] = c
    BY <1>0, <1>3 DEF Moves, NoneFed, Fed, Reading, FedOnce
  <2> QED  BY <1>3, <2>1, QuietFeeds
<1>4. ASSUME NEW t \in Tasks, Cancelled(t) \/ Closed(t) PROVE Feeds'
  <2>1. Moves(t, pc'[t]) /\ (pc'[t] = "closing" \/ Finishes(t))
    BY <1>0, <1>4, SweepEffect, EndCleanupEffect, FoundTypes DEF Cancelled, Closed, ClientTypes
  <2>2. pc[t] \in {"cancelling", "closing"} /\ UNCHANGED <<shutdown, sentOn>> /\ subscribed' = subscribed
    BY <1>4 DEF Cancelled, Closed
  <2>3. CASE t = main
    <3>1. shutdown'
      BY <1>0, <2>2, <2>3 DEF Stopping
    <3> QED  BY <1>2, <2>1, <2>2, <2>3, <3>1 DEF Moves, SameClient
  <2>4. CASE t # main
    <3>1. t = 1
      BY <1>0, <2>2, <2>4, FirstActs DEF PlaceOf, Holding, Replacing, ToOpen, Waiting
    <3>2. pc'[1] \in {"closing", "backoff", "done"}
      BY <2>1, <2>4, <3>1 DEF Finishes
    <3> QED  BY <1>3, <2>1, <2>2, <3>1, <3>2 DEF NoFeedYet, ToOpen, Waiting
  <2> QED  BY <2>3, <2>4
<1>5. ASSUME NEW t \in Tasks, Wake(t) \/ Acquire(t) PROVE Feeds'
  <2>1. \E c \in {"lock", "opening", "done"} : Moves(t, c)
    <3>1. CASE Enter(t)
      BY <3>1, EnterEffect DEF Enters
    <3>2. CASE pc' = [pc EXCEPT ![t] = "done"]
      BY <3>2, MoveTypes DEF Places
    <3> QED  BY <1>5, <3>1, <3>2 DEF Wake, Acquire
  <2>2. t = 1 /\ subscribed' = subscribed /\ pc[1] \in NoFeedYet
    BY <1>0, <1>5, FirstActs DEF Wake, Acquire, PlaceOf, Holding, NoFeedYet, Replacing, ToOpen, Waiting
  <2> QED  BY <1>3, <2>1, <2>2
<1>6. ASSUME Run PROVE Feeds'
  <2>1. \E c : Moves(runner, c)
    <3>1. CASE Enter(runner)
      BY <3>1, EnterEffect DEF Enters
    <3>2. CASE pc' = [pc EXCEPT ![runner] = "idle"]
      BY <3>2, MoveTypes DEF Places
    <3> QED  BY <1>6, <3>1, <3>2 DEF Run
  <2>2. SameClient
    BY <1>0, <1>6 DEF Run, SameClient
  <2> QED  BY <1>2, <1>6, <2>1, <2>2 DEF Moves, Run
<1>7. ASSUME NEW t \in Tasks, NEW n \in Sockets, Opened(t, n) PROVE Feeds'
  <2>1. /\ pc[t] = "opening" /\ t \in {1, runner} /\ pc[n] \in {"unborn", "done"}
        /\ subscribed' = subscribed \ {n} /\ ws' = n /\ shutdown' = shutdown
    BY <1>0, <1>7, FirstActs DEF Opened, Free, Holding
  <2>2. NoneFed /\ (t = 1 => n # 1) /\ (t = runner => pc[1] \in Waiting \cup {"done"})
    <3>1. CASE t = 1
      BY <1>0, <2>1, <3>1 DEF FedOnce, NoFeedYet, ToOpen
    <3>2. CASE t = runner
      <4>1. /\ pc[1] \in Waiting \cup {"done"}
            /\ \A r \in Sockets \ {1} : pc[r] = "unborn"
        BY <1>0, <2>1, <3>2, FirstActs
      <4> QED  BY <3>2, <4>1 DEF NoneFed, Fed, Reading, Waiting
    <3> QED  BY <2>1, <3>1, <3>2
  <2>3. CASE ConnectRaises(t, [Found EXCEPT !.ws = n, !.state = "CONNECTED", !.attempt = 0])
    <3>1. Raises(t, [Found EXCEPT !.ws = n, !.state = "CONNECTED", !.attempt = 0])
      BY <2>3, ConnectRaisesEffect, FoundTypes
    <3>2. /\ pc'[1] \notin {"auth", "heartbeat", "resubscribe", "reading"}
          /\ \A r \in Sockets : pc'[r] = "reading" => pc[r] = "reading"
      <4>1. CASE t = 1
        BY <3>1, <4>1, ReconnectsFirst, FoundTypes DEF Raises
      <4>2. CASE t = runner
        BY <2>2, <3>1, <4>2 DEF Raises, JustEnds, Moves, Waiting
      <4> QED  BY <2>1, <4>1, <4>2
    <3>3. NoneFed'
      BY <2>1, <2>2, <3>2 DEF NoneFed, Fed, Reading
    <3> QED  BY <3>2, <3>3, QuietFeeds
  <2>4. CASE /\ readerTask' = n
             /\ pc' = [pc EXCEPT ![n] = "reading",
                                 ![t] = IF HasCredentials /\ ~authed THEN "auth" ELSE "heartbeat"]
    <3>1. /\ \A r \in Sockets \ {1, n} : pc'[r] = pc[r]
          /\ pc'[1] = pc[1] \/ pc'[1] \in {"auth", "heartbeat"} \/ n = 1
          /\ pc'[1] # "resubscribe"
      BY <1>0, <2>1, <2>2, <2>4 DEF TaskTypes, Waiting
    <3>2. NoneFed'
      BY <2>1, <2>2, <3>1 DEF NoneFed, Fed, Reading
    <3> QED  BY <2>1, <2>4, <3>1, <3>2 DEF Feeds, FedOnce, FedByReader, NoneFed
  <2> QED  BY <1>7, <2>3, <2>4 DEF Opened
<1>8. ASSUME NEW t \in Tasks, OpenFails(t) \/ RequestRaises(t) PROVE Feeds'
  BY <1>1, <1>8, FoundTypes DEF OpenFails, RequestRaises, Holding
<1>9. ASSUME NEW t \in Tasks, AuthReply(t) PROVE Feeds'
  <2>1. ASSUME NEW f \in Fields, ConnectRaises(t, f), sentOn' = sentOn PROVE Feeds'
    BY <1>1, <1>9, <2>1 DEF AuthReply, Holding
  <2>2. CASE Ask(t, "heartbeat") /\ UNCHANGED readerTask
    <3>1. Moves(t, "heartbeat") /\ pc[t] = "auth" /\ t \in {1, runner}
      BY <1>0, <1>9, <2>2, MoveTypes, FirstActs DEF AuthReply, Ask, Places, Holding
    <3>2. \A u \in Tasks \ {t} : sentOn'[u] = sentOn[u]
      BY <1>0, <2>2 DEF Ask, TaskTypes
    <3>3. NoMoreFed
      BY <1>9, <3>1, <3>2 DEF AuthReply, Moves, NoMoreFed, NoFeedYet
    <3>4. SameClient
      BY <1>0, <1>9, <2>2 DEF AuthReply, SameClient
    <3> QED  BY <1>0, <3>3, <3>4, FewerFeeds
  <2> QED  BY <1>9, <2>1, <2>2, FoundTypes DEF AuthReply
<1>10. ASSUME NEW t \in Tasks, HeartbeatReply(t) PROVE Feeds'
  <2>0. pc[t] = "heartbeat" /\ t \in {1, runner} /\ UNCHANGED <<ws, shutdown>> /\ subscribed' = subscribed
    BY <1>0, <1>10, FirstActs DEF HeartbeatReply, Holding
  <2>1. CASE ConnectRaises(t, Found)
    <3>1. UNCHANGED <<sock, sentOn>>
      <4>1. pc'[t] \notin {"idle", "resubscribe"}
        <5>1. Raises(t, Found)
          BY <2>1, ConnectRaisesEffect, FoundTypes
        <5> QED  BY <2>0, <5>1, ReconnectsFirst, FoundTypes DEF Raises, JustEnds, Moves
      <4> QED  BY <1>0, <1>10, <2>0, <4>1 DEF HeartbeatReply, NextRequest, Ask, TaskTypes
    <3> QED  BY <1>1, <2>0, <2>1, <3>1, FoundTypes DEF Holding
  <2>2. CASE ~ConnectRaises(t, Found) /\ t = runner
    <3>1. Moves(runner, "idle") /\ sentOn' = sentOn
      BY <1>10, <2>2, MoveTypes DEF HeartbeatReply, NextRequest, Places
    <3>2. SameClient
      BY <1>0, <1>10, <2>2 DEF HeartbeatReply, NextRequest, SameClient
    <3> QED  BY <1>2, <2>0, <3>1, <3>2 DEF Moves
  <2>3. CASE ~ConnectRaises(t, Found) /\ t = 1
    <3>1. Ask(1, "resubscribe") /\ UNCHANGED readerTask
      BY <1>10, <2>3 DEF HeartbeatReply, NextRequest
    <3>2. /\ pc'[1] = "resubscribe" /\ sentOn'[1] = ws
          /\ \A r \in Sockets \ {1} : pc'[r] = pc[r]
      BY <1>0, <3>1 DEF Ask, TaskTypes
    <3>3. NoneFed
      BY <1>0, <2>0, <2>3 DEF FedOnce, NoFeedYet
    <3>4. NoneFed'
      BY <2>0, <3>2, <3>3 DEF NoneFed, Fed, Reading
    <3>5. ASSUME ~shutdown PROVE \A r \in Sockets : ws = r /\ pc'[r] = "reading" => readerTask' = r
      BY <1>0, <2>0, <2>3, <3>1, <3>2, <3>5 DEF FedByReader, Reading
    <3> QED  BY <2>0, <3>2, <3>4, <3>5 DEF Feeds, FedOnce, FedByReader, NoneFed, Reading
  <2> QED  BY <2>0, <2>1, <2>2, <2>3
<1>11. ASSUME NEW t \in Tasks, Resubscribed(t) PROVE Feeds'
  <2>1. t = 1 /\ pc[1] = "resubscribe" /\ UNCHANGED <<ws, shutdown, sock, sentOn>> /\ subscribed' = subscribed
    BY <1>0, <1>11, FirstActs DEF Resubscribed
  <2>2. CASE Reconnect(1, Found)
    BY <1>0, <2>1, <2>2, ReconnectEffect, FoundTypes, ReconnectsFeeds
  <2>3. CASE Ends(1, Found)
    <3>1. Moves(1, "done") /\ readerTask' = readerTask
      BY <2>3, EndsEffect, FoundTypes DEF JustEnds
    <3>2. NoMoreFed /\ SameClient
      BY <1>0, <2>1, <3>1 DEF Moves, NoMoreFed, SameClient, NoFeedYet, ToOpen, Waiting
    <3> QED  BY <1>0, <3>2, FewerFeeds
  <2> QED  BY <1>11, <2>1, <2>2, <2>3 DEF Resubscribed
<1>12. ASSUME NEW r \in Sockets, Break(r) \/ LoopEnds(r) PROVE Feeds'
  <2>1. Moves(r, "done") /\ pc[r] = "reading"
    BY <1>12, MoveTypes DEF Break, LoopEnds, Reading, Places
  <2>2. NoMoreFed
    BY <1>12, <2>1 DEF Break, LoopEnds, client, Moves, NoMoreFed, NoFeedYet, ToOpen, Waiting
  <2>3. SameClient
    BY <1>0, <1>12 DEF Break, LoopEnds, client, SameClient
  <2> QED  BY <1>0, <2>2, <2>3, FewerFeeds
<1>13. ASSUME NEW r \in Sockets, ConnectionLost(r) \/ MarketRaises(r) PROVE Feeds'
  <2>1. r = 1
    <3>1. CASE ConnectionLost(r)
      BY <1>0, <3>1 DEF ConnectionLost, OnlyFirst
    <3>2. CASE MarketRaises(r)
      <4>1. /\ troubles'["raises"] = troubles["raises"] + 1
            /\ troubles'["losses"] = troubles["losses"]
        BY <3>2, SufferEffect DEF MarketRaises, Troubles
      <4>2. troubles["raises"] \in Nat /\ troubles["losses"] \in Nat
        BY <1>0 DEF NetTypes, Troubles
      <4>3. Calm
        BY <4>1, <4>2 DEF AtMostOneReplaced, Calm
      <4> QED  BY <1>0, <3>2, <4>3 DEF MarketRaises, Reading, OnlyFirst
    <3> QED  BY <1>13, <3>1, <3>2
  <2>2. pc[1] = "reading" /\ UNCHANGED <<ws, shutdown, sock, sentOn>> /\ subscribed' = subscribed
    BY <1>13, <2>1 DEF ConnectionLost, MarketRaises, Reading
  <2>3. CASE Reconnect(1, Found)
    BY <1>0, <2>2, <2>3, ReconnectEffect, FoundTypes, ReconnectsFeeds
  <2>4. CASE pc' = [pc EXCEPT ![1] = "done"] /\ UNCHANGED readerTask
    <3>1. Moves(1, "done")
      BY <2>4, MoveTypes DEF Places
    <3>2. NoMoreFed /\ SameClient
      BY <1>0, <2>2, <2>4, <3>1 DEF Moves, NoMoreFed, SameClient, NoFeedYet, ToOpen, Waiting
    <3> QED  BY <1>0, <3>2, FewerFeeds
  <2> QED  BY <1>13, <2>1, <2>3, <2>4 DEF ConnectionLost, MarketRaises
<1>14. ASSUME NEW s \in Sockets, Lose(s) PROVE Feeds'
  <2>1. SameClient
    BY <1>0, <1>14 DEF Lose, client, NetTypes, SameClient
  <2> QED  BY <1>2, <1>14, <2>1 DEF Lose
<1>15. ASSUME NEW s \in Sockets, ServerCloses(s) PROVE Feeds'
  <2>1. troubles'["closes"] = troubles["closes"] + 1 /\ troubles["closes"] \in Nat
    BY <1>0, <1>15, SufferEffect DEF ServerCloses, NetTypes, Troubles
  <2>2. SameClient
    BY <1>0, <1>15, <2>1 DEF ServerCloses, client, SameClient
  <2> QED  BY <1>2, <1>15, <2>2 DEF ServerCloses
<1>16. ASSUME pc' = pc, UNCHANGED <<ws, readerTask, shutdown, sentOn, sock>>,
              \/ subscribed' = subscribed
              \/ /\ pc[1] = "resubscribe" /\ subscribed' = subscribed \cup {sentOn[1]}
                 /\ sock[sentOn[1]] = "open"
       PROVE  Feeds'
  <2>1. CASE subscribed' = subscribed
    BY <1>0, <1>2, <1>16, <2>1 DEF SameClient
  <2>2. CASE /\ pc[1] = "resubscribe" /\ subscribed' = subscribed \cup {sentOn[1]}
             /\ sock[sentOn[1]] = "open"
    <3>1. \A r \in Sockets : Fed(r)' => r = sentOn[1]
      BY <1>0, <1>16, <2>2 DEF Fed, Reading, FedOnce
    <3>2. FedOnce'
      BY <1>16, <2>2, <3>1 DEF FedOnce, NoFeedYet, ToOpen, Waiting
    <3>3. ASSUME ~shutdown PROVE FedByReader'
      <4>1. \A r \in Sockets : Fed(r)' => readerTask' = r
        BY <1>0, <1>16, <2>2, <3>1, <3>3 DEF FedByReader, Fed, Reading
      <4>2. \A r \in Sockets : Fed(r)' => sock'[r] # "closed"
        BY <1>16, <2>2, <3>1
      <4> QED  BY <1>0, <1>16, <2>2, <3>3, <4>1, <4>2 DEF FedByReader, Reading
    <3> QED  BY <1>16, <3>2, <3>3 DEF Feeds
  <2> QED  BY <1>16, <2>1, <2>2
<1>17. ASSUME NEW r \in Sockets, NEW t \in Tasks, Reply(r, t) PROVE Feeds'
  <2>1. pc[t] = "resubscribe" => t = 1
    BY <1>0, FirstActs
  <2> QED  BY <1>16, <1>17, <2>1 DEF Reply, client
<1>18. ASSUME NEW t \in Tasks, Accept(t) PROVE Feeds'
  <2>1. t = 1
    BY <1>0, <1>18, FirstActs DEF Accept
  <2> QED  BY <1>16, <1>18, <2>1 DEF Accept, client
<1>19. ASSUME CancelRunner PROVE Feeds'
  <2>1. \A r \in Sockets : pc'[r] = pc[r]
    BY <1>0, <1>19 DEF CancelRunner, TaskTypes
  <2>2. SameClient
    BY <1>0, <1>19 DEF CancelRunner, SameClient
  <2> QED  BY <1>2, <1>19, <2>1, <2>2 DEF CancelRunner
<1>20. ASSUME Disconnect PROVE Feeds'
  <2>1. shutdown' /\ subscribed' = subscribed /\ sentOn' = sentOn
    BY <1>20 DEF Disconnect
  <2>2. CASE Cleanup(main, Found)
    <3>1. CleansUp(main)
      BY <2>2, CleanupEffect, FoundTypes
    <3>2. NoMoreFed /\ SameClient
      BY <2>1, <3>1 DEF CleansUp, NoMoreFed, SameClient, NoFeedYet, ToOpen, Waiting
    <3> QED  BY <1>0, <3>2, FewerFeeds
  <2>3. CASE pc' = [pc EXCEPT ![main] = "aborted"]
    <3>1. \A r \in Sockets : pc'[r] = pc[r]
      BY <1>0, <2>3 DEF TaskTypes
    <3> QED  BY <1>2, <2>1, <3>1 DEF SameClient
  <2> QED  BY <1>20, <2>2, <2>3 DEF Disconnect
<1>21. CASE UNCHANGED vars
  BY <1>16, <1>21 DEF vars, client
<1> QED
  BY <1>4, <1>5, <1>6, <1>7, <1>8, <1>9, <1>10, <1>11, <1>12, <1>13, <1>14, <1>15, <1>17,
     <1>18, <1>19, <1>20, <1>21 DEF Next, Step, Read

------------------------------------------------------------------------------
(* Every outage is noted *)

\* An outage that no gap event has reported has been noted, and reader 1 is on
\* its way to the event.
Noted ==
    AtMostOneReplaced /\ ~shutdown /\ ~fallen /\ troubles.closes = 0 /\ troubles.raises = 0
       /\ outage => disconnectAt /\ pc[1] \in Replacing

LEMMA NotedNext ==
  TypeOK /\ Stages /\ OnlyFirst /\ Feeds /\ Noted /\ [Next]_vars => Noted'
<1> SUFFICES ASSUME TypeOK, Stages, OnlyFirst, Feeds, Noted, [Next]_vars,
                    AtMostOneReplaced', ~shutdown', ~fallen', troubles'.closes = 0,
                    troubles'.raises = 0, outage'
             PROVE  disconnectAt' /\ pc'[1] \in Replacing
  BY DEF Noted
<1> DEFINE Goal == disconnectAt' /\ pc'[1] \in Replacing
<1> SUFFICES Goal
  OBVIOUS
<1> USE TasksAreDistinct
<1>0. /\ PlaceOf /\ Stopping /\ ClientTypes /\ TaskTypes /\ NetTypes /\ AtMostOneReplaced
      /\ ~shutdown /\ ~fallen /\ troubles.closes = 0 /\ troubles.raises = 0
      /\ FedByReader
  BY TypesSplit, OnlyGrows, FallenStays, ReplacedGrows DEF Stages, Troubles, Feeds
<1>b. ~Refusing /\ pc[main] \in {"up", "stopping"}
  BY <1>0 DEF Refusing, Stopping
<1>c. outage => disconnectAt /\ pc[1] \in Replacing
  BY <1>0 DEF Noted
<1>1. ASSUME disconnectAt' = disconnectAt, outage' = outage,
             pc[1] \in Replacing => pc'[1] \in Replacing
      PROVE  Goal
  BY <1>1, <1>c
<1>2. ASSUME NEW t \in Tasks, NEW f \in Fields, ConnectRaises(t, f),
             disconnectAt' = disconnectAt, outage' = outage,
             pc[t] \in Holding \cup {"resubscribe"}
      PROVE  Goal
  <2>1. t \in {1, runner} /\ Raises(t, f)
    BY <1>0, <1>2, FirstActs, ConnectRaisesEffect
  <2>2. CASE t = 1
    <3>1. pc'[1] \in {"cancelling", "closing", "backoff"}
      BY <1>0, <2>1, <2>2, ReconnectsFirst DEF Raises
    <3> QED  BY <1>1, <1>2, <3>1 DEF Replacing, ToOpen, Waiting
  <2>3. CASE t = runner
    <3>1. pc'[1] = pc[1]
      BY <2>1, <2>3 DEF Raises, JustEnds, Moves
    <3> QED  BY <1>1, <1>2, <3>1
  <2> QED  BY <2>1, <2>2, <2>3
<1>3. ASSUME NEW t \in Tasks, NEW c, Moves(t, c), t = 1 => c \in Replacing,
             disconnectAt' = disconnectAt, outage' = outage
      PROVE  Goal
  BY <1>1, <1>3 DEF Moves
<1>4. ASSUME NEW t \in Tasks, Cancelled(t) \/ Closed(t) PROVE Goal
  <2>1. t = 1
    BY <1>0, <1>b, <1>4, FirstActs
       DEF Cancelled, Closed, PlaceOf, Holding, Replacing, ToOpen, Waiting
  <2>2. Moves(1, pc'[1]) /\ pc'[1] \in {"closing", "backoff"}
    BY <1>0, <1>4, <1>b, <2>1, SweepEffect, EndCleanupEffect, FoundTypes
       DEF Cancelled, Closed, Finishes, ClientTypes
  <2> QED  BY <1>3, <1>4, <2>2 DEF Cancelled, Closed, Replacing, ToOpen, Waiting
<1>5. ASSUME NEW t \in Tasks, Wake(t) \/ Acquire(t) PROVE Goal
  <2>1. \E c \in {"lock", "opening"} : Moves(t, c)
    BY <1>0, <1>5, EnterEffect DEF Wake, Acquire, Enters
  <2> QED  BY <1>3, <1>5, <2>1 DEF Wake, Acquire, Replacing, ToOpen, Waiting
<1>6. ASSUME Run PROVE Goal
  <2>1. \E c : Moves(runner, c)
    <3>1. CASE Enter(runner)
      BY <3>1, EnterEffect DEF Enters
    <3>2. CASE pc' = [pc EXCEPT ![runner] = "idle"]
      BY <3>2, MoveTypes DEF Places
    <3> QED  BY <1>6, <3>1, <3>2 DEF Run
  <2> QED  BY <1>3, <1>6, <2>1 DEF Run
<1>7. ASSUME NEW t \in Tasks, NEW n \in Sockets, Opened(t, n) PROVE Goal
  <2>1. /\ pc[t] = "opening" /\ pc[n] \in {"unborn", "done"}
        /\ disconnectAt' = disconnectAt /\ outage' = outage
    BY <1>7 DEF Opened, Free
  <2>2. CASE ConnectRaises(t, [Found EXCEPT !.ws = n, !.state = "CONNECTED", !.attempt = 0])
    BY <1>2, <2>1, <2>2, FoundTypes DEF Holding
  <2>3. CASE pc' = [pc EXCEPT ![n] = "reading",
                              ![t] = IF HasCredentials /\ ~authed THEN "auth" ELSE "heartbeat"]
    <3>1. pc[1] \in Replacing => pc'[1] \in Replacing
      BY <1>0, <2>1, <2>3 DEF TaskTypes, Replacing, ToOpen, Waiting
    <3> QED  BY <1>1, <2>1, <3>1
  <2> QED  BY <1>7, <2>2, <2>3 DEF Opened
<1>8. ASSUME NEW t \in Tasks, OpenFails(t) \/ RequestRaises(t) PROVE Goal
  BY <1>2, <1>8, FoundTypes DEF OpenFails, RequestRaises, Holding
<1>9. ASSUME NEW t \in Tasks, AuthReply(t) PROVE Goal
  <2>1. ASSUME NEW f \in Fields, ConnectRaises(t, f) PROVE Goal
    BY <1>2, <1>9, <2>1 DEF AuthReply, Holding
  <2>2. CASE Ask(t, "heartbeat")
    <3>1. Moves(t, "heartbeat")
      BY <2>2, MoveTypes DEF Ask, Places
    <3> QED  BY <1>3, <1>9, <3>1 DEF AuthReply, Replacing
  <2> QED  BY <1>9, <2>1, <2>2, FoundTypes DEF AuthReply
<1>10. ASSUME NEW t \in Tasks, HeartbeatReply(t) PROVE Goal
  <2>1. CASE ConnectRaises(t, Found)
    BY <1>2, <1>10, <2>1, FoundTypes DEF HeartbeatReply, Holding
  <2>2. CASE ~ConnectRaises(t, Found)
    <3>1. \E c : Moves(t, c) /\ (t # runner => c = "resubscribe")
      BY <1>10, <2>2, MoveTypes DEF HeartbeatReply, NextRequest, Ask, Places
    <3> QED  BY <1>3, <1>10, <3>1 DEF HeartbeatReply, Replacing
  <2> QED  BY <2>1, <2>2
<1>11. ASSUME NEW t \in Tasks, Resubscribed(t) PROVE Goal
  <2>1. t = 1 /\ pc[1] = "resubscribe"
    BY <1>0, <1>11, FirstActs DEF Resubscribed
  <2>2. CASE Reconnect(1, Found) /\ UNCHANGED <<disconnectAt, outage>>
    <3>1. pc'[1] \in {"cancelling", "closing", "backoff"}
      BY <1>0, <2>2, ReconnectEffect, ReconnectsFirst, FoundTypes
    <3> QED  BY <1>1, <2>2, <3>1 DEF Replacing, ToOpen, Waiting
  <2>3. CASE outage' = (outage /\ ~disconnectAt)
    BY <1>c, <2>3
  <2> QED  BY <1>11, <2>1, <2>2, <2>3 DEF Resubscribed
<1>12. ASSUME NEW r \in Sockets, Break(r) \/ LoopEnds(r) PROVE Goal
  <2>1. LoopEnds(r) /\ pc[r] = "reading"
    BY <1>0, <1>12 DEF Break, LoopEnds, Reading
  <2>2. r \notin subscribed
    BY <1>0, <2>1 DEF LoopEnds, FedByReader, Fed
  <2>3. Moves(r, "done") /\ disconnectAt' = disconnectAt
    BY <2>1, MoveTypes DEF LoopEnds, client, Places
  <2>4. outage' = outage
    BY <1>0, <2>1, <2>2 DEF LoopEnds, NetTypes
  <2> QED  BY <1>1, <2>1, <2>3, <2>4 DEF Moves, Replacing, ToOpen, Waiting
<1>13. ASSUME NEW r \in Sockets, ConnectionLost(r) PROVE Goal
  <2>1. r = 1 /\ disconnectAt' = TRUE
    BY <1>0, <1>13 DEF ConnectionLost, Disconnected, OnlyFirst
  <2>2. Reconnect(1, Found)
    BY <1>13, <2>1 DEF ConnectionLost
  <2>3. pc'[1] \in {"cancelling", "closing", "backoff"}
    BY <1>0, <2>2, ReconnectEffect, ReconnectsFirst, FoundTypes
  <2> QED  BY <2>1, <2>3 DEF Replacing, ToOpen, Waiting
<1>14. ASSUME NEW r \in Sockets, MarketRaises(r) PROVE FALSE
  <2>1. troubles'["raises"] = troubles["raises"] + 1
    BY <1>14, SufferEffect DEF MarketRaises, Troubles
  <2> QED  BY <1>0, <2>1
<1>15. ASSUME NEW s \in Sockets, NEW t \in Tasks, Lose(s) \/ ServerCloses(s) \/ Reply(s, t) \/ Accept(t)
       PROVE  Goal
  BY <1>1, <1>15 DEF Lose, ServerCloses, Reply, Accept, client
<1>16. ASSUME CancelRunner PROVE Goal
  BY <1>0, <1>1, <1>16 DEF CancelRunner, TaskTypes
<1>17. ASSUME Disconnect PROVE FALSE
  BY <1>17 DEF Disconnect
<1>18. CASE UNCHANGED vars
  BY <1>1, <1>18 DEF vars, client
<1> QED
  BY <1>4, <1>5, <1>6, <1>7, <1>8, <1>9, <1>10, <1>11, <1>12, <1>13, <1>14, <1>15, <1>16,
     <1>17, <1>18 DEF Next, Step, Read

------------------------------------------------------------------------------
(* The theorems *)

IInv == /\ TypeOK /\ Sent /\ Stages
        /\ NotClosed /\ Restoring
        /\ OnlyFirst /\ Feeds /\ Noted

LEMMA Invariance == Spec => []IInv
<1>1. ASSUME Init PROVE IInv
  <2>1. Sent /\ NotClosed /\ Restoring /\ Noted
    <3>1. /\ \A t \in Tasks : pend[t] # "wait"
          /\ ws = 1 /\ readerTask = 1 /\ pc[1] = "reading" /\ sock[1] = "open" /\ 1 \in subscribed
          /\ ~outage
      BY <1>1, TasksAreDistinct DEF Init
    <3> QED  BY <3>1, TasksAreDistinct DEF Sent, NotClosed, Restoring, Current, Reading, Noted
  <2> QED  BY <1>1, <2>1, TypesInit, StagesInit, OnlyFirstInit, FeedsInit DEF IInv
<1>2. ASSUME IInv, [Next]_vars PROVE IInv'
  BY <1>2, TypesNext, SentNext, StagesNext, NotClosedNext, RestoringNext, OnlyFirstNext,
     FeedsNext, NotedNext DEF IInv
<1> QED  BY <1>1, <1>2, PTL DEF Spec

\* Every variable has its type, for any number of sockets.
THEOREM TypeCorrectness == Spec => []TypeOK
<1>1. IInv => TypeOK
  BY DEF IInv
<1> QED  BY <1>1, Invariance, PTL

\* A client that has nothing left to do about its connection has one that
\* delivers market data, unless the server has closed a connection or refused a
\* subscription, or a reader has ended at an event it could not emit
\* (connection.closed, connection.reconnect): in whatever order connections are
\* lost, however many tasks reconnect at once, whatever an attempt fails at, and
\* whether or not the runner connects too.
THEOREM SettledServes == Spec => []SettledIsServing
<1>1. ASSUME IInv PROVE SettledIsServing
  <2> SUFFICES ASSUME Settled, ~fallen, troubles.closes = 0, troubles.refusals = 0 PROVE Serving
    BY DEF SettledIsServing
  <2>1. /\ ~shutdown /\ \A t \in Tasks : ~Reconnecting(t)
        /\ \A r \in Sockets : Reading(r) => sock[r] = "open"
    BY DEF Settled
  <2>2. \A r \in Sockets : pc[r] \notin ToOpen \cup {"auth", "heartbeat", "resubscribe"}
    BY <2>1, TasksAreDistinct DEF Reconnecting, ToOpen, Waiting
  <2>3. Current
    BY <1>1, <2>1, <2>2 DEF IInv, Restoring, OnItsWay
  <2> QED  BY <2>1, <2>2, <2>3, TasksAreDistinct DEF Current, Resubscribing, Serving, Feeding
<1> QED  BY <1>1, Invariance, PTL

\* While at most one feed is replaced, one connection at most feeds the archive:
\* the cleanup before a new attempt leaves nobody reading the old one.
THEOREM OneFeedOnly == Spec => []OneFeed
<1>1. ASSUME IInv PROVE OneFeed
  <2>1. \A r \in Sockets : Feeding(r) => Fed(r)
    BY DEF Feeding, Fed
  <2> QED  BY <1>1, <2>1 DEF IInv, Feeds, FedOnce, OneFeed
<1> QED  BY <1>1, Invariance, PTL

\* A client that has nothing left to do has reported the gap of the feed it has
\* replaced, unless the server closed it, a message handler raised, or a reader
\* has ended at an event it could not emit.
THEOREM GapsAreReported == Spec => []GapReported
<1>1. ASSUME IInv PROVE GapReported
  <2> SUFFICES ASSUME Settled, ~fallen, AtMostOneReplaced, troubles.closes = 0, troubles.raises = 0
               PROVE  ~outage
    BY DEF GapReported
  <2>1. ~shutdown /\ ~Reconnecting(1)
    BY TasksAreDistinct DEF Settled
  <2>2. pc[1] \notin Replacing
    BY <2>1 DEF Reconnecting, Replacing, ToOpen, Waiting
  <2> QED  BY <1>1, <2>1, <2>2 DEF IInv, Noted
<1> QED  BY <1>1, Invariance, PTL
=============================================================================
