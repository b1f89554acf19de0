--------------------------- MODULE DeribitClient ---------------------------
(***************************************************************************)
(* adapters/deribit/client.py: the WebSocket client, from the moment       *)
(* LiveRecorder.start has connected and subscribed it (socket 1, read by   *)
(* reader 1) until LiveRecorder.stop has disconnected it.                  *)
(*                                                                         *)
(* Its tasks share one event loop: main (the recorder, which stops it),    *)
(* runner (run_until_shutdown) and one reader for each socket opened, the  *)
(* reader of socket n being task n.  A reader that meets an error is also  *)
(* the task that reconnects.  A step is what a task does from one await to *)
(* the next; pc says what a task awaits:                                   *)
(*   reading     the next message of its socket                            *)
(*   cancelling  the end of the reader it has cancelled                    *)
(*   closing     ws.close()                                                *)
(*   backoff     the sleep before a new attempt                            *)
(*   lock        the client's lock                                         *)
(*   opening     websockets.connect, holding the lock                      *)
(*   auth, heartbeat    the reply to a request, holding the lock           *)
(*   resubscribe        the reply to public/subscribe, without the lock    *)
(*                                                                         *)
(* Every lifecycle event the client emits goes to the archive and raises   *)
(* when that cannot write it.  Inside connect() and after it the raise is  *)
(* one more fault of the attempt, which is tried again.  Nobody catches    *)
(* what connection.closed, connection.reconnect or connection.shutdown     *)
(* raises: it ends the reader, or disconnect(), for good.                  *)
(*                                                                         *)
(* Instants are abstracted: of the last disconnect only whether it is      *)
(* noted.  A market message handled without an error changes nothing here. *)
(* Access tokens do not expire.                                            *)
(***************************************************************************)
EXTENDS Integers, FiniteSets

CONSTANTS main, runner,    \* the two tasks that are not readers
          HasCredentials,  \* whether DeribitClientConfig has credentials
          MaxSockets,      \* bound: sockets in use at once
          Scenarios,       \* bound: what may go wrong together, and how often
          MaxAttempt       \* bound: the exponent at which the delay is maximal

\* What may go wrong: connections lost (ConnectionClosedError); connections the
\* server closes normally; refused opens, error replies, timeouts and events of
\* an attempt that the archive cannot write; error replies to public/subscribe;
\* messages whose handler raises.
Troubles == {"losses", "closes", "faults", "refusals", "raises"}

ASSUME ClientAssumption ==
         /\ main \notin Nat /\ runner \notin Nat /\ main # runner
         /\ HasCredentials \in BOOLEAN
         /\ MaxSockets \in Nat \ {0}
         /\ Scenarios \subseteq [Troubles -> Nat]
         /\ MaxAttempt \in Nat

Sockets == 1..MaxSockets
Tasks == Sockets \cup {main, runner}

VARIABLES
    ws,            \* _ws: the current socket, 0 for None
    readerTask,    \* _reader_task: the current reader, 0 for None
    state,         \* _state
    attempt,       \* _reconnect_attempt
    authed,        \* _auth.is_authenticated
    disconnectAt,  \* whether _disconnect_at is set
    shutdown,      \* _shutdown
    lock,          \* the task that holds _lock, 0 for none
    pc,            \* what each task awaits
    target,        \* the reader a cancelling task awaits, the socket a closing one
    pend,          \* the future of a task's request
    sentOn,        \* the socket that request went out on
    sock,          \* the sockets: unused, open, lost or closed
    subscribed,    \* the sockets the server has subscriptions of
    outage,        \* history: a feed has ended and no gap event says so
    fallen,        \* history: a task has ended at an event it could not emit
    troubles       \* history: how often each kind of trouble has come

client == <<ws, readerTask, state, attempt, authed, disconnectAt,
            shutdown, lock>>
vars == <<client, pc, target, pend, sentOn, sock, subscribed, outage, fallen,
          troubles>>

Init == /\ ws = 1 /\ readerTask = 1
        /\ state = IF HasCredentials THEN "AUTHENTICATED" ELSE "CONNECTED"
        /\ attempt = 0 /\ authed = HasCredentials
        /\ disconnectAt = FALSE /\ shutdown = FALSE /\ lock = 0
        /\ pc = [t \in Tasks |-> CASE t = main -> "up" [] t = runner -> "starting"
                                   [] t = 1 -> "reading" [] OTHER -> "unborn"]
        /\ target = [t \in Tasks |-> 0]
        /\ pend = [t \in Tasks |-> "none"]
        /\ sentOn = [t \in Tasks |-> 0]
        /\ sock = [s \in Sockets |-> IF s = 1 THEN "open" ELSE "unused"]
        /\ subscribed = {1}
        /\ outage = FALSE /\ fallen = FALSE
        /\ troubles = [k \in Troubles |-> 0]

\* Trouble of kind k comes, if some scenario has room for it.
Suffer(k) ==
    /\ troubles' = [troubles EXCEPT ![k] = @ + 1]
    /\ \E s \in Scenarios : \A j \in Troubles : troubles'[j] <= s[j]

\* LiveRecorder.stop stops the pipeline in the step in which disconnect()
\* returns; from then on every lifecycle event a task emits raises.
Refusing == pc[main] = "off"

\* An event of an attempt cannot be emitted: the pipeline has stopped or, which is
\* a fault, the archive cannot write it.
EmissionRaises == \/ Refusing /\ UNCHANGED troubles
                  \/ ~Refusing /\ Suffer("faults")

\* Mutant of Capped: the delay grows without a maximum.
Uncapped(a) == a

\* min(..., reconnect_max_delay).
Capped(a) == IF a < MaxAttempt THEN a ELSE MaxAttempt

------------------------------------------------------------------------------
(* _cleanup_connection, _reconnect.  They run in the step in which something    *)
(* has raised; f is what that step has made of the client's fields before them. *)

\* The fields as they are.
Found == [ws |-> ws, state |-> state, attempt |-> attempt, authed |-> authed]

\* The end of _cleanup_connection, and what its caller does next: disconnect()
\* returns; _reconnect announces its attempt, a being the last one's number, and
\* sleeps, or ends the reader when the event cannot be emitted.
EndCleanup(t, a) ==
    /\ state' = "DISCONNECTED"
    /\ \/ /\ t = main
          /\ pc' = [pc EXCEPT ![t] = "off"]
          /\ attempt' = a
          /\ UNCHANGED fallen
       \/ /\ t # main /\ ~Refusing
          /\ pc' = [pc EXCEPT ![t] = "backoff"]
          /\ attempt' = Capped(a + 1)
          /\ UNCHANGED fallen
       \/ /\ t # main
          /\ pc' = [pc EXCEPT ![t] = "done"]
          /\ attempt' = Capped(a + 1)
          /\ fallen' = (fallen \/ ~Refusing)

\* The reader is gone: forget it, fail every request, close the socket.  The
\* state stays what it is until the cleanup has ended.
Sweep(t, f) ==
    /\ readerTask' = 0
    /\ pend' = [u \in Tasks |-> IF u = t THEN "none"
                                ELSE IF pend[u] = "wait" THEN "failed" ELSE pend[u]]
    /\ IF f.ws # 0
       THEN /\ pc' = [pc EXCEPT ![t] = "closing"]
            /\ target' = [target EXCEPT ![t] = f.ws]
            /\ state' = f.state /\ attempt' = f.attempt
            /\ UNCHANGED fallen
       ELSE EndCleanup(t, f.attempt) /\ target' = [target EXCEPT ![t] = 0]

\* _cleanup_connection: cancel the reader if it has not ended, and wait for it.
\* A reader that reads ends at once; one that is cancelling itself swallows the
\* CancelledError and goes on.
Cleanup(t, f) ==
    IF readerTask # 0 /\ pc[readerTask] # "done"
    THEN /\ pc' = [u \in Tasks |-> IF u = t THEN "cancelling"
                                   ELSE IF u = readerTask /\ pc[u] = "reading"
                                   THEN "done" ELSE pc[u]]
         /\ target' = [target EXCEPT ![t] = readerTask]
         /\ pend' = [pend EXCEPT ![t] = "none"]
         /\ state' = f.state /\ attempt' = f.attempt
         /\ UNCHANGED <<readerTask, fallen>>
    ELSE Sweep(t, f)

\* Mutant of CanEnd: a reader waits for itself.
CanEndOnlyDone(r, t) == pc[r] = "done"

\* The await of reader r in task t is over: r has ended, or is t itself.
CanEnd(r, t) == r = t \/ pc[r] = "done"

Cancelled(t) ==
    /\ pc[t] = "cancelling"
    /\ CanEnd(target[t], t)
    /\ Sweep(t, Found)
    /\ UNCHANGED <<ws, authed, disconnectAt, shutdown, lock, sentOn,
                   sock, subscribed, outage, troubles>>

\* ws.close() returns.  _ws becomes None whatever it refers to by now.
Closed(t) ==
    /\ pc[t] = "closing"
    /\ sock' = [sock EXCEPT ![target[t]] = "closed"]
    /\ target' = [target EXCEPT ![t] = 0]
    /\ ws' = 0
    /\ EndCleanup(t, attempt)
    /\ UNCHANGED <<readerTask, authed, disconnectAt, shutdown, lock,
                   pend, sentOn, subscribed, outage, troubles>>

\* Mutant of Reconnect: it sleeps and connects again without a cleanup.
ReconnectKeepingOldReader(t, f) ==
    /\ lock' = IF lock = t THEN 0 ELSE lock
    /\ pc' = [pc EXCEPT ![t] = IF shutdown THEN "done" ELSE "backoff"]
    /\ pend' = [pend EXCEPT ![t] = "none"]
    /\ state' = "RECONNECTING" /\ attempt' = f.attempt
    /\ authed' = FALSE
    /\ UNCHANGED <<readerTask, target, fallen>>

\* Task t ends where it is.
Ends(t, f) ==
    /\ pc' = [pc EXCEPT ![t] = "done"]
    /\ pend' = [pend EXCEPT ![t] = "none"]
    /\ state' = f.state /\ attempt' = f.attempt /\ authed' = f.authed
    /\ UNCHANGED <<readerTask, target, fallen>>

\* _reconnect, up to its first await, in a task that may come from inside the
\* lock.
Reconnect(t, f) ==
    /\ lock' = IF lock = t THEN 0 ELSE lock
    /\ \/ shutdown /\ Ends(t, f)
       \/ /\ ~shutdown
          /\ authed' = FALSE
          /\ Cleanup(t, [f EXCEPT !.state = "RECONNECTING"])

\* Mutant of ConnectRaises: a failed attempt is not tried again.
ConnectRaisesForGood(t, f) ==
    Ends(t, f) /\ lock' = IF lock = t THEN 0 ELSE lock

\* connect() raises in task t.  A reader reconnects; an exception of
\* run_until_shutdown ends its task.
ConnectRaises(t, f) ==
    IF t = runner
    THEN Ends(t, f) /\ lock' = IF lock = t THEN 0 ELSE lock
    ELSE Reconnect(t, f)

------------------------------------------------------------------------------
(* connect, authenticate, enable_heartbeat, request *)

\* connect, from its entry (line 132) to websockets.connect.  asyncio.Lock does
\* not let a task in before those that wait.
Enter(t) ==
    IF lock = 0 /\ \A u \in Tasks : pc[u] = "lock" => pc[t] = "lock"
    THEN /\ lock' = t
         /\ state' = "CONNECTING"
         /\ pc' = [pc EXCEPT ![t] = "opening"]
    ELSE /\ pc' = [pc EXCEPT ![t] = "lock"]
         /\ UNCHANGED <<lock, state>>

\* The sleep of _reconnect is over.  No sleep ends before the first step of the
\* runner, which is ready from the start.
Wake(t) ==
    /\ pc[t] = "backoff"
    /\ pc[runner] # "starting"
    /\ IF shutdown
       THEN pc' = [pc EXCEPT ![t] = "done"] /\ UNCHANGED <<lock, state>>
       ELSE Enter(t)
    /\ UNCHANGED <<ws, readerTask, attempt, authed, disconnectAt, shutdown,
                   target, pend, sentOn, sock, subscribed, outage, fallen, troubles>>

\* run_until_shutdown: connect if the state says DISCONNECTED, then idle.
Run ==
    /\ pc[runner] = "starting"
    /\ IF state = "DISCONNECTED"
       THEN Enter(runner)
       ELSE pc' = [pc EXCEPT ![runner] = "idle"] /\ UNCHANGED <<lock, state>>
    /\ UNCHANGED <<ws, readerTask, attempt, authed, disconnectAt, shutdown,
                   target, pend, sentOn, sock, subscribed, outage, fallen, troubles>>

\* The lock has become free.  connect does not look at _shutdown again.
Acquire(t) ==
    /\ pc[t] = "lock"
    /\ lock = 0
    /\ Enter(t)
    /\ UNCHANGED <<ws, readerTask, attempt, authed, disconnectAt, shutdown,
                   target, pend, sentOn, sock, subscribed, outage, fallen, troubles>>

\* request: send on the current socket and await the future; it raises when
\* there is no socket or the socket is dead.
CanAsk == ws # 0 /\ sock[ws] = "open"
Ask(t, what) ==
    /\ pc' = [pc EXCEPT ![t] = what]
    /\ pend' = [pend EXCEPT ![t] = "wait"]
    /\ sentOn' = [sentOn EXCEPT ![t] = ws]

\* Nobody uses socket n any more: its number can stand for a new one.
Free(n) == /\ pc[n] \in {"unborn", "done"}
           /\ n \notin {ws, readerTask}
           /\ \A t \in Tasks : n # target[t] /\ ~(n = sentOn[t] /\ pend[t] = "wait")

\* websockets.connect returns a socket n: _ws, CONNECTED, a fresh attempt count,
\* connection.open, which may raise before there is a reader of n; then a reader
\* and the first request.
Opened(t, n) ==
    /\ pc[t] = "opening"
    /\ Free(n) /\ \A m \in Sockets : m < n => ~Free(m)
    /\ sock' = [sock EXCEPT ![n] = "open"]
    /\ subscribed' = subscribed \ {n}
    /\ ws' = n
    /\ \/ /\ EmissionRaises
          /\ ConnectRaises(t, [Found EXCEPT !.ws = n, !.state = "CONNECTED", !.attempt = 0])
          /\ UNCHANGED sentOn
       \/ /\ ~Refusing
          /\ state' = "CONNECTED" /\ attempt' = 0
          /\ readerTask' = n
          /\ pc' = [pc EXCEPT ![n] = "reading",
                              ![t] = IF HasCredentials /\ ~authed
                                     THEN "auth" ELSE "heartbeat"]
          /\ pend' = [pend EXCEPT ![t] = "wait"]
          /\ sentOn' = [sentOn EXCEPT ![t] = n]
          /\ UNCHANGED <<authed, lock, target, fallen, troubles>>
    /\ UNCHANGED <<disconnectAt, shutdown, outage>>

OpenFails(t) ==
    /\ pc[t] = "opening"
    /\ Suffer("faults")
    /\ ConnectRaises(t, Found)
    /\ UNCHANGED <<ws, disconnectAt, shutdown, sentOn, sock, subscribed, outage>>

\* A request raises: its future was failed by a cleanup, or timed out.  A
\* timeout is a fault unless nobody is left who could read the reply.
RequestRaises(t) ==
    /\ pc[t] \in {"auth", "heartbeat", "resubscribe"}
    /\ \/ pend[t] = "failed" /\ UNCHANGED troubles
       \/ pend[t] = "wait" /\ Suffer("faults")
       \/ /\ pend[t] = "wait" /\ UNCHANGED troubles
          /\ sock[sentOn[t]] # "open" \/ pc[sentOn[t]] # "reading"
    /\ ConnectRaises(t, Found)
    /\ UNCHANGED <<ws, disconnectAt, shutdown, sentOn, sock, subscribed, outage>>

\* authenticate has its reply: an error, which raises, or a token, which is
\* applied before connection.authenticated is emitted and the heartbeat asked for.
AuthReply(t) ==
    /\ pc[t] = "auth"
    /\ \/ /\ pend[t] = "error"
          /\ ConnectRaises(t, Found)
          /\ UNCHANGED <<sentOn, troubles>>
       \/ /\ pend[t] = "reply"
          /\ EmissionRaises \/ (~Refusing /\ ~CanAsk /\ UNCHANGED troubles)
          /\ ConnectRaises(t, [Found EXCEPT !.state = "AUTHENTICATED", !.authed = TRUE])
          /\ UNCHANGED sentOn
       \/ /\ pend[t] = "reply" /\ ~Refusing /\ CanAsk
          /\ authed' = TRUE
          /\ state' = "AUTHENTICATED"
          /\ Ask(t, "heartbeat")
          /\ UNCHANGED <<readerTask, attempt, target, lock, fallen, troubles>>
    /\ UNCHANGED <<ws, disconnectAt, shutdown, sock, subscribed, outage>>

\* Mutant of NextRequest: connect forgets that it is a reconnect.
NextRequestNever(t) == "none"

\* What connect goes on to ask for after the heartbeat: the runner's call of
\* connect() is no reconnect.
NextRequest(t) == IF t = runner THEN "none" ELSE "resubscribe"

\* enable_heartbeat has its reply and emits heartbeat.enabled, or .setup_failed;
\* connect leaves the lock.  The adapter then resubscribes if this is a reconnect.
HeartbeatReply(t) ==
    /\ pc[t] = "heartbeat"
    /\ pend[t] \in {"reply", "error"}
    /\ \/ /\ \/ EmissionRaises
             \/ ~Refusing /\ NextRequest(t) # "none" /\ ~CanAsk /\ UNCHANGED troubles
          /\ ConnectRaises(t, Found)
          /\ UNCHANGED sentOn
       \/ /\ ~Refusing /\ NextRequest(t) = "none"
          /\ pc' = [pc EXCEPT ![t] = IF t = runner THEN "idle" ELSE "done"]
          /\ pend' = [pend EXCEPT ![t] = "none"]
          /\ lock' = 0
          /\ UNCHANGED <<readerTask, target, state, attempt, authed, sentOn, fallen, troubles>>
       \/ /\ ~Refusing /\ NextRequest(t) # "none" /\ CanAsk
          /\ lock' = 0
          /\ Ask(t, NextRequest(t))
          /\ UNCHANGED <<readerTask, target, state, attempt, authed, fallen, troubles>>
    /\ UNCHANGED <<ws, disconnectAt, shutdown, sock, subscribed, outage>>

\* Resubscribed, or refused: _on_reconnected looks at no result.  Then
\* _emit_gap_if_needed, which forgets the disconnect once gap.detected is emitted,
\* and the task that reconnected ends; if the event raises it reconnects again.
Resubscribed(t) ==
    /\ pc[t] = "resubscribe"
    /\ pend[t] \in {"reply", "error"}
    /\ \/ /\ disconnectAt /\ EmissionRaises
          /\ Reconnect(t, Found)
          /\ UNCHANGED <<disconnectAt, outage>>
       \/ /\ disconnectAt => ~Refusing
          /\ Ends(t, Found)
          /\ disconnectAt' = FALSE
          /\ outage' = (outage /\ ~disconnectAt)
          /\ UNCHANGED <<lock, troubles>>
    /\ UNCHANGED <<ws, shutdown, sentOn, sock, subscribed>>

------------------------------------------------------------------------------
(* _read_loop, _handle_server_message *)

Reading(r) == pc[r] = "reading"

\* A message is there.  The loop breaks at a message after the shutdown.
Break(r) ==
    /\ Reading(r) /\ sock[r] = "open" /\ shutdown
    /\ pc' = [pc EXCEPT ![r] = "done"]
    /\ UNCHANGED <<client, target, pend, sentOn, sock, subscribed, outage, fallen, troubles>>

\* The reply to t's request: a result, or an error.
Reply(r, t) ==
    /\ Reading(r) /\ sock[r] = "open" /\ ~shutdown
    /\ pend[t] = "wait" /\ sentOn[t] = r
    /\ \/ /\ pend' = [pend EXCEPT ![t] = "reply"]
          /\ subscribed' = IF pc[t] = "resubscribe" THEN subscribed \cup {r} ELSE subscribed
          /\ UNCHANGED troubles
       \/ /\ pend' = [pend EXCEPT ![t] = "error"]
          /\ Suffer(IF pc[t] = "resubscribe" THEN "refusals" ELSE "faults")
          /\ UNCHANGED subscribed
    /\ UNCHANGED <<client, pc, target, sentOn, sock, outage, fallen>>

\* A market message goes to the adapter, and handling it raises (the archive
\* could not write it): the reader reconnects, and no disconnect is noted.
MarketRaises(r) ==
    /\ Reading(r) /\ sock[r] = "open" /\ ~shutdown
    /\ r \in subscribed
    /\ Suffer("raises")
    /\ outage' = TRUE
    /\ Reconnect(r, Found)
    /\ UNCHANGED <<ws, disconnectAt, shutdown, sentOn, sock, subscribed>>

\* Mutant of Disconnected: the time of the disconnect is not noted.
DisconnectedUnnoted(r) == UNCHANGED disconnectAt

\* The handler of ConnectionClosed in reader r notes the disconnect.
Disconnected(r) == disconnectAt' = TRUE

\* async for raises ConnectionClosed.  The handler emits connection.closed and
\* reconnects; when the event cannot be emitted the reader ends, and nobody does.
ConnectionLost(r) ==
    /\ Reading(r) /\ sock[r] = "lost"
    /\ Disconnected(r)
    /\ outage' = (outage \/ r \in subscribed)
    /\ \/ Reconnect(r, Found)
       \/ /\ ~Refusing
          /\ pc' = [pc EXCEPT ![r] = "done"]
          /\ fallen' = TRUE
          /\ UNCHANGED <<readerTask, state, attempt, authed, lock, target, pend>>
    /\ UNCHANGED <<ws, shutdown, sentOn, sock, subscribed, troubles>>

\* async for ends without an exception: the connection was closed normally, by
\* the server or by this client.
LoopEnds(r) ==
    /\ Reading(r) /\ sock[r] = "closed"
    /\ pc' = [pc EXCEPT ![r] = "done"]
    /\ outage' = (outage \/ r \in subscribed)
    /\ UNCHANGED <<client, target, pend, sentOn, sock, subscribed, fallen, troubles>>

------------------------------------------------------------------------------
(* The server, and the recorder *)

\* The server takes up the subscription, or its first batches: market data flows
\* while t awaits the reply to the last.
Accept(t) ==
    /\ pc[t] = "resubscribe" /\ pend[t] = "wait"
    /\ sock[sentOn[t]] = "open" /\ sentOn[t] \notin subscribed
    /\ subscribed' = subscribed \cup {sentOn[t]}
    /\ UNCHANGED <<client, pc, target, pend, sentOn, sock, outage, fallen, troubles>>

Lose(s) ==
    /\ sock[s] = "open" /\ (Reading(s) \/ s = ws)
    /\ Suffer("losses")
    /\ sock' = [sock EXCEPT ![s] = "lost"]
    /\ UNCHANGED <<client, pc, target, pend, sentOn, subscribed, outage, fallen>>

ServerCloses(s) ==
    /\ sock[s] = "open" /\ (Reading(s) \/ s = ws)
    /\ Suffer("closes")
    /\ sock' = [sock EXCEPT ![s] = "closed"]
    /\ UNCHANGED <<client, pc, target, pend, sentOn, subscribed, outage, fallen>>

\* LiveRecorder.stop cancels the runner, which leaves the lock if it holds it.
CancelRunner ==
    /\ pc[main] = "up"
    /\ pc' = [pc EXCEPT ![main] = "stopping", ![runner] = "done"]
    /\ pend' = [pend EXCEPT ![runner] = "none"]
    /\ lock' = IF lock = runner THEN 0 ELSE lock
    /\ UNCHANGED <<ws, readerTask, state, attempt, authed, disconnectAt,
                   shutdown, target, sentOn, sock, subscribed, outage, fallen, troubles>>

\* disconnect, up to its first await.  When connection.shutdown cannot be emitted
\* it raises here: no reader is cancelled, no socket is closed, and the pipeline is
\* not stopped.
Disconnect ==
    /\ pc[main] = "stopping"
    /\ shutdown' = TRUE
    /\ \/ Cleanup(main, Found)
       \/ /\ pc' = [pc EXCEPT ![main] = "aborted"]
          /\ fallen' = TRUE
          /\ UNCHANGED <<readerTask, state, attempt, target, pend>>
    /\ UNCHANGED <<ws, authed, disconnectAt, lock, sentOn, sock,
                   subscribed, outage, troubles>>

Step(t) == \/ Cancelled(t) \/ Closed(t) \/ Wake(t) \/ Acquire(t)
           \/ \E n \in Sockets : Opened(t, n)
           \/ RequestRaises(t) \/ AuthReply(t) \/ HeartbeatReply(t) \/ Resubscribed(t)

Read(r) == \/ Break(r) \/ ConnectionLost(r) \/ LoopEnds(r)
           \/ \E t \in Tasks : Reply(r, t)

Next == \/ \E t \in Tasks : Step(t) \/ OpenFails(t) \/ Accept(t)
        \/ Run
        \/ \E r \in Sockets : Read(r) \/ MarketRaises(r)
        \/ \E s \in Sockets : Lose(s) \/ ServerCloses(s)
        \/ CancelRunner \/ Disconnect

Spec == Init /\ [][Next]_vars

\* The event loop runs every task that can go on, a lock goes to its waiters in
\* turn, and the server answers; nothing makes it lose connections or makes the
\* operator stop the recorder, but once stopping it disconnects.
FairSpec ==
    /\ Spec
    /\ \A t \in Tasks : WF_vars(Step(t)) /\ SF_vars(Acquire(t))
    /\ \A r \in Sockets : WF_vars(Read(r))
    /\ WF_vars(Run) /\ WF_vars(Disconnect)

------------------------------------------------------------------------------
(* Properties *)

\* Every variable has its type.
TypeOK ==
    /\ ws \in 0..MaxSockets /\ readerTask \in 0..MaxSockets
    /\ state \in {"DISCONNECTED", "CONNECTING", "CONNECTED", "AUTHENTICATED",
                  "RECONNECTING"}
    /\ attempt \in 0..MaxAttempt
    /\ {authed, disconnectAt, shutdown, outage, fallen} \subseteq BOOLEAN
    /\ lock \in Tasks \cup {0}
    /\ pc \in [Tasks -> {"unborn", "up", "starting", "idle", "reading",
                         "cancelling", "closing", "backoff", "lock", "opening",
                         "auth", "heartbeat", "resubscribe", "stopping", "off",
                         "aborted", "done"}]
    /\ target \in [Tasks -> 0..MaxSockets]
    /\ pend \in [Tasks -> {"none", "wait", "reply", "error", "failed"}]
    /\ sentOn \in [Tasks -> 0..MaxSockets]
    /\ sock \in [Sockets -> {"unused", "open", "lost", "closed"}]
    /\ subscribed \subseteq Sockets
    /\ troubles \in [Troubles -> Nat]

\* A task inside _reconnect or connect.
Reconnecting(t) == pc[t] \in {"cancelling", "closing", "backoff", "lock", "opening",
                              "auth", "heartbeat", "resubscribe"}

\* Market data of reader r's socket reaches the archive.
Feeding(r) == Reading(r) /\ sock[r] = "open" /\ r \in subscribed

\* The current connection delivers market data.
Serving == ws # 0 /\ readerTask = ws /\ Feeding(ws)

\* Nobody has stopped the client, and no task has anything left to do about its
\* connection.
Settled == /\ ~shutdown
           /\ \A t \in Tasks : ~Reconnecting(t)
           /\ \A r \in Sockets : Reading(r) => sock[r] = "open"

\* No two tasks reconnect at once.
AtMostOneReplaced == troubles.losses + troubles.raises <= 1

\* At most one connection feeds the archive, whatever else fails while one feed
\* is replaced: the cleanup of _reconnect leaves no old reader behind that would
\* record every message a second time.  (A second loss during the replacement
\* makes two tasks reconnect, and can.)
OneFeed == AtMostOneReplaced => \A r, s \in Sockets : Feeding(r) /\ Feeding(s) => r = s

\* When every reconnection has come to its end, the current socket is open,
\* subscribed and read by the current reader, unless the server has closed a
\* connection or refused a subscription, or a reader has ended at an event nobody
\* catches: neither a late cleanup of another task nor a failed attempt, whatever
\* it failed at, leaves the client silently without a feed.
SettledIsServing ==
    Settled /\ ~fallen /\ troubles.closes = 0 /\ troubles.refusals = 0 => Serving

\* When every reconnection has come to its end, each feed that was lost has been
\* covered by a gap.detected event ("emitted after reconnect"), also when that
\* could not be written at first; again unless a reader has ended at an event.
GapReported == Settled /\ ~fallen /\ AtMostOneReplaced
                  /\ troubles.closes = 0 /\ troubles.raises = 0 => ~outage

\* Whatever happens but a normal close, a refusal, a second reconnection at once
\* or an event nobody catches that the archive cannot write, the client comes back
\* to serving, unless it is stopped.
Maintained == []<>(\/ Serving \/ shutdown \/ fallen \/ ~AtMostOneReplaced
                   \/ troubles.closes > 0 \/ troubles.refusals > 0)

\* The client "maintains the connection until disconnect() is called", however
\* the connection ended.
AlwaysRestored == []<>(Serving \/ shutdown)

\* "Auto re-subscribe after WebSocket reconnect": a settled client whose reader
\* has reconnected, and not ended at an event, serves, whatever the server replied.
SettledIsSubscribed == Settled /\ ~fallen => Serving

\* Stopping ends everything: disconnect() returns (the task it cancels may be
\* waiting for others in turn) or raises before it has cleaned anything up, and in
\* either case every reader and reconnection ends.
StopEndsAll == pc[main] = "stopping"
                 ~> \A t \in Tasks : pc[t] \in {"unborn", "done", "off", "aborted"}
==============================================================================
