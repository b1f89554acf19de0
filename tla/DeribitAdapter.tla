--------------------------- MODULE DeribitAdapter ---------------------------
(***************************************************************************)
(* adapters/deribit/adapter.py and subscription.py with the messages of    *)
(* client.py: LiveRecorder.start connects the adapter, discovers the       *)
(* instruments, plans the channels and subscribes them batch by batch;     *)
(* after a loss the client reconnects and the adapter subscribes the same  *)
(* plan again.  DeribitClient has the tasks that reconnect, and what they  *)
(* do to each other; here one request follows another, the reader hands    *)
(* over what the server sends, and the server has a will of its own.       *)
(*                                                                         *)
(* A connection is lost only while start is under way or nothing is:       *)
(* losses during a reconnection are DeribitClient's.  There are no         *)
(* credentials.  Events are left out: emitting one does not suspend.       *)
(***************************************************************************)
EXTENDS Discovery

CONSTANTS FutureLists, OptionLists, SpotLists,  \* what the server may list
          FuturesCount,   \* settings.futures_count
          ChannelTypes,   \* settings.channel_list
          BatchSize,      \* DEFAULT_BATCH_SIZE
          MaxLosses,      \* bound: connections lost
          MaxFaults,      \* bound: refused opens, error replies, silent servers
          MaxRefusals,    \* bound: batches not subscribed in full
          MaxBeats        \* bound: test_requests of the server

ASSUME AdapterAssumption ==
         /\ FuturesCount \in Nat /\ BatchSize \in Nat \ {0}
         /\ ChannelTypes \in Seq(STRING)
         /\ {MaxLosses, MaxFaults, MaxRefusals, MaxBeats} \subseteq Nat

\* The server names an instrument by what get_instruments lists it as, so it gives
\* no name twice, and the settings name no type twice: the code passes a repetition
\* on to the plan.
ASSUME ListsAssumption ==
         /\ \A f \in FutureLists \cup {<< >>}, o \in OptionLists \cup {<< >>},
               s \in SpotLists \cup {<< >>} :
               Listing([future |-> f, option |-> o, spot |-> s])
         /\ TypesOnce(ChannelTypes)

VARIABLES
    phase,      \* what start, or the task that reconnects, is doing
    starting,   \* it is start
    listed,     \* the replies to get_instruments, which _discovery is made of
    plan,       \* SubscriptionManager._plan.batches, << >> for None
    result,     \* the SubscriptionResult that subscribe_all is building
    lastResult, \* SubscriptionManager._last_result
    requestId,  \* _request_id
    pending,    \* the keys of _pending
    request,    \* the request whose reply is awaited
    reply,      \* the reply its future has
    sock,       \* the current socket: none, open or lost
    asked,      \* the requests on it that the server has yet to answer
    granted,    \* the channels the server has subscribed on it
    refused,    \* those it has refused, or left out of a reply, on it
    beating,    \* it sends heartbeats on it
    handled,    \* history: the kinds of message given to _on_market_message
    budget      \* what is left of the bounds

plans == <<listed, plan>>
results == <<result, lastResult>>
rpc == <<requestId, pending, request, reply>>
server == <<asked, granted, refused, beating>>
vars == <<phase, starting, plans, results, rpc, sock, server, handled, budget>>

NoRequest == [id |-> 0, method |-> "none", arg |-> 0]
NoReply == [to |-> NoRequest, ok |-> FALSE, value |-> << >>]
NoResult == [subscribed |-> << >>, failed |-> {}]
Kinds == <<"future", "option", "spot">>

Init == /\ phase = "opening" /\ starting = TRUE
        /\ listed = [k \in Range(Kinds) |-> << >>] /\ plan = << >>
        /\ result = NoResult /\ lastResult = NoResult
        /\ requestId = 0 /\ pending = {} /\ request = NoRequest /\ reply = NoReply
        /\ sock = "none" /\ asked = {} /\ granted = {} /\ refused = {} /\ beating = FALSE
        /\ handled = {}
        /\ budget = [losses |-> MaxLosses, faults |-> MaxFaults,
                     refusals |-> MaxRefusals, beats |-> MaxBeats]

Spend(what) == /\ budget[what] > 0
               /\ budget' = [budget EXCEPT ![what] = @ - 1]

------------------------------------------------------------------------------
(* The end of an attempt *)

\* Mutant of Raise: the client gives up.
RaiseForGood ==
    /\ phase' = "failed"
    /\ UNCHANGED starting

\* An exception ends start, and with it the program; a reconnect that raises
\* begins again: _reconnect sleeps, then connects.
Raise == /\ phase' = IF starting THEN "failed" ELSE "backoff"
         /\ UNCHANGED starting

\* _cleanup_connection: nothing of the old socket is read any more.
Cleanup ==
    /\ sock' = "none"
    /\ pending' = {} /\ request' = NoRequest /\ reply' = NoReply
    /\ asked' = {} /\ granted' = {} /\ refused' = {} /\ beating' = FALSE
    /\ UNCHANGED requestId

\* The attempt under way raises.
Abandon == Raise /\ Cleanup /\ UNCHANGED <<plans, results, handled>>

------------------------------------------------------------------------------
(* request, next_request_id *)

NewId == requestId + 1

\* A request goes out with a fresh id and its future is awaited.  Sending on a
\* dead socket raises.
Ask(method, arg) ==
    IF sock = "open"
    THEN LET r == [id |-> NewId, method |-> method, arg |-> arg]
         IN /\ requestId' = NewId
            /\ pending' = pending \cup {NewId}
            /\ request' = r /\ reply' = NoReply
            /\ asked' = asked \cup {r}
            /\ phase' = "asking"
            /\ UNCHANGED <<starting, sock, granted, refused, beating>>
    ELSE Raise /\ Cleanup

\* Mutant of CanTimeOut: the future is awaited without a limit.
CanTimeOutNever == FALSE

\* The request timeout: always possible when the server has forgotten the
\* request, and a fault when it is only slow.
CanTimeOut == \/ request \notin asked /\ UNCHANGED budget
              \/ request \in asked /\ Spend("faults")

TimesOut == /\ phase = "asking" /\ reply = NoReply
            /\ CanTimeOut
            /\ Abandon

------------------------------------------------------------------------------
(* connect, discover, subscribe, _on_reconnected *)

\* websockets.connect; then enable_heartbeat asks.
Open ==
    /\ phase = "opening"
    /\ requestId' = NewId
    /\ LET r == [id |-> NewId, method |-> "public/set_heartbeat", arg |-> 0]
       IN request' = r /\ asked' = {r} /\ pending' = {NewId}
    /\ reply' = NoReply /\ phase' = "asking" /\ sock' = "open"
    /\ UNCHANGED <<starting, granted, refused, beating, plans, results, handled, budget>>

OpenFails == phase = "opening" /\ Spend("faults") /\ Abandon

\* The sleep of _reconnect is over.
Wake == /\ phase = "backoff" /\ phase' = "opening"
        /\ UNCHANGED <<starting, plans, results, rpc, sock, server, handled, budget>>

Answered(method) == phase = "asking" /\ reply # NoReply /\ request.method = method

\* Mutant of Fresh: the result of the last time is added to.
FreshNever == lastResult

\* subscribe_all begins with an empty result.
Fresh == NoResult

\* The heartbeat is set up, or was refused, which is only reported.  start goes
\* on to discover the instruments; a reconnect finds the plan made and
\* subscribes it again.
HeartbeatSet ==
    /\ Answered("public/set_heartbeat")
    /\ IF starting
       THEN Ask("public/get_instruments", 1) /\ UNCHANGED results
       ELSE /\ Ask("public/subscribe", 1)
            /\ result' = Fresh /\ UNCHANGED lastResult
    /\ UNCHANGED <<plans, handled, budget>>

\* fetch_instruments: one kind after the other; then the plan is built and its
\* first batch subscribed.
InstrumentsListed ==
    /\ Answered("public/get_instruments")
    /\ LET k == request.arg
       IN IF ~reply.ok
          THEN Raise /\ Cleanup /\ UNCHANGED <<plans, results>>
          ELSE /\ listed' = [listed EXCEPT ![Kinds[k]] = reply.value]
               /\ IF k < 3
                  THEN Ask("public/get_instruments", k + 1) /\ UNCHANGED <<plan, results>>
                  ELSE /\ plan' = Plan(listed', FuturesCount, ChannelTypes, BatchSize)
                       /\ Ask("public/subscribe", 1)
                       /\ result' = Fresh /\ UNCHANGED lastResult
    /\ UNCHANGED <<handled, budget>>

\* Mutant of Noted: batches are numbered from 0.
NotedFromZero(b) == IF reply.ok
                    THEN [result EXCEPT !.subscribed = @ \o reply.value]
                    ELSE [result EXCEPT !.failed = @ \cup {b - 1}]

\* Mutant of IsLast: a batch that failed ends the loop.
IsLastOrFailed(b) == b = Len(plan) \/ ~reply.ok

IsLast(b) == b = Len(plan)

\* The result with the reply to batch b.
Noted(b) == IF reply.ok
            THEN [result EXCEPT !.subscribed = @ \o reply.value]
            ELSE [result EXCEPT !.failed = @ \cup {b}]

\* subscribe_all has the reply to a batch: the next one, or the end of start or
\* of the reconnection.
BatchSubscribed ==
    /\ Answered("public/subscribe")
    /\ result' = Noted(request.arg)
    /\ IF IsLast(request.arg)
       THEN /\ lastResult' = result'
            /\ phase' = "recording" /\ starting' = FALSE
            /\ request' = NoRequest /\ reply' = NoReply
            /\ UNCHANGED <<requestId, pending, sock, server>>
       ELSE Ask("public/subscribe", request.arg + 1) /\ UNCHANGED lastResult
    /\ UNCHANGED <<plans, handled, budget>>

------------------------------------------------------------------------------
(* _read_loop, _handle_server_message *)

\* _handle_server_message: the reply to request q, being m, is given to the
\* future of its id; without one the message goes on to _on_market_message.
TakeIn(q, m) ==
    IF q.id \in pending
    THEN /\ pending' = pending \ {q.id}
         /\ reply' = m
         /\ UNCHANGED handled
    ELSE /\ handled' = handled \cup {"reply"}
         /\ UNCHANGED <<pending, reply>>

Reading == sock = "open" /\ phase # "failed"

Says(q, ok, value) == TakeIn(q, [to |-> q, ok |-> ok, value |-> value])

\* What the server may list for the kind of the k-th request.
Lists(k) == CASE k = 1 -> FutureLists [] k = 2 -> OptionLists [] k = 3 -> SpotLists

\* The server answers a request, whichever of those it has: it sets up the
\* heartbeat, lists instruments, subscribes a batch, or answers public/test.
Reply(q) ==
    /\ Reading /\ q \in asked
    /\ asked' = asked \ {q}
    /\ \/ /\ q.method = "public/get_instruments"
          /\ \E list \in Lists(q.arg) : Says(q, TRUE, list)
          /\ UNCHANGED <<granted, beating>>
       \/ /\ q.method = "public/subscribe"
          /\ Says(q, TRUE, plan[q.arg])
          /\ granted' = granted \cup Range(plan[q.arg])
          /\ UNCHANGED beating
       \/ /\ q.method \in {"public/set_heartbeat", "public/test"}
          /\ Says(q, TRUE, << >>)
          /\ beating' = (beating \/ q.method = "public/set_heartbeat")
          /\ UNCHANGED granted
    /\ UNCHANGED <<phase, starting, plans, results, requestId, request, sock,
                   refused, budget>>

\* The server answers with an error, or subscribes only a part of a batch.
ReplyWorse(q) ==
    /\ Reading /\ q \in asked
    /\ asked' = asked \ {q}
    /\ \/ /\ q.method # "public/subscribe" /\ Spend("faults")
          /\ Says(q, FALSE, << >>)
          /\ UNCHANGED <<granted, refused>>
       \/ /\ q.method = "public/subscribe" /\ Spend("refusals")
          /\ Says(q, FALSE, << >>)
          /\ refused' = refused \cup Range(plan[q.arg])
          /\ UNCHANGED granted
       \/ /\ q.method = "public/subscribe" /\ Spend("refusals")
          /\ Says(q, TRUE, Tail(plan[q.arg]))
          /\ granted' = granted \cup Range(Tail(plan[q.arg]))
          /\ refused' = refused \cup {Head(plan[q.arg])}
    /\ UNCHANGED <<phase, starting, plans, results, requestId, request, sock, beating>>

\* Mutant of TestId: the number of the last request.
TestIdSame == requestId

\* The number of the answer to a test_request.
TestId == NewId

\* A test_request is answered at once by public/test, for whose reply nobody
\* waits.
TestRequested ==
    /\ Reading /\ beating /\ Spend("beats")
    /\ requestId' = TestId
    /\ asked' = asked \cup {[id |-> TestId, method |-> "public/test", arg |-> 0]}
    /\ UNCHANGED <<phase, starting, plans, results, pending, request, reply, sock,
                   granted, refused, beating, handled>>

\* A subscription message.
MarketMessage ==
    /\ Reading /\ granted # {}
    /\ handled' = handled \cup {"subscription"}
    /\ UNCHANGED <<phase, starting, plans, results, rpc, sock, server, budget>>

\* The server never answers a request.
Forget(q) ==
    /\ Reading /\ q \in asked /\ Spend("faults")
    /\ asked' = asked \ {q}
    /\ UNCHANGED <<phase, starting, plans, results, rpc, sock, granted, refused,
                   beating, handled>>

Lose ==
    /\ Reading /\ (starting \/ phase = "recording") /\ Spend("losses")
    /\ sock' = "lost"
    /\ UNCHANGED <<phase, starting, plans, results, rpc, server, handled>>

\* ConnectionClosed in the reader: it reconnects, and its cleanup fails the
\* request that start may await.  A start that has its reply goes on first.
LossNoticed ==
    /\ sock = "lost" /\ phase # "failed"
    /\ starting => reply = NoReply
    /\ Abandon
    /\ UNCHANGED budget

------------------------------------------------------------------------------

Client == \/ Open \/ Wake \/ TimesOut \/ LossNoticed
          \/ HeartbeatSet \/ InstrumentsListed \/ BatchSubscribed

Next == \/ Client \/ OpenFails \/ Lose \/ TestRequested \/ MarketMessage
        \/ \E q \in asked : Reply(q) \/ ReplyWorse(q) \/ Forget(q)

Spec == Init /\ [][Next]_vars

\* The event loop runs the tasks, sleeps and timeouts end, and the server
\* answers every request that it does not forget.
FairSpec == Spec /\ WF_vars(Client) /\ WF_vars(\E q \in asked : Reply(q))

------------------------------------------------------------------------------
(* Properties *)

Channels == UNION {Range(plan[b]) : b \in DOMAIN plan}

\* The plan, from when channels are asked for, has batches, none of them empty.
PlanTyped ==
    /\ plan \in Seq(Range(plan))
    /\ \A b \in DOMAIN plan : plan[b] \in Seq(Range(plan[b])) /\ plan[b] # << >>
    /\ request.method = "public/subscribe" \/ ~starting => plan # << >>

\* Every variable has its type.
TypeOK ==
    /\ PlanTyped
    /\ phase \in {"opening", "asking", "recording", "backoff", "failed"}
    /\ starting \in BOOLEAN
    /\ listed.future \in FutureLists \cup {<< >>}
    /\ listed.option \in OptionLists \cup {<< >>}
    /\ listed.spot \in SpotLists \cup {<< >>}
    /\ pending \subseteq 1..requestId
    /\ \A q \in asked \cup {request, reply.to} : q.id \in 0..requestId
    /\ sock \in {"none", "open", "lost"} /\ beating \in BOOLEAN
    /\ granted \cup refused \subseteq Channels
    /\ Range(result.subscribed) \cup Range(lastResult.subscribed) \subseteq Channels
    /\ {result.failed, lastResult.failed} \subseteq SUBSET DOMAIN plan
    /\ handled \subseteq {"subscription", "reply"}

Recording == phase = "recording" /\ sock = "open"

\* A request is answered by the reply to that request, although numbers are
\* never reset, heartbeats are answered in between and replies come in any
\* order.
RepliesMatch == reply # NoReply => reply.to = request

\* What the adapter believes to be subscribed, and to have failed, is what the
\* server has done on the current connection, after any number of
\* reconnections and attempts that were given up half-way.
LastResultIsTrue ==
    Recording =>
       /\ Range(lastResult.subscribed) = granted
       /\ Len(lastResult.subscribed) = Cardinality(granted)
       /\ \A b \in lastResult.failed : Range(plan[b]) \subseteq refused

\* Every channel of the plan has been asked for on the current connection:
\* nothing is left out, whichever batches were refused.
PlanIsAsked == Recording => granted \cup refused = Channels

\* What the plan must be, said without sorting or slicing: the index, and each
\* supported channel of each chosen instrument, once; all active options and
\* spot pairs, at most one perpetual, and FuturesCount active dated futures (or
\* all) of which none expires later than one that was left out; in batches that
\* are full, but for the last.
PlanIsRight ==
    plan # << >> =>
       LET supported == Range(ChannelTypes) \cap Supported
           channels == Channels
           chosen(e) == \A t \in supported : <<t, e.name>> \in channels
           dated == {e \in Range(listed.future) : e.active /\ ~e.perpetual}
           perpetuals == {e \in Range(listed.future) : e.perpetual}
           near == {e \in dated : chosen(e)}
           names == {e.name : e \in near
                        \cup {e \in perpetuals : chosen(e)}
                        \cup {e \in Range(listed.option) \cup Range(listed.spot) : e.active}}
       IN /\ plan[1][1] = IndexChannel
          /\ \A b, c \in DOMAIN plan : \A i \in DOMAIN plan[b], j \in DOMAIN plan[c] :
                plan[b][i] = plan[c][j] => b = c /\ i = j
          /\ channels = {IndexChannel} \cup (supported \X names)
          /\ supported # {} =>
                /\ perpetuals # {} => Cardinality({e \in perpetuals : chosen(e)}) = 1
                /\ Cardinality(near) = IF Cardinality(dated) < FuturesCount
                                       THEN Cardinality(dated) ELSE FuturesCount
                /\ \A e \in near, f \in dated \ near : e.expiry <= f.expiry
          /\ \A b \in DOMAIN plan : IF b < Len(plan) THEN Len(plan[b]) = BatchSize
                                    ELSE Len(plan[b]) \in 1..BatchSize

\* start ends, and does not hang: it records, or raises.
StartEnds == <>(phase \in {"recording", "failed"})

\* After a loss the recording goes on with every channel of the plan asked for.
LossIsRepaired ==
    sock = "lost" /\ ~starting ~> Recording /\ granted \cup refused = Channels

\* "Forward market subscription messages as evidence": nothing else is.
OnlyMarketIsEvidence == handled \subseteq {"subscription"}
==============================================================================
