------------------------ MODULE DeribitAdapterProofs ------------------------
(***************************************************************************)
(* For any lists of instruments, any bounds and any number of connections: *)
(*                                                                         *)
(* a request of the adapter is never given the reply to another, because   *)
(* numbers only grow and no two requests on a connection have the same, so *)
(* that the request awaited is the only one with its number, and only its  *)
(* number is in _pending (RInv);                                           *)
(*                                                                         *)
(* the plan is the one of the lists the server gave, because start asks    *)
(* for the three lists before it plans, and plans before it subscribes     *)
(* (DInv), so that it is what DiscoveryProofs shows a plan to be;          *)
(*                                                                         *)
(* every channel of the plan has been asked for when the adapter records,  *)
(* because batches are asked for in their order, each when the reply to    *)
(* the one before it is there (AInv);                                      *)
(*                                                                         *)
(* and the result says what the server has granted, because it grows with  *)
(* each reply as the server's set did, by channels that no batch before    *)
(* has (LInv), and never knows a channel outside the plan, nor the server, *)
(* because a reply grants only what its batch asked for (KInv).            *)
(***************************************************************************)
EXTENDS DeribitAdapter, DiscoveryProofs

\* What RepliesMatch rests on.
Numbered == /\ requestId \in Nat
            /\ \A q \in asked : q.id \in 1..requestId
            /\ \A p, q \in asked : p.id = q.id => p = q

OneAwaited == /\ request.id \in 0..requestId
              /\ pending \subseteq {request.id}
              /\ \A q \in asked : q.id = request.id => q = request
              /\ reply # NoReply => pending = {}

RInv == Numbered /\ OneAwaited /\ RepliesMatch

\* No request has the number 0, and none has the next number.
LEMMA FreshIds ==
    ASSUME Numbered, OneAwaited
    PROVE  /\ \A q \in asked : q.id # NewId /\ q.id # 0
           /\ NewId \in Nat /\ NewId # requestId /\ NewId # request.id
           /\ 0..requestId \subseteq 0..NewId /\ 1..requestId \subseteq 1..NewId
           /\ NewId \in 1..NewId /\ NewId \in 0..NewId
BY DEF Numbered, OneAwaited, NewId

\* Nothing is asked and nothing awaited.
LEMMA InvInit == Init => RInv
BY DEF Init, RInv, Numbered, OneAwaited, RepliesMatch, NoRequest, NoReply

\* The cleanup forgets every request and its reply.
LEMMA InvCleanup ==
    ASSUME RInv, Cleanup PROVE RInv'
BY DEF RInv, Numbered, OneAwaited, RepliesMatch, Cleanup, NoRequest, NoReply

\* A new request has a number no other has.
LEMMA InvAsk ==
    ASSUME RInv, reply # NoReply, NEW method, NEW arg, Ask(method, arg)
    PROVE  RInv'
<1>1. CASE sock # "open"
  BY <1>1, InvCleanup DEF Ask
<1>2. CASE sock = "open"
  <2> DEFINE r == [id |-> NewId, method |-> method, arg |-> arg]
  <2>1. /\ requestId' = NewId /\ pending' = pending \cup {NewId}
        /\ request' = r /\ reply' = NoReply /\ asked' = asked \cup {r}
    BY <1>2 DEF Ask
  <2>2. r.id = NewId
    OBVIOUS
  <2>3. pending = {}
    BY DEF RInv, OneAwaited
  <2>4. Numbered'
    BY <2>1, <2>2, FreshIds DEF RInv, Numbered
  <2>5. OneAwaited'
    BY <2>1, <2>2, <2>3, FreshIds DEF RInv, OneAwaited
  <2>6. RepliesMatch'
    BY <2>1 DEF RepliesMatch
  <2> QED BY <2>4, <2>5, <2>6 DEF RInv
<1> QED BY <1>1, <1>2

\* The server answers a request: the future has the reply to its own request.
LEMMA InvSays ==
    ASSUME RInv, NEW q \in asked, NEW ok, NEW value, Says(q, ok, value),
           asked' = asked \ {q}, UNCHANGED <<requestId, request>>
    PROVE  RInv'
<1> DEFINE m == [to |-> q, ok |-> ok, value |-> value]
<1>1. m.to = q
  OBVIOUS
<1>2. Numbered'
  BY DEF RInv, Numbered
<1>3. CASE q.id \in pending
  <2>1. pending' = pending \ {q.id} /\ reply' = m
    BY <1>3 DEF Says, TakeIn
  <2>2. q.id = request.id /\ q = request
    BY <1>3 DEF RInv, OneAwaited
  <2>3. OneAwaited'
    BY <2>1, <2>2 DEF RInv, OneAwaited
  <2>4. RepliesMatch'
    BY <2>1, <2>2, <1>1 DEF RepliesMatch
  <2> QED BY <1>2, <2>3, <2>4 DEF RInv
<1>4. CASE q.id \notin pending
  BY <1>2, <1>4 DEF RInv, OneAwaited, RepliesMatch, Says, TakeIn
<1> QED BY <1>3, <1>4

\* Every step keeps the invariant.
LEMMA InvNext == RInv /\ [Next]_vars => RInv'
<1> SUFFICES ASSUME RInv, [Next]_vars PROVE RInv'
  OBVIOUS
<1> USE DEF RInv
<1>1. CASE Open
  BY <1>1, FreshIds DEF Open, Numbered, OneAwaited, RepliesMatch
<1>2. CASE OpenFails \/ TimesOut \/ LossNoticed
  BY <1>2, InvCleanup DEF OpenFails, TimesOut, LossNoticed, Abandon
<1>3. CASE HeartbeatSet
  BY <1>3, InvAsk DEF HeartbeatSet, Answered
<1>4. CASE InstrumentsListed
  <2>1. reply # NoReply
    BY <1>4 DEF InstrumentsListed, Answered
  <2>2. CASE ~reply.ok
    BY <1>4, <2>2, InvCleanup DEF InstrumentsListed
  <2>3. CASE reply.ok
    BY <1>4, <2>1, <2>3, InvAsk DEF InstrumentsListed
  <2> QED BY <2>2, <2>3
<1>5. CASE BatchSubscribed
  <2>1. reply # NoReply
    BY <1>5 DEF BatchSubscribed, Answered
  <2>2. CASE IsLast(request.arg)
    BY <1>5, <2>1, <2>2, FreshIds
       DEF BatchSubscribed, server, NoRequest, NoReply, Numbered, OneAwaited, RepliesMatch
  <2>3. CASE ~IsLast(request.arg)
    BY <1>5, <2>1, <2>3, InvAsk DEF BatchSubscribed
  <2> QED BY <2>2, <2>3
<1>6. CASE \E q \in asked : Reply(q)
  <2> PICK q \in asked : Reply(q)
    BY <1>6
  <2>1. \E ok, value : Says(q, ok, value)
    BY DEF Reply
  <2> QED BY <2>1, InvSays DEF Reply
<1>7. CASE \E q \in asked : ReplyWorse(q)
  <2> PICK q \in asked : ReplyWorse(q)
    BY <1>7
  <2>1. \E ok, value : Says(q, ok, value)
    BY DEF ReplyWorse
  <2> QED BY <2>1, InvSays DEF ReplyWorse
<1>8. CASE \E q \in asked : Forget(q)
  BY <1>8 DEF Forget, rpc, Numbered, OneAwaited, RepliesMatch
<1>9. CASE TestRequested
  <2> DEFINE t == [id |-> TestId, method |-> "public/test", arg |-> 0]
  <2>1. /\ requestId' = NewId /\ asked' = asked \cup {t}
        /\ UNCHANGED <<pending, request, reply>> /\ t.id = NewId
    BY <1>9 DEF TestRequested, TestId
  <2>2. Numbered'
    BY <2>1, FreshIds DEF Numbered
  <2>3. OneAwaited'
    BY <2>1, FreshIds DEF OneAwaited
  <2> QED BY <2>1, <2>2, <2>3 DEF RepliesMatch
<1>10. CASE Wake \/ MarketMessage \/ Lose \/ UNCHANGED vars
  BY <1>10 DEF Wake, MarketMessage, Lose, vars, rpc, server,
               Numbered, OneAwaited, RepliesMatch
<1> QED BY <1>1, <1>2, <1>3, <1>4, <1>5, <1>6, <1>7, <1>8, <1>9, <1>10
        DEF Next, Client

\* A request is answered by the reply to that request.
THEOREM RepliesCorrect == Spec => []RepliesMatch
<1>1. RInv => RepliesMatch
  BY DEF RInv
<1> QED BY InvInit, InvNext, <1>1, PTL DEF Spec

------------------------------------------------------------------------------
(* Every channel is asked for *)

Subscribe == "public/subscribe"

\* The channels the server has dealt with, and those of the batches before b.
Taken == granted \cup refused
Before(p, b) == UNION {Range(p[i]) : i \in 1..(b - 1)}

NoneAsked == \A q \in asked : q.method # Subscribe

\* While batch b is asked for the server has dealt with the batches before it,
\* once it has replied with b as well, and it has no other request to subscribe.
AInv ==
    /\ phase = "asking" /\ reply = NoReply => pending = {request.id}
    /\ phase \notin {"asking", "recording"} => Taken = {} /\ asked = {} /\ sock # "open"
    /\ phase = "asking" /\ request.method # Subscribe => Taken = {} /\ NoneAsked
    /\ phase = "asking" /\ request.method = Subscribe =>
          /\ request.arg \in DOMAIN plan
          /\ reply = NoReply => /\ Taken = Before(plan, request.arg)
                                /\ \A q \in asked : q.method = Subscribe => q = request
          /\ reply # NoReply => Taken = Before(plan, request.arg + 1) /\ NoneAsked
    /\ phase = "recording" => Taken = Channels /\ NoneAsked

\* The batches before one, step by step.
LEMMA BeforeProperties ==
    ASSUME PlanTyped
    PROVE  /\ Len(plan) \in Nat /\ DOMAIN plan = 1..Len(plan)
           /\ Before(plan, 1) = {}
           /\ \A b \in DOMAIN plan : Before(plan, b + 1) = Before(plan, b) \cup Range(plan[b])
           /\ Before(plan, Len(plan) + 1) = Channels
           /\ \A b \in DOMAIN plan :
                 Range(plan[b]) = Range(Tail(plan[b])) \cup {Head(plan[b])}
<1>1. Len(plan) \in Nat /\ DOMAIN plan = 1..Len(plan)
  BY DEF PlanTyped
<1>2. Before(plan, 1) = {}
  BY DEF Before
<1>3. ASSUME NEW b \in DOMAIN plan PROVE Before(plan, b + 1) = Before(plan, b) \cup Range(plan[b])
  <2>1. b \in Nat /\ b >= 1 /\ 1..(b + 1 - 1) = 1..(b - 1) \cup {b}
    BY <1>1
  <2> QED BY <2>1 DEF Before
<1>4. Before(plan, Len(plan) + 1) = Channels
  <2>1. 1..(Len(plan) + 1 - 1) = DOMAIN plan
    BY <1>1
  <2> QED BY <2>1 DEF Before, Channels
<1>5. ASSUME NEW b \in DOMAIN plan
      PROVE  Range(plan[b]) = Range(Tail(plan[b])) \cup {Head(plan[b])}
  <2> DEFINE s == plan[b]
  <2>1. s \in Seq(Range(s)) /\ s # << >>
    BY DEF PlanTyped
  <2> HIDE DEF s
  <2>2. /\ Len(s) \in Nat /\ Len(s) >= 1 /\ DOMAIN s = 1..Len(s)
        /\ Head(s) = s[1] /\ DOMAIN Tail(s) = 1..(Len(s) - 1)
        /\ \A i \in 1..(Len(s) - 1) : Tail(s)[i] = s[i + 1]
    BY <2>1
  <2>3. \A i \in 2..Len(s) : i - 1 \in 1..(Len(s) - 1) /\ Tail(s)[i - 1] = s[i]
    BY <2>2
  <2>4. \A i \in 1..(Len(s) - 1) : i + 1 \in 1..Len(s)
    BY <2>2
  <2>5. 1..Len(s) = {1} \cup 2..Len(s)
    BY <2>2
  <2>6. ASSUME NEW i \in DOMAIN s PROVE s[i] \in Range(Tail(s)) \cup {Head(s)}
    <3>1. CASE i = 1
      BY <3>1, <2>2
    <3>2. CASE i \in 2..Len(s)
      BY <3>2, <2>2, <2>3 DEF Range
    <3> QED BY <3>1, <3>2, <2>2, <2>5
  <2>7. ASSUME NEW i \in DOMAIN Tail(s) PROVE Tail(s)[i] \in Range(s)
    BY <2>2, <2>4 DEF Range
  <2>8. Head(s) \in Range(s)
    BY <2>2 DEF Range
  <2>9. Range(s) = Range(Tail(s)) \cup {Head(s)}
    BY <2>6, <2>7, <2>8 DEF Range
  <2> QED BY <2>9 DEF s
<1> QED BY <1>1, <1>2, <1>3, <1>4, <1>5

\* The server has dealt with nothing on a new connection.
LEMMA AsksInit == Init => AInv
BY DEF Init, AInv, Taken, NoneAsked

\* An attempt that raises leaves nothing asked for.
LEMMA AsksRaise ==
    ASSUME Raise, Cleanup PROVE AInv'
BY DEF Raise, Cleanup, AInv, Taken

\* A request that is not to subscribe, before any that is.
LEMMA AsksOther ==
    ASSUME RInv, AInv, reply # NoReply, phase = "asking", request.method # Subscribe,
           NEW method, method # Subscribe, NEW arg, Ask(method, arg)
    PROVE  AInv'
<1>1. CASE sock # "open"
  BY <1>1, AsksRaise DEF Ask
<1>2. CASE sock = "open"
  <2> DEFINE r == [id |-> NewId, method |-> method, arg |-> arg]
  <2>1. /\ pending' = {NewId} /\ request' = r /\ asked' = asked \cup {r}
        /\ phase' = "asking" /\ reply' = NoReply /\ UNCHANGED <<granted, refused>>
        /\ r.id = NewId /\ r.method = method
    BY <1>2 DEF Ask, RInv, OneAwaited
  <2> HIDE DEF r
  <2> QED BY <2>1 DEF AInv, Taken, NoneAsked
<1> QED BY <1>1, <1>2

\* The request for a batch when the batches before it are dealt with.
LEMMA AsksBatch ==
    ASSUME RInv, reply # NoReply, NEW b \in DOMAIN plan', NoneAsked,
           Taken = Before(plan', b), Ask(Subscribe, b)
    PROVE  AInv'
<1>1. CASE sock # "open"
  BY <1>1, AsksRaise DEF Ask
<1>2. CASE sock = "open"
  <2> DEFINE r == [id |-> NewId, method |-> Subscribe, arg |-> b]
  <2>1. /\ pending' = {NewId} /\ request' = r /\ asked' = asked \cup {r}
        /\ phase' = "asking" /\ reply' = NoReply /\ UNCHANGED <<granted, refused>>
        /\ r.id = NewId /\ r.method = Subscribe /\ r.arg = b
    BY <1>2 DEF Ask, RInv, OneAwaited
  <2> HIDE DEF r
  <2>2. Taken' = Before(plan', request'.arg)
    BY <2>1 DEF Taken
  <2>3. \A q \in asked' : q.method = Subscribe => q = request'
    BY <2>1 DEF NoneAsked
  <2> QED BY <2>1, <2>2, <2>3 DEF AInv
<1> QED BY <1>1, <1>2

\* A reply taken in is the reply to the request awaited, if it is to subscribe.
LEMMA AsksSays ==
    ASSUME PlanTyped, RInv, AInv, NEW q \in asked, NEW ok, NEW value, Says(q, ok, value),
           asked' = asked \ {q}, UNCHANGED <<phase, plan, requestId, request>>,
           q.method # Subscribe => Taken' = Taken,
           q.method = Subscribe => Taken' = Taken \cup Range(plan[q.arg])
    PROVE  AInv'
<1> DEFINE m == [to |-> q, ok |-> ok, value |-> value]
<1>1. m # NoReply
  <2>1. m.to = q /\ NoReply.to.id = 0 /\ q.id # 0
    BY DEF NoReply, NoRequest, RInv, Numbered
  <2> QED BY <2>1
<1>2. /\ q.id \in pending => q = request /\ pending' = {} /\ reply' = m
      /\ q.id \notin pending => UNCHANGED <<pending, reply>>
  BY DEF Says, TakeIn, RInv, OneAwaited
<1>3. phase \in {"asking", "recording"}
  BY DEF AInv
<1> HIDE DEF m
<1>4. CASE q.method = Subscribe
  <2>1. /\ phase = "asking" /\ request.method = Subscribe /\ reply = NoReply
        /\ q = request /\ q.id \in pending
    BY <1>3, <1>4 DEF AInv, NoneAsked
  <2>2. Taken' = Before(plan, request.arg + 1) /\ NoneAsked'
    BY <1>4, <2>1, BeforeProperties DEF AInv, NoneAsked
  <2> QED BY <1>1, <1>2, <2>1, <2>2 DEF AInv
<1>5. CASE q.method # Subscribe
  <2>1. UNCHANGED <<Taken, Channels>> /\ asked' \subseteq asked
    BY <1>5 DEF Channels
  <2>2. CASE q.id \notin pending
    BY <1>2, <1>3, <2>1, <2>2 DEF AInv, NoneAsked
  <2>3. CASE q.id \in pending
    BY <1>1, <1>2, <1>3, <1>5, <2>1, <2>3 DEF AInv, NoneAsked
  <2> QED BY <2>2, <2>3
<1> QED BY <1>4, <1>5

\* Every step keeps the order of the batches.
LEMMA AsksNext == PlanTyped /\ PlanTyped' /\ RInv /\ AInv /\ [Next]_vars => AInv'
<1> SUFFICES ASSUME PlanTyped, PlanTyped', RInv, AInv, [Next]_vars PROVE AInv'
  OBVIOUS
<1>1. CASE Open
  <2>1. Taken = {} /\ NewId \in Nat
    BY <1>1, FreshIds DEF Open, AInv, RInv
  <2> QED BY <1>1, <2>1 DEF Open, AInv, Taken, NoneAsked, Subscribe
<1>2. CASE OpenFails \/ TimesOut \/ LossNoticed
  BY <1>2, AsksRaise DEF OpenFails, TimesOut, LossNoticed, Abandon
<1>3. CASE HeartbeatSet
  <2>1. /\ reply # NoReply /\ phase = "asking" /\ request.method # Subscribe
        /\ UNCHANGED plan /\ Taken = {} /\ NoneAsked
    BY <1>3 DEF HeartbeatSet, Answered, plans, AInv, Subscribe
  <2>2. CASE starting
    BY <1>3, <2>1, <2>2, AsksOther DEF HeartbeatSet, Subscribe
  <2>3. CASE ~starting
    <3>1. 1 \in DOMAIN plan' /\ Taken = Before(plan', 1)
      BY <2>1, <2>3, BeforeProperties DEF PlanTyped
    <3> QED BY <1>3, <2>1, <2>3, <3>1, AsksBatch DEF HeartbeatSet, Subscribe
  <2> QED BY <2>2, <2>3
<1>4. CASE InstrumentsListed
  <2>1. /\ reply # NoReply /\ phase = "asking" /\ request.method # Subscribe
        /\ Taken = {} /\ NoneAsked
    BY <1>4 DEF InstrumentsListed, Answered, AInv, Subscribe
  <2>2. CASE ~reply.ok
    BY <1>4, <2>2, AsksRaise DEF InstrumentsListed
  <2>3. CASE reply.ok /\ request.arg < 3
    BY <1>4, <2>1, <2>3, AsksOther DEF InstrumentsListed, Subscribe
  <2>4. CASE reply.ok /\ ~(request.arg < 3)
    <3>1. Ask(Subscribe, 1)
      BY <1>4, <2>4 DEF InstrumentsListed, Subscribe
    <3>2. CASE sock # "open"
      BY <3>1, <3>2, AsksRaise DEF Ask
    <3>3. CASE sock = "open"
      <4>1. request'.method = "public/subscribe"
        BY <3>1, <3>3 DEF Ask, Subscribe
      <4>2. 1 \in DOMAIN plan' /\ Before(plan', 1) = {}
        BY <4>1 DEF PlanTyped, Before
      <4> QED BY <2>1, <3>1, <4>2, AsksBatch
    <3> QED BY <3>2, <3>3
  <2> QED BY <2>2, <2>3, <2>4
<1>5. CASE BatchSubscribed
  <2>1. /\ reply # NoReply /\ phase = "asking" /\ request.method = Subscribe
        /\ UNCHANGED plan /\ request.arg \in DOMAIN plan
        /\ Taken = Before(plan, request.arg + 1) /\ NoneAsked
    BY <1>5 DEF BatchSubscribed, Answered, plans, AInv, Subscribe
  <2>2. CASE IsLast(request.arg)
    <3>1. Taken = Channels
      BY <2>1, <2>2, BeforeProperties DEF IsLast
    <3>2. /\ phase' = "recording" /\ UNCHANGED <<asked, granted, refused, plan>>
      BY <1>5, <2>1, <2>2 DEF BatchSubscribed, server
    <3> QED BY <2>1, <3>1, <3>2 DEF AInv, Taken, NoneAsked, Channels
  <2>3. CASE ~IsLast(request.arg)
    <3>1. request.arg + 1 \in DOMAIN plan' /\ Taken = Before(plan', request.arg + 1)
      BY <2>1, <2>3, BeforeProperties DEF IsLast
    <3>2. Ask(Subscribe, request.arg + 1)
      BY <1>5, <2>3 DEF BatchSubscribed, Subscribe
    <3> QED BY <2>1, <3>1, <3>2, AsksBatch
  <2> QED BY <2>2, <2>3
<1>6. CASE \E q \in asked : Reply(q)
  <2> PICK q \in asked : Reply(q)
    BY <1>6
  <2>1. /\ asked' = asked \ {q} /\ UNCHANGED <<phase, plan, requestId, request, refused>>
        /\ \E ok, value : Says(q, ok, value)
    BY DEF Reply, plans
  <2>2. /\ q.method # Subscribe => Taken' = Taken
        /\ q.method = Subscribe => Taken' = Taken \cup Range(plan[q.arg])
    BY <2>1 DEF Reply, Taken, Subscribe
  <2> QED BY <2>1, <2>2, AsksSays
<1>7. CASE \E q \in asked : ReplyWorse(q)
  <2> PICK q \in asked : ReplyWorse(q)
    BY <1>7
  <2>1. /\ asked' = asked \ {q} /\ UNCHANGED <<phase, plan, requestId, request>>
        /\ \E ok, value : Says(q, ok, value)
    BY DEF ReplyWorse, plans
  <2>2. q.method # Subscribe => Taken' = Taken
    BY DEF ReplyWorse, Taken, Subscribe
  <2>3. ASSUME q.method = Subscribe PROVE Taken' = Taken \cup Range(plan[q.arg])
    <3>1. q.arg \in DOMAIN plan
      BY <2>3 DEF AInv, NoneAsked
    <3>2. Range(plan[q.arg]) = Range(Tail(plan[q.arg])) \cup {Head(plan[q.arg])}
      BY <3>1, BeforeProperties
    <3> QED BY <2>3, <3>2 DEF ReplyWorse, Taken, Subscribe
  <2> QED BY <2>1, <2>2, <2>3, AsksSays
<1>8. CASE \E q \in asked : Forget(q)
  BY <1>8 DEF Forget, rpc, plans, AInv, Taken, NoneAsked, Channels
<1>9. CASE TestRequested
  <2> DEFINE t == [id |-> TestId, method |-> "public/test", arg |-> 0]
  <2>1. /\ asked' = asked \cup {t} /\ t.method # Subscribe
        /\ UNCHANGED <<phase, plan, pending, request, reply, granted, refused>>
    BY <1>9 DEF TestRequested, plans, Subscribe
  <2>2. phase \in {"asking", "recording"} /\ UNCHANGED <<Taken, Channels>>
    BY <1>9, <2>1 DEF TestRequested, Reading, AInv, Taken, Channels
  <2> HIDE DEF t
  <2> QED BY <2>1, <2>2 DEF AInv, NoneAsked
<1>10. CASE Wake \/ MarketMessage \/ Lose \/ UNCHANGED vars
  BY <1>10 DEF Wake, MarketMessage, Lose, Reading, vars, plans, rpc, server,
               AInv, Taken, NoneAsked, Channels
<1> QED BY <1>1, <1>2, <1>3, <1>4, <1>5, <1>6, <1>7, <1>8, <1>9, <1>10
        DEF Next, Client

------------------------------------------------------------------------------
(* The plan and the types *)

Instruments == "public/get_instruments"

\* start discovers before it plans and plans before it subscribes, once; the
\* plan is the one of the lists it was given.
DInv ==
    /\ DOMAIN listed = {"future", "option", "spot"}
    /\ listed.future \in FutureLists \cup {<< >>}
    /\ listed.option \in OptionLists \cup {<< >>}
    /\ listed.spot \in SpotLists \cup {<< >>}
    /\ \A q \in asked \cup {request} : q.method = Instruments => q.arg \in 1..3
    /\ reply # NoReply /\ reply.ok /\ reply.to.method = Instruments =>
          reply.value \in Lists(reply.to.arg)
    /\ plan = << >> \/ plan = Plan(listed, FuturesCount, ChannelTypes, BatchSize)
    /\ ~starting => plan # << >> /\ request.method # Instruments
    /\ starting => /\ phase \in {"opening", "asking", "failed"}
                   /\ phase # "failed" /\ request.method # Subscribe => plan = << >>
    /\ request.method = Subscribe => plan # << >>
    /\ phase # "asking" => request = NoRequest

\* The types of what no other invariant is about.
TInv ==
    /\ pending \subseteq 1..requestId
    /\ phase \in {"opening", "asking", "recording", "backoff", "failed"}
    /\ starting \in BOOLEAN
    /\ sock \in {"none", "open", "lost"} /\ beating \in BOOLEAN
    /\ handled \subseteq {"subscription", "reply"}

Results == [subscribed : Seq(Subscribable), failed : SUBSET DOMAIN plan]

\* What a result says is what the server did: the channels it granted, each
\* once, and batches of which it granted none.
Tells(r) == /\ Once(r.subscribed)
            /\ Range(r.subscribed) = granted
            /\ \A b \in r.failed : Range(plan[b]) \subseteq refused

LInv ==
    /\ result \in Results /\ lastResult \in Results
    /\ reply # NoReply /\ reply.ok /\ reply.to.method = Subscribe =>
          reply.value \in Seq(Subscribable)
    /\ phase = "asking" /\ request.method = Subscribe =>
          Tells(IF reply = NoReply THEN result ELSE Noted(request.arg))
    /\ phase = "recording" => Tells(lastResult)

\* What the plan is that start makes.
Planned(l) == Plan(l, FuturesCount, ChannelTypes, BatchSize)

\* The lists that the server gives are lists as the code expects them.
LEMMA ListedIsListing ==
    ASSUME NEW l, l.future \in FutureLists \cup {<< >>},
           l.option \in OptionLists \cup {<< >>}, l.spot \in SpotLists \cup {<< >>}
    PROVE  Listing(l)
<1> DEFINE k == [future |-> l.future, option |-> l.option, spot |-> l.spot]
<1>1. Listing(k)
  BY ListsAssumption
<1>2. k.future = l.future /\ k.option = l.option /\ k.spot = l.spot
  OBVIOUS
<1> HIDE DEF k
<1> QED BY <1>1, <1>2 DEF Listing

\* Batches of channels, no channel twice.
Disjoint(p) ==
    \A b, c \in DOMAIN p : \A i \in DOMAIN p[b], j \in DOMAIN p[c] :
       p[b][i] = p[c][j] => b = c /\ i = j
Batched(p) == /\ p \in Seq(Seq(Subscribable)) /\ Disjoint(p)
              /\ \A b \in DOMAIN p : Len(p[b]) \in 1..BatchSize

\* The plan of such lists is a plan, made of such batches.
LEMMA PlannedProperties ==
    ASSUME NEW l, Listing(l)
    PROVE  /\ PlanFor(Planned(l), l, FuturesCount, ChannelTypes, BatchSize)
           /\ Planned(l) # << >> /\ Batched(Planned(l))
<1>1. PlanFor(Planned(l), l, FuturesCount, ChannelTypes, BatchSize)
  BY AdapterAssumption, ListsAssumption, PlanProperties DEF Planned
<1> QED BY <1>1 DEF PlanFor, Batched, Disjoint

\* So is the plan the adapter has, if it has one.
LEMMA PlanIsBatched ==
    ASSUME DInv
    PROVE  Batched(plan) /\ PlanTyped
<1>1. Batched(Planned(listed))
  BY ListedIsListing, PlannedProperties DEF DInv
<1>2. Batched(<< >>)
  BY DEF Batched, Disjoint
<1>3. Batched(plan)
  BY <1>1, <1>2 DEF DInv, Planned
<1>4. ASSUME NEW b \in DOMAIN plan
      PROVE  plan[b] \in Seq(Range(plan[b])) /\ plan[b] # << >>
  <2> DEFINE s == plan[b]
  <2>1. s \in Seq(Subscribable) /\ Len(s) >= 1
    BY <1>3 DEF Batched
  <2> HIDE DEF s
  <2>2. s \in Seq(Range(s)) /\ s # << >>
    BY <2>1 DEF Range
  <2> QED BY <2>2 DEF s
<1>5. plan \in Seq(Range(plan))
  BY <1>3 DEF Batched, Range
<1>6. request.method = "public/subscribe" \/ ~starting => plan # << >>
  BY DEF DInv, Subscribe
<1> QED BY <1>3, <1>4, <1>5, <1>6 DEF PlanTyped

\* Nothing is discovered or planned yet.
LEMMA PlansInit == Init => DInv /\ TInv
<1> SUFFICES ASSUME Init PROVE DInv /\ TInv
  OBVIOUS
<1>1. Range(Kinds) = {"future", "option", "spot"}
  <2>1. DOMAIN Kinds = {1, 2, 3}
    BY DEF Kinds
  <2> QED BY <2>1 DEF Range, Kinds
<1>2. TInv
  BY DEF Init, TInv
<1> QED BY <1>1, <1>2 DEF Init, DInv, NoRequest, NoReply, Instruments, Subscribe

\* An attempt that raises: start fails, and a reconnection has its plan.
LEMMA PlansRaise ==
    ASSUME DInv, Raise, Cleanup, UNCHANGED plans
    PROVE  DInv'
BY DEF DInv, Raise, Cleanup, plans, NoRequest, NoReply, Instruments, Subscribe

\* A request that fits the plan as it is then.
LEMMA PlansAsk ==
    ASSUME DInv, phase = "asking", NEW method, NEW arg, Ask(method, arg),
           DOMAIN listed' = {"future", "option", "spot"},
           listed'.future \in FutureLists \cup {<< >>},
           listed'.option \in OptionLists \cup {<< >>},
           listed'.spot \in SpotLists \cup {<< >>},
           plan' = << >> \/ plan' = Planned(listed'),
           ~starting => plan' # << >>,
           method = Instruments => starting /\ arg \in 1..3,
           IF method = Subscribe THEN plan' # << >> ELSE starting /\ plan' = << >>
    PROVE  DInv'
<1>1. CASE sock # "open"
  <2>1. Raise /\ Cleanup
    BY <1>1 DEF Ask
  <2> QED BY <2>1 DEF DInv, Raise, Cleanup, NoRequest, NoReply, Instruments, Subscribe, Planned
<1>2. CASE sock = "open"
  <2> DEFINE r == [id |-> NewId, method |-> method, arg |-> arg]
  <2>1. /\ request' = r /\ asked' = asked \cup {r} /\ phase' = "asking"
        /\ reply' = NoReply /\ UNCHANGED starting
        /\ r.method = method /\ r.arg = arg
    BY <1>2 DEF Ask
  <2> HIDE DEF r
  <2>2. \A q \in asked' \cup {request'} : q.method = Instruments => q.arg \in 1..3
    BY <2>1 DEF DInv
  <2> QED BY <2>1, <2>2 DEF DInv, Planned
<1> QED BY <1>1, <1>2

\* A reply with a list of instruments has one of those the server may list.
LEMMA PlansSays ==
    ASSUME DInv, NEW q \in asked, NEW ok, NEW value, Says(q, ok, value),
           asked' = asked \ {q}, UNCHANGED <<phase, starting, plans, request>>,
           ok /\ q.method = Instruments => value \in Lists(q.arg)
    PROVE  DInv'
<1> DEFINE m == [to |-> q, ok |-> ok, value |-> value]
<1>1. m.to = q /\ m.ok = ok /\ m.value = value
  OBVIOUS
<1>2. reply' = m \/ reply' = reply
  BY DEF Says, TakeIn
<1> HIDE DEF m
<1>3. reply' # NoReply /\ reply'.ok /\ reply'.to.method = Instruments =>
         reply'.value \in Lists(reply'.to.arg)
  BY <1>1, <1>2 DEF DInv
<1> QED BY <1>3 DEF DInv, plans

\* Every step keeps the order of discovery, plan and subscription.
LEMMA PlansNext == RInv /\ DInv /\ [Next]_vars => DInv'
<1> SUFFICES ASSUME RInv, DInv, [Next]_vars PROVE DInv'
  OBVIOUS
<1>1. CASE Open
  <2> DEFINE r == [id |-> NewId, method |-> "public/set_heartbeat", arg |-> 0]
  <2>1. /\ request' = r /\ asked' = {r} /\ r.method = "public/set_heartbeat"
        /\ reply' = NoReply /\ phase' = "asking" /\ UNCHANGED <<starting, listed, plan>>
        /\ phase = "opening"
    BY <1>1 DEF Open, plans
  <2> HIDE DEF r
  <2>2. starting => plan = << >>
    BY <2>1 DEF DInv, NoRequest, Subscribe
  <2> QED BY <2>1, <2>2 DEF DInv, Instruments, Subscribe
<1>2. CASE OpenFails \/ TimesOut \/ LossNoticed
  BY <1>2, PlansRaise DEF OpenFails, TimesOut, LossNoticed, Abandon
<1>3. CASE HeartbeatSet
  <2>1. /\ reply # NoReply /\ phase = "asking" /\ request.method = "public/set_heartbeat"
        /\ UNCHANGED <<listed, plan>>
    BY <1>3 DEF HeartbeatSet, Answered, plans
  <2>2. CASE starting
    <3>1. Ask(Instruments, 1) /\ plan = << >>
      BY <1>3, <2>1, <2>2 DEF HeartbeatSet, DInv, Instruments, Subscribe
    <3> QED BY <2>1, <2>2, <3>1, PlansAsk DEF DInv, Instruments, Subscribe
  <2>3. CASE ~starting
    <3>1. Ask(Subscribe, 1) /\ plan # << >>
      BY <1>3, <2>1, <2>3 DEF HeartbeatSet, DInv, Subscribe
    <3> QED BY <2>1, <2>3, <3>1, PlansAsk DEF DInv, Planned, Instruments, Subscribe
  <2> QED BY <2>2, <2>3
<1>4. CASE InstrumentsListed
  <2> DEFINE k == request.arg
  <2>1. /\ reply # NoReply /\ phase = "asking" /\ request.method = Instruments
        /\ starting /\ plan = << >> /\ k \in 1..3 /\ reply.to = request
    BY <1>4 DEF InstrumentsListed, Answered, DInv, Instruments, Subscribe, RInv, RepliesMatch
  <2>2. CASE ~reply.ok
    BY <1>4, <2>2, PlansRaise DEF InstrumentsListed, plans
  <2>3. CASE reply.ok
    <3>1. listed' = [listed EXCEPT ![Kinds[k]] = reply.value] /\ reply.value \in Lists(k)
      BY <1>4, <2>1, <2>3 DEF InstrumentsListed, DInv
    <3>2. /\ Kinds[1] = "future" /\ Kinds[2] = "option" /\ Kinds[3] = "spot"
          /\ Lists(1) = FutureLists /\ Lists(2) = OptionLists /\ Lists(3) = SpotLists
      BY DEF Kinds, Lists
    <3>3. k = 1 \/ k = 2 \/ k = 3
      BY <2>1
    <3>4. /\ DOMAIN listed' = {"future", "option", "spot"}
          /\ listed'.future \in FutureLists \cup {<< >>}
          /\ listed'.option \in OptionLists \cup {<< >>}
          /\ listed'.spot \in SpotLists \cup {<< >>}
      BY <3>1, <3>2, <3>3 DEF DInv
    <3>5. CASE k < 3
      <4>1. Ask(Instruments, k + 1) /\ UNCHANGED plan /\ k + 1 \in 1..3
        BY <1>4, <2>1, <2>3, <3>5 DEF InstrumentsListed, Instruments
      <4> QED BY <2>1, <3>4, <4>1, PlansAsk DEF Instruments, Subscribe
    <3>6. CASE ~(k < 3)
      <4>1. Ask(Subscribe, 1) /\ plan' = Planned(listed')
        BY <1>4, <2>3, <3>6 DEF InstrumentsListed, Subscribe, Planned
      <4>2. plan' # << >>
        BY <3>4, <4>1, ListedIsListing, PlannedProperties
      <4> QED BY <2>1, <3>4, <4>1, <4>2, PlansAsk DEF Instruments, Subscribe
    <3> QED BY <3>5, <3>6
  <2> QED BY <2>2, <2>3
<1>5. CASE BatchSubscribed
  <2>1. /\ reply # NoReply /\ phase = "asking" /\ request.method = Subscribe
        /\ UNCHANGED <<listed, plan>> /\ plan # << >>
    BY <1>5 DEF BatchSubscribed, Answered, plans, DInv, Subscribe
  <2>2. CASE IsLast(request.arg)
    BY <1>5, <2>1, <2>2
       DEF BatchSubscribed, server, DInv, NoRequest, NoReply, Instruments, Subscribe
  <2>3. CASE ~IsLast(request.arg)
    <3>1. Ask(Subscribe, request.arg + 1)
      BY <1>5, <2>3 DEF BatchSubscribed, Subscribe
    <3> QED BY <2>1, <3>1, PlansAsk DEF DInv, Planned, Instruments, Subscribe
  <2> QED BY <2>2, <2>3
<1>6. CASE \E q \in asked : Reply(q)
  <2> PICK q \in asked : Reply(q)
    BY <1>6
  <2>1. /\ asked' = asked \ {q} /\ UNCHANGED <<phase, starting, plans, request>>
        /\ \E ok, value : /\ Says(q, ok, value)
                          /\ ok /\ q.method = Instruments => value \in Lists(q.arg)
    BY DEF Reply, Instruments
  <2> QED BY <2>1, PlansSays
<1>7. CASE \E q \in asked : ReplyWorse(q)
  <2> PICK q \in asked : ReplyWorse(q)
    BY <1>7
  <2>1. /\ asked' = asked \ {q} /\ UNCHANGED <<phase, starting, plans, request>>
        /\ \E ok, value : /\ Says(q, ok, value)
                          /\ ok /\ q.method = Instruments => value \in Lists(q.arg)
    BY DEF ReplyWorse, Instruments
  <2> QED BY <2>1, PlansSays
<1>8. CASE \E q \in asked : Forget(q)
  BY <1>8 DEF Forget, rpc, plans, DInv
<1>9. CASE TestRequested
  <2> DEFINE t == [id |-> TestId, method |-> "public/test", arg |-> 0]
  <2>1. /\ asked' = asked \cup {t} /\ t.method # Instruments
        /\ UNCHANGED <<phase, starting, listed, plan, request, reply>>
    BY <1>9 DEF TestRequested, plans, Instruments
  <2> HIDE DEF t
  <2> QED BY <2>1 DEF DInv
<1>10. CASE Wake \/ MarketMessage \/ Lose \/ UNCHANGED vars
  BY <1>10 DEF Wake, MarketMessage, Lose, Reading, vars, plans, rpc, server, DInv,
               NoRequest, Subscribe
<1> QED BY <1>1, <1>2, <1>3, <1>4, <1>5, <1>6, <1>7, <1>8, <1>9, <1>10
        DEF Next, Client

\* Every step keeps the types of what no other invariant is about.
LEMMA TypesNext == RInv /\ TInv /\ [Next]_vars => TInv'
<1> SUFFICES ASSUME RInv, TInv, [Next]_vars PROVE TInv'
  OBVIOUS
<1> USE DEF TInv
<1>0. /\ 1..requestId \subseteq 1..NewId /\ NewId \in 1..NewId
  BY FreshIds DEF RInv
<1>1. ASSUME Raise, Cleanup, UNCHANGED handled PROVE TInv'
  BY <1>1 DEF Raise, Cleanup
<1>2. ASSUME NEW method, NEW arg, Ask(method, arg), UNCHANGED handled PROVE TInv'
  BY <1>0, <1>1, <1>2 DEF Ask
<1>3. ASSUME NEW q, NEW ok, NEW value, Says(q, ok, value), UNCHANGED requestId
      PROVE  /\ handled' \subseteq {"subscription", "reply"}
             /\ pending' \subseteq 1..requestId'
  BY <1>3 DEF Says, TakeIn
<1>4. CASE Open \/ OpenFails \/ TimesOut \/ LossNoticed
  BY <1>0, <1>1, <1>4 DEF Open, OpenFails, TimesOut, LossNoticed, Abandon
<1>5. CASE HeartbeatSet
  BY <1>2, <1>5 DEF HeartbeatSet
<1>6. CASE InstrumentsListed
  <2>1. \/ Raise /\ Cleanup /\ UNCHANGED handled
        \/ \E method, arg : Ask(method, arg) /\ UNCHANGED handled
    BY <1>6 DEF InstrumentsListed
  <2> QED BY <1>1, <1>2, <2>1
<1>7. CASE BatchSubscribed
  <2>1. CASE IsLast(request.arg)
    BY <1>7, <2>1 DEF BatchSubscribed, server
  <2>2. CASE ~IsLast(request.arg)
    BY <1>2, <1>7, <2>2 DEF BatchSubscribed
  <2> QED BY <2>1, <2>2
<1>8. CASE \E q \in asked : Reply(q)
  <2> PICK q \in asked : Reply(q)
    BY <1>8
  <2>1. \E ok, value : Says(q, ok, value)
    BY DEF Reply
  <2>2. beating' \in BOOLEAN /\ UNCHANGED <<phase, starting, sock, requestId>>
    BY DEF Reply
  <2> QED BY <1>3, <2>1, <2>2
<1>9. CASE \E q \in asked : ReplyWorse(q)
  <2> PICK q \in asked : ReplyWorse(q)
    BY <1>9
  <2>1. \E ok, value : Says(q, ok, value)
    BY DEF ReplyWorse
  <2> QED BY <1>3, <2>1 DEF ReplyWorse
<1>10. CASE \E q \in asked : Forget(q)
  BY <1>10 DEF Forget, rpc
<1>11. CASE TestRequested
  BY <1>0, <1>11 DEF TestRequested, TestId
<1>12. CASE Wake \/ MarketMessage \/ Lose \/ UNCHANGED vars
  BY <1>12 DEF Wake, MarketMessage, Lose, Reading, vars, rpc, server
<1> QED BY <1>4, <1>5, <1>6, <1>7, <1>8, <1>9, <1>10, <1>11, <1>12 DEF Next, Client

\* The plan that start made is what a plan must be.
LEMMA PlanRight == DInv => PlanIsRight
<1> SUFFICES ASSUME DInv, plan # << >> PROVE PlanIsRight
  BY DEF PlanIsRight
<1> DEFINE supported == Range(ChannelTypes) \cap Supported
           u == Universe(listed, FuturesCount)
           C == {IndexChannel} \cup (supported \X {e.name : e \in Range(u)})
           dated == {e \in Range(listed.future) : e.active /\ ~e.perpetual}
           perpetuals == {e \in Range(listed.future) : e.perpetual}
           near == {e \in dated : Chosen(C, supported, e)}
           perpetual == {e \in perpetuals : Chosen(C, supported, e)}
           active == {e \in Range(listed.option) \cup Range(listed.spot) : e.active}
           names == {e.name : e \in near \cup perpetual \cup active}
<1>1. Listing(listed) /\ plan = Planned(listed)
  BY ListedIsListing DEF DInv, Planned
<1>2. PlanFor(plan, listed, FuturesCount, ChannelTypes, BatchSize)
  BY <1>1, PlannedProperties
<1>3. Channels = C
  BY <1>2, Zenon DEF PlanFor, Channels
<1>4. ASSUME supported # {}
      PROVE  /\ Range(u) = near \cup perpetual \cup active
             /\ perpetuals # {} => Cardinality(perpetual) = 1
             /\ Cardinality(near) = (IF Cardinality(dated) < FuturesCount
                                     THEN Cardinality(dated) ELSE FuturesCount)
             /\ \A e \in near, f \in dated \ near : e.expiry <= f.expiry
  <2>1. supported \in SUBSET Supported
    OBVIOUS
  <2> HIDE DEF supported
  <2> QED BY <1>1, <1>4, <2>1, AdapterAssumption, ChosenProperties DEF DatedIn, Perpetuals
<1>5. C = {IndexChannel} \cup (supported \X names)
  <2>1. CASE supported = {}
    <3> HIDE DEF supported, names, u
    <3> QED BY <2>1
  <2>2. CASE supported # {}
    BY <1>4, <2>2
  <2> QED BY <2>1, <2>2
<1>6. /\ near = {e \in dated : \A t \in supported : <<t, e.name>> \in Channels}
      /\ perpetual = {e \in perpetuals : \A t \in supported : <<t, e.name>> \in Channels}
  BY <1>3 DEF Chosen
<1>7. \A b \in DOMAIN plan : IF b < Len(plan) THEN Len(plan[b]) = BatchSize
                             ELSE Len(plan[b]) \in 1..BatchSize
  BY <1>2 DEF PlanFor
<1>8. /\ plan[1][1] = IndexChannel
      /\ \A b, c \in DOMAIN plan : \A i \in DOMAIN plan[b], j \in DOMAIN plan[c] :
            plan[b][i] = plan[c][j] => b = c /\ i = j
  BY <1>2 DEF PlanFor
<1> HIDE DEF C, supported, dated, perpetuals, near, perpetual, active, names, u
<1> QED BY <1>3, <1>4, <1>5, <1>6, <1>7, <1>8
        DEF PlanIsRight, supported, dated, perpetuals, near, perpetual, active, names

------------------------------------------------------------------------------
(* What the adapter believes to be subscribed *)

\* A batch holds no channel twice, and none of the batches before it.
LEMMA BatchIsNew ==
    ASSUME Batched(plan), NEW b \in DOMAIN plan
    PROVE  /\ plan[b] \in Seq(Subscribable) /\ plan[b] # << >> /\ Once(plan[b])
           /\ Before(plan, b) \cap Range(plan[b]) = {}
<1>1. /\ plan[b] \in Seq(Subscribable) /\ Len(plan[b]) \in 1..BatchSize
      /\ Len(plan) \in Nat /\ DOMAIN plan = 1..Len(plan)
  BY DEF Batched
<1>2. plan[b] # << >>
  BY <1>1
<1>3. Once(plan[b])
  BY DEF Batched, Disjoint, Once
<1>4. ASSUME NEW c \in 1..(b - 1) PROVE Range(plan[c]) \cap Range(plan[b]) = {}
  <2>1. c \in DOMAIN plan /\ c # b
    BY <1>1
  <2> QED BY <2>1 DEF Batched, Disjoint, Range
<1> QED BY <1>1, <1>2, <1>3, <1>4 DEF Before

\* Nothing is subscribed yet, and nothing believed.
LEMMA TellsInit == Init => LInv
<1> SUFFICES ASSUME Init PROVE LInv
  OBVIOUS
<1>1. NoResult \in Results
  BY DEF NoResult, Results
<1> QED BY <1>1 DEF Init, LInv, NoReply, NoRequest

\* An attempt that raises: the results stay as they are, and count no more.
LEMMA TellsRaise ==
    ASSUME LInv, Raise, Cleanup, UNCHANGED results, DOMAIN plan \subseteq DOMAIN plan'
    PROVE  LInv'
BY DEF LInv, Raise, Cleanup, results, Results, NoReply

\* A request that fits the result as it is then.
LEMMA TellsAsk ==
    ASSUME LInv, NEW method, NEW arg, Ask(method, arg),
           result' \in Results', lastResult' \in Results',
           method = Subscribe => /\ Once(result'.subscribed)
                                 /\ Range(result'.subscribed) = granted
                                 /\ \A b \in result'.failed : Range(plan'[b]) \subseteq refused
    PROVE  LInv'
<1>1. CASE sock # "open"
  BY <1>1 DEF Ask, LInv, Raise, Cleanup, NoReply
<1>2. CASE sock = "open"
  <2> DEFINE r == [id |-> NewId, method |-> method, arg |-> arg]
  <2>1. /\ request' = r /\ phase' = "asking" /\ reply' = NoReply
        /\ UNCHANGED <<granted, refused>> /\ r.method = method
    BY <1>2 DEF Ask
  <2> HIDE DEF r
  <2> QED BY <2>1 DEF LInv, Tells
<1> QED BY <1>1, <1>2

\* The reply to a batch: what the server granted is what the result will say.
LEMMA TellsBatch ==
    ASSUME Batched(plan), LInv, NEW b \in DOMAIN plan,
           Tells(result), granted \cup refused = Before(plan, b),
           NEW m, m.ok \in BOOLEAN, m.value \in Seq(Subscribable),
           m.ok => /\ Once(m.value) /\ Range(m.value) \subseteq Range(plan[b])
                   /\ granted' = granted \cup Range(m.value) /\ refused \subseteq refused',
           ~m.ok => granted' = granted /\ refused' = refused \cup Range(plan[b]),
           reply' = m, UNCHANGED <<plan, result>>
    PROVE  Tells(Noted(b))'
<1> DEFINE r == IF m.ok THEN [result EXCEPT !.subscribed = @ \o m.value]
                        ELSE [result EXCEPT !.failed = @ \cup {b}]
<1>1. Noted(b)' = r
  BY DEF Noted
<1>2. result.subscribed \in Seq(Subscribable)
  BY DEF LInv, Results
<1>3. CASE m.ok
  <2>1. Range(result.subscribed) \cap Range(m.value) = {}
    BY <1>3, BatchIsNew DEF Tells
  <2>2. r.subscribed = result.subscribed \o m.value /\ r.failed = result.failed
    BY <1>3 DEF LInv, Results
  <2>3. Once(r.subscribed) /\ Range(r.subscribed) = granted'
    <3> DEFINE a == result.subscribed
               v == m.value
    <3>1. /\ a \in Seq(Subscribable) /\ v \in Seq(Subscribable) /\ Once(a) /\ Once(v)
          /\ Range(a) \cap Range(v) = {} /\ Range(a) = granted
      BY <1>2, <1>3, <2>1 DEF Tells
    <3> HIDE DEF a, v
    <3>2. Once(a \o v) /\ Range(a \o v) = granted \cup Range(v)
      BY <3>1, OnceTogether
    <3> QED BY <1>3, <2>2, <3>2 DEF a, v
  <2> HIDE DEF r
  <2> QED BY <1>1, <1>3, <2>2, <2>3 DEF Tells
<1>4. CASE ~m.ok
  <2>1. r.subscribed = result.subscribed /\ r.failed = result.failed \cup {b}
    BY <1>4 DEF LInv, Results
  <2> HIDE DEF r
  <2> QED BY <1>1, <1>4, <2>1 DEF Tells
<1> QED BY <1>3, <1>4

\* A reply that is taken in, whichever it is the reply to.
LEMMA TellsSays ==
    ASSUME PlanTyped, Batched(plan), RInv, AInv, LInv, NEW q \in asked,
           NEW ok \in BOOLEAN, NEW value, Says(q, ok, value),
           UNCHANGED <<phase, plan, result, lastResult, request>>,
           q.method # Subscribe => UNCHANGED <<granted, refused>>,
           q.method = Subscribe =>
              /\ value \in Seq(Subscribable)
              /\ ok => /\ Once(value) /\ Range(value) \subseteq Range(plan[q.arg])
                       /\ granted' = granted \cup Range(value) /\ refused \subseteq refused'
              /\ ~ok => granted' = granted /\ refused' = refused \cup Range(plan[q.arg])
    PROVE  LInv'
<1> DEFINE m == [to |-> q, ok |-> ok, value |-> value]
<1>1. m # NoReply
  <2>1. m.to = q /\ NoReply.to.id = 0 /\ q.id # 0
    BY DEF NoReply, NoRequest, RInv, Numbered
  <2> QED BY <2>1
<1>2. /\ m.to = q /\ m.ok = ok /\ m.value = value
      /\ q.id \in pending => q = request /\ reply' = m
      /\ q.id \notin pending => UNCHANGED reply
  BY DEF Says, TakeIn, RInv, OneAwaited
<1>3. phase \in {"asking", "recording"}
  BY DEF AInv
<1> HIDE DEF m
<1>4. UNCHANGED Results
  BY DEF Results
<1>5. CASE q.method = Subscribe
  <2> DEFINE b == request.arg
  <2>1. /\ phase = "asking" /\ request.method = Subscribe /\ reply = NoReply
        /\ q = request /\ q.id \in pending /\ b \in DOMAIN plan
        /\ granted \cup refused = Before(plan, b)
    BY <1>3, <1>5 DEF AInv, NoneAsked, Taken
  <2>2. reply' = m /\ Tells(result)
    BY <1>2, <2>1 DEF LInv
  <2>3. \A c \in DOMAIN plan : c = b => Tells(Noted(c))'
    <3> SUFFICES ASSUME NEW c \in DOMAIN plan, c = b PROVE Tells(Noted(c))'
      OBVIOUS
    <3> QED BY <1>2, <1>5, <2>1, <2>2, TellsBatch
  <2>4. Tells(Noted(request.arg))'
    BY <2>1, <2>3
  <2>5. phase' # "recording"
    BY <2>1
  <2> QED BY <1>1, <1>2, <1>4, <1>5, <2>2, <2>4, <2>5 DEF LInv
<1>6. CASE q.method # Subscribe
  <2>1. ASSUME NEW r PROVE Tells(r)' <=> Tells(r)
    BY <1>6 DEF Tells
  <2>2. CASE q.id \notin pending
    <3>1. UNCHANGED <<reply, request>> /\ UNCHANGED Noted(request.arg)
      BY <1>2, <2>2 DEF Noted
    <3> QED BY <1>4, <1>6, <3>1 DEF LInv, Tells
  <2>3. CASE q.id \in pending
    <3>1. request'.method # Subscribe /\ reply'.to.method # Subscribe
      BY <1>2, <1>6, <2>3
    <3> QED BY <1>4, <1>6, <3>1 DEF LInv, Tells
  <2> QED BY <2>2, <2>3
<1> QED BY <1>5, <1>6

\* Every step keeps what the results say true.
LEMMA TellsNext == RInv /\ AInv /\ DInv /\ LInv /\ [Next]_vars => LInv'
<1> SUFFICES ASSUME RInv, AInv, DInv, LInv, [Next]_vars PROVE LInv'
  OBVIOUS
<1>0. PlanTyped /\ Batched(plan)
  BY PlanIsBatched
<1>1. CASE Open
  <2> DEFINE r == [id |-> NewId, method |-> "public/set_heartbeat", arg |-> 0]
  <2>1. /\ request' = r /\ r.method = "public/set_heartbeat"
        /\ reply' = NoReply /\ phase' = "asking" /\ UNCHANGED <<plan, result, lastResult>>
    BY <1>1 DEF Open, plans, results
  <2> HIDE DEF r
  <2> QED BY <2>1 DEF LInv, Subscribe, Results
<1>2. CASE OpenFails \/ TimesOut \/ LossNoticed
  BY <1>2, TellsRaise DEF OpenFails, TimesOut, LossNoticed, Abandon, plans
<1>3. CASE HeartbeatSet
  <2>1. /\ reply # NoReply /\ phase = "asking" /\ request.method # Subscribe
        /\ UNCHANGED plan /\ Taken = {}
    BY <1>3 DEF HeartbeatSet, Answered, plans, AInv, Subscribe
  <2>2. UNCHANGED Results
    BY <2>1 DEF Results
  <2>3. CASE starting
    <3>1. Ask(Instruments, 1) /\ UNCHANGED <<result, lastResult>>
      BY <1>3, <2>3 DEF HeartbeatSet, Instruments, results
    <3> QED BY <2>2, <3>1, TellsAsk DEF LInv, Instruments, Subscribe
  <2>4. CASE ~starting
    <3>1. Ask(Subscribe, 1) /\ result' = NoResult /\ UNCHANGED lastResult
      BY <1>3, <2>4 DEF HeartbeatSet, Subscribe, Fresh
    <3>2. result' \in Results' /\ lastResult' \in Results'
      <4>1. NoResult \in Results'
        BY DEF NoResult, Results
      <4>2. Results \subseteq Results'
        BY <2>2 DEF Results
      <4> QED BY <3>1, <4>1, <4>2 DEF LInv
    <3>3. /\ Once(result'.subscribed) /\ Range(result'.subscribed) = granted
          /\ result'.failed = {}
      BY <2>1, <3>1 DEF NoResult, Once, Range, Taken
    <3> QED BY <3>1, <3>2, <3>3, TellsAsk
  <2> QED BY <2>3, <2>4
<1>4. CASE InstrumentsListed
  <2>1. /\ reply # NoReply /\ phase = "asking" /\ request.method # Subscribe
        /\ Taken = {} /\ plan = << >>
    BY <1>4 DEF InstrumentsListed, Answered, AInv, DInv, Subscribe, Instruments
  <2>2. DOMAIN plan \subseteq DOMAIN plan'
    BY <2>1
  <2>3. CASE ~reply.ok
    BY <1>4, <2>2, <2>3, TellsRaise DEF InstrumentsListed
  <2>4. CASE reply.ok /\ request.arg < 3
    <3>1. Ask(Instruments, request.arg + 1) /\ UNCHANGED <<plan, result, lastResult>>
      BY <1>4, <2>4 DEF InstrumentsListed, Instruments, results
    <3>2. UNCHANGED Results
      BY <3>1 DEF Results
    <3> QED BY <3>1, <3>2, TellsAsk DEF LInv, Instruments, Subscribe
  <2>5. CASE reply.ok /\ ~(request.arg < 3)
    <3>1. Ask(Subscribe, 1) /\ result' = NoResult /\ UNCHANGED lastResult
      BY <1>4, <2>5 DEF InstrumentsListed, Subscribe, Fresh
    <3>2. result' \in Results' /\ lastResult' \in Results'
      <4>1. NoResult \in Results'
        BY DEF NoResult, Results
      <4>2. Results \subseteq Results'
        BY <2>2 DEF Results
      <4> QED BY <3>1, <4>1, <4>2 DEF LInv
    <3>3. /\ Once(result'.subscribed) /\ Range(result'.subscribed) = granted
          /\ result'.failed = {}
      BY <2>1, <3>1 DEF NoResult, Once, Range, Taken
    <3> QED BY <3>1, <3>2, <3>3, TellsAsk
  <2> QED BY <2>3, <2>4, <2>5
<1>5. CASE BatchSubscribed
  <2> DEFINE b == request.arg
  <2>1. /\ reply # NoReply /\ phase = "asking" /\ request.method = Subscribe
        /\ UNCHANGED plan /\ b \in DOMAIN plan /\ reply.to = request
        /\ result' = Noted(b) /\ Tells(Noted(b))
    BY <1>5 DEF BatchSubscribed, Answered, plans, AInv, LInv, Subscribe, RInv, RepliesMatch
  <2>2. UNCHANGED Results
    BY <2>1 DEF Results
  <2>3. Noted(b) \in Results
    <3>1. CASE reply.ok
      <4>1. reply.value \in Seq(Subscribable) /\ result.subscribed \in Seq(Subscribable)
        BY <2>1, <3>1 DEF LInv, Results
      <4>2. result.subscribed \o reply.value \in Seq(Subscribable)
        BY <4>1, ConcatProperties
      <4> QED BY <3>1, <4>2 DEF LInv, Noted, Results
    <3>2. CASE ~reply.ok
      BY <2>1, <3>2 DEF LInv, Noted, Results
    <3> QED BY <3>1, <3>2
  <2>4. CASE IsLast(b)
    <3>1. /\ lastResult' = Noted(b) /\ phase' = "recording" /\ reply' = NoReply
          /\ UNCHANGED <<granted, refused>>
      BY <1>5, <2>1, <2>4 DEF BatchSubscribed, server
    <3> QED BY <2>1, <2>2, <2>3, <3>1 DEF LInv, Tells
  <2>5. CASE ~IsLast(b)
    <3>1. Ask(Subscribe, b + 1) /\ UNCHANGED lastResult
      BY <1>5, <2>5 DEF BatchSubscribed, Subscribe
    <3> QED BY <2>1, <2>2, <2>3, <3>1, TellsAsk DEF LInv, Tells
  <2> QED BY <2>4, <2>5
<1>6. CASE \E q \in asked : Reply(q)
  <2> PICK q \in asked : Reply(q)
    BY <1>6
  <2>1. UNCHANGED <<phase, plan, result, lastResult, request, refused>>
    BY DEF Reply, plans, results
  <2>2. CASE q.method = Subscribe
    <3>1. Says(q, TRUE, plan[q.arg]) /\ granted' = granted \cup Range(plan[q.arg])
      BY <2>2 DEF Reply, Subscribe
    <3>2. q.arg \in DOMAIN plan
      BY <2>2 DEF AInv, NoneAsked, Reply, Reading
    <3>3. plan[q.arg] \in Seq(Subscribable) /\ Once(plan[q.arg])
      BY <1>0, <3>2, BatchIsNew
    <3> QED BY <1>0, <2>1, <2>2, <3>1, <3>3, TellsSays
  <2>3. CASE q.method # Subscribe
    <3>1. UNCHANGED granted /\ \E value : Says(q, TRUE, value)
      BY <2>3 DEF Reply, Subscribe
    <3> QED BY <1>0, <2>1, <2>3, <3>1, TellsSays
  <2> QED BY <2>2, <2>3
<1>7. CASE \E q \in asked : ReplyWorse(q)
  <2> PICK q \in asked : ReplyWorse(q)
    BY <1>7
  <2>1. UNCHANGED <<phase, plan, result, lastResult, request>>
    BY DEF ReplyWorse, plans, results
  <2>2. CASE q.method = Subscribe
    <3>1. q.arg \in DOMAIN plan
      BY <2>2 DEF AInv, NoneAsked, ReplyWorse, Reading
    <3>2. plan[q.arg] \in Seq(Subscribable) /\ plan[q.arg] # << >> /\ Once(plan[q.arg])
      BY <1>0, <3>1, BatchIsNew
    <3>3. /\ Tail(plan[q.arg]) \in Seq(Subscribable) /\ Once(Tail(plan[q.arg]))
          /\ Range(Tail(plan[q.arg])) \subseteq Range(plan[q.arg])
      BY <3>2, OnceTail
    <3>4. CASE /\ Says(q, FALSE, << >>) /\ UNCHANGED granted
               /\ refused' = refused \cup Range(plan[q.arg])
      <4>1. << >> \in Seq(Subscribable)
        OBVIOUS
      <4> QED BY <1>0, <2>1, <2>2, <3>4, <4>1, TellsSays
    <3>5. CASE /\ Says(q, TRUE, Tail(plan[q.arg]))
               /\ granted' = granted \cup Range(Tail(plan[q.arg]))
               /\ refused' = refused \cup {Head(plan[q.arg])}
      BY <1>0, <2>1, <2>2, <3>3, <3>5, TellsSays
    <3> QED BY <2>2, <3>4, <3>5 DEF ReplyWorse, Subscribe
  <2>3. CASE q.method # Subscribe
    <3>1. UNCHANGED <<granted, refused>> /\ Says(q, FALSE, << >>)
      BY <2>3 DEF ReplyWorse, Subscribe
    <3> QED BY <1>0, <2>1, <2>3, <3>1, TellsSays
  <2> QED BY <2>2, <2>3
<1>8. CASE \/ \E q \in asked : Forget(q)
           \/ TestRequested \/ Wake \/ MarketMessage \/ Lose \/ UNCHANGED vars
  <2>1. /\ UNCHANGED <<plan, result, lastResult, request, reply, granted, refused>>
        /\ phase' = phase \/ phase' = "opening"
    BY <1>8 DEF Forget, TestRequested, Wake, MarketMessage, Lose, vars, plans, results,
                rpc, server
  <2>2. UNCHANGED Noted(request.arg) /\ UNCHANGED Results
    BY <2>1 DEF Noted, Results
  <2> QED BY <2>1, <2>2 DEF LInv, Tells
<1> QED BY <1>1, <1>2, <1>3, <1>4, <1>5, <1>6, <1>7, <1>8 DEF Next, Client

------------------------------------------------------------------------------

\* What has been granted or refused is in the plan.
LEMMA TakenIsPlanned ==
  ASSUME PlanTyped, AInv
  PROVE  Taken \subseteq Channels
<1>1. \A b \in DOMAIN plan : Before(plan, b) \cup Before(plan, b + 1) \subseteq Channels
  <2> TAKE b \in DOMAIN plan
  <2>1. 1..(b - 1) \subseteq DOMAIN plan
    BY BeforeProperties
  <2>2. Before(plan, b) \subseteq Channels /\ Range(plan[b]) \subseteq Channels
    BY <2>1 DEF Before, Channels
  <2> QED BY <2>2, BeforeProperties
<1>2. phase = "asking" => Taken \subseteq Channels
  BY <1>1 DEF AInv
<1> QED BY <1>2 DEF AInv

\* The results know no channel that is not in the plan.
KInv == Range(result.subscribed) \cup Range(lastResult.subscribed) \subseteq Channels

LEMMA KnownInit == Init => KInv
BY DEF Init, KInv, NoResult, Range

\* A result that is complete says what was granted; an old one is kept only with
\* its plan.
LEMMA KnownNext == RInv /\ AInv /\ DInv /\ LInv /\ KInv /\ [Next]_vars => KInv'
<1> SUFFICES ASSUME RInv, AInv, DInv, LInv, KInv, [Next]_vars PROVE KInv'
  OBVIOUS
<1>0. Range(NoResult.subscribed) = {}
  BY DEF NoResult, Range
<1>1. CASE UNCHANGED plan /\ result' \in {result, NoResult} /\ lastResult' = lastResult
  <2>1. UNCHANGED Channels
    BY <1>1 DEF Channels
  <2> QED BY <1>0, <1>1, <2>1 DEF KInv
<1>2. CASE InstrumentsListed
  <2>1. plan = << >>
    BY <1>2 DEF InstrumentsListed, Answered, DInv, Subscribe, Instruments
  <2>2. Channels = {}
    BY <2>1 DEF Channels
  <2>3. result' \in {result, NoResult} /\ lastResult' = lastResult
    BY <1>2 DEF InstrumentsListed, Fresh, results
  <2>4. Range(result'.subscribed) = {} /\ Range(lastResult'.subscribed) = {}
    BY <1>0, <2>2, <2>3 DEF KInv
  <2> QED BY <2>4 DEF KInv
<1>3. CASE BatchSubscribed
  <2>1. /\ UNCHANGED plan /\ Range(result'.subscribed) = granted
        /\ lastResult' \in {lastResult, result'}
    <3>1. /\ reply # NoReply /\ phase = "asking" /\ request.method = Subscribe
          /\ UNCHANGED plan /\ result' = Noted(request.arg)
          /\ lastResult' \in {lastResult, result'}
      BY <1>3 DEF BatchSubscribed, Answered, plans, Subscribe
    <3>2. Tells(Noted(request.arg))
      BY <3>1 DEF LInv
    <3> QED BY <3>1, <3>2 DEF Tells
  <2>2. granted \subseteq Channels /\ UNCHANGED Channels
    BY <2>1, PlanIsBatched, TakenIsPlanned DEF Taken, Channels
  <2> QED BY <2>1, <2>2 DEF KInv
<1>4. CASE HeartbeatSet
  <2>1. UNCHANGED plan /\ result' \in {result, NoResult} /\ lastResult' = lastResult
    BY <1>4 DEF HeartbeatSet, Fresh, plans, results
  <2> QED BY <1>1, <2>1
<1>5. CASE \/ Open \/ Wake \/ TimesOut \/ LossNoticed \/ OpenFails \/ Lose \/ TestRequested
           \/ MarketMessage \/ \E q \in asked : Reply(q) \/ ReplyWorse(q) \/ Forget(q)
           \/ UNCHANGED vars
  <2>1. UNCHANGED <<plan, result, lastResult>>
    BY <1>5 DEF Open, Wake, TimesOut, LossNoticed, OpenFails, Abandon, Raise, Lose,
                TestRequested, MarketMessage, Reply, ReplyWorse, Forget, vars, plans, results
  <2> QED BY <1>1, <2>1
<1> QED BY <1>2, <1>3, <1>4, <1>5 DEF Next, Client

------------------------------------------------------------------------------

\* The whole inductive invariant.
IInv == RInv /\ DInv /\ TInv /\ AInv /\ LInv /\ KInv

\* It holds in every state.
LEMMA Invariant == Spec => []IInv
<1>1. DInv => PlanTyped
  BY PlanIsBatched
<1> QED BY InvInit, InvNext, PlansInit, PlansNext, TypesNext, AsksInit, AsksNext,
           TellsInit, TellsNext, KnownInit, KnownNext, <1>1, PTL DEF Spec, IInv

\* Every variable has its type: the plan's batches are not empty, requests have
\* numbers that have been given out, neither the results nor the server know a
\* channel that is not in the plan, and a batch that failed is one of the plan's.
THEOREM TypeCorrectness == Spec => []TypeOK
<1>1. ASSUME IInv PROVE TypeOK
  <2> USE <1>1 DEF IInv
  <2>1. PlanTyped
    BY PlanIsBatched
  <2>2. pending \subseteq 1..requestId
    BY DEF TInv
  <2>3. \A q \in asked \cup {request, reply.to} : q.id \in 0..requestId
    <3>1. reply = NoReply \/ reply.to = request
      BY DEF RInv, RepliesMatch
    <3> QED BY <3>1 DEF RInv, Numbered, OneAwaited, NoReply, NoRequest
  <2>4. Taken \subseteq Channels
    BY <2>1, TakenIsPlanned
  <2>5. {result.failed, lastResult.failed} \subseteq SUBSET DOMAIN plan
    BY DEF LInv, Results
  <2> QED BY <2>1, <2>2, <2>3, <2>4, <2>5 DEF TypeOK, TInv, DInv, KInv, Taken
<1> QED BY <1>1, Invariant, PTL

\* The plan is the index and each supported channel of the chosen instruments,
\* once, in full batches, whatever the server lists and however it is sorted,
\* sliced and multiplied out.
THEOREM PlanCorrect == Spec => []PlanIsRight
<1>1. IInv => PlanIsRight
  BY PlanRight DEF IInv
<1> QED BY <1>1, Invariant, PTL

\* Every channel of the plan has been asked for when the adapter records.
THEOREM EveryChannelAsked == Spec => []PlanIsAsked
<1>1. IInv => PlanIsAsked
  BY DEF IInv, AInv, Taken, PlanIsAsked, Recording
<1> QED BY <1>1, Invariant, PTL

\* The result of the last subscription is what the server has done on this
\* connection: the channels it granted, each once, and batches it granted nothing
\* of.
THEOREM ResultIsTrue == Spec => []LastResultIsTrue
<1>1. ASSUME IInv, Recording PROVE LastResultIsTrue
  <2>1. Tells(lastResult) /\ lastResult.subscribed \in Seq(Subscribable)
    BY <1>1 DEF IInv, LInv, Recording, Results
  <2>2. Len(lastResult.subscribed) = Cardinality(Range(lastResult.subscribed))
    BY <2>1, RangeOfOnce DEF Tells
  <2> QED BY <2>1, <2>2 DEF LastResultIsTrue, Tells
<1>2. IInv => LastResultIsTrue
  BY <1>1 DEF LastResultIsTrue
<1> QED BY <1>2, Invariant, PTL

==============================================================================
