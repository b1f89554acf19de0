------------------------------ MODULE Discovery ------------------------------
(***************************************************************************)
(* adapters/deribit/discovery.py and subscription.py: from the server's    *)
(* lists of instruments to the batches of channels to subscribe.  Pure     *)
(* functions of the program, and operators here.                           *)
(*                                                                         *)
(* An entry of a list is a record: its name, whether it is a perpetual     *)
(* (_is_perpetual, by name or settlement period), whether it is active     *)
(* (TRUE if the entry does not say), its expiry and its strike (0 if       *)
(* missing or null; only compared).  A channel is <<type, name>>.          *)
(*                                                                         *)
(* A list made from another is given by the places it takes, never built   *)
(* element by element, so that it can be reasoned about without induction. *)
(***************************************************************************)
EXTENDS Integers, FiniteSets, SequencesExt

\* An instrument that the server lists.
Entries == [name : STRING, perpetual : BOOLEAN, active : BOOLEAN,
            expiry : Nat, strike : Nat]

\* What the code relies on, for it removes no repetition: the server gives every
\* instrument a name of its own.
NamesOnce(s) == \A i, j \in DOMAIN s : s[i].name = s[j].name => i = j
Apart(a, b) == \A x \in Range(a), y \in Range(b) : x.name # y.name
Listing(l) ==
    /\ l.future \in Seq(Entries) /\ l.option \in Seq(Entries) /\ l.spot \in Seq(Entries)
    /\ NamesOnce(l.future) /\ NamesOnce(l.option) /\ NamesOnce(l.spot)
    /\ Apart(l.future, l.option) /\ Apart(l.future, l.spot) /\ Apart(l.option, l.spot)

\* The types that have channels; quote and others are skipped.
Supported == {"book", "ticker", "trades"}

\* The settings name such a type at most once.
TypesOnce(types) ==
    \A i, j \in DOMAIN types : types[i] \in Supported /\ types[i] = types[j] => i = j

\* deribit_price_index.btc_usd.
IndexChannel == <<"deribit_price_index", "btc_usd">>

\* The elements of s at the places K, in the order R of these places.
Arranged(s, K, R) ==
    [n \in 1..Cardinality(K) |->
        s[CHOOSE i \in K : Cardinality({j \in K : <<j, i>> \in R}) = n - 1]]

\* [x for x in s if ...]: K are the places that are kept.
Kept(s, K) == Arranged(s, K, {p \in K \X K : p[1] < p[2]})

\* The pairs of places of s.
Pairs(s) == (DOMAIN s) \X (DOMAIN s)

\* list.sort(key=...): stable.  Less are the pairs of places of which the first
\* has the smaller key.
Sorted(s, Less) ==
    Arranged(s, DOMAIN s,
             {p \in Pairs(s) : \/ p \in Less
                               \/ <<p[2], p[1]>> \notin Less /\ p[1] < p[2]})

SoonerExpiry(s) == {p \in Pairs(s) : s[p[1]].expiry < s[p[2]].expiry}
SoonerOption(s) ==
    {p \in Pairs(s) : \/ s[p[1]].expiry < s[p[2]].expiry
                      \/ /\ s[p[1]].expiry = s[p[2]].expiry
                         /\ s[p[1]].strike < s[p[2]].strike}

FirstOf(s, n) == SubSeq(s, 1, IF Len(s) < n THEN Len(s) ELSE n)
Active(s) == Kept(s, {i \in DOMAIN s : s[i].active})

\* The first perpetual, active or not.
Perpetual(futures) == FirstOf(Kept(futures, {i \in DOMAIN futures : futures[i].perpetual}), 1)

\* The active futures that expire.
Dated(futures) ==
    Kept(futures, {i \in DOMAIN futures : futures[i].active /\ ~futures[i].perpetual})

\* Mutant of NearbyFutures: the first of the list, in the order the server gave.
NearbyFuturesUnsorted(futures, count) == FirstOf(Dated(futures), count)

\* The nearest dated futures.
NearbyFutures(futures, count) ==
    FirstOf(Sorted(Dated(futures), SoonerExpiry(Dated(futures))), count)

\* The whole option chain.
Chain(options) == Sorted(Active(options), SoonerOption(Active(options)))

\* select_discovery_universe and tradeable_instruments: what to subscribe.
Universe(listed, count) ==
    Perpetual(listed.future) \o Active(listed.spot)
      \o NearbyFutures(listed.future, count) \o Chain(listed.option)

\* build_market_channels: each supported type of each instrument.
MarketChannels(instruments, types) ==
    LET ts == Kept(types, {i \in DOMAIN types : types[i] \in Supported})
    IN [n \in 1..(Len(instruments) * Len(ts)) |->
          <<ts[((n - 1) % Len(ts)) + 1], instruments[((n - 1) \div Len(ts)) + 1].name>>]

\* Slices of at most size channels.
Batches(channels, size) ==
    [b \in 1..((Len(channels) + size - 1) \div size) |->
        FirstOf(SubSeq(channels, (b - 1) * size + 1, Len(channels)), size)]

\* build_subscription_plan: the index first.
Plan(listed, count, types, size) ==
    Batches(<<IndexChannel>> \o MarketChannels(Universe(listed, count), types), size)
==============================================================================
