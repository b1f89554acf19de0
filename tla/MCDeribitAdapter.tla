-------------------------- MODULE MCDeribitAdapter --------------------------
(* DeribitAdapter on small lists of instruments.                             *)
EXTENDS DeribitAdapter

Entry(name, perpetual, active, expiry, strike) ==
    [name |-> name, perpetual |-> perpetual, active |-> active,
     expiry |-> expiry, strike |-> strike]

Perp == Entry("BTC-PERPETUAL", TRUE, TRUE, 0, 0)
March == Entry("BTC-27MAR26", FALSE, TRUE, 1, 0)
June == Entry("BTC-26JUN26", FALSE, TRUE, 2, 0)
\* Expires with June.
JuneWeekly == Entry("BTC-26JUN26-W", FALSE, TRUE, 2, 0)
Halted == Entry("BTC-30JAN26", FALSE, FALSE, 0, 0)
Low == Entry("BTC-26JUN26-90000-C", FALSE, TRUE, 2, 1)
High == Entry("BTC-26JUN26-95000-C", FALSE, TRUE, 2, 2)
Delisted == Entry("BTC-26JUN26-80000-C", FALSE, FALSE, 2, 0)
Usdc == Entry("BTC_USDC", FALSE, TRUE, 0, 0)
Usdt == Entry("BTC_USDT", FALSE, FALSE, 0, 0)

MCFutureLists == {<< >>, <<June, Perp, Halted, March>>, <<JuneWeekly, June, March>>}
MCOptionLists == {<<High, Delisted, Low>>}
MCSpotLists == {<<Usdt, Usdc>>}
\* One type that is supported and one that is not.
MCChannelTypes == <<"book", "quote">>
==============================================================================
