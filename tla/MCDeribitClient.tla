--------------------------- MODULE MCDeribitClient ---------------------------
(* DeribitClient on small instances; main and runner are model values.       *)
EXTENDS DeribitClient, TLC

None == [k \in Troubles |-> 0]

\* One loss with two further faults; no loss but everything else; a second loss
\* at any moment, also in the middle of the reconnection after the first.
MCScenarios == {[None EXCEPT !.losses = 1, !.faults = 2],
                [k \in Troubles |-> IF k = "losses" THEN 0 ELSE 1],
                [None EXCEPT !.losses = 2]}

\* The server closes the connection normally.
MCClose == {[None EXCEPT !.closes = 1]}

\* The server refuses the subscription after a reconnect.
MCRefusal == {[None EXCEPT !.losses = 1, !.refusals = 1]}
==============================================================================
