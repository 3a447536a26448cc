---------------------------- MODULE MCChangeFeed -----------------------------
(* A small instance of ChangeFeed for TLC: one agent, two scopes, batches that *)
(* do not fit its pages.                                                       *)
EXTENDS ChangeFeed, TLC

CONSTANTS c1, s1, s2, pending, completed

With(word) == [status |-> word]

Leaf(depth) == [depth |-> depth, status |-> With(pending)]

MCClients  == {c1}
MCScopeOf  == c1 :> s1
MCAdopters == {c1}
NoAdopters == {}
MCScopes   == {s1, s2}
MCStatuses == {With(pending), With(completed)}
MCUpdateFields == MCStatuses
MCTimes    == {0}
MCBatches  == {<<Leaf(0)>>, <<Leaf(0), Leaf(1), Leaf(0)>>}
MCLimits   == {1, 2}
=============================================================================
