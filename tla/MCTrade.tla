------------------------------- MODULE MCTrade -------------------------------
(* Trade for TLC: two who trade, one with two items and money.              *)
EXTENDS Trade, TLC

CONSTANTS alice, bob, i1, i2, i3
MCOwned == (i1 :> alice) @@ (i2 :> alice) @@ (i3 :> bob)
MCEarned == [x \in Players |-> IF x = alice THEN 1 ELSE 0]
=============================================================================
