---------------------------- MODULE MCDurability ----------------------------
(* Values for the constants of Durability. *)
EXTENDS Durability, TLC

CONSTANTS k1, p1, p2, USD, EUR

TwoCurrencies == [a \in Accounts |-> IF a = 3 THEN EUR ELSE USD]
SignedAmounts == {-1, 0, 1}
OpeningEach == [a \in Accounts |-> 1]
=============================================================================
