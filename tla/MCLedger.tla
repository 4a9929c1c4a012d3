------------------------------ MODULE MCLedger ------------------------------
(* Values for the constants of Ledger. *)
EXTENDS Ledger, TLC

CONSTANTS k1, k2, p1, p2, USD

OneCurrency == [a \in Accounts |-> USD]
OpeningTwo == [a \in Accounts |-> IF a = 1 THEN 2 ELSE 0]

ProcsAndKeys == Permutations(Procs) \cup Permutations(Keys)
=============================================================================
