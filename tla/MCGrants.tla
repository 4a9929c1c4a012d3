------------------------------ MODULE MCGrants ------------------------------
(* Values for the constants of Grants. *)
EXTENDS Grants, TLC

CONSTANTS g1, g2, g3, p1, p2

(* Two grants at the start: the one with the lower priority number expires   *)
(* later than the other one.                                                 *)
TwoGrants ==
    [g \in Keys |->
       CASE g = g1 -> [account |-> 1, initial |-> 1, remaining |-> 1,
                       status |-> "ACTIVE", priority |-> 0, expires |-> 2]
         [] g = g2 -> [account |-> 1, initial |-> 2, remaining |-> 2,
                       status |-> "ACTIVE", priority |-> 1, expires |-> 1]
         [] OTHER  -> NoGrant]

OneCurrency == [a \in Accounts |-> "USD"]
OpeningOne == [a \in Accounts |-> 1]

(* An issued grant comes before the first one or ties with it. *)
EarlyTerms == [priority : {0}, expires : {1, 2}]

Symmetric == Permutations(Procs)
=============================================================================
