------------------------------- MODULE MCBatch -------------------------------
(* Values for the constants of Batch. *)
EXTENDS Batch, TLC

CONSTANTS p1, p2

OneCurrency == [a \in Accounts |-> "USD"]
OpeningOne == [a \in Accounts |-> 1]

Pay(a) == [type |-> "deposit", account |-> a, amount |-> 1]
Take(a) == [type |-> "withdraw", account |-> a, amount |-> 1]

(* Nothing; two accounts in either order, so that batches can wait for each  *)
(* other in a cycle; an unknown account, and a group after the first.        *)
Crossing == {<< >>, <<Pay(1), Take(2)>>, <<Take(2), Pay(1)>>, <<Take(2), Pay(3), Pay(1)>>}

(* Up to five deposits: three groups of two. *)
DepositsOfFive ==
    UNION {[1 .. m -> {op \in BatchOp : op.type = "deposit"}] : m \in 0 .. 5}
=============================================================================
