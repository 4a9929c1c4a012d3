------------------------------ MODULE MCPGTools ------------------------------
(* Values for the constants of PGTools. *)
EXTENDS PGTools

CONSTANTS g1, g2, g3

Row(b, d) == [balance |-> b, depleted |-> d]

(* What an earlier run may have left: all is used up, the hot account even     *)
(* overdrawn; or some are marked although they hold funds, or an overdraft,    *)
(* and one holds what a draw does not divide.                                *)
Leftovers ==
    {[a \in Groups |-> IF a = Hot THEN Row(-6, FALSE) ELSE Row(0, TRUE)],
     [a \in Groups |-> CASE a = Hot  -> Row(3, TRUE)
                        [] a[2] = 1  -> Row(3, FALSE)
                        [] a[2] = 2  -> Row(2, TRUE)
                        [] OTHER     -> Row(-1, TRUE)]}
=============================================================================
