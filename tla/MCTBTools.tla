----------------------------- MODULE MCTBTools -----------------------------
(* Values for the constants of TBTools. *)
EXTENDS TBTools

AllAccounts == VerifyAccounts \cup BenchAccounts
AllConstrained == VerifyConstrained \cup BenchConstrained
UpToTwoEach == [1 .. 3 -> 0 .. 2]
=============================================================================
