------------------------------ MODULE TBTools ------------------------------
(***************************************************************************)
(* The two programs of tigerbeetle-setup on one cluster.  Their accounts have *)
(* nothing in common, so a behaviour is a run of one of them.                *)
(***************************************************************************)
EXTENDS TBVerify, TBBench

VARIABLE tool

vars == <<cluster, tool, verifyVars, benchVars>>

Init ==
    /\ tool \in {"verify", "bench"}
    /\ cluster = EmptyCluster
    /\ VerifyInit /\ BenchInit

Next ==
    \/ tool = "verify" /\ VerifyNext /\ UNCHANGED <<tool, benchVars>>
    \/ tool = "bench" /\ BenchNext /\ UNCHANGED <<tool, verifyVars>>

Spec == Init /\ [][Next]_vars

-----------------------------------------------------------------------------
(* Type correctness.  A worker's count stays below the top-up threshold plus  *)
(* one call.                                                                 *)
TypeOK ==
    /\ \A a \in Account : \A f \in DOMAIN Empty : cluster.accounts[a][f] \in Nat
    /\ tool \in {"verify", "bench"}
    /\ {totalTransfers, unanswered} \subseteq Nat /\ totalErrors \in 0 .. MaxErrors
    /\ rejected \in [Goroutines -> Nat] /\ errors \in 0 .. MaxErrors
    /\ batches \in [Goroutines -> 0 .. MaxBatches]
    /\ loop \in [Goroutines -> {"ready", "sent", "returned"}]
    /\ phase \in 0 .. 8
    /\ pc \in [Workers -> {"loop", "draw", "fallback"}]
    /\ drawsCnt \in [Workers -> 0 .. topUpEvery + nChains - 1]
    /\ ops \in 0 .. MaxOps
    /\ drawn \in [Workers \X Chains -> Nat]

DrawsInPriorityOrder == [][InPriorityOrder]_cluster
=============================================================================
