------------------------------- MODULE PGTools -------------------------------
(***************************************************************************)
(* The three client programs of postgre-setup/go/cmd that keep books of what *)
(* they have done: the stress tool, its verify command, and the benchmark.    *)
(* They share nothing but the database, and are never run at the same time,   *)
(* so a behaviour is a run of one of them.                                   *)
(***************************************************************************)
EXTENDS Stress, Verify, PGBench

VARIABLE tool

vars == <<tool, stressVars, verifyVars, benchVars>>

Init ==
    /\ tool \in {"stress", "verify", "bench"}
    /\ StressInit /\ VerifyInit /\ BenchInit
    /\ tool # "stress" => batchSize = 0
    /\ tool # "verify" => Len(balance) = 0
    /\ tool # "bench" => scenario = 0 /\ acct = CHOOSE b \in Before : TRUE

StressStep(A) == tool = "stress" /\ A /\ UNCHANGED <<tool, verifyVars, benchVars>>

VerifyStep(A) == tool = "verify" /\ A /\ UNCHANGED <<tool, stressVars, benchVars>>

BenchStep(A) == tool = "bench" /\ A /\ UNCHANGED <<tool, stressVars, verifyVars>>

Next == StressStep(StressNext) \/ VerifyStep(VerifyNext) \/ BenchStep(BenchNext)

(* As StressFairness, VerifyFairness and BenchFairness, of the program that    *)
(* runs: programs are not stopped from outside.                              *)
Fairness ==
    /\ WF_vars(StressStep(Main) \/ VerifyStep(Client) \/ BenchStep(BenchMain))
    /\ \A g \in Goroutines : WF_vars(StressStep(Step(g)))
    /\ WF_vars(VerifyStep(Finish)) /\ WF_vars(VerifyStep(Answered))
    /\ \A w \in Workers : WF_vars(BenchStep(Work(w))) /\ WF_vars(BenchStep(Leave(w)))

Spec == Init /\ [][Next]_vars /\ Fairness

-----------------------------------------------------------------------------
=============================================================================
