------------------------------ MODULE PGBench ------------------------------
(***************************************************************************)
(* The PostgreSQL benchmark (cmd/bench/main.go), which calls the ledger       *)
(* service and its own SQL directly: a waterfall over a group of accounts     *)
(* per goroutine, withdrawals from one hot account, and batches of deposits.  *)
(*                                                                         *)
(* In the waterfall a group belongs to one goroutine, so between the          *)
(* statements of its transaction nobody touches the rows and the transaction  *)
(* is one step.  A statement whose connection is lost is reported as failed,  *)
(* and may have been executed, be executed later, or never: the program goes  *)
(* on with another connection.  A COMMIT that was lost keeps its row locked,  *)
(* and is done, or rolled back, before anybody gets at the row.              *)
(***************************************************************************)
EXTENDS Integers, FiniteSets

CONSTANTS
    Workers,      \* the goroutines, 1 .. -concurrency
    GroupSize,    \* accounts of a group, the last one is cash; 4 in the code
    DrawAmount,   \* of a waterfall draw; $0.10 in the code
    Small, Cash,  \* balances a set-up gives; $5 and $100000 in the code
    PreFund,      \* deposited on the hot account; $500000 in the code
    FanOut,       \* deposits of a batch; 1000 in the code
    Found,        \* how many accounts the database may have
    Before,       \* what the accounts may hold at the start
    MaxCalls,     \* bound: draws, withdrawals and batches, in place of -duration
    MaxFaults     \* bound: statements that fail

ASSUME PGBenchAssumption ==
    /\ IsFiniteSet(Workers) /\ Workers = 1 .. Cardinality(Workers)
    /\ GroupSize \in Nat \ {0, 1}
    /\ {DrawAmount, Small, Cash, FanOut} \subseteq Nat \ {0}
    /\ Small % DrawAmount = 0
    /\ PreFund \in Nat /\ PreFund >= MaxCalls + DrawAmount * MaxFaults
    /\ Found \subseteq Nat
    /\ Before \subseteq [Workers \X (1 .. GroupSize) -> [balance : Int, depleted : BOOLEAN]]
    /\ {MaxCalls, MaxFaults} \subseteq Nat

Groups == Workers \X (1 .. GroupSize)

Hot == <<1, 1>>

(* Three accounts of 50 draws each: one cycle of the cascade. *)
topUpEvery == (GroupSize - 1) * (Small \div DrawAmount)

VARIABLES
    scenario,      \* -scenario: 0 for all of them
    stage,         \* what main does
    acct,          \* the rows of the groups
    lateDraws,     \* fast-path statements of a goroutine that may still run
    lateResets,    \* set-up and top-up statements of an account that may
    lateDeposits,  \* pre-fundings that may
    lateWithdraws, \* withdrawals that may
    doing,         \* where a goroutine is in its loop
    drawCounts,
    col,           \* the collector of the scenario
    calls, faults,
    debits,        \* history: DEBIT entries written since the scenario began
    lost,          \* history: those whose statement was reported as failed
    prefunded,     \* history: the hot account, not overdrawn, was pre-funded
                   \* before its withdrawals began, and not reset since
    cashDrawn,     \* history: what a goroutine has drawn from its cash
    excuse         \* history: what faults may have kept from its credits

lateHot == <<lateDeposits, lateWithdraws>>
groups == <<acct, lateDraws, lateResets, lateHot>>
benchHistory == <<debits, lost, prefunded, cashDrawn, excuse>>
benchVars == <<scenario, stage, groups, doing, drawCounts, col, calls, faults, benchHistory>>

Empty == [jobs |-> 0, errs |-> 0, txns |-> 0]

BenchInit ==
    /\ scenario \in 0 .. 3
    /\ stage = "fetch"
    /\ acct \in Before
    /\ lateDraws = [w \in Workers |-> 0]
    /\ lateResets = [a \in Groups |-> 0]
    /\ lateDeposits = 0 /\ lateWithdraws = 0
    /\ doing = [w \in Workers |-> "returned"]
    /\ drawCounts = [w \in Workers |-> 0]
    /\ col = Empty
    /\ calls = 0 /\ faults = 0
    /\ debits = 0 /\ lost = 0 /\ prefunded = FALSE
    /\ cashDrawn = [w \in Workers |-> 0]
    /\ excuse = [w \in Workers |-> 0]

-----------------------------------------------------------------------------
(* main and runGoroutines *)

Priority(w) == {w} \X (1 .. GroupSize - 1)

(* The scenarios that are still to be run when those up to n are done.       *)
After(n) ==
    CASE n < 1 /\ scenario \in {0, 1} -> "setup"
      [] n < 2 /\ scenario \in {0, 2} -> "prefund"
      [] n < 3 /\ scenario \in {0, 3} -> "fanout"
      [] OTHER -> "end"

Fail(n) == faults + n <= MaxFaults /\ faults' = faults + n

(* A new collector, and goroutines to fill it. *)
StartGoroutines ==
    /\ doing' = [w \in Workers |-> "loop"]
    /\ col' = Empty
    /\ debits' = 0 /\ lost' = 0

KeepGoroutines == UNCHANGED <<doing, col, debits, lost>>

Enter(next) ==
    /\ stage' = next
    /\ IF next = "fanout" THEN StartGoroutines ELSE KeepGoroutines

(* fetchAccounts: too few accounts, or an error, end the program. *)
Fetch ==
    /\ stage = "fetch"
    /\ \E n \in Found :
          IF n >= GroupSize * Cardinality(Workers) + FanOut
          THEN Enter(After(0))
          ELSE stage' = "exit" /\ KeepGoroutines
    /\ UNCHANGED <<scenario, groups, drawCounts, calls, faults, prefunded,
                   cashDrawn, excuse>>

ResetKeepsFlag(a) ==
    [acct[a] EXCEPT !.balance = IF a[2] = GroupSize THEN Cash ELSE Small]

(* waterfallSetupSQL. *)
Reset(a) ==
    [balance |-> IF a[2] = GroupSize THEN Cash ELSE Small, depleted |-> FALSE]

(* A statement each; errors are not looked at.  Of the statements that were    *)
(* not executed, some may be later; until then their accounts stay as they    *)
(* are.                                                                     *)
ResetAll(accounts, failed, late) ==
    /\ acct' = [a \in Groups |-> IF a \in accounts \ failed THEN Reset(a) ELSE acct[a]]
    /\ lateResets' = [a \in Groups |-> lateResets[a] + (IF a \in late THEN 1 ELSE 0)]
    /\ excuse' = [w \in Workers |->
          excuse[w] + Small * Cardinality(failed \cap Priority(w))]
    /\ Fail(Cardinality(failed))

Failures(accounts) == {S \in SUBSET accounts : Cardinality(S) <= MaxFaults - faults}

(* setupWaterfallBalances. *)
SetUp ==
    /\ stage = "setup" /\ stage' = "waterfall"
    /\ \E failed \in Failures(Groups) :
          \E late \in SUBSET failed : ResetAll(Groups, failed, late)
    /\ StartGoroutines
    /\ UNCHANGED <<scenario, lateDraws, lateHot, drawCounts, calls, prefunded, cashDrawn>>

(* A set-up or top-up statement that was given up is executed. *)
LateReset(a) ==
    /\ lateResets[a] > 0
    /\ lateResets' = [lateResets EXCEPT ![a] = @ - 1]
    /\ acct' = [acct EXCEPT ![a] = Reset(a)]
    /\ prefunded' = (prefunded /\ a # Hot)
    /\ UNCHANGED <<scenario, stage, lateDraws, lateHot, doing, drawCounts, col, calls,
                   faults, debits, lost, cashDrawn, excuse>>

(* Deposit and WithdrawAtomic leave depleted_at alone, and have no condition.  *)
AddToHot(amount) == acct' = [acct EXCEPT ![Hot].balance = @ + amount]

(* The hot account is pre-funded; a failure is only a warning. *)
PreFundHot ==
    /\ stage = "prefund" /\ stage' = "hot"
    /\ \/ /\ AddToHot(PreFund) /\ prefunded' = (acct[Hot].balance >= 0)
          /\ \E failed \in {0, 1} : Fail(failed)
          /\ UNCHANGED lateDeposits
       \/ /\ Fail(1)
          /\ \E late \in {0, 1} : lateDeposits' = lateDeposits + late
          /\ UNCHANGED <<acct, prefunded>>
    /\ StartGoroutines
    /\ UNCHANGED <<scenario, lateDraws, lateResets, lateWithdraws, drawCounts, calls,
                   cashDrawn, excuse>>

LateDeposit ==
    /\ lateDeposits > 0
    /\ lateDeposits' = lateDeposits - 1
    /\ AddToHot(PreFund)
    /\ UNCHANGED <<scenario, stage, lateDraws, lateResets, lateWithdraws, doing, drawCounts,
                   col, calls, faults, benchHistory>>

Running == stage \in {"waterfall", "hot", "fanout"}

(* The time is over: a goroutine returns before its next call. *)
Leave(w) ==
    /\ Running /\ doing[w] = "loop"
    /\ doing' = [doing EXCEPT ![w] = "returned"]
    /\ UNCHANGED <<scenario, stage, groups, drawCounts, col, calls, faults, benchHistory>>

(* wg.Wait returns. *)
EndScenario ==
    /\ Running /\ \A w \in Workers : doing[w] = "returned"
    /\ Enter(After(CASE stage = "waterfall" -> 1 [] stage = "hot" -> 2 [] OTHER -> 3))
    /\ UNCHANGED <<scenario, groups, drawCounts, calls, faults, prefunded,
                   cashDrawn, excuse>>

-----------------------------------------------------------------------------
(* What a goroutine calls again and again. *)

Calls(w, st) ==
    /\ stage = st /\ doing[w] = "loop" /\ calls < MaxCalls
    /\ calls' = calls + 1

record(success, txnCount) ==
    col' = [jobs |-> col.jobs + (IF success THEN 1 ELSE 0),
            errs |-> col.errs + (IF success THEN 0 ELSE 1),
            txns |-> col.txns + txnCount]

PayableByFlag(a) == ~acct[a].depleted

(* WHERE balance >= $1 AND depleted_at IS NULL. *)
Payable(a) == acct[a].balance >= DrawAmount /\ ~acct[a].depleted

(* The row after waterfallDebitSQL. *)
Debited(a) ==
    [balance |-> acct[a].balance - DrawAmount,
     depleted |-> acct[a].balance = DrawAmount]

(* A draw from account a; answered or not. *)
Draw(w, a, answered) ==
    /\ acct' = [acct EXCEPT ![a] = Debited(a)]
    /\ debits' = debits + 1
    /\ lost' = lost + (IF answered THEN 0 ELSE 1)
    /\ cashDrawn' = [cashDrawn EXCEPT
                       ![w] = @ + (IF a[2] = GroupSize THEN DrawAmount ELSE 0)]

NoDraw == UNCHANGED <<acct, debits, lost, cashDrawn>>

(* What follows a draw that succeeded. *)
Succeed(w) ==
    /\ record(TRUE, 1)
    /\ drawCounts' = [drawCounts EXCEPT ![w] = @ + 1]
    /\ doing' = [doing EXCEPT
                   ![w] = IF drawCounts'[w] % topUpEvery = 0 THEN "topup" ELSE "loop"]

FallBack(w) == doing' = [doing EXCEPT ![w] = "fallback"] /\ UNCHANGED <<drawCounts, col>>

Excuse(w, amount) == excuse' = [excuse EXCEPT ![w] = @ + amount]

FastPathUncounted(w) ==
    /\ Calls(w, "waterfall")
    /\ IF Payable(<<w, 1>>) THEN Draw(w, <<w, 1>>, TRUE) ELSE NoDraw
    /\ Succeed(w)
    /\ UNCHANGED <<scenario, stage, lateDraws, lateResets, lateHot, faults, prefunded, excuse>>

(* waterfallDraw, its fast path: one statement on the first account.  It may  *)
(* find no row, and it may fail, executed at once, later or never; whatever   *)
(* the error, the fallback is tried.                                        *)
FastPath(w) ==
    LET a == <<w, 1>> IN
    /\ Calls(w, "waterfall")
    /\ \/ /\ Payable(a)
          /\ Draw(w, a, TRUE) /\ Succeed(w)
          /\ UNCHANGED <<lateDraws, faults, excuse>>
       \/ /\ ~Payable(a)
          /\ NoDraw /\ FallBack(w)
          /\ UNCHANGED <<lateDraws, faults, excuse>>
       \/ /\ Fail(1) /\ FallBack(w)
          /\ \/ Payable(a) /\ Draw(w, a, FALSE) /\ Excuse(w, DrawAmount) /\ UNCHANGED lateDraws
             \/ NoDraw /\ \E late \in {0, 1} :
                             /\ lateDraws' = [lateDraws EXCEPT ![w] = @ + late]
                             /\ Excuse(w, (1 + late) * DrawAmount)
    /\ UNCHANGED <<scenario, stage, lateResets, lateHot, prefunded>>

(* A statement of the fast path that was given up is executed. *)
LateDraw(w) ==
    LET a == <<w, 1>> IN
    /\ lateDraws[w] > 0
    /\ lateDraws' = [lateDraws EXCEPT ![w] = @ - 1]
    /\ IF Payable(a) THEN Draw(w, a, FALSE) ELSE NoDraw
    /\ UNCHANGED <<scenario, stage, lateResets, lateHot, doing, drawCounts, col, calls,
                   faults, prefunded, excuse>>

LastPayer(w) ==
    {a \in {w} \X (2 .. GroupSize) :
        /\ Payable(a)
        /\ \A b \in {w} \X (2 .. GroupSize) : Payable(b) => b[2] <= a[2]}

(* The account that pays in the fallback: the first one that can. *)
Payer(w) ==
    {a \in {w} \X (2 .. GroupSize) :
        /\ Payable(a)
        /\ \A b \in {w} \X (2 .. GroupSize) : Payable(b) => a[2] <= b[2]}

(* waterfallOneTxn. *)
Fallback(w) ==
    /\ doing[w] = "fallback"
    /\ \/ /\ \E a \in Payer(w) : Draw(w, a, TRUE)
          /\ Succeed(w)
          /\ UNCHANGED <<faults, excuse>>
       \/ /\ record(FALSE, 1) /\ doing' = [doing EXCEPT ![w] = "loop"]
          /\ UNCHANGED drawCounts
          /\ \/ Payer(w) = {} /\ NoDraw /\ UNCHANGED <<faults, excuse>>
             \/ Fail(1) /\ NoDraw /\ UNCHANGED excuse
             \/ /\ Fail(1) /\ Excuse(w, DrawAmount)
                /\ \E a \in Payer(w) : Draw(w, a, FALSE)
    /\ UNCHANGED <<scenario, stage, lateDraws, lateResets, lateHot, calls, prefunded>>

(* topupPriorityAccounts. *)
TopUp(w) ==
    /\ doing[w] = "topup"
    /\ doing' = [doing EXCEPT ![w] = "loop"]
    /\ \E failed \in Failures(Priority(w)) :
          \E late \in SUBSET failed : ResetAll(Priority(w), failed, late)
    /\ UNCHANGED <<scenario, stage, lateDraws, lateHot, drawCounts, col, calls, debits, lost,
                   prefunded, cashDrawn>>

(* A withdrawal of one unit from the hot account; answered or not. *)
Withdraw(answered) ==
    /\ AddToHot(-1)
    /\ debits' = debits + 1
    /\ lost' = lost + (IF answered THEN 0 ELSE 1)

(* Scenario 2. *)
WithdrawHot(w) ==
    /\ Calls(w, "hot")
    /\ \/ /\ Withdraw(TRUE) /\ record(TRUE, 1)
          /\ UNCHANGED <<faults, lateWithdraws>>
       \/ /\ Fail(1) /\ record(FALSE, 1)
          /\ \/ Withdraw(FALSE) /\ UNCHANGED lateWithdraws
             \/ /\ \E late \in {0, 1} : lateWithdraws' = lateWithdraws + late
                /\ UNCHANGED <<acct, debits, lost>>
    /\ UNCHANGED <<scenario, stage, lateDraws, lateResets, lateDeposits, doing, drawCounts,
                   prefunded, cashDrawn, excuse>>

LateWithdraw ==
    /\ lateWithdraws > 0
    /\ lateWithdraws' = lateWithdraws - 1
    /\ Withdraw(FALSE)
    /\ UNCHANGED <<scenario, stage, lateDraws, lateResets, lateDeposits, doing, drawCounts,
                   col, calls, faults, prefunded, cashDrawn, excuse>>

(* Scenario 3: an ExecBatch of deposits; after a failure any number of its    *)
(* results may say success (module Batch).                                   *)
FanOutBatch(w) ==
    /\ Calls(w, "fanout")
    /\ \E succeeded \in 0 .. FanOut :
          /\ record(succeeded > 0, succeeded)
          /\ Fail(IF succeeded = FanOut THEN 0 ELSE 1)
    /\ UNCHANGED <<scenario, stage, groups, doing, drawCounts, benchHistory>>

BenchMain == Fetch \/ SetUp \/ PreFundHot \/ EndScenario

Work(w) ==
    \/ FastPath(w) \/ Fallback(w) \/ TopUp(w)
    \/ WithdrawHot(w) \/ FanOutBatch(w)

(* What was given up is executed. *)
LateStatement ==
    \/ \E w \in Workers : LateDraw(w)
    \/ \E a \in Groups : LateReset(a)
    \/ LateDeposit \/ LateWithdraw

BenchNext == BenchMain \/ LateStatement \/ \E w \in Workers : Work(w) \/ Leave(w)

(* Goroutines run, statements end, and so does the time of a scenario. *)
BenchFairness ==
    /\ WF_benchVars(BenchMain)
    /\ \A w \in Workers : WF_benchVars(Work(w)) /\ WF_benchVars(Leave(w))

BenchSpec == BenchInit /\ [][BenchNext]_benchVars /\ BenchFairness

-----------------------------------------------------------------------------
(* Type correctness. *)
BenchTypeOK ==
    /\ scenario \in 0 .. 3
    /\ stage \in {"fetch", "setup", "waterfall", "prefund", "hot", "fanout", "end", "exit"}
    /\ acct \in [Groups -> [balance : Int, depleted : BOOLEAN]]
    /\ doing \in [Workers -> {"loop", "fallback", "topup", "returned"}]
    /\ {lateDraws, drawCounts, cashDrawn, excuse} \subseteq [Workers -> Nat]
    /\ lateResets \in [Groups -> Nat] /\ {lateDeposits, lateWithdraws} \subseteq Nat
    /\ col \in [jobs : Nat, errs : Nat, txns : Nat]
    /\ calls \in 0 .. MaxCalls /\ faults \in 0 .. MaxFaults
    /\ {debits, lost} \subseteq Nat
    /\ prefunded \in BOOLEAN

(* The jobs counted are draws and withdrawals that happened, each once; what  *)
(* happened and was not counted is a statement reported as failed.  A lost    *)
(* answer of the fast path may thus be drawn twice and counted once.          *)
DebitsAccounted == stage \in {"waterfall", "hot"} => debits = col.jobs + lost

(* Cash is a safety net.  In cycles of topUpEvery draws the credits pay for    *)
(* everything, and are used up exactly when they are topped up; what comes     *)
(* from cash is no more than what failed statements have kept from the        *)
(* credits: a draw each, two if it was executed late, or a whole refill, late  *)
(* or not: the account may then keep an overdraft or a wrong mark from before. *)
(* The fallback passes over the first account, which a late statement draws    *)
(* from, or refills, after all.                                              *)
CashIsSafetyNet == \A w \in Workers : cashDrawn[w] <= excuse[w]

(* The flag says that the account has no funds, but it has, or an overdraft.   *)
WronglyMarked(a) == acct[a].depleted /\ acct[a].balance # 0

(* The waterfall never marks an account with funds, and never leaves the mark  *)
(* when it gives funds, in every order of draws, late draws, refills and late  *)
(* refills.  A mark becomes wrong only when Deposit or Withdraw, which do not   *)
(* look at it, change the balance of the hot account; or it was wrong before.  *)
DepletedExplained ==
    [][\A a \in Groups :
          WronglyMarked(a)' /\ ~WronglyMarked(a) =>
             a = Hot /\ stage' \in {"hot", "fanout", "end"}]_benchVars

(* The benchmark overdraws an account, or more so, only by the withdrawals of  *)
(* scenario 2, which have no condition, and only if the pre-funding failed,    *)
(* met an overdraft from before, was late, or was undone by a set-up or        *)
(* top-up executed late.                                                     *)
OverdraftExplained ==
    [][\A a \in Groups :
          acct'[a].balance < 0 /\ acct'[a].balance < acct[a].balance =>
             /\ a = Hot /\ stage' \in {"hot", "fanout", "end"}
             /\ ~prefunded]_benchVars

(* The benchmark ends, although no goroutine is ever interrupted.             *)
BenchEnds == <>(stage \in {"end", "exit"})
=============================================================================
