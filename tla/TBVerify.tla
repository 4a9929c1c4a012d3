------------------------------ MODULE TBVerify ------------------------------
(***************************************************************************)
(* tigerbeetle-setup/main.go: a tool that runs a list of scenarios against   *)
(* TigerBeetle, each on accounts of its own, and stops with log.Fatal when a  *)
(* transfer fails or an assertion does not hold; at the end it measures how   *)
(* many transfers its goroutines get through.                               *)
(***************************************************************************)
EXTENDS TigerBeetle, FiniteSetsExt

CONSTANTS
    Fundings,     \* what checkWaterfall may put on its three sources
    batchSize,    \* transfers per batch of the throughput test
    Goroutines,   \* concurrency of the throughput test
    MaxBatches    \* bound: batches a goroutine sends

VARIABLES
    step,         \* the call of main that comes next, "failed" after log.Fatal
    loop,         \* a throughput goroutine: "ready", "sent", "returned"
    batches,      \* batches it has sent
    rejected,     \* len(results) of the last one: transfers that failed
    totalTransfers, totalErrors,
    unanswered    \* history: transfers posted by calls that returned an error

verifyVars == <<step, loop, batches, rejected, totalTransfers, totalErrors, unanswered>>

(* Accounts, by the name of the variable that holds their id. *)
ID == [alice |-> 1, bob |-> 2, payer |-> 3, payee |-> 4, voidPayer |-> 5, voidPayee |-> 6,
       bank |-> 7, goodSrc |-> 8, badSrc |-> 9, dest |-> 10, strictID |-> 11,
       strictDest |-> 12, destID |-> 13]

srcs == <<14, 15, 16>>

debitOf(g) == 20 + 2 * g
creditOf(g) == 20 + 2 * g + 1

VerifyAccounts ==
    (1 .. 16) \cup {debitOf(g) : g \in Goroutines} \cup {creditOf(g) : g \in Goroutines}

VerifyConstrained == {ID.badSrc, ID.strictID}

(* main and runThroughput create the accounts before they use them, strictID  *)
(* and badSrc with DebitsMustNotExceedCredits; goroutines are numbered.        *)
ASSUME DemoAssumption ==
    /\ Fundings \subseteq [1 .. 3 -> Nat]
    /\ batchSize \in Nat /\ MaxBatches \in Nat
    /\ IsFiniteSet(Goroutines) /\ Goroutines \subseteq Nat
    /\ VerifyAccounts \subseteq Account
    /\ Constrained \cap VerifyAccounts = VerifyConstrained

VerifyInit ==
    /\ step = "basic"
    /\ loop = [g \in Goroutines |-> "ready"]
    /\ batches = [g \in Goroutines |-> 0]
    /\ rejected = [g \in Goroutines |-> 0]
    /\ totalTransfers = 0 /\ totalErrors = 0 /\ unanswered = 0

(* A call of CreateTransfers: the expected number of failures, and what is   *)
(* asserted of the accounts afterwards.                                      *)
Check(here, batch, failures, Asserted(_), there) ==
    LET r == CreateTransfers(cluster, batch) IN
    /\ step = here
    /\ cluster' = r.cluster
    /\ step' = IF r.failures = failures /\ Asserted(r.cluster.accounts)
                 THEN there ELSE "failed"
    /\ UNCHANGED <<loop, batches, rejected, totalTransfers, totalErrors, unanswered>>

Nothing(accounts) == TRUE

checkBasic ==
    Check("basic", <<Transfer(ID.alice, ID.bob, 5, {})>>, 0,
          LAMBDA a : a[ID.alice].debits_posted = 5 /\ a[ID.bob].credits_posted = 5,
          "pending")

Pending(debit, credit, amount, id) ==
    [Transfer(debit, credit, amount, {"pending"}) EXCEPT !.pending_id = id]

Settle(debit, credit, amount, id, flag) ==
    [Transfer(debit, credit, amount, {flag}) EXCEPT !.pending_id = id]

checkTwoPhasePost ==
    \/ Check("pending", <<Pending(ID.payer, ID.payee, 2, 1)>>, 0,
             LAMBDA a : a[ID.payer].debits_pending = 2 /\ a[ID.payer].debits_posted = 0,
             "post")
    \/ Check("post", <<Settle(ID.payer, ID.payee, 2, 1, "post_pending")>>, 0,
             LAMBDA a : a[ID.payer].debits_pending = 0 /\ a[ID.payer].debits_posted = 2,
             "voidPending")

checkTwoPhaseVoid ==
    \/ Check("voidPending", <<Pending(ID.voidPayer, ID.voidPayee, 3, 2)>>, 0,
             LAMBDA a : a[ID.voidPayer].debits_pending = 3, "void")
    \/ Check("void", <<Settle(ID.voidPayer, ID.voidPayee, 3, 2, "void_pending")>>, 0,
             LAMBDA a : a[ID.voidPayer].debits_pending = 0 /\ a[ID.voidPayer].debits_posted = 0,
             "fund")

-----------------------------------------------------------------------------
(* The waterfall, computed by the client from the balances it looks up. *)

available(a) == Sub(a.credits_posted, a.debits_posted + a.debits_pending)

Drawn(plan) == FoldLeft(LAMBDA sum, t : sum + t.amount, 0, plan)

(* The next source gives what it has, or what is still needed. *)
DrawAll(accounts, src, remaining) == available(accounts[src])

Draw(accounts, src, remaining) == Least(available(accounts[src]), remaining)

buildWaterfallTransfers(accounts, sources, to, target) ==
    LET Next(plan, src) ==
            IF target = Drawn(plan) \/ available(accounts[src]) = 0 THEN plan
            ELSE Append(plan, Transfer(src, to,
                                 Draw(accounts, src, Sub(target, Drawn(plan))), {}))
        plan == FoldLeft(Next, << >>, sources)
    IN  [i \in DOMAIN plan |->
           IF i < Len(plan) THEN [plan[i] EXCEPT !.flags = {"linked"}] ELSE plan[i]]

(* A source is used only when those before it are empty. *)
InOrder(accounts, sources) ==
    \A j \in DOMAIN sources : accounts[sources[j]].debits_posted > 0 =>
       \A i \in 1 .. j - 1 : available(accounts[sources[i]]) = 0

(* The code's target is less than the 1500 on its sources. *)
checkWaterfall ==
    \/ \E f \in Fundings :
          Check("fund", [i \in DOMAIN f |-> Transfer(ID.bank, srcs[i], f[i], {})], 0,
                Nothing, "draw")
    \/ \E target \in 1 .. FoldLeft(LAMBDA sum, s : sum + available(cluster.accounts[s]), 0, srcs) :
          Check("draw", buildWaterfallTransfers(cluster.accounts, srcs, ID.destID, target), 0,
                LAMBDA a : a[ID.destID].credits_posted = target /\ InOrder(a, srcs),
                "linkedFund")

checkLinkedBatch ==
    \/ Check("linkedFund", <<Transfer(ID.bank, ID.goodSrc, 2, {})>>, 0, Nothing, "linked")
    \/ Check("linked", <<Transfer(ID.goodSrc, ID.dest, 1, {"linked"}),
                         Transfer(ID.badSrc, ID.dest, 1, {})>>, 2,
             LAMBDA a : a[ID.goodSrc].debits_posted = 0 /\ a[ID.dest].credits_posted = 0,
             "constraint")

checkBalanceConstraint ==
    Check("constraint", <<Transfer(ID.strictID, ID.strictDest, 1, {})>>, 1,
          LAMBDA a : a[ID.strictDest].credits_posted = 0, "throughput")

-----------------------------------------------------------------------------
(* runThroughput: goroutines send batches until the channel stop is closed.  *)

Sent(g) ==
    CreateTransfers(cluster, [i \in 1 .. batchSize |-> Transfer(debitOf(g), creditOf(g), 1, {})])

(* Goroutine g calls CreateTransfers, which TigerBeetle executes and answers;  *)
(* the results are counted afterwards.                                       *)
Send(g) ==
    LET r == Sent(g) IN
    /\ step \in {"throughput", "stopping"} /\ loop[g] = "ready" /\ batches[g] < MaxBatches
    /\ batches' = [batches EXCEPT ![g] = @ + 1]
    /\ cluster' = r.cluster
    /\ loop' = [loop EXCEPT ![g] = "sent"]
    /\ rejected' = [rejected EXCEPT ![g] = r.failures]
    /\ UNCHANGED <<step, totalTransfers, totalErrors, unanswered>>

(* The call returns an error, executed or not: the goroutine goes on.         *)
SendFails(g) ==
    LET r == Sent(g) IN
    /\ step \in {"throughput", "stopping"} /\ loop[g] = "ready" /\ batches[g] < MaxBatches
    /\ batches' = [batches EXCEPT ![g] = @ + 1]
    /\ totalErrors < MaxErrors /\ totalErrors' = totalErrors + 1
    /\ \/ UNCHANGED <<cluster, unanswered>>
       \/ cluster' = r.cluster /\ unanswered' = unanswered + batchSize - r.failures
    /\ UNCHANGED <<step, loop, rejected, totalTransfers>>

Count(g) ==
    /\ loop[g] = "sent"
    /\ totalTransfers' = totalTransfers + batchSize - rejected[g]
    /\ loop' = [loop EXCEPT ![g] = "ready"]
    /\ UNCHANGED <<cluster, step, batches, rejected, totalErrors, unanswered>>

CloseStop ==
    /\ step = "throughput" /\ step' = "stopping"
    /\ UNCHANGED <<cluster, loop, batches, rejected, totalTransfers, totalErrors, unanswered>>

GoroutineReturns(g) ==
    /\ step = "stopping" /\ loop[g] = "ready"
    /\ loop' = [loop EXCEPT ![g] = "returned"]
    /\ UNCHANGED <<cluster, step, batches, rejected, totalTransfers, totalErrors, unanswered>>

Wait == \A g \in Goroutines : loop[g] = "returned"

(* wg.Wait, then the counters are read. *)
Report ==
    /\ step = "stopping" /\ Wait
    /\ step' = "done"
    /\ UNCHANGED <<cluster, loop, batches, rejected, totalTransfers, totalErrors, unanswered>>

VerifyNext ==
    \/ checkBasic \/ checkTwoPhasePost \/ checkTwoPhaseVoid \/ checkWaterfall
    \/ checkLinkedBatch \/ checkBalanceConstraint
    \/ \E g \in Goroutines : Send(g) \/ SendFails(g) \/ Count(g) \/ GoroutineReturns(g)
    \/ CloseStop \/ Report

-----------------------------------------------------------------------------
(* No assertion of the tool fails and no transfer is refused unexpectedly,    *)
(* whatever the sources of the waterfall hold: draws take the target, in the  *)
(* order of the sources, and a linked batch with one bad transfer leaves no   *)
(* trace.  And the throughput reported is what TigerBeetle has posted, less    *)
(* what calls with an error have: no batch in flight when the time is over is  *)
(* missed or counted early.                                                 *)
VerifyPasses ==
    /\ step # "failed"
    /\ step = "done" =>
         totalTransfers + unanswered =
            MapThenSumSet(LAMBDA g : cluster.accounts[creditOf(g)].credits_posted, Goroutines)
=============================================================================
