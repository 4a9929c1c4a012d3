------------------------------- MODULE Verify -------------------------------
(***************************************************************************)
(* The verify command of the stress tool (cmd/stress/verify.go): a client    *)
(* that sends concurrent deposits and withdrawals, then transfers, and        *)
(* compares the balances it is shown with what it was told.                  *)
(*                                                                         *)
(* A request is executed at one instant or refused, as in AtomicLedger.       *)
(* Between the ledger and what the client is told stand the client's timeout, *)
(* after which a request may still be executed; the API, which answers an     *)
(* error when the answer to a statement or a COMMIT is lost, executed or not; *)
(* the HTTP transport, which sends a request with an Idempotency-Key again    *)
(* when its connection breaks before the answer, though Deposit and Withdraw  *)
(* do not look at the key; and the list of accounts, which shows the newest   *)
(* first and is cut off at a limit.                                         *)
(***************************************************************************)
EXTENDS Integers, Sequences, FiniteSets, SequencesExt, FiniteSetsExt

CONSTANTS
    Accounts,        \* ids, in the order in which Seed creates the accounts
    Existing,        \* how many there may be when the command starts
    MinAccounts,     \* fewer are refused; 10 in the code
    PoolSize,        \* accounts used; 1000 in the code
    Limit,           \* accounts listed; 2000 in the code
    Opening,         \* balance of an account
    Amount,          \* -amount
    opsPerAccount, transferCount,
    chunkSize,     \* requests of a chunk; 50 in the code
    MaxUntold        \* bound: requests whose fate the client is not told

ASSUME VerifyAssumption ==
    /\ Accounts = 1 .. Cardinality(Accounts)
    /\ Existing \subseteq 0 .. Cardinality(Accounts)
    /\ {MinAccounts, PoolSize, Limit, opsPerAccount, transferCount, chunkSize}
          \subseteq Nat \ {0}
    /\ {Opening, Amount, MaxUntold} \subseteq Nat

VARIABLES
    balance,      \* the server's accounts, in the order of their creation
    running,      \* requests the server has got and not finished
    again,        \* those it has got twice
    applied,      \* those it executed
    phase,        \* "load", "scenario1", "reload", "scenario2", "end" or "exit"
    pool,         \* the accounts in use
    initial,      \* what they held when the scenario began
    todo,         \* operations not sent yet
    results,      \* of the current chunk: "waiting", "ok" or "failed"
    netOps,       \* scenario 1: deposits less withdrawals that succeeded
    alarms,       \* accounts that fail scenario 1, SumAlarm, NotFetched
    untold,       \* history: requests sent twice, or reported failed although
                  \* they may have been executed, or may be later
    stragglers,   \* history: of those, the ones executed in scenario 2
    unlisted      \* history: accounts of the pool a final list did not show

server == <<balance, running, again, applied>>
history == <<untold, stragglers, unlisted>>
verifyVars == <<server, phase, pool, initial, todo, results, netOps, alarms, history>>

SumAlarm == 0

NotFetched == -1

Created == 1 .. Len(balance)

(* GetAllUsers: newest first, up to the limit. *)
Listed == {a \in Created : Len(balance) - a < Limit}

VerifyInit ==
    /\ \E n \in Existing : balance = [a \in 1 .. n |-> Opening]
    /\ running = {} /\ again = {} /\ applied = {}
    /\ phase = "load"
    /\ pool = {} /\ initial = << >> /\ todo = {} /\ results = << >> /\ netOps = << >>
    /\ alarms = {}
    /\ untold = {} /\ stragglers = {} /\ unlisted = {}

-----------------------------------------------------------------------------
(* The server *)

(* Somebody seeds another account. *)
Seed ==
    /\ Len(balance) < Cardinality(Accounts) /\ phase \notin {"end", "exit"}
    /\ balance' = Append(balance, Opening)
    /\ UNCHANGED <<running, again, applied, phase, pool, initial, todo, results, netOps,
                   alarms, history>>

(* A request, or one of the two, is done with. *)
Done(o) ==
    /\ running' = IF o \in again THEN running ELSE running \ {o}
    /\ again' = again \ {o}

Executed(o) ==
    CASE o.op = "deposit"  -> [balance EXCEPT ![o.src] = @ + Amount]
      [] o.op = "withdraw" -> [balance EXCEPT ![o.src] = @ - Amount]
      [] o.op = "transfer" -> [balance EXCEPT ![o.src] = @ - Amount,
                                              ![o.dst] = @ + Amount]

Execute(o) ==
    /\ o.op = "transfer" => o \notin applied /\ balance[o.src] >= Amount
    /\ balance' = Executed(o)
    /\ Done(o)
    /\ applied' = applied \cup {o}
    /\ stragglers' = stragglers \cup
          {x \in {o} : x.op # "transfer" /\ phase = "scenario2"}
    /\ UNCHANGED <<phase, pool, initial, todo, results, netOps, alarms, untold, unlisted>>

(* Too little money, a lock timeout, a lost connection, a transfer whose key   *)
(* is there already: nothing is done.                                        *)
Refuse(o) ==
    /\ Done(o)
    /\ UNCHANGED <<balance, applied, phase, pool, initial, todo, results, netOps,
                   alarms, history>>

-----------------------------------------------------------------------------
(* The client *)

Operations(P) ==
    [op : {"deposit", "withdraw"}, src : P, dst : {0}, n : 1 .. opsPerAccount]

(* The accounts of P and what the list shows of them. *)
Use(P) == pool' = P /\ initial' = [a \in P |-> balance[a]]

StartScenario1(P) ==
    /\ phase' = "scenario1"
    /\ todo' = Operations(P)
    /\ netOps' = [a \in P |-> 0]

(* Loading the accounts; the command exits if that fails or they are too few. *)
Load ==
    /\ phase = "load"
    /\ LET P == {a \in Listed : Len(balance) - a < PoolSize}
       IN  \/ /\ Cardinality(Listed) >= MinAccounts
              /\ Use(P) /\ StartScenario1(P)
           \/ phase' = "exit" /\ UNCHANGED <<pool, initial, todo, netOps>>
    /\ UNCHANGED <<server, results, alarms, history>>

(* The next chunk of the shuffled operations is sent, a goroutine each. *)
SendChunk ==
    /\ results = << >> /\ todo # {}
    /\ \E chunk \in kSubset(IF Cardinality(todo) < chunkSize THEN Cardinality(todo)
                            ELSE chunkSize, todo) :
          /\ todo' = todo \ chunk
          /\ running' = running \cup chunk
          /\ results' = [o \in chunk |-> "waiting"]
    /\ UNCHANGED <<balance, again, applied, phase, pool, initial, netOps, alarms, history>>

Waiting(o) == o \in DOMAIN results /\ results[o] = "waiting"

(* What may be said of a request: of one sent twice, either of its two fates.  *)
Outcomes(o) ==
    {r \in {"ok", "failed"} :
        /\ r = "ok" => o \in applied
        /\ r = "failed" => o \notin applied \/ o \in untold}

(* The answer of a request arrives. *)
Answer(o) ==
    /\ Waiting(o) /\ (o \in running => o \in untold)
    /\ \E r \in Outcomes(o) : results' = [results EXCEPT ![o] = r]
    /\ UNCHANGED <<server, phase, pool, initial, todo, netOps, alarms, history>>

Untell(o) ==
    /\ o \notin untold /\ Cardinality(untold) < MaxUntold
    /\ untold' = untold \cup {o}

(* doTxn reports a failure, and nobody knows whether the request has been      *)
(* executed, is later, or never will be: requestTimeout is over, or the API    *)
(* answers an error of the connection to its database.                       *)
ReportFailed(o) ==
    /\ Waiting(o) /\ Untell(o)
    /\ results' = [results EXCEPT ![o] = "failed"]
    /\ UNCHANGED <<server, phase, pool, initial, todo, netOps, alarms, stragglers, unlisted>>

(* The transport sends a request again; the first may still be running. *)
Resend(o) ==
    /\ Waiting(o) /\ Untell(o)
    /\ running' = running \cup {o}
    /\ again' = IF o \in running THEN again \cup {o} ELSE again
    /\ UNCHANGED <<balance, applied, phase, pool, initial, todo, results, netOps, alarms,
                   stragglers, unlisted>>

ChunkDoneEarly == results # << >> /\ \E o \in DOMAIN results : results[o] # "waiting"


(* wg.Wait returns. *)
ChunkDone == results # << >> /\ \A o \in DOMAIN results : results[o] # "waiting"

Counted(a, op, result) ==
    Cardinality({o \in DOMAIN results : o.src = a /\ o.op = op /\ results[o] \in result})

Net(a) == Counted(a, "deposit", {"ok"}) - Counted(a, "withdraw", {"ok"})

(* The results of the chunk are counted. *)
Tally ==
    /\ ChunkDone
    /\ netOps' = [a \in DOMAIN netOps |-> netOps[a] + Net(a)]
    /\ results' = << >>
    /\ UNCHANGED <<server, phase, pool, initial, todo, alarms, history>>

AllSent == todo = {} /\ results = << >>

(* The balance the final list shows; for an account it does not show, the     *)
(* balance at the start.                                                     *)
Shown(a) == IF a \in Listed THEN balance[a] ELSE initial[a]

(* The end of scenario 1; it also fails when the list cannot be fetched.      *)
Check1 ==
    /\ phase = "scenario1" /\ AllSent
    /\ phase' = "reload"
    /\ \/ /\ alarms' = {a \in pool : initial[a] + netOps[a] * Amount # Shown(a)}
          /\ unlisted' = pool \ Listed
       \/ alarms' = {NotFetched} /\ UNCHANGED unlisted
    /\ UNCHANGED <<server, pool, initial, todo, results, netOps, untold, stragglers>>

Transfers(P) ==
    {f \in [1 .. transferCount -> [src : P, dst : P]] :
        \A i \in 1 .. transferCount : f[i].src # f[i].dst}

(* Scenario 2 uses the accounts of the pool that the new list still shows;    *)
(* with fewer than two the choice of a transfer panics.                      *)
Reload ==
    /\ phase = "reload"
    /\ LET P == pool \cap Listed
       IN  \/ /\ Cardinality(P) >= 2
              /\ phase' = "scenario2"
              /\ Use(P)
              /\ \E f \in Transfers(P) :
                    todo' = {[op |-> "transfer", src |-> f[i].src, dst |-> f[i].dst, n |-> i] :
                                i \in 1 .. transferCount}
              /\ netOps' = << >>
           \/ phase' = "exit" /\ UNCHANGED <<pool, initial, todo, netOps>>
    /\ unlisted' = {}
    /\ UNCHANGED <<server, results, alarms, untold, stragglers>>

(* The end of scenario 2: the sum over the pool. *)
SumOf(f) == FoldSet(LAMBDA a, s : f[a] + s, 0, pool)

Check2 ==
    /\ phase = "scenario2" /\ AllSent
    /\ phase' = "end"
    /\ \/ /\ alarms' = alarms \cup
                {x \in {SumAlarm} : SumOf([a \in pool |-> Shown(a)]) # SumOf(initial)}
          /\ unlisted' = pool \ Listed
       \/ alarms' = alarms \cup {NotFetched} /\ UNCHANGED unlisted
    /\ UNCHANGED <<server, pool, initial, todo, results, netOps, untold, stragglers>>

Client == Load \/ SendChunk \/ Tally \/ Check1 \/ Reload \/ Check2

Finish == \E o \in running : Execute(o) \/ Refuse(o)

Answered == \E o \in DOMAIN results : Answer(o)

VerifyNext ==
    \/ Seed \/ Finish \/ Client \/ Answered
    \/ \E o \in DOMAIN results : ReportFailed(o) \/ Resend(o)

(* The server is done with every request in the end, and its answer arrives;  *)
(* a timeout is not relied on.                                               *)
VerifyFairness ==
    WF_verifyVars(Client) /\ WF_verifyVars(Finish) /\ WF_verifyVars(Answered)

VerifySpec == VerifyInit /\ [][VerifyNext]_verifyVars /\ VerifyFairness

-----------------------------------------------------------------------------
(* Type correctness. *)
VerifyTypeOK ==
    /\ balance \in Seq(Int)
    /\ \A o \in running \cup applied \cup todo \cup DOMAIN results :
          o.op \in {"deposit", "withdraw", "transfer"} /\ o.src \in Created
    /\ phase \in {"load", "scenario1", "reload", "scenario2", "end", "exit"}
    /\ pool \subseteq Created /\ DOMAIN initial = pool
    /\ \A o \in DOMAIN results : results[o] \in {"waiting", "ok", "failed"}
    /\ \A a \in DOMAIN netOps : netOps[a] \in -opsPerAccount .. opsPerAccount
    /\ alarms \subseteq Accounts \cup {SumAlarm, NotFetched}

(* A failed scenario has a reason.  Scenario 1 fails for an account only if   *)
(* the final list does not show it, or one of its requests was executed and   *)
(* reported as failed (a timeout, or an answer lost within the API), or was   *)
(* sent twice: a request that was refused, or told of, alarms nobody.         *)
(* Scenario 2 fails only if a request of scenario 1 was executed after the    *)
(* balances were reloaded, or the list does not show an account: transfers    *)
(* leave the sum alone, whatever is reported of them.                        *)
AlarmsExplained ==
    /\ phase = "reload" =>
          \A a \in alarms \cap pool :
             a \in unlisted \/ \E o \in untold \cap applied : o.src = a
    /\ phase = "end" /\ SumAlarm \in alarms => stragglers # {} \/ unlisted # {}
=============================================================================
