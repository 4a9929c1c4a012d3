------------------------------- MODULE TBBench -------------------------------
(***************************************************************************)
(* tigerbeetle-setup/bench: workers that send transfers to TigerBeetle, with  *)
(* account ids known beforehand (TB only) or looked up in PostgreSQL         *)
(* (PG -> TB).  main.go runs the variants one after the other; in each, every *)
(* worker repeats its operation until the time is over.                     *)
(*                                                                         *)
(* Account ids are computed, and PostgreSQL's rows repeat the computation,    *)
(* so ids are numbers here too, in the ranges that tb.go gives them.          *)
(***************************************************************************)
EXTENDS TigerBeetle, FiniteSetsExt

CONSTANTS
    nWorkers,      \* concurrency
    nChains,       \* waterfall chains in one call
    nDests,        \* payees of a fan-out
    Target,        \* tbWaterfallTarget: 1 in the code
    Small, Cash,   \* sourceFunds: 50 and 1000000 in the code
    topUpEvery,    \* tbTopUpEvery: 150 in the code
    MaxOps         \* bound: operations in a behaviour

ASSUME BenchAssumption ==
    /\ nWorkers \in Nat \ {0} /\ nChains \in Nat \ {0} /\ nDests \in Nat
    /\ Target \in Nat \ {0} /\ Small \in Nat /\ Cash \in Nat
    /\ topUpEvery \in Nat \ {0} /\ MaxOps \in Nat

VARIABLES
    phase,      \* index of the variant that runs
    pc,         \* a worker: "loop", "draw" after a top-up, "fallback" after a miss
                \* of the fast path
    drawsCnt,   \* a worker's draws since the last top-up
    ops,        \* operations begun
    errors,     \* calls that returned an error
    drawn       \* history: draws of a chain that were answered with success

benchVars == <<phase, pc, drawsCnt, ops, errors, drawn>>

Workers == 0 .. nWorkers - 1
Chains == 0 .. nChains - 1

-----------------------------------------------------------------------------
(* The ids of tb.go: per chain four sources, the destination, and the two     *)
(* control accounts SETUP and LIMIT.                                         *)
waterfallBase == 10000000
chainBase(i, c) == waterfallBase + i * (nChains * 7) + c * 7
sources(i, c) == [j \in 1 .. 4 |-> chainBase(i, c) + j - 1]
destX(i, c) == chainBase(i, c) + 4
setup(i, c) == chainBase(i, c) + 5
limit(i, c) == chainBase(i, c) + 6

hot == 20000000
hotDest(i) == 20001000 + i
hotBank == 20002000
fanoutSource(i) == 30000000 + i
fanoutDest(i, j) == 31000000 + i * nDests + j
tbGlobalBank == 50000000

BenchAccounts ==
    {tbGlobalBank, hot, hotBank}
    \cup (waterfallBase .. waterfallBase + nWorkers * nChains * 7 - 1)
    \cup (UNION {{hotDest(i), fanoutSource(i)} : i \in Workers})
    \cup {fanoutDest(i, j) : i \in Workers, j \in 0 .. nDests - 1}

BenchConstrained ==
    UNION {{sources(i, c)[j] : j \in 1 .. 4} \cup {limit(i, c)} : i \in Workers, c \in Chains}

Funding == <<Small, Small, Small, Cash>>

(* tbSetupWaterfall's transfers; the top-up is the same for A, B and C. *)
Fund(i, c, n) ==
    [j \in 1 .. n |-> Transfer(tbGlobalBank, sources(i, c)[j], Funding[j], {})]

ForChains(Batch(_)) == FlattenSeq([k \in 1 .. nChains |-> Batch(k - 1)])

ForWorkers(Batch(_)) == FlattenSeq([k \in 1 .. nWorkers |-> Batch(k - 1)])

-----------------------------------------------------------------------------
(* The rows of user_accounts that pg.go inserts, and what it selects. *)
userID(i, c) == i * nChains + c

userAccounts ==
    {[user |-> userID(i, c), account |-> waterfallBase + (i * nChains + c) * 7 + pri,
      priority |-> pri] : i \in Workers, c \in Chains, pri \in 0 .. 3}

OrderedLast(user) ==
    [k \in 1 .. 4 |-> (CHOOSE r \in userAccounts : r.user = user /\ r.priority = 4 - k).account]

Ordered(user) ==
    [k \in 1 .. 4 |-> (CHOOSE r \in userAccounts : r.user = user /\ r.priority = k - 1).account]

(* lookupAccounts and lookupFirstChain: ORDER BY priority. *)
SourceIDs(i, c, resolved) == IF resolved THEN Ordered(userID(i, c)) ELSE sources(i, c)

-----------------------------------------------------------------------------
(* More than any balance of a LIMIT account; 10^12 in the code. *)
AmountMax == 1000

balancing == {"linked", "balancing_debit", "balancing_credit"}

appendChainNoCleanUp(src, x, s, l) ==
    <<Transfer(s, l, Target, {"linked"})>>
    \o [j \in 1 .. 4 |-> Transfer(src[j], s, Target, balancing)]
    \o <<Transfer(s, x, Target, {})>>

(* The seven transfers of one draw.  The last one is not linked, so it ends   *)
(* the chain and belongs to it.                                              *)
appendChain(src, x, s, l) ==
    <<Transfer(s, l, Target, {"linked"})>>
    \o [j \in 1 .. 4 |-> Transfer(src[j], s, Target, balancing)]
    \o <<Transfer(s, x, Target, {"linked"}),
         Transfer(l, s, AmountMax, {"balancing_credit"})>>

Chain(i, c, resolved) ==
    appendChain(SourceIDs(i, c, resolved), destX(i, c), setup(i, c), limit(i, c))

(* Worker i's loop runs one operation. *)
Begin(i, variant) ==
    /\ phase = variant /\ pc[i] = "loop" /\ ops < MaxOps
    /\ ops' = ops + 1
    /\ UNCHANGED phase

Goto(i, label) == pc' = [pc EXCEPT ![i] = label]

(* CreateTransfers returns an error, and the batch may have been executed.    *)
Lost(batch) ==
    /\ errors < MaxErrors /\ errors' = errors + 1
    /\ cluster' \in {cluster, CreateTransfers(cluster, batch).cluster}

TopUpDue(i) == drawsCnt[i] >= topUpEvery

(* The count starts again even if the top-up then fails; that ends the        *)
(* operation.                                                               *)
maybeTopUp(i) ==
    LET tops == ForChains(LAMBDA c : Fund(i, c, 3)) IN
    /\ phase \in 1 .. 4 /\ Begin(i, phase) /\ TopUpDue(i)
    /\ drawsCnt' = [drawsCnt EXCEPT ![i] = 0]
    /\ \/ /\ cluster' = CreateTransfers(cluster, tops).cluster
          /\ Goto(i, "draw") /\ UNCHANGED errors
       \/ Lost(tops) /\ Goto(i, "loop")
    /\ UNCHANGED drawn

(* An operation is at its draw. *)
AtDraw(i, variant) ==
    \/ ~TopUpDue(i) /\ Begin(i, variant)
    \/ phase = variant /\ pc[i] = "draw" /\ UNCHANGED <<phase, ops>>

SucceededAlways(r) == TRUE

(* tbSubmit and the fast path: no transfer of the call failed. *)
Succeeded(r) == r.failures = 0

(* doHardcoded and doWithIDs: all chains in one call. *)
DoChains(i, variant, resolved) ==
    LET batch == ForChains(LAMBDA c : Chain(i, c, resolved))
        r == CreateTransfers(cluster, batch) IN
    /\ AtDraw(i, variant) /\ Goto(i, "loop")
    /\ \/ /\ cluster' = r.cluster
          /\ drawsCnt' = [drawsCnt EXCEPT ![i] = @ + IF Succeeded(r) THEN nChains ELSE 0]
          /\ drawn' = [w \in Workers \X Chains |->
                         drawn[w] + IF w[1] = i /\ Succeeded(r) THEN 1 ELSE 0]
          /\ UNCHANGED errors
       \/ Lost(batch) /\ UNCHANGED <<drawsCnt, drawn>>

(* doOptimistic and doOptimisticWithIDs: the first source alone. *)
FastPath(i, variant, resolved) ==
    LET batch == <<Transfer(SourceIDs(i, 0, resolved)[1], destX(i, 0), Target, {})>>
        r == CreateTransfers(cluster, batch) IN
    /\ AtDraw(i, variant)
    /\ \/ /\ cluster' = r.cluster
          /\ drawsCnt' = [drawsCnt EXCEPT ![i] = @ + 1]
          /\ drawn' = [drawn EXCEPT ![<<i, 0>>] = @ + IF Succeeded(r) THEN 1 ELSE 0]
          /\ Goto(i, IF Succeeded(r) THEN "loop" ELSE "fallback")
          /\ UNCHANGED errors
       \/ Lost(batch) /\ Goto(i, "loop") /\ UNCHANGED <<drawsCnt, drawn>>

(* The whole chain, if the first source had not enough. *)
Fallback(i, variant, resolved) ==
    LET batch == Chain(i, 0, resolved)
        r == CreateTransfers(cluster, batch) IN
    /\ phase = variant /\ pc[i] = "fallback" /\ Goto(i, "loop")
    /\ \/ /\ cluster' = r.cluster
          /\ drawn' = [drawn EXCEPT ![<<i, 0>>] = @ + IF Succeeded(r) THEN 1 ELSE 0]
          /\ UNCHANGED errors
       \/ Lost(batch) /\ UNCHANGED drawn
    /\ UNCHANGED <<phase, drawsCnt, ops>>

Single(i, variant, batch) ==
    /\ Begin(i, variant)
    /\ \/ cluster' = CreateTransfers(cluster, batch).cluster /\ UNCHANGED errors
       \/ Lost(batch)
    /\ UNCHANGED <<pc, drawsCnt, drawn>>

(* The hot account, shared by all workers, and the fan-out.  The looked up    *)
(* ids are those of the TB only variants.                                    *)
DoHot(i, variant) == Single(i, variant, <<Transfer(hot, hotDest(i), 1, {})>>)

DoFanout(i, variant) ==
    Single(i, variant,
           [j \in 1 .. nDests |-> Transfer(fanoutSource(i), fanoutDest(i, j - 1), 1, {})])

(* The time is over: every worker finishes its operation, and the next        *)
(* variant starts, with the funding transfers of its scenario.               *)
SetupTransfers(v) ==
    CASE v = 1 -> ForWorkers(LAMBDA i : ForChains(LAMBDA c : Fund(i, c, 4)))
      [] v = 5 -> <<Transfer(hotBank, hot, 1000, {})>>
      [] v = 7 -> ForWorkers(LAMBDA i : <<Transfer(tbGlobalBank, fanoutSource(i), 1000, {})>>)
      [] OTHER -> << >>

NextVariant ==
    /\ phase < 8
    /\ \A i \in Workers : pc[i] = "loop"
    /\ phase' = phase + 1
    /\ cluster' = CreateTransfers(cluster, SetupTransfers(phase + 1)).cluster
    /\ UNCHANGED <<pc, drawsCnt, ops, errors, drawn>>

(* What is created before the scenarios, within the ranges of ids.            *)
ASSUME ClusterAssumption ==
    /\ BenchAccounts \subseteq Account
    /\ Constrained \cap BenchAccounts = BenchConstrained
    /\ nWorkers * nChains * 7 <= 1000000
    /\ Target < AmountMax

BenchInit ==
    /\ phase = 0
    /\ pc = [i \in Workers |-> "loop"]
    /\ drawsCnt = [i \in Workers |-> 0]
    /\ ops = 0 /\ errors = 0
    /\ drawn = [w \in Workers \X Chains |-> 0]

BenchNext ==
    \/ NextVariant
    \/ \E i \in Workers :
          \/ maybeTopUp(i)
          \/ DoChains(i, 1, FALSE) \/ DoChains(i, 2, TRUE)
          \/ FastPath(i, 3, FALSE) \/ Fallback(i, 3, FALSE)
          \/ FastPath(i, 4, TRUE) \/ Fallback(i, 4, TRUE)
          \/ DoHot(i, 5) \/ DoHot(i, 6)
          \/ DoFanout(i, 7) \/ DoFanout(i, 8)

BenchSpec ==
    /\ cluster = EmptyCluster /\ BenchInit
    /\ [][BenchNext]_<<cluster, benchVars>>

-----------------------------------------------------------------------------
Paid(a) == cluster.accounts[a].debits_posted
Received(a) == cluster.accounts[a].credits_posted
Balance(a) == Received(a) - Paid(a)

(* Between two operations a draw has happened completely or not at all: what  *)
(* the sources of a chain paid is what its destination received, a multiple   *)
(* of the target, and the control accounts are level again; no source has     *)
(* paid more than it had, on the fast path either.                           *)
ChainsSettled ==
    \A i \in Workers, c \in Chains :
       /\ MapThenSumSet(LAMBDA j : Paid(sources(i, c)[j]), 1 .. 4) = Received(destX(i, c))
       /\ Received(destX(i, c)) % Target = 0
       /\ Balance(setup(i, c)) = 0 /\ Balance(limit(i, c)) = 0
       /\ \A j \in 1 .. 4 : Balance(sources(i, c)[j]) >= 0

(* A draw answered with success has happened.  (Not the other way round: when *)
(* one chain of a call fails, the others have been executed all the same.)   *)
AnsweredDrawsHappened ==
    \A i \in Workers, c \in Chains : Received(destX(i, c)) >= Target * drawn[<<i, c>>]

(* Credits are used before cash, the first before the second: a source pays   *)
(* only when all before it have been emptied.                                *)
InPriorityOrder ==
    \A i \in Workers, c \in Chains : \A j \in 1 .. 4, h \in 1 .. 4 :
       /\ h < j
       /\ cluster'.accounts[sources(i, c)[j]].debits_posted > Paid(sources(i, c)[j])
       => LET a == cluster'.accounts[sources(i, c)[h]]
          IN  a.credits_posted = a.debits_posted
=============================================================================
