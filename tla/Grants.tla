------------------------------- MODULE Grants -------------------------------
(***************************************************************************)
(* internal/grants/service.go over PostgreSQL at READ COMMITTED: credit    *)
(* grants that expire, are drawn down, and pay for a waterfall debit before *)
(* the cash balance does.                                                  *)
(*                                                                         *)
(* A grant is named by the idempotency key it was issued under.  balance,  *)
(* entries, grants and audit are the committed tables; what an open        *)
(* transaction has locked, read and taken is in the variables of its       *)
(* process.  SELECT ... FOR UPDATE and UPDATE lock their rows one by one,  *)
(* and other processes run between two of them; of grants with the same    *)
(* priority and expiry either may come first.                              *)
(***************************************************************************)
EXTENDS GrantBase

CONSTANTS
    GrantOps,     \* operations the clients call
    Procs,        \* requests that can be in progress at once
    MaxClock,     \* bound: the clock runs from 0 to MaxClock
    MaxRequests   \* bound: how many requests and cash movements arrive

VARIABLES
    balance, entries,    \* cash: the accounts and ledger_entries tables
    grants, audit,       \* the credit_grants and grant_ledger_entries tables
    clock,               \* the database's clock
    pc, req, reply,      \* as in Ledger
    now,                 \* now() of an open transaction: when it began
    plan,                \* grants its statement has still to lock
    locked,              \* grants whose row lock it holds
    found,               \* locked grants that satisfy the WHERE clause
    read,                \* the remaining_amount it read under the lock
    taken,               \* what it takes from each grant
    left,                \* the code's "remaining": what is still to be taken
    cash,                \* the cash balance WaterfallDebit read
    started

tables == <<balance, entries, grants, audit>>
local == <<now, plan, locked, found, read, taken, left, cash>>
vars == <<tables, clock, pc, req, reply, local, started>>

ASSUME GrantsAssumption ==
    /\ MaxClock \in Nat /\ MaxRequests \in Nat
    /\ GrantOps \subseteq {"issue", "drawdown", "waterfall", "expire"}

(* Drawdown and WaterfallDebit drop the key they are given. *)
Request ==
    {r \in    [op : {"issue"}, key : Keys, account : AccountIDs,
               amount : Amounts, terms : Terms]
         \cup [op : {"drawdown", "waterfall"}, key : {NoKey},
               account : AccountIDs, amount : Amounts, terms : {NoKey}]
         \cup [op : {"expire"}, key : {NoKey}, account : {0}, amount : {1},
               terms : {NoKey}] : r.op \in GrantOps}

NoRequest == [op |-> "none", key |-> NoKey, account |-> 0, amount |-> 0,
              terms |-> NoKey]

Nothing == [g \in Keys |-> 0]

-----------------------------------------------------------------------------
Active(g) == grants[g].status = "ACTIVE"

MatchesAnyStatus(p, g) ==
    /\ grants[g].status # "NONE"
    /\ CASE req[p].op = "drawdown" -> grants[g].account = req[p].account
         [] req[p].op = "waterfall" ->
              /\ grants[g].account = req[p].account
              /\ grants[g].remaining > 0 /\ grants[g].expires > now[p]
         [] req[p].op = "expire" -> grants[g].expires < now[p]

(* The WHERE clause of the statement that reads p's grants.  A row that was *)
(* waited for is compared again, as it then is.                             *)
Matches(p, g) ==
    /\ Active(g)
    /\ CASE req[p].op = "drawdown" -> grants[g].account = req[p].account
         [] req[p].op = "waterfall" ->
              /\ grants[g].account = req[p].account
              /\ grants[g].remaining > 0 /\ grants[g].expires > now[p]
         [] req[p].op = "expire" -> grants[g].expires < now[p]

Smaller(x, y) == IF x <= y THEN x ELSE y

-----------------------------------------------------------------------------
(* Locks. *)

(* WaterfallDebit holds its account row FOR UPDATE to its end. *)
HoldsAccount(p, a) ==
    /\ pc[p] \in {"select", "lock", "consume"}
    /\ req[p].op = "waterfall" /\ req[p].account = a

AccountFree(p, a) == \A q \in Procs \ {p} : ~HoldsAccount(q, a)

GrantFreeUnlocked(p, g) == TRUE

GrantFree(p, g) == \A q \in Procs \ {p} : g \notin locked[q]

FirstOfUnordered(p, S) == S

(* The grants of S that may come first; an UPDATE goes through its rows in   *)
(* no particular order.                                                     *)
FirstOf(p, S) ==
    IF req[p].op = "expire" THEN S
    ELSE {g \in S : \A h \in S : ~Earlier(grants[h], grants[g])}

(* p may be waiting for q. *)
WaitsFor(p, q) ==
    /\ p # q
    /\ \/ /\ pc[p] = "lock" /\ left[p] > 0
          /\ \E g \in FirstOf(p, plan[p]) : g \in locked[q]
       \/ pc[p] \in {"account", "insert"} /\ HoldsAccount(q, req[p].account)

-----------------------------------------------------------------------------
Forget(p) ==
    /\ plan' = [plan EXCEPT ![p] = {}]
    /\ locked' = [locked EXCEPT ![p] = {}]
    /\ found' = [found EXCEPT ![p] = {}]
    /\ read' = [read EXCEPT ![p] = Nothing]
    /\ taken' = [taken EXCEPT ![p] = Nothing]
    /\ left' = [left EXCEPT ![p] = 0]
    /\ cash' = [cash EXCEPT ![p] = 0]
    /\ now' = [now EXCEPT ![p] = 0]

Return(p, result) ==
    /\ pc' = [pc EXCEPT ![p] = "idle"]
    /\ reply' = [reply EXCEPT ![p] = result]
    /\ Forget(p)

Goto(p, label) ==
    /\ pc' = [pc EXCEPT ![p] = label]
    /\ UNCHANGED reply

Init ==
    /\ balance = Opening
    /\ entries = [a \in Accounts |-> OpeningEntries(a)]
    /\ grants = Issued
    /\ audit = [g \in Keys |-> << >>]
    /\ clock = 0
    /\ pc = [p \in Procs |-> "idle"]
    /\ req = [p \in Procs |-> NoRequest]
    /\ reply = [p \in Procs |-> "none"]
    /\ now = [p \in Procs |-> 0]
    /\ plan = [p \in Procs |-> {}]
    /\ locked = [p \in Procs |-> {}]
    /\ found = [p \in Procs |-> {}]
    /\ read = [p \in Procs |-> Nothing]
    /\ taken = [p \in Procs |-> Nothing]
    /\ left = [p \in Procs |-> 0]
    /\ cash = [p \in Procs |-> 0]
    /\ started = 0

(* A request arrives.  The issue handler refuses an expiry in the past, and *)
(* every operation an amount that is not positive; the others begin their    *)
(* transaction, whose now() is fixed from then on.                           *)
Start(p, r) ==
    /\ pc[p] = "idle"
    /\ started < MaxRequests
    /\ started' = started + 1
    /\ req' = [req EXCEPT ![p] = r]
    /\ \/ /\ r.op = "issue" /\ r.terms.expires < clock
          /\ Return(p, "BadRequest")
       \/ /\ r.op = "issue" => r.terms.expires >= clock
          /\ r.amount <= 0
          /\ Return(p, "ErrInvalidAmount")
       \/ /\ r.op = "issue" => r.terms.expires >= clock
          /\ r.amount > 0
          /\ Goto(p, CASE r.op = "issue" -> "key"
                       [] r.op = "waterfall" -> "account"
                       [] OTHER -> "select")
          /\ now' = [now EXCEPT ![p] = clock]
          /\ left' = [left EXCEPT ![p] = r.amount]
          /\ UNCHANGED <<plan, locked, found, read, taken, cash>>
    /\ UNCHANGED <<tables, clock>>

(* IssueGrant: a grant with the key is returned as it is.  Accounts are     *)
(* never deleted, so it does not matter when their existence is checked.    *)
IssueCheckKey(p) ==
    /\ pc[p] = "key"
    /\ \/ grants[req[p].key] # NoGrant /\ Return(p, "ok")
       \/ /\ grants[req[p].key] = NoGrant
          /\ req[p].account \notin Accounts
          /\ Return(p, "ErrAccountNotFound")
       \/ /\ grants[req[p].key] = NoGrant
          /\ req[p].account \in Accounts
          /\ Goto(p, "insert")
          /\ UNCHANGED local
    /\ UNCHANGED <<tables, clock, req, started>>

CreateGrantNoForeignKey(p) ==
    /\ pc[p] = "insert"
    /\ grants' = [grants EXCEPT ![req[p].key] =
                     NewGrant(req[p].account, req[p].amount, req[p].terms)]
    /\ Return(p, "ok")
    /\ UNCHANGED <<balance, entries, audit, clock, req, started>>

(* IssueGrant: INSERT INTO credit_grants.  The unique index refuses a key   *)
(* that another request used in the meantime; the foreign key makes the     *)
(* insert wait while the account row is locked FOR UPDATE.                   *)
CreateGrant(p) ==
    LET r == req[p] IN
    /\ pc[p] = "insert"
    /\ \/ /\ grants[r.key] # NoGrant
          /\ Return(p, "error")
          /\ UNCHANGED grants
       \/ /\ grants[r.key] = NoGrant
          /\ AccountFree(p, r.account)
          /\ grants' = [grants EXCEPT ![r.key] = NewGrant(r.account, r.amount, r.terms)]
          /\ \E result \in {"ok", "error"} : Return(p, result)
    /\ UNCHANGED <<balance, entries, audit, clock, req, started>>

(* WaterfallDebit: SELECT balance FROM accounts ... FOR UPDATE. *)
LockAccount(p) ==
    LET a == req[p].account IN
    /\ pc[p] = "account"
    /\ \/ a \notin Accounts /\ Return(p, "ErrAccountNotFound")
       \/ /\ a \in Accounts
          /\ AccountFree(p, a)
          /\ cash' = [cash EXCEPT ![p] = balance[a]]
          /\ Goto(p, "select")
          /\ UNCHANGED <<now, plan, locked, found, read, taken, left>>
    /\ UNCHANGED <<tables, clock, req, started>>

(* The statement takes its snapshot.  Drawdown reads without locking, adds  *)
(* up what it read and only then locks the grants one by one.               *)
SelectGrants(p) ==
    LET S == {g \in Keys : Matches(p, g)} IN
    /\ pc[p] = "select"
    /\ IF /\ req[p].op = "drawdown"
          /\ MapThenSumSet(LAMBDA g : grants[g].remaining, S) < req[p].amount
         THEN Return(p, "ErrInsufficientGrants")
         ELSE /\ plan' = [plan EXCEPT ![p] = S]
              /\ Goto(p, "lock")
              /\ UNCHANGED <<now, locked, found, read, taken, left, cash>>
    /\ UNCHANGED <<tables, clock, req, started>>

(* p locks the next row; one that no longer matches stays locked and is      *)
(* skipped.                                                                  *)
LockGrant(p, g) ==
    /\ pc[p] = "lock"
    /\ g \in FirstOf(p, plan[p])
    /\ GrantFree(p, g)
    /\ plan' = [plan EXCEPT ![p] = @ \ {g}]
    /\ locked' = [locked EXCEPT ![p] = @ \cup {g}]
    /\ UNCHANGED <<tables, clock, pc, req, reply, now, cash, started>>

(* WaterfallDebit and ExpireGrants: the rows of one statement. *)
CollectGrant(p, g) ==
    /\ req[p].op # "drawdown"
    /\ LockGrant(p, g)
    /\ IF Matches(p, g)
         THEN /\ found' = [found EXCEPT ![p] = @ \cup {g}]
              /\ read' = [read EXCEPT ![p][g] = grants[g].remaining]
         ELSE UNCHANGED <<found, read>>
    /\ UNCHANGED <<taken, left>>

DrawGrantWhole(p, g) ==
    /\ req[p].op = "drawdown" /\ left[p] > 0
    /\ LockGrant(p, g)
    /\ read' = [read EXCEPT ![p][g] = grants[g].remaining]
    /\ taken' = [taken EXCEPT ![p][g] = left[p]]
    /\ left' = [left EXCEPT ![p] = 0]
    /\ UNCHANGED found

(* Drawdown: GetGrantForUpdate, then DepleteGrant or DrawdownGrant. *)
DrawGrant(p, g) ==
    LET amount == Smaller(grants[g].remaining, left[p]) IN
    /\ req[p].op = "drawdown" /\ left[p] > 0
    /\ LockGrant(p, g)
    /\ IF Matches(p, g)
         THEN /\ read' = [read EXCEPT ![p][g] = grants[g].remaining]
              /\ taken' = [taken EXCEPT ![p][g] = amount]
              /\ left' = [left EXCEPT ![p] = @ - amount]
         ELSE UNCHANGED <<read, taken, left>>
    /\ UNCHANGED found

CheckFundsSkipped(p) ==
    /\ pc[p] = "lock" /\ req[p].op = "waterfall" /\ plan[p] = {}
    /\ Goto(p, "consume")
    /\ UNCHANGED <<local, tables, clock, req, started>>

(* WaterfallDebit: with every row locked, is there enough? *)
CheckFunds(p) ==
    /\ pc[p] = "lock" /\ req[p].op = "waterfall" /\ plan[p] = {}
    /\ IF MapThenSumSet(LAMBDA g : read[p][g], found[p]) + cash[p] < req[p].amount
         THEN Return(p, "ErrInsufficientFunds")
         ELSE Goto(p, "consume") /\ UNCHANGED local
    /\ UNCHANGED <<tables, clock, req, started>>

(* WaterfallDebit: take what is needed from the next locked grant. *)
ConsumeGrant(p, g) ==
    LET amount == Smaller(read[p][g], left[p]) IN
    /\ pc[p] = "consume" /\ left[p] > 0
    /\ g \in FirstOf(p, found[p])
    /\ found' = [found EXCEPT ![p] = @ \ {g}]
    /\ taken' = [taken EXCEPT ![p][g] = amount]
    /\ left' = [left EXCEPT ![p] = @ - amount]
    /\ UNCHANGED <<tables, clock, pc, req, reply, now, plan, locked, read, cash,
                   started>>

-----------------------------------------------------------------------------
ConsumeStillActive(p) ==
    /\ grants' = [g \in Keys |-> [grants[g] EXCEPT !.remaining = @ - taken[p][g]]]
    /\ audit' = [g \in Keys |->
          IF taken[p][g] = 0 THEN audit[g]
          ELSE Append(audit[g], Drawn(taken[p][g], read[p][g]))]

(* What COMMIT publishes.  DepleteGrant writes zero, DrawdownGrant subtracts *)
(* from the row; the audit entry is computed from the value read.            *)
Consume(p) ==
    /\ grants' = [g \in Keys |->
          IF taken[p][g] = 0 THEN grants[g]
          ELSE IF taken[p][g] = read[p][g]
               THEN [grants[g] EXCEPT !.remaining = 0, !.status = "DEPLETED"]
               ELSE [grants[g] EXCEPT !.remaining = @ - taken[p][g]]]
    /\ audit' = [g \in Keys |->
          IF taken[p][g] = 0 THEN audit[g]
          ELSE Append(audit[g], Drawn(taken[p][g], read[p][g]))]

(* A transaction ends; the answer to its COMMIT may be lost. *)
Commit(p) ==
    /\ \E result \in {"ok", "error"} : Return(p, result)
    /\ UNCHANGED <<clock, req, started>>

CommitDrawdown(p) ==
    /\ pc[p] = "lock" /\ req[p].op = "drawdown"
    /\ plan[p] = {} \/ left[p] = 0
    /\ Consume(p)
    /\ Commit(p)
    /\ UNCHANGED <<balance, entries>>

(* WaterfallDebit: what the grants did not cover comes from cash. *)
CommitWaterfall(p) ==
    LET a == req[p].account IN
    /\ pc[p] = "consume"
    /\ found[p] = {} \/ left[p] = 0
    /\ Consume(p)
    /\ IF left[p] > 0
         THEN /\ balance' = [balance EXCEPT ![a] = @ - left[p]]
              /\ entries' = [entries EXCEPT
                    ![a] = Append(@, Debit(left[p], cash[p] - left[p], NoKey))]
         ELSE UNCHANGED <<balance, entries>>
    /\ Commit(p)

(* ExpireGrants: UPDATE ... SET status = 'EXPIRED'. *)
CommitExpiry(p) ==
    /\ pc[p] = "lock" /\ req[p].op = "expire" /\ plan[p] = {}
    /\ grants' = [g \in Keys |->
          IF g \in found[p] THEN [grants[g] EXCEPT !.status = "EXPIRED"]
          ELSE grants[g]]
    /\ Commit(p)
    /\ UNCHANGED <<balance, entries, audit>>

(* Any statement may fail or time out in its wait; the deferred Rollback    *)
(* releases the locks.                                                       *)
Abort(p) ==
    /\ pc[p] # "idle"
    /\ Return(p, "error")
    /\ UNCHANGED <<tables, clock, req, started>>

(* The ledger's deposits and withdrawals, as AtomicLedger has them; the     *)
(* update waits for the account row.                                        *)
MoveCash(a, amount, entry) ==
    /\ started < MaxRequests
    /\ started' = started + 1
    /\ \A p \in Procs : ~HoldsAccount(p, a)
    /\ balance' = [balance EXCEPT ![a] = @ + amount]
    /\ entries' = [entries EXCEPT ![a] = Append(@, entry)]
    /\ UNCHANGED <<grants, audit, clock, pc, req, reply, local>>

Deposit(a, amount) ==
    amount > 0 /\ MoveCash(a, amount, Credit(amount, balance[a] + amount, NoKey))

Withdraw(a, amount) ==
    amount > 0 /\ MoveCash(a, -amount, Debit(amount, balance[a] - amount, NoKey))

Tick ==
    /\ clock < MaxClock
    /\ clock' = clock + 1
    /\ UNCHANGED <<tables, pc, req, reply, local, started>>

Step(p) ==
    \/ IssueCheckKey(p) \/ CreateGrant(p)
    \/ LockAccount(p) \/ SelectGrants(p)
    \/ \E g \in Keys : CollectGrant(p, g) \/ DrawGrant(p, g) \/ ConsumeGrant(p, g)
    \/ CheckFunds(p)
    \/ CommitDrawdown(p) \/ CommitWaterfall(p) \/ CommitExpiry(p)

Next ==
    \/ \E p \in Procs :
          \/ \E r \in Request : Start(p, r)
          \/ Step(p)
          \/ Abort(p)
    \/ \E a \in Accounts, amount \in Amounts :
          Deposit(a, amount) \/ Withdraw(a, amount)
    \/ Tick

Spec == Init /\ [][Next]_vars

-----------------------------------------------------------------------------
(* Type correctness of the tables and of the open transactions. *)
TypeOK ==
    /\ balance \in [Accounts -> Int]
    /\ entries \in [Accounts -> Seq(Entry)]
    /\ grants \in [Keys -> Grant \cup {NoGrant}]
    /\ audit \in [Keys -> Seq([amount : Nat \ {0}, after : Nat])]
    /\ clock \in 0 .. MaxClock
    /\ pc \in [Procs -> {"idle", "key", "insert", "account", "select", "lock",
                         "consume"}]
    /\ req \in [Procs -> Request \cup {NoRequest}]
    /\ \A p \in Procs : pc[p] # "idle" => req[p] \in Request
    /\ reply \in [Procs -> {"none", "ok", "error", "BadRequest",
                            "ErrInvalidAmount", "ErrAccountNotFound",
                            "ErrInsufficientGrants", "ErrInsufficientFunds"}]
    /\ now \in [Procs -> 0 .. MaxClock]
    /\ plan \in [Procs -> SUBSET Keys]
    /\ locked \in [Procs -> SUBSET Keys]
    /\ found \in [Procs -> SUBSET Keys]
    /\ read \in [Procs -> [Keys -> Nat]]
    /\ taken \in [Procs -> [Keys -> Nat]]
    /\ left \in [Procs -> Nat]
    /\ cash \in [Procs -> Int]
    /\ started \in 0 .. MaxRequests

(* What a transaction read of a grant it takes from, and of its account, is *)
(* still what the tables say when it commits, and the grant is still ACTIVE: *)
(* DrawdownGrant's own condition is never what refuses it.                   *)
ReadsAreCurrent ==
    \A p \in Procs :
       /\ \A g \in Keys :
             taken[p][g] > 0 \/ g \in found[p] =>
                /\ g \in locked[p] /\ Active(g)
                /\ read[p][g] = grants[g].remaining
                /\ taken[p][g] <= read[p][g]
       /\ \A a \in Accounts : HoldsAccount(p, a) => cash[p] = balance[a]

(* A row has one lock holder, and rows are locked by transactions only. *)
OneHolder ==
    /\ \A p, q \in Procs : p # q => locked[p] \cap locked[q] = {}
    /\ \A p, q \in Procs : \A a \in Accounts :
          HoldsAccount(p, a) /\ HoldsAccount(q, a) => p = q

(* The audit trail of a grant: every drawdown took a positive amount, left   *)
(* what the one before it left less that amount, and the last one left the   *)
(* grant's remaining_amount; the grant is DEPLETED exactly when that is      *)
(* nothing.  A drawdown or waterfall that overwrote another one's update,    *)
(* or left its grant's status behind, would break this.                      *)
GrantAudit ==
    \A g \in Keys :
       LET e == audit[g]
           After(i) == IF i = 0 THEN grants[g].initial ELSE e[i].after
       IN  /\ \A i \in 1 .. Len(e) :
                 e[i].amount > 0 /\ e[i].after = After(i - 1) - e[i].amount
           /\ grants[g].remaining = After(Len(e))
           /\ grants[g] # NoGrant =>
                 (grants[g].status = "DEPLETED" <=> grants[g].remaining = 0)

CommitsWaterfall(p) ==
    /\ pc[p] = "consume" /\ pc'[p] = "idle"
    /\ grants' # grants \/ balance' # balance

Drop == Sum([g \in Keys |-> grants[g].remaining - grants'[g].remaining])

(* A waterfall debit takes exactly its amount, from the grants and the cash  *)
(* of its account together, and leaves no overdraft when it takes cash.      *)
WaterfallExact ==
    [][\A p \in Procs :
         CommitsWaterfall(p) =>
            LET a == req[p].account
                paid == balance[a] - balance'[a]
            IN  /\ Drop + paid = req[p].amount
                /\ paid >= 0
                /\ paid > 0 => balance'[a] >= 0]_vars

(* Grants before cash, and in order: when a waterfall commits, no grant of   *)
(* its account that it could still have used comes before one it used, and   *)
(* none at all is left if it took cash.  Grants issued, drawn down or        *)
(* expired while it ran included.  The order is that of the queries, by      *)
(* priority and then by expiry; the comments of grants/service.go (84, 195,  *)
(* 198) name the expiry alone, which is EarliestExpiringFirst below.         *)
GrantsBeforeCash ==
    [][\A p \in Procs :
         CommitsWaterfall(p) =>
            \A h \in Keys :
               /\ grants'[h].status = "ACTIVE" /\ grants'[h].expires > now[p]
               /\ grants'[h].account = req[p].account
               => /\ UNCHANGED balance
                  /\ \A g \in Keys : taken[p][g] > 0 => ~Earlier(grants[h], grants[g])]_vars

(* Each request happens at one instant, statement by statement and lock by    *)
(* lock as it may run: a step commits one operation of AtomicGrants whole, or *)
(* leaves the tables alone.                                                  *)
Atomic == INSTANCE AtomicGrants WITH
    balance <- balance, entries <- entries, grants <- grants, audit <- audit,
    clock <- clock
ImplementsAtomicGrants == Atomic!Spec

(* The order of the comments: what is drawn from a grant was not to be had    *)
(* from one of the account that expires earlier.                             *)
EarliestExpiringFirst ==
    [][\A p \in Procs :
         pc[p] \in {"lock", "consume"} /\ pc'[p] = "idle" /\ grants' # grants =>
            \A g, h \in Keys :
               /\ taken[p][g] > 0
               /\ grants'[h].status = "ACTIVE" /\ grants'[h].account = req[p].account
               => grants[g].expires <= grants[h].expires]_vars

(* A drawdown that is answered with success consumed its amount. *)
DrawdownExact ==
    [][\A p \in Procs :
         /\ pc[p] = "lock" /\ req[p].op = "drawdown"
         /\ pc'[p] = "idle" /\ reply'[p] = "ok"
         => Drop = req[p].amount]_vars

(* Two grants with the same priority and expiry: ORDER BY leaves open which   *)
(* comes first.                                                              *)
Tie(g, h) ==
    /\ g # h /\ NoGrant \notin {grants[g], grants[h]}
    /\ ~Earlier(grants[g], grants[h]) /\ ~Earlier(grants[h], grants[g])

(* Deadlock needs an expiry or a tie: the locking reads of drawdowns and      *)
(* waterfalls take the account first and the grants in one order, so without  *)
(* ExpireGrants, whose UPDATE has no order, and without grants that tie, no    *)
(* group of requests waits in a cycle.                                       *)
CyclesExplained ==
    \A S \in SUBSET Procs :
       /\ S # {} /\ \A p \in S : req[p].op # "expire"
       /\ \A g, h \in Keys : ~Tie(g, h)
       =>
          \E p \in S : \A q \in S : ~WaitsFor(p, q)
=============================================================================
