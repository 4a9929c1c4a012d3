------------------------------- MODULE Ledger -------------------------------
(***************************************************************************)
(* internal/ledger/service.go over PostgreSQL at READ COMMITTED.           *)
(*                                                                         *)
(* A process is one request being served (an HTTP handler's goroutine with *)
(* its pooled connection).  Deposit and Withdraw are one autocommit        *)
(* statement each.  Transfer is a transaction of several statements; other *)
(* processes run between any two of them, and it may fail at each.         *)
(*                                                                         *)
(* balance, entries and txns are what is committed.  What a transfer has   *)
(* written and not committed is updated[p] (the code's updatedSource and   *)
(* updatedDest); the row locks and the unique-index entry that protect it  *)
(* follow from how far it has got (Holds, HoldsKey), and end with the      *)
(* transaction.                                                            *)
(***************************************************************************)
EXTENDS LedgerBase

CONSTANTS
    Ops,         \* operations the clients call
    Procs,       \* requests that can be in progress at once
    MaxRequests  \* bound: how many requests arrive in a behaviour

ASSUME RequestsAssumption ==
    MaxRequests \in Nat /\ Ops \subseteq {"transfer", "deposit", "withdraw"}

VARIABLES
    balance, entries, txns,   \* the committed tables
    pc,                       \* the statement a process runs next
    req,                      \* the request it serves
    updated,                  \* the balances DebitAccount and CreditAccount returned
    reply,                    \* what the last request returned
    started,                  \* requests begun, at most MaxRequests
    applied                   \* history: committed executions under each key

db == <<balance, entries, txns>>
vars == <<balance, entries, txns, pc, req, updated, reply, started, applied>>

(* Deposit and Withdraw name their one account as src and as dst. *)
Request ==
    {r \in [op : Ops, key : Keys, src : AccountIDs, dst : AccountIDs,
            amount : Amounts] : r.op # "transfer" => r.src = r.dst}

NoRequest == [op |-> "none", key |-> NoKey, src |-> 0, dst |-> 0, amount |-> 0]

NoUpdate == [src |-> 0, dst |-> 0]

Errors == {"ErrInvalidAmount", "ErrSameAccount", "ErrAccountNotFound",
           "ErrCurrencyMismatch", "ErrInsufficientFunds", "ErrContention",
           "error"}

InTransaction == {"idempotency", "read", "first", "second", "insert", "commit"}

-----------------------------------------------------------------------------
(* Row locks.  A transfer updates the two rows in the order of their ids.  *)

FirstRowSourceFirst(r) == r.src

FirstRow(r) == IF r.src < r.dst THEN r.src ELSE r.dst

SecondRow(r) == IF FirstRow(r) = r.src THEN r.dst ELSE r.src

(* The row locks p's open transaction holds, from its UPDATEs to its end. *)
Holds(p, a) ==
    \/ pc[p] \in {"second", "insert", "commit"} /\ a = FirstRow(req[p])
    \/ pc[p] \in {"insert", "commit"} /\ a = SecondRow(req[p])

(* The key p has inserted into the unique index and not yet committed. *)
HoldsKey(p, k) == pc[p] = "commit" /\ req[p].key = k

RowFreeUnlocked(p, a) == TRUE

RowFree(p, a) == \A q \in Procs \ {p} : ~Holds(q, a)

KeyFree(p, k) == \A q \in Procs \ {p} : ~HoldsKey(q, k)

(* The row p's next statement locks.  DebitAccount skips a row that does   *)
(* not satisfy balance >= $2 without waiting for its lock.                 *)
WantsRow(p, a) ==
    \/ /\ pc[p] \in {"first", "second"}
       /\ a = IF pc[p] = "first" THEN FirstRow(req[p]) ELSE SecondRow(req[p])
       /\ a = req[p].src => balance[a] >= req[p].amount
    \/ pc[p] = "exec" /\ a \in Accounts /\ a = req[p].src

(* p waits for q. *)
WaitsFor(p, q) ==
    /\ p # q
    /\ \/ \E a \in Accounts : WantsRow(p, a) /\ Holds(q, a)
       \/ pc[p] = "insert" /\ HoldsKey(q, req[p].key)

Blocked(p) == \E q \in Procs : WaitsFor(p, q)

-----------------------------------------------------------------------------
Return(p, result) ==
    /\ pc' = [pc EXCEPT ![p] = "idle"]
    /\ reply' = [reply EXCEPT ![p] = result]
    /\ updated' = [updated EXCEPT ![p] = NoUpdate]

Goto(p, label) ==
    /\ pc' = [pc EXCEPT ![p] = label]
    /\ UNCHANGED <<reply, updated>>

Init ==
    /\ balance = Opening
    /\ entries = [a \in Accounts |-> OpeningEntries(a)]
    /\ txns = {}
    /\ pc = [p \in Procs |-> "idle"]
    /\ req = [p \in Procs |-> NoRequest]
    /\ updated = [p \in Procs |-> NoUpdate]
    /\ reply = [p \in Procs |-> "none"]
    /\ started = 0
    /\ applied = [k \in Keys |-> 0]

(* A request arrives; the service validates it before it takes a           *)
(* connection.                                                             *)
Start(p, r) ==
    /\ pc[p] = "idle"
    /\ started < MaxRequests
    /\ started' = started + 1
    /\ req' = [req EXCEPT ![p] = r]
    /\ \/ r.amount <= 0 /\ Return(p, "ErrInvalidAmount")
       \/ /\ r.amount > 0 /\ r.op = "transfer" /\ r.src = r.dst
          /\ Return(p, "ErrSameAccount")
       \/ /\ r.amount > 0 /\ r.op = "transfer" /\ r.src # r.dst
          /\ Goto(p, "idempotency")
       \/ r.amount > 0 /\ r.op # "transfer" /\ Goto(p, "exec")
    /\ UNCHANGED <<db, applied>>

CheckIdempotencyInFlight(p) ==
    /\ pc[p] = "idempotency"
    /\ IF \E q \in Procs \ {p} : pc[q] # "idle" /\ req[q].key = req[p].key
         THEN Return(p, "ok")
         ELSE Goto(p, "read")
    /\ UNCHANGED <<db, req, started, applied>>

(* Transfer: a committed row with the key is returned as it is. *)
CheckIdempotency(p) ==
    /\ pc[p] = "idempotency"
    /\ IF \E t \in txns : t.key = req[p].key
         THEN Return(p, "ok")
         ELSE Goto(p, "read")
    /\ UNCHANGED <<db, req, started, applied>>

(* Transfer: both accounts are read without a lock. *)
ReadAccounts(p) ==
    LET r == req[p] IN
    /\ pc[p] = "read"
    /\ \/ /\ ~({r.src, r.dst} \subseteq Accounts)
          /\ Return(p, "ErrAccountNotFound")
       \/ /\ {r.src, r.dst} \subseteq Accounts
          /\ \/ /\ Currency[r.src] # Currency[r.dst]
                /\ Return(p, "ErrCurrencyMismatch")
             \/ /\ Currency[r.src] = Currency[r.dst]
                /\ IF balance[r.src] < r.amount
                     THEN Return(p, "ErrInsufficientFunds")
                     ELSE Goto(p, "first")
    /\ UNCHANGED <<db, req, started, applied>>

DebitAccountUnchecked(p, next) ==
    LET a == req[p].src IN
    /\ RowFree(p, a)
    /\ updated' = [updated EXCEPT ![p].src = balance[a] - req[p].amount]
    /\ pc' = [pc EXCEPT ![p] = next]
    /\ UNCHANGED reply

(* UPDATE ... SET balance = balance - $2 WHERE id = $1 AND balance >= $2.    *)
(* The condition is evaluated again on the row the lock was waited for.    *)
DebitAccount(p, next) ==
    LET a == req[p].src IN
    \/ /\ balance[a] < req[p].amount
       /\ Return(p, "ErrInsufficientFunds")
    \/ /\ balance[a] >= req[p].amount
       /\ RowFree(p, a)
       /\ updated' = [updated EXCEPT ![p].src = balance[a] - req[p].amount]
       /\ pc' = [pc EXCEPT ![p] = next]
       /\ UNCHANGED reply

(* UPDATE ... SET balance = balance + $2 WHERE id = $1. *)
CreditAccount(p, next) ==
    LET a == req[p].dst IN
    /\ RowFree(p, a)
    /\ updated' = [updated EXCEPT ![p].dst = balance[a] + req[p].amount]
    /\ pc' = [pc EXCEPT ![p] = next]
    /\ UNCHANGED reply

(* Transfer: the update of the row with the lower id. *)
UpdateFirst(p) ==
    /\ pc[p] = "first"
    /\ IF FirstRow(req[p]) = req[p].src
         THEN DebitAccount(p, "second")
         ELSE CreditAccount(p, "second")
    /\ UNCHANGED <<db, req, started, applied>>

(* Transfer: the other update, and the read of its own destination row. *)
UpdateSecond(p) ==
    /\ pc[p] = "second"
    /\ IF SecondRow(req[p]) = req[p].src
         THEN DebitAccount(p, "insert")
         ELSE CreditAccount(p, "insert")
    /\ UNCHANGED <<db, req, started, applied>>

CreateTransactionNoUniqueIndex(p) ==
    /\ pc[p] = "insert"
    /\ Goto(p, "commit")
    /\ UNCHANGED <<db, req, started, applied>>

(* INSERT INTO transactions: waits while another transaction has the key    *)
(* uncommitted, fails when the key is committed.                            *)
CreateTransaction(p) ==
    /\ pc[p] = "insert"
    /\ KeyFree(p, req[p].key)
    /\ IF \E t \in txns : t.key = req[p].key
         THEN Return(p, "error")
         ELSE Goto(p, "commit")
    /\ UNCHANGED <<db, req, started, applied>>

(* COMMIT publishes both balances, the row and its two entries.  The answer *)
(* to the COMMIT may be lost: the caller then gets an error.               *)
Commit(p) ==
    LET r == req[p] IN
    /\ pc[p] = "commit"
    /\ balance' = [balance EXCEPT ![r.src] = updated[p].src,
                                  ![r.dst] = updated[p].dst]
    /\ entries' = [entries EXCEPT
                     ![r.src] = Append(@, Debit(r.amount, updated[p].src, r.key)),
                     ![r.dst] = Append(@, Credit(r.amount, updated[p].dst, r.key))]
    /\ txns' = txns \cup {[key |-> r.key, src |-> r.src, dst |-> r.dst,
                           amount |-> r.amount]}
    /\ applied' = [applied EXCEPT ![r.key] = @ + 1]
    /\ \E result \in {"ok", "error"} : Return(p, result)
    /\ UNCHANGED <<req, started>>

(* Deposit and Withdraw: one statement that updates the row and inserts the *)
(* entry.  Neither looks at the key, and WithdrawAtomic has no funds check. *)
Exec(p, op, new, entry) ==
    LET r == req[p] IN
    /\ pc[p] = "exec" /\ r.op = op
    /\ \/ /\ r.src \notin Accounts
          /\ Return(p, "ErrAccountNotFound")
          /\ UNCHANGED <<db, applied>>
       \/ /\ r.src \in Accounts
          /\ RowFree(p, r.src)
          /\ balance' = [balance EXCEPT ![r.src] = new]
          /\ entries' = [entries EXCEPT ![r.src] = Append(@, entry)]
          /\ applied' = [applied EXCEPT ![r.key] = @ + 1]
          /\ \E result \in {"ok", "error"} : Return(p, result)
          /\ UNCHANGED txns
    /\ UNCHANGED <<req, started>>

DepositAtomic(p) ==
    LET new == balance[req[p].src] + req[p].amount
    IN  Exec(p, "deposit", new, Credit(req[p].amount, new, NoKey))

WithdrawAtomic(p) ==
    LET new == balance[req[p].src] - req[p].amount
    IN  Exec(p, "withdraw", new, Debit(req[p].amount, new, NoKey))

(* lock_timeout or the deadlock detector ends a statement that waits.  Only *)
(* Deposit and Withdraw translate the error.                               *)
LockTimeout(p) ==
    /\ Blocked(p)
    /\ Return(p, IF pc[p] = "exec" THEN "ErrContention" ELSE "error")
    /\ UNCHANGED <<db, req, started, applied>>

(* Any statement may fail (cancelled context, lost connection); the        *)
(* deferred Rollback discards the transaction.                             *)
Abort(p) ==
    /\ pc[p] # "idle"
    /\ Return(p, "error")
    /\ UNCHANGED <<db, req, started, applied>>

Step(p) ==
    \/ CheckIdempotency(p) \/ ReadAccounts(p)
    \/ UpdateFirst(p) \/ UpdateSecond(p)
    \/ CreateTransaction(p) \/ Commit(p)
    \/ DepositAtomic(p) \/ WithdrawAtomic(p)

Next ==
    \E p \in Procs :
       \/ \E r \in Request : Start(p, r)
       \/ Step(p)
       \/ LockTimeout(p)
       \/ Abort(p)

Spec == Init /\ [][Next]_vars

(* A goroutine keeps running, and a waiter for a row lock is queued: a     *)
(* statement that is possible again and again is executed.  Timeouts and   *)
(* failures are not relied on.                                             *)
Fairness == \A p \in Procs : SF_vars(Step(p))

FairSpec == Spec /\ Fairness

-----------------------------------------------------------------------------
(* Type correctness of the tables and of the per-request state. *)
TypeOK ==
    /\ balance \in [Accounts -> Int]
    /\ entries \in [Accounts -> Seq(Entry)]
    /\ txns \subseteq Txn
    /\ pc \in [Procs -> InTransaction \cup {"idle", "exec"}]
    /\ req \in [Procs -> Request \cup {NoRequest}]
    /\ \A p \in Procs : pc[p] # "idle" => req[p] \in Request
    /\ updated \in [Procs -> [src : Int, dst : Int]]
    /\ reply \in [Procs -> Errors \cup {"none", "ok"}]
    /\ started \in 0 .. MaxRequests
    /\ applied \in [Keys -> Nat]

(* No lost update: from its UPDATE to the end of its transaction, a         *)
(* transfer's new balance is the committed balance of the row plus or minus *)
(* its own amount, whatever deposits, withdrawals and transfers run         *)
(* between its statements.                                                  *)
NoLostUpdate ==
    \A p \in Procs :
       LET r == req[p] IN
       /\ Holds(p, r.src) => updated[p].src = balance[r.src] - r.amount
       /\ Holds(p, r.dst) => updated[p].dst = balance[r.dst] + r.amount

(* A request that has got past validation, and past ReadAccounts, is one    *)
(* AtomicLedger could execute, funds and key aside.                         *)
RequestOK ==
    \A p \in Procs :
       LET r == req[p] IN
       /\ pc[p] # "idle" => r.amount > 0
       /\ pc[p] = "exec" => r.op # "transfer"
       /\ pc[p] \in InTransaction => r.op = "transfer" /\ r.src # r.dst
       /\ pc[p] \in {"first", "second", "insert", "commit"} =>
             /\ r.src \in Accounts /\ r.dst \in Accounts
             /\ Currency[r.src] = Currency[r.dst]

(* What PostgreSQL's locks give a transfer between its statements: a row    *)
(* has one writer, the debit it made stays covered, and the key it inserted *)
(* is its own and in no committed row.                                      *)
LockDiscipline ==
    /\ \A p, q \in Procs : \A a \in Accounts : Holds(p, a) /\ Holds(q, a) => p = q
    /\ \A p \in Procs : Holds(p, req[p].src) => updated[p].src >= 0
    /\ \A p, q \in Procs : \A k \in Keys :
          HoldsKey(p, k) /\ HoldsKey(q, k) => p = q
    /\ \A p \in Procs : \A t \in txns : ~HoldsKey(p, t.key)

(* The inductive invariant: with NoLostUpdate it says that a transfer about *)
(* to commit will do what AtomicLedger!Transfer does to the tables as they  *)
(* are now.                                                                 *)
IInv == TypeOK /\ RequestOK /\ LockDiscipline /\ NoLostUpdate

(* The audit trail is a chain: every entry's balance_after is the previous  *)
(* entry's plus its own signed amount, and the last one is the balance of   *)
(* the account row.  This is what makes balance_after usable as a statement *)
(* although it is copied from a value read several statements earlier.      *)
AuditChain == \A a \in Accounts : Chain(entries[a], balance[a])

(* The discrepancy query of the admin handler: accounts whose balance is    *)
(* not the sum of their CREDIT entries minus the sum of their DEBIT ones.   *)
Discrepancies == {a \in Accounts : balance[a] # EntrySum(entries[a])}

(* Reconciliation never reports a discrepancy, at any moment between the    *)
(* statements of concurrent requests.                                       *)
Reconciled == Discrepancies = {}

Once(e, k, type, amount) ==
    \E i \in 1 .. Len(e) :
       /\ e[i].type = type /\ e[i].amount = amount
       /\ \A j \in 1 .. Len(e) : e[j].txn = k <=> j = i

Named(e, a, T) ==
    \A i \in 1 .. Len(e) :
       e[i].txn # NoKey => \E t \in T : t.key = e[i].txn /\ a \in {t.src, t.dst}

(* Double entry, once per key: no two transfer rows share a key, every row  *)
(* has exactly one entry on its source, the DEBIT, and exactly one on its   *)
(* destination, the CREDIT, both of its amount; no other entry names a      *)
(* transfer.  Retries and concurrent requests with the same key included.   *)
DoubleEntry ==
    /\ \A t, u \in txns : t.key = u.key => t = u
    /\ \A t \in txns :
          /\ t.src # t.dst
          /\ Once(entries[t.src], t.key, "DEBIT", t.amount)
          /\ Once(entries[t.dst], t.key, "CREDIT", t.amount)
    /\ \A a \in Accounts : Named(entries[a], a, txns)

Covered(e) ==
    \A i \in 1 .. Len(e) : e[i].type = "DEBIT" /\ e[i].txn # NoKey => e[i].after >= 0

(* A transfer never overdraws: the balance it leaves on its source is not   *)
(* negative, although its funds check reads the row without a lock and      *)
(* withdrawals may take the balance below zero between its statements.      *)
TransferCovered == \A a \in Accounts : Covered(entries[a])

(* A request is executed at most once per idempotency key. *)
AtMostOncePerKey == \A k \in Keys : applied[k] <= 1

(* A transfer that was answered with success is in the table under its key: *)
(* the answer is either its own commit or the row of an earlier request.    *)
AnsweredIsRecorded ==
    \A p \in Procs :
       pc[p] = "idle" /\ reply[p] = "ok" /\ req[p].op = "transfer" =>
          \E t \in txns : t.key = req[p].key

(* No deadlock in the database: in every group of requests there is one     *)
(* that waits for no other of the group.  Transfers in opposite directions  *)
(* between the same accounts and requests with the same key included.       *)
NoWaitCycle ==
    \A S \in SUBSET Procs :
       S # {} => \E p \in S : \A q \in S : ~WaitsFor(p, q)

(* The transfers of this module, statement by statement, implement the      *)
(* atomic ones: every step is one step of AtomicLedger or leaves the        *)
(* committed tables alone.                                                  *)
Atomic == INSTANCE AtomicLedger WITH
    balance <- balance, entries <- entries, txns <- txns
ImplementsAtomicLedger == Atomic!Spec

(* Every request is answered, even when no lock wait ever times out. *)
EveryRequestAnswered == \A p \in Procs : pc[p] # "idle" ~> pc[p] = "idle"
=============================================================================
