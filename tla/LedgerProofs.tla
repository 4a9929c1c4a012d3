---------------------------- MODULE LedgerProofs ----------------------------
(***************************************************************************)
(* Theorems about Ledger and Durability, for every set of accounts,         *)
(* requests, processes and amounts, every number of crashes and of commits  *)
(* they lose.                                                              *)
(*                                                                         *)
(* Ledger: IInv is inductive; from it every step is a step of AtomicLedger  *)
(* or leaves the committed tables alone; the invariants about the committed *)
(* tables follow from the steps of AtomicLedger alone.  Durability: DInv     *)
(* says that the log is a history of AtomicLedger that ends in the tables; a *)
(* flush or a crash then drops one end of a history.                        *)
(***************************************************************************)
EXTENDS Durability, LedgerBaseProofs, SequenceTheorems, TLAPS

USE AccountsAssumption, AmountsAssumption, KeysAssumption, RequestsAssumption
    DEF AccountsAssumption, AmountsAssumption, KeysAssumption, RequestsAssumption

(* The rows a transfer locks are its source and its destination. *)
LEMMA Rows ==
    ASSUME NEW r \in Request, r.src # r.dst
    PROVE  /\ FirstRow(r) # SecondRow(r)
           /\ {FirstRow(r), SecondRow(r)} = {r.src, r.dst}
BY DEF FirstRow, SecondRow, Request

LEMMA InitIInv == Init => IInv
<1> SUFFICES ASSUME Init PROVE IInv
  OBVIOUS
<1>1. ASSUME NEW a \in Accounts PROVE OpeningEntries(a) \in Seq(Entry)
  <2>1. Credit(Opening[a], Opening[a], NoKey) \in Entry
    BY DEF Credit, Entry
  <2> QED BY <2>1 DEF OpeningEntries
<1>2. TypeOK
  BY <1>1 DEF Init, TypeOK, InTransaction, NoUpdate
<1>3. RequestOK /\ LockDiscipline /\ NoLostUpdate
  BY DEF Init, RequestOK, LockDiscipline, NoLostUpdate, Holds, HoldsKey,
         InTransaction
<1> QED BY <1>2, <1>3 DEF IInv

-----------------------------------------------------------------------------
(* What a process holds depends on its own pc and req only. *)
LEMMA OthersHold ==
    ASSUME NEW p \in Procs, NEW q \in Procs, q # p, TypeOK, TypeOK',
           \A x \in Procs \ {p} : pc'[x] = pc[x] /\ req'[x] = req[x]
    PROVE  /\ \A a : Holds(q, a)' <=> Holds(q, a)
           /\ \A k : HoldsKey(q, k)' <=> HoldsKey(q, k)
BY DEF Holds, HoldsKey

(* A process that gives up its transaction, or has none, leaves the other   *)
(* processes' guarantees intact.                                            *)
LEMMA ReturnIInv ==
    ASSUME IInv, NEW p \in Procs, NEW result \in Errors \cup {"ok"},
           Return(p, result), UNCHANGED <<db, applied>>, started' \in 0 .. MaxRequests,
           req' \in [Procs -> Request \cup {NoRequest}],
           \A q \in Procs \ {p} : req'[q] = req[q]
    PROVE  IInv'
<1>1. TypeOK'
  <2>1. pc' \in [Procs -> InTransaction \cup {"idle", "exec"}]
    BY DEF IInv, TypeOK, Return
  <2>2. updated' \in [Procs -> [src : Int, dst : Int]]
    BY DEF IInv, TypeOK, Return, NoUpdate
  <2>3. reply' \in [Procs -> Errors \cup {"none", "ok"}]
    BY DEF IInv, TypeOK, Return
  <2>4. \A q \in Procs : pc'[q] # "idle" => req'[q] \in Request
    BY DEF IInv, TypeOK, Return
  <2> QED BY <2>1, <2>2, <2>3, <2>4 DEF IInv, TypeOK, db
<1>2. /\ pc'[p] = "idle"
      /\ \A q \in Procs \ {p} : pc'[q] = pc[q] /\ req'[q] = req[q] /\ updated'[q] = updated[q]
  BY DEF IInv, TypeOK, Return
<1>3. RequestOK'
  BY <1>2 DEF IInv, RequestOK, InTransaction
<1>4. \A a : ~Holds(p, a)' /\ ~HoldsKey(p, a)'
  BY <1>2 DEF Holds, HoldsKey
<1>5. \A q \in Procs \ {p} : \A a : (Holds(q, a)' <=> Holds(q, a)) /\ (HoldsKey(q, a)' <=> HoldsKey(q, a))
  BY <1>1, <1>2, OthersHold DEF IInv
<1>6. LockDiscipline'
  BY <1>2, <1>4, <1>5 DEF IInv, LockDiscipline, db
<1>7. NoLostUpdate'
  BY <1>2, <1>4, <1>5 DEF IInv, NoLostUpdate, db
<1> QED BY <1>1, <1>3, <1>6, <1>7 DEF IInv

(* A step of p towards its first UPDATE: nothing is locked yet. *)
LEMMA ForwardIInv ==
    ASSUME IInv, NEW p \in Procs, NEW label \in {"idempotency", "read", "first", "exec"},
           Goto(p, label), UNCHANGED <<db, applied>>, started' \in 0 .. MaxRequests,
           req' \in [Procs -> Request \cup {NoRequest}], req'[p] \in Request,
           \A q \in Procs \ {p} : req'[q] = req[q],
           RequestOK'
    PROVE  IInv'
<1>1. TypeOK'
  <2>1. pc' \in [Procs -> InTransaction \cup {"idle", "exec"}]
    BY DEF IInv, TypeOK, Goto, InTransaction
  <2>2. \A q \in Procs : pc'[q] # "idle" => req'[q] \in Request
    BY DEF IInv, TypeOK, Goto
  <2> QED BY <2>1, <2>2 DEF IInv, TypeOK, db, Goto
<1>2. /\ pc'[p] = label
      /\ \A q \in Procs \ {p} : pc'[q] = pc[q] /\ req'[q] = req[q]
      /\ updated' = updated
  BY DEF IInv, TypeOK, Goto
<1>3. \A a : ~Holds(p, a)' /\ ~HoldsKey(p, a)'
  BY <1>2 DEF Holds, HoldsKey
<1>4. \A q \in Procs \ {p} : \A a : (Holds(q, a)' <=> Holds(q, a)) /\ (HoldsKey(q, a)' <=> HoldsKey(q, a))
  BY <1>1, <1>2, OthersHold DEF IInv
<1>5. LockDiscipline'
  BY <1>2, <1>3, <1>4 DEF IInv, LockDiscipline, db
<1>6. NoLostUpdate'
  BY <1>2, <1>3, <1>4 DEF IInv, NoLostUpdate, db
<1> QED BY <1>1, <1>5, <1>6 DEF IInv

LEMMA StartIInv ==
    ASSUME IInv, NEW p \in Procs, NEW r \in Request, Start(p, r)
    PROVE  IInv'
<1>1. /\ req' \in [Procs -> Request \cup {NoRequest}]
      /\ req'[p] = r
      /\ \A q \in Procs \ {p} : req'[q] = req[q]
      /\ started' \in 0 .. MaxRequests
      /\ UNCHANGED <<db, applied>>
  BY DEF Start, IInv, TypeOK
<1>2. CASE \E result \in Errors : Return(p, result)
  BY <1>1, <1>2, ReturnIInv
<1>3. CASE Goto(p, "idempotency") /\ r.amount > 0 /\ r.op = "transfer" /\ r.src # r.dst
  <2>1. RequestOK'
    BY <1>1, <1>3 DEF IInv, TypeOK, RequestOK, Goto, InTransaction
  <2> QED BY <1>1, <1>3, <2>1, ForwardIInv
<1>4. CASE Goto(p, "exec") /\ r.amount > 0 /\ r.op # "transfer"
  <2>1. RequestOK'
    BY <1>1, <1>4 DEF IInv, TypeOK, RequestOK, Goto, InTransaction
  <2> QED BY <1>1, <1>4, <2>1, ForwardIInv
<1> QED BY <1>2, <1>3, <1>4 DEF Start, Errors

LEMMA CheckIdempotencyIInv ==
    ASSUME IInv, NEW p \in Procs, CheckIdempotency(p)
    PROVE  IInv'
<1>1. UNCHANGED <<db, req, started, applied>>
  BY DEF CheckIdempotency
<1>2. pc[p] = "idempotency" /\ req[p] \in Request
  BY DEF CheckIdempotency, IInv, TypeOK
<1>3. CASE Return(p, "ok")
  BY <1>1, <1>3, ReturnIInv DEF IInv, TypeOK
<1>4. CASE Goto(p, "read")
  <2>1. RequestOK'
    BY <1>1, <1>2, <1>4 DEF IInv, TypeOK, RequestOK, Goto, InTransaction
  <2> QED BY <1>1, <1>2, <1>4, <2>1, ForwardIInv DEF IInv, TypeOK
<1> QED BY <1>3, <1>4 DEF CheckIdempotency

LEMMA ReadAccountsIInv ==
    ASSUME IInv, NEW p \in Procs, ReadAccounts(p)
    PROVE  IInv'
<1>1. UNCHANGED <<db, req, started, applied>>
  BY DEF ReadAccounts
<1>2. pc[p] = "read" /\ req[p] \in Request
  BY DEF ReadAccounts, IInv, TypeOK
<1>3. CASE \E result \in Errors : Return(p, result)
  BY <1>1, <1>3, ReturnIInv DEF IInv, TypeOK
<1>4. CASE /\ Goto(p, "first")
           /\ {req[p].src, req[p].dst} \subseteq Accounts
           /\ Currency[req[p].src] = Currency[req[p].dst]
  <2>1. RequestOK'
    BY <1>1, <1>2, <1>4 DEF IInv, TypeOK, RequestOK, Goto, InTransaction
  <2> QED BY <1>1, <1>2, <1>4, <2>1, ForwardIInv DEF IInv, TypeOK
<1> QED BY <1>3, <1>4 DEF ReadAccounts, Errors

(* An UPDATE of a transfer locks row a, which nobody else holds, and        *)
(* computes from its committed balance.                                     *)
LEMMA UpdateIInv ==
    ASSUME IInv, NEW p \in Procs, NEW next, NEW a, RowFree(p, a),
           \/ pc[p] = "first" /\ next = "second" /\ a = FirstRow(req[p])
           \/ pc[p] = "second" /\ next = "insert" /\ a = SecondRow(req[p]),
           pc' = [pc EXCEPT ![p] = next],
           UNCHANGED <<db, req, reply, started, applied>>,
           \/ /\ a = req[p].src /\ balance[a] >= req[p].amount
              /\ updated' = [updated EXCEPT ![p].src = balance[a] - req[p].amount]
           \/ /\ a = req[p].dst
              /\ updated' = [updated EXCEPT ![p].dst = balance[a] + req[p].amount]
    PROVE  IInv'
<1> DEFINE r == req[p]
<1>1. /\ r \in Request /\ r.src # r.dst /\ r.src \in Accounts /\ r.dst \in Accounts
      /\ r.amount \in Int /\ balance[r.src] \in Int /\ balance[r.dst] \in Int
  BY DEF IInv, TypeOK, RequestOK, InTransaction, Request
<1>a. \/ /\ a = r.src /\ balance[a] >= r.amount
         /\ updated'[p] = [src |-> balance[a] - r.amount, dst |-> updated[p].dst]
      \/ /\ a = r.dst
         /\ updated'[p] = [src |-> updated[p].src, dst |-> balance[a] + r.amount]
  <2>1. updated[p] \in [src : Int, dst : Int]
    BY DEF IInv, TypeOK
  <2>2. \A x : [updated[p] EXCEPT !.src = x] = [src |-> x, dst |-> updated[p].dst]
    BY <2>1
  <2>3. \A x : [updated[p] EXCEPT !.dst = x] = [src |-> updated[p].src, dst |-> x]
    BY <2>1
  <2>4. DOMAIN updated = Procs
    BY DEF IInv, TypeOK
  <2>5. CASE a = r.src /\ updated' = [updated EXCEPT ![p].src = balance[a] - r.amount]
    BY <2>2, <2>4, <2>5
  <2>6. CASE a = r.dst /\ updated' = [updated EXCEPT ![p].dst = balance[a] + r.amount]
    BY <2>3, <2>4, <2>6
  <2> QED BY <2>5, <2>6
<1>b. \A q \in Procs \ {p} : updated'[q] = updated[q]
  BY DEF IInv, TypeOK
<1>2. TypeOK'
  <2>1. pc' \in [Procs -> InTransaction \cup {"idle", "exec"}]
    BY DEF IInv, TypeOK, InTransaction
  <2>2. updated' \in [Procs -> [src : Int, dst : Int]]
    <3>1. updated'[p] \in [src : Int, dst : Int]
      <4> HIDE DEF r
      <4>a. updated[p] \in [src : Int, dst : Int]
        BY DEF IInv, TypeOK
      <4>b. updated[p].src \in Int /\ updated[p].dst \in Int
        BY ONLY <4>a
      <4>c. balance[r.src] - r.amount \in Int /\ balance[r.dst] + r.amount \in Int
        BY ONLY <1>1
      <4>1. /\ updated[p].src \in Int /\ updated[p].dst \in Int
            /\ balance[r.src] - r.amount \in Int /\ balance[r.dst] + r.amount \in Int
        BY ONLY <4>b, <4>c
      <4>2. CASE a = r.src
        BY ONLY <1>a, <4>1, <4>2
      <4>3. CASE a = r.dst
        BY ONLY <1>a, <4>1, <4>3
      <4> QED BY <1>a, <4>2, <4>3
    <3>2. updated' = [q \in Procs |-> updated'[q]]
      BY DEF IInv, TypeOK
    <3>3. \A q \in Procs : updated'[q] \in [src : Int, dst : Int]
      BY <1>b, <3>1 DEF IInv, TypeOK
    <3> QED BY <3>2, <3>3
  <2>3. \A q \in Procs : pc'[q] # "idle" => req'[q] \in Request
    BY <1>1 DEF IInv, TypeOK
  <2> QED BY <2>1, <2>2, <2>3 DEF IInv, TypeOK, db
<1>3. /\ pc'[p] = next
      /\ \A q \in Procs \ {p} : pc'[q] = pc[q] /\ updated'[q] = updated[q]
  BY DEF IInv, TypeOK
<1>4. RequestOK'
  <2>1. RequestOK /\ req' = req /\ pc'[p] \in {"second", "insert"}
    BY <1>3 DEF IInv
  <2>2. pc[p] \in {"first", "second"} /\ \A q \in Procs \ {p} : pc'[q] = pc[q]
    BY <1>3
  <2> QED BY ONLY <2>1, <2>2 DEF RequestOK, InTransaction
<1>5. \A q \in Procs \ {p} : \A b : (Holds(q, b)' <=> Holds(q, b)) /\ (HoldsKey(q, b)' <=> HoldsKey(q, b))
  BY <1>2, <1>3, OthersHold DEF IInv
<1>6. \A b : Holds(p, b)' <=> Holds(p, b) \/ b = a
  BY <1>3 DEF Holds
<1>7. (\A k : ~HoldsKey(p, k)') /\ ~Holds(p, a)
  BY <1>1, <1>3, Rows DEF Holds, HoldsKey
<1>8. \A q \in Procs \ {p} : ~Holds(q, a)
  BY DEF RowFree
<1>9. /\ Holds(p, r.src)' => updated'[p].src >= 0 /\ updated'[p].src = balance[r.src] - r.amount
      /\ Holds(p, r.dst)' => updated'[p].dst = balance[r.dst] + r.amount
  <2>0. /\ Holds(p, r.src) => updated[p].src >= 0 /\ updated[p].src = balance[r.src] - r.amount
        /\ Holds(p, r.dst) => updated[p].dst = balance[r.dst] + r.amount
    BY DEF IInv, LockDiscipline, NoLostUpdate
  <2>1. CASE a = r.src
    <3>1. updated'[p].src = balance[r.src] - r.amount /\ updated'[p].dst = updated[p].dst
      BY <1>1, <1>a, <2>1
    <3> QED BY <1>1, <1>a, <1>6, <2>0, <2>1, <3>1
  <2>2. CASE a = r.dst
    <3>1. updated'[p].dst = balance[r.dst] + r.amount /\ updated'[p].src = updated[p].src
      BY <1>1, <1>a, <2>2
    <3> QED BY <1>1, <1>6, <2>0, <2>2, <3>1
  <2> QED BY <2>1, <2>2
<1>10. LockDiscipline'
  BY <1>3, <1>5, <1>6, <1>7, <1>8, <1>9 DEF IInv, LockDiscipline, db
<1>11. NoLostUpdate'
  BY <1>3, <1>5, <1>9 DEF IInv, NoLostUpdate, db
<1> QED BY <1>2, <1>4, <1>10, <1>11 DEF IInv

LEMMA UpdateFirstIInv ==
    ASSUME IInv, NEW p \in Procs, UpdateFirst(p)
    PROVE  IInv'
<1>1. UNCHANGED <<db, req, started, applied>> /\ pc[p] = "first"
  BY DEF UpdateFirst
<1>2. req[p] \in Request /\ req[p].src # req[p].dst
  BY <1>1 DEF IInv, TypeOK, RequestOK, InTransaction
<1>3. CASE Return(p, "ErrInsufficientFunds")
  BY <1>1, <1>3, ReturnIInv DEF IInv, TypeOK, Errors
<1>4. CASE FirstRow(req[p]) = req[p].src /\ ~Return(p, "ErrInsufficientFunds")
  BY <1>1, <1>4, UpdateIInv DEF UpdateFirst, DebitAccount
<1>5. CASE FirstRow(req[p]) # req[p].src
  <2>1. FirstRow(req[p]) = req[p].dst
    BY <1>2, <1>5, Rows
  <2> QED BY <1>1, <1>5, <2>1, UpdateIInv DEF UpdateFirst, CreditAccount
<1> QED BY <1>3, <1>4, <1>5

LEMMA UpdateSecondIInv ==
    ASSUME IInv, NEW p \in Procs, UpdateSecond(p)
    PROVE  IInv'
<1>1. UNCHANGED <<db, req, started, applied>> /\ pc[p] = "second"
  BY DEF UpdateSecond
<1>2. req[p] \in Request /\ req[p].src # req[p].dst
  BY <1>1 DEF IInv, TypeOK, RequestOK, InTransaction
<1>3. CASE Return(p, "ErrInsufficientFunds")
  BY <1>1, <1>3, ReturnIInv DEF IInv, TypeOK, Errors
<1>4. CASE SecondRow(req[p]) = req[p].src /\ ~Return(p, "ErrInsufficientFunds")
  BY <1>1, <1>4, UpdateIInv DEF UpdateSecond, DebitAccount
<1>5. CASE SecondRow(req[p]) # req[p].src
  <2>1. SecondRow(req[p]) = req[p].dst
    BY <1>2, <1>5, Rows
  <2> QED BY <1>1, <1>5, <2>1, UpdateIInv DEF UpdateSecond, CreditAccount
<1> QED BY <1>3, <1>4, <1>5

LEMMA CreateTransactionIInv ==
    ASSUME IInv, NEW p \in Procs, CreateTransaction(p)
    PROVE  IInv'
<1>1. UNCHANGED <<db, req, started, applied>> /\ pc[p] = "insert" /\ req[p] \in Request
  BY DEF CreateTransaction, IInv, TypeOK
<1>2. CASE Return(p, "error")
  BY <1>1, <1>2, ReturnIInv DEF IInv, TypeOK, Errors
<1>3. CASE Goto(p, "commit") /\ \A t \in txns : t.key # req[p].key
  <2>1. TypeOK'
    <3>1. pc' \in [Procs -> InTransaction \cup {"idle", "exec"}]
      BY <1>3 DEF IInv, TypeOK, InTransaction, Goto
    <3>2. \A q \in Procs : pc'[q] # "idle" => req'[q] \in Request
      BY <1>1, <1>3 DEF IInv, TypeOK, Goto
    <3> QED BY <1>1, <1>3, <3>1, <3>2 DEF IInv, TypeOK, db, Goto
  <2>2. /\ pc'[p] = "commit" /\ updated' = updated
        /\ \A q \in Procs \ {p} : pc'[q] = pc[q]
    BY <1>3 DEF IInv, TypeOK, Goto
  <2>3. RequestOK'
    BY <1>1, <2>2 DEF IInv, TypeOK, RequestOK, InTransaction
  <2>4. \A q \in Procs \ {p} : \A b : (Holds(q, b)' <=> Holds(q, b)) /\ (HoldsKey(q, b)' <=> HoldsKey(q, b))
    BY <1>1, <2>1, <2>2, OthersHold DEF IInv
  <2>5. \A b : Holds(p, b)' <=> Holds(p, b)
    BY <1>1, <2>2 DEF Holds
  <2>6. \A k : HoldsKey(p, k)' <=> k = req[p].key
    BY <1>1, <2>2 DEF HoldsKey
  <2>7. \A q \in Procs \ {p} : ~HoldsKey(q, req[p].key)
    BY DEF CreateTransaction, KeyFree
  <2>8. LockDiscipline'
    BY <1>1, <1>3, <2>2, <2>4, <2>5, <2>6, <2>7 DEF IInv, LockDiscipline, db
  <2>9. NoLostUpdate'
    BY <1>1, <2>2, <2>4, <2>5 DEF IInv, NoLostUpdate, db
  <2> QED BY <2>1, <2>3, <2>8, <2>9 DEF IInv
<1> QED BY <1>1, <1>2, <1>3 DEF CreateTransaction

(* A transfer about to commit would do to the tables as they are now what  *)
(* the atomic transfer does: its locks have kept what it computed current.  *)
LEMMA CommitIsAtomic ==
    ASSUME IInv, NEW p \in Procs, Commit(p)
    PROVE  LET r == req[p] IN
           /\ r \in Request /\ r.src \in Accounts /\ r.dst \in Accounts
           /\ updated[p].src = balance[r.src] - r.amount
           /\ updated[p].dst = balance[r.dst] + r.amount
           /\ Atomic!Transfer(r.key, r.src, r.dst, r.amount)
<1> DEFINE r == req[p]
<1>1. /\ r \in Request /\ pc[p] = "commit" /\ r.src # r.dst /\ r.amount > 0
      /\ r.src \in Accounts /\ r.dst \in Accounts /\ Currency[r.src] = Currency[r.dst]
  BY DEF Commit, IInv, TypeOK, RequestOK, InTransaction
<1>2. Holds(p, r.src) /\ Holds(p, r.dst) /\ HoldsKey(p, r.key)
  BY <1>1, Rows DEF Holds, HoldsKey
<1>3. /\ updated[p].src >= 0
      /\ updated[p].src = balance[r.src] - r.amount
      /\ updated[p].dst = balance[r.dst] + r.amount
      /\ \A t \in txns : t.key # r.key
  BY <1>2 DEF IInv, LockDiscipline, NoLostUpdate
<1>4. balance \in [Accounts -> Int] /\ entries \in [Accounts -> Seq(Entry)] /\ r.amount \in Int
  BY <1>1 DEF IInv, TypeOK, Request
<1>5. balance' = [balance EXCEPT ![r.src] = @ - r.amount, ![r.dst] = @ + r.amount]
  BY <1>1, <1>3, <1>4 DEF Commit
<1>6. entries' = [entries EXCEPT
                     ![r.src] = Append(@, Debit(r.amount, balance[r.src] - r.amount, r.key)),
                     ![r.dst] = Append(@, Credit(r.amount, balance[r.dst] + r.amount, r.key))]
  BY <1>1, <1>3, <1>4 DEF Commit
<1>7. r.amount <= balance[r.src]
  <2>1. balance[r.src] \in Int /\ balance[r.src] - r.amount >= 0
    BY ONLY <1>1, <1>3, <1>4
  <2> QED BY ONLY <1>4, <2>1
<1>8. Atomic!Transfer(r.key, r.src, r.dst, r.amount)
  BY <1>1, <1>3, <1>4, <1>5, <1>6, <1>7
     DEF Atomic!Transfer, Commit, Debit, Credit, Atomic!Debit, Atomic!Credit
<1> QED BY <1>1, <1>3, <1>8

(* Appending entries to one account, or to two, keeps the table's type. *)
LEMMA EntriesType ==
    ASSUME NEW e \in [Accounts -> Seq(Entry)], NEW x \in Entry, NEW y \in Entry,
           NEW a \in Accounts, NEW b \in Accounts
    PROVE  /\ [e EXCEPT ![a] = Append(@, x)] \in [Accounts -> Seq(Entry)]
           /\ a # b => [e EXCEPT ![a] = Append(@, x), ![b] = Append(@, y)]
                         \in [Accounts -> Seq(Entry)]
<1>1. Append(e[a], x) \in Seq(Entry) /\ Append(e[b], y) \in Seq(Entry)
  OBVIOUS
<1> QED BY <1>1

(* p ends its request having changed only rows and keys nobody else holds. *)
LEMMA EffectIInv ==
    ASSUME IInv, NEW p \in Procs, NEW result \in {"ok", "error"}, Return(p, result),
           UNCHANGED <<req, started>>,
           balance' \in [Accounts -> Int], entries' \in [Accounts -> Seq(Entry)],
           txns' \subseteq Txn, applied' \in [Keys -> Nat],
           \A q \in Procs \ {p} : \A a \in Accounts : Holds(q, a) => balance'[a] = balance[a],
           \A q \in Procs \ {p} : \A t \in txns' : ~HoldsKey(q, t.key)
    PROVE  IInv'
<1>1. TypeOK'
  <2>1. pc' \in [Procs -> InTransaction \cup {"idle", "exec"}]
    BY DEF IInv, TypeOK, Return
  <2>2. updated' \in [Procs -> [src : Int, dst : Int]]
    BY DEF IInv, TypeOK, Return, NoUpdate
  <2>3. reply' \in [Procs -> Errors \cup {"none", "ok"}]
    BY DEF IInv, TypeOK, Return, Errors
  <2>4. \A q \in Procs : pc'[q] # "idle" => req'[q] \in Request
    BY DEF IInv, TypeOK, Return
  <2> QED BY <2>1, <2>2, <2>3, <2>4 DEF IInv, TypeOK
<1>2. /\ pc'[p] = "idle"
      /\ \A q \in Procs \ {p} : pc'[q] = pc[q] /\ updated'[q] = updated[q]
  BY DEF IInv, TypeOK, Return
<1>3. RequestOK'
  BY <1>2 DEF IInv, RequestOK, InTransaction
<1>4. \A a : ~Holds(p, a)' /\ ~HoldsKey(p, a)'
  BY <1>2 DEF Holds, HoldsKey
<1>5. \A q \in Procs \ {p} : \A a : (Holds(q, a)' <=> Holds(q, a)) /\ (HoldsKey(q, a)' <=> HoldsKey(q, a))
  BY <1>1, <1>2, OthersHold DEF IInv
<1>6. LockDiscipline'
  BY <1>2, <1>4, <1>5 DEF IInv, LockDiscipline
<1>7. \A q \in Procs : (\E a : Holds(q, a)) => req[q].src \in Accounts /\ req[q].dst \in Accounts
  BY DEF IInv, RequestOK, Holds
<1>8. ASSUME NEW q \in Procs \ {p}
      PROVE  /\ Holds(q, req[q].src) => updated'[q].src = balance'[req[q].src] - req[q].amount
             /\ Holds(q, req[q].dst) => updated'[q].dst = balance'[req[q].dst] + req[q].amount
  <2>1. /\ Holds(q, req[q].src) => updated[q].src = balance[req[q].src] - req[q].amount
        /\ Holds(q, req[q].dst) => updated[q].dst = balance[req[q].dst] + req[q].amount
    BY DEF IInv, NoLostUpdate
  <2>2. \A a : Holds(q, a) => req[q].src \in Accounts /\ req[q].dst \in Accounts
    BY <1>7
  <2>3. /\ Holds(q, req[q].src) => balance'[req[q].src] = balance[req[q].src]
        /\ Holds(q, req[q].dst) => balance'[req[q].dst] = balance[req[q].dst]
    BY <2>2
  <2> QED BY <1>2, <2>1, <2>3
<1>9. NoLostUpdate'
  BY <1>4, <1>5, <1>8 DEF NoLostUpdate
<1> QED BY <1>1, <1>3, <1>6, <1>9 DEF IInv

LEMMA CommitIInv ==
    ASSUME IInv, NEW p \in Procs, Commit(p)
    PROVE  IInv'
<1> DEFINE r == req[p]
<1>1. /\ r \in Request /\ r.src \in Accounts /\ r.dst \in Accounts
      /\ updated[p].src \in Int /\ updated[p].dst \in Int
      /\ r.amount \in Int /\ r.key \in Keys
  BY CommitIsAtomic DEF IInv, TypeOK, Request
<1>2. PICK result \in {"ok", "error"} : Return(p, result)
  BY DEF Commit
<1>3. balance' \in [Accounts -> Int]
  BY <1>1 DEF Commit, IInv, TypeOK
<1>4. entries' \in [Accounts -> Seq(Entry)]
  <2>1. /\ Debit(r.amount, updated[p].src, r.key) \in Entry
        /\ Credit(r.amount, updated[p].dst, r.key) \in Entry
    BY <1>1 DEF Debit, Credit, Entry
  <2>2. entries \in [Accounts -> Seq(Entry)]
    BY DEF IInv, TypeOK
  <2>3. r.src # r.dst
    BY DEF Commit, IInv, RequestOK, InTransaction
  <2> QED BY <1>1, <2>1, <2>2, <2>3, EntriesType DEF Commit
<1>5. txns' \subseteq Txn /\ applied' \in [Keys -> Nat]
  <2>1. /\ txns' = txns \cup {[key |-> r.key, src |-> r.src, dst |-> r.dst,
                               amount |-> r.amount]}
        /\ applied' = [applied EXCEPT ![r.key] = @ + 1]
    BY DEF Commit
  <2>2. txns \subseteq Txn /\ applied \in [Keys -> Nat]
    BY DEF IInv, TypeOK
  <2>3. [key |-> r.key, src |-> r.src, dst |-> r.dst, amount |-> r.amount] \in Txn
    BY ONLY <1>1 DEF Txn
  <2>4. txns' \subseteq Txn
    BY <2>1, <2>2, <2>3
  <2>5. applied' \in [Keys -> Nat]
    <3>1. r.key \in Keys /\ applied[r.key] + 1 \in Nat
      BY <1>1, <2>2
    <3> QED BY <2>1, <2>2, <3>1
  <2> QED BY <2>4, <2>5
<1>6. Holds(p, r.src) /\ Holds(p, r.dst) /\ HoldsKey(p, r.key) /\ pc[p] = "commit"
  <2>1. pc[p] = "commit"
    BY DEF Commit
  <2>2. r.src # r.dst
    BY <2>1 DEF IInv, RequestOK, InTransaction
  <2> QED BY <1>1, <2>1, <2>2, Rows DEF Holds, HoldsKey
<1>7. ASSUME NEW q \in Procs \ {p}, NEW a \in Accounts, Holds(q, a)
      PROVE  balance'[a] = balance[a]
  <2>1. a # r.src /\ a # r.dst
    BY <1>1, <1>6, <1>7 DEF IInv, LockDiscipline
  <2> QED BY <1>1, <2>1 DEF Commit, IInv, TypeOK
<1>8. ASSUME NEW q \in Procs \ {p}, NEW t \in txns'
      PROVE  ~HoldsKey(q, t.key)
  BY <1>1, <1>6 DEF Commit, IInv, LockDiscipline
<1>9. UNCHANGED <<req, started>>
  BY DEF Commit
<1> QED BY <1>2, <1>3, <1>4, <1>5, <1>7, <1>8, <1>9, EffectIInv

(* Deposit and Withdraw change one row, when nobody holds it. *)
LEMMA ExecIInv ==
    ASSUME IInv, NEW p \in Procs, NEW op, NEW new, NEW entry, Exec(p, op, new, entry),
           req[p].src \in Accounts => new \in Int /\ entry \in Entry
    PROVE  IInv'
<1> DEFINE r == req[p]
<1>1. r \in Request /\ r.key \in Keys /\ pc[p] = "exec"
  BY DEF Exec, IInv, TypeOK, Request
<1>2. CASE r.src \notin Accounts
  BY <1>1, <1>2, ReturnIInv DEF Exec, IInv, TypeOK, Errors
<1>3. CASE r.src \in Accounts
  <2>1. PICK result \in {"ok", "error"} : Return(p, result)
    BY <1>3 DEF Exec
  <2>2. /\ balance' \in [Accounts -> Int] /\ entries' \in [Accounts -> Seq(Entry)]
        /\ txns' \subseteq Txn /\ applied' \in [Keys -> Nat]
    <3>1. entries \in [Accounts -> Seq(Entry)] /\ entry \in Entry
      BY <1>3 DEF IInv, TypeOK
    <3>2. entries' = [entries EXCEPT ![r.src] = Append(@, entry)]
      BY <1>3 DEF Exec
    <3>3. entries' \in [Accounts -> Seq(Entry)]
      BY <1>3, <3>1, <3>2, EntriesType
    <3>4. balance' \in [Accounts -> Int]
      BY <1>3 DEF Exec, IInv, TypeOK
    <3>5. txns' \subseteq Txn
      BY <1>3 DEF Exec, IInv, TypeOK
    <3>6. applied' \in [Keys -> Nat]
      <4>1. applied' = [applied EXCEPT ![r.key] = @ + 1] /\ applied \in [Keys -> Nat]
        BY <1>3 DEF Exec, IInv, TypeOK
      <4> QED BY <1>1, <4>1
    <3> QED BY <3>3, <3>4, <3>5, <3>6
  <2>3. ASSUME NEW q \in Procs \ {p}, NEW a \in Accounts, Holds(q, a)
        PROVE  balance'[a] = balance[a]
    BY <1>3, <2>3 DEF Exec, RowFree, IInv, TypeOK
  <2>4. \A q \in Procs \ {p} : \A t \in txns' : ~HoldsKey(q, t.key)
    BY <1>3 DEF Exec, IInv, LockDiscipline
  <2>5. UNCHANGED <<req, started>>
    BY DEF Exec
  <2> QED BY <2>1, <2>2, <2>3, <2>4, <2>5, EffectIInv
<1> QED BY <1>2, <1>3

LEMMA DepositIInv ==
    ASSUME IInv, NEW p \in Procs, DepositAtomic(p)
    PROVE  IInv'
<1> DEFINE new == balance[req[p].src] + req[p].amount
           entry == Credit(req[p].amount, new, NoKey)
<1>1. Exec(p, "deposit", new, entry)
  BY DEF DepositAtomic
<1>2. req[p].src \in Accounts => new \in Int /\ entry \in Entry
  <2> SUFFICES ASSUME req[p].src \in Accounts PROVE new \in Int /\ entry \in Entry
    OBVIOUS
  <2>1. req[p] \in Request
    BY <1>1 DEF Exec, IInv, TypeOK
  <2>2. req[p].amount \in Int /\ balance[req[p].src] \in Int
    BY <2>1 DEF Request, IInv, TypeOK
  <2>3. new \in Int
    BY <2>2
  <2> QED BY <2>2, <2>3 DEF Credit, Entry
<1> HIDE DEF new, entry
<1> QED BY <1>1, <1>2, ExecIInv

LEMMA WithdrawIInv ==
    ASSUME IInv, NEW p \in Procs, WithdrawAtomic(p)
    PROVE  IInv'
<1> DEFINE new == balance[req[p].src] - req[p].amount
           entry == Debit(req[p].amount, new, NoKey)
<1>1. Exec(p, "withdraw", new, entry)
  BY DEF WithdrawAtomic
<1>2. req[p].src \in Accounts => new \in Int /\ entry \in Entry
  <2> SUFFICES ASSUME req[p].src \in Accounts PROVE new \in Int /\ entry \in Entry
    OBVIOUS
  <2>1. req[p] \in Request
    BY <1>1 DEF Exec, IInv, TypeOK
  <2>2. req[p].amount \in Int /\ balance[req[p].src] \in Int
    BY <2>1 DEF Request, IInv, TypeOK
  <2>3. new \in Int
    BY <2>2
  <2> QED BY <2>2, <2>3 DEF Debit, Entry
<1> HIDE DEF new, entry
<1> QED BY <1>1, <1>2, ExecIInv

LEMMA GiveUpIInv ==
    ASSUME IInv, NEW p \in Procs, LockTimeout(p) \/ Abort(p)
    PROVE  IInv'
<1>1. PICK result \in Errors : Return(p, result)
  BY DEF LockTimeout, Abort, Errors
<1>2. UNCHANGED <<db, req, started, applied>>
  BY DEF LockTimeout, Abort
<1> QED BY <1>1, <1>2, ReturnIInv DEF IInv, TypeOK

LEMMA NextIInv == IInv /\ [Next]_vars => IInv'
<1> SUFFICES ASSUME IInv, [Next]_vars PROVE IInv'
  OBVIOUS
<1>1. CASE Next
  <2>1. PICK p \in Procs :
           \/ \E r \in Request : Start(p, r)
           \/ Step(p) \/ LockTimeout(p) \/ Abort(p)
    BY <1>1 DEF Next
  <2> QED BY <2>1, StartIInv, CheckIdempotencyIInv, ReadAccountsIInv, UpdateFirstIInv,
             UpdateSecondIInv, CreateTransactionIInv, CommitIInv, DepositIInv,
             WithdrawIInv, GiveUpIInv DEF Step
<1>2. CASE UNCHANGED vars
  BY <1>2 DEF vars, IInv, TypeOK, RequestOK, LockDiscipline, NoLostUpdate, Holds,
              HoldsKey, InTransaction
<1> QED BY <1>1, <1>2

(* The inductive invariant holds for every behaviour: types, row and key    *)
(* ownership, and no lost update.                                           *)
THEOREM Serialised == Spec => []IInv
BY InitIInv, NextIInv, PTL DEF Spec

(* The tables and the per-request state always have their types. *)
THEOREM TypeCorrect == Spec => []TypeOK
BY Serialised, PTL DEF IInv

(* What a transfer computed under its row locks is still current when it    *)
(* commits, whatever runs between its statements.                           *)
THEOREM UpdatesAreNotLost == Spec => []NoLostUpdate
BY Serialised, PTL DEF IInv

-----------------------------------------------------------------------------
(* Every step of Ledger is a step of AtomicLedger or leaves its tables.     *)

LEMMA ExecIsAtomic ==
    ASSUME IInv, NEW p \in Procs, DepositAtomic(p) \/ WithdrawAtomic(p)
    PROVE  Atomic!Next \/ UNCHANGED db
<1> DEFINE r == req[p]
<1>1. r \in Request /\ r.amount \in Amounts /\ r.amount > 0
  BY DEF DepositAtomic, WithdrawAtomic, Exec, IInv, TypeOK, RequestOK, Request
<1>2. CASE r.src \notin Accounts
  BY <1>2 DEF DepositAtomic, WithdrawAtomic, Exec
<1>3. CASE r.src \in Accounts /\ DepositAtomic(p)
  <2>1. Atomic!Deposit(r.src, r.amount)
    BY <1>1, <1>3 DEF DepositAtomic, Exec, Atomic!Deposit, Credit, Atomic!Credit, IInv, TypeOK
  <2> QED BY <1>1, <1>3, <2>1 DEF Atomic!Next
<1>4. CASE r.src \in Accounts /\ WithdrawAtomic(p)
  <2>1. Atomic!Withdraw(r.src, r.amount)
    BY <1>1, <1>4 DEF WithdrawAtomic, Exec, Atomic!Withdraw, Debit, Atomic!Debit, IInv, TypeOK
  <2> QED BY <1>1, <1>4, <2>1 DEF Atomic!Next
<1> QED BY <1>2, <1>3, <1>4

LEMMA StepImplements == IInv /\ [Next]_vars => [Atomic!Next]_(Atomic!vars)
<1> SUFFICES ASSUME IInv, [Next]_vars PROVE Atomic!Next \/ UNCHANGED db
  BY DEF Atomic!vars, db
<1>1. CASE Next
  <2>1. PICK p \in Procs :
           \/ \E r \in Request : Start(p, r)
           \/ Step(p) \/ LockTimeout(p) \/ Abort(p)
    BY <1>1 DEF Next
  <2>2. CASE Commit(p)
    <3>1. /\ req[p].key \in Keys /\ req[p].amount \in Amounts
          /\ req[p].src \in Accounts /\ req[p].dst \in Accounts
          /\ Atomic!Transfer(req[p].key, req[p].src, req[p].dst, req[p].amount)
      BY <2>2, CommitIsAtomic DEF Request
    <3> QED BY <3>1 DEF Atomic!Next
  <2>3. CASE DepositAtomic(p) \/ WithdrawAtomic(p)
    BY <2>3, ExecIsAtomic
  <2>4. CASE ~Commit(p) /\ ~DepositAtomic(p) /\ ~WithdrawAtomic(p)
    BY <2>1, <2>4 DEF Step, Start, CheckIdempotency, ReadAccounts, UpdateFirst,
                      UpdateSecond, CreateTransaction, LockTimeout, Abort
  <2> QED BY <2>2, <2>3, <2>4
<1>2. CASE UNCHANGED vars
  BY <1>2 DEF vars, db
<1> QED BY <1>1, <1>2

(* The statement-by-statement ledger implements the atomic one. *)
THEOREM Refinement == Spec => ImplementsAtomicLedger
<1>1. Init => Atomic!Init
  BY DEF Init, Atomic!Init, OpeningEntries, Atomic!OpeningEntries, Credit, Atomic!Credit
<1> QED BY <1>1, Serialised, StepImplements, PTL
        DEF Spec, ImplementsAtomicLedger, Atomic!Spec

-----------------------------------------------------------------------------
(* Invariants of the committed tables, from the steps of AtomicLedger.      *)

(* What the three atomic movements write, in one place: a movement appends  *)
(* one entry x to an account and makes x.after its balance.                 *)
Appended(a, x) ==
    entries'[a] = Append(entries[a], x) /\ balance'[a] = x.after

Kept(a) == entries'[a] = entries[a] /\ balance'[a] = balance[a]

LEMMA TransferWrites ==
    ASSUME TypeOK, NEW k \in Keys, NEW s \in Accounts, NEW d \in Accounts,
           NEW amount \in Amounts, Atomic!Transfer(k, s, d, amount)
    PROVE  /\ Debit(amount, balance[s] - amount, k) \in Entry
           /\ Credit(amount, balance[d] + amount, k) \in Entry
           /\ Appended(s, Debit(amount, balance[s] - amount, k))
           /\ Appended(d, Credit(amount, balance[d] + amount, k))
           /\ \A a \in Accounts \ {s, d} : Kept(a)
           /\ balance[s] - amount \in Int /\ balance[d] + amount \in Int
<1>1. /\ s # d /\ amount \in Int /\ balance[s] - amount \in Int /\ balance[d] + amount \in Int
      /\ DOMAIN balance = Accounts /\ DOMAIN entries = Accounts
  <2>1. balance \in [Accounts -> Int] /\ entries \in [Accounts -> Seq(Entry)]
    BY DEF TypeOK
  <2>2. s # d
    BY DEF Atomic!Transfer
  <2>3. balance[s] \in Int /\ balance[d] \in Int /\ amount \in Int
    BY <2>1
  <2> QED BY <2>1, <2>2, <2>3
<1>2. /\ Debit(amount, balance[s] - amount, k) \in Entry
      /\ Credit(amount, balance[d] + amount, k) \in Entry
  BY <1>1 DEF Debit, Credit, Entry
<1>3. /\ balance'[s] = balance[s] - amount /\ balance'[d] = balance[d] + amount
      /\ entries'[s] = Append(entries[s], Debit(amount, balance[s] - amount, k))
      /\ entries'[d] = Append(entries[d], Credit(amount, balance[d] + amount, k))
      /\ \A a \in Accounts \ {s, d} : Kept(a)
  BY <1>1 DEF Atomic!Transfer, Debit, Credit, Atomic!Debit, Atomic!Credit, Kept
<1> QED BY <1>1, <1>2, <1>3 DEF Appended, Debit, Credit

LEMMA DepositWrites ==
    ASSUME TypeOK, NEW a \in Accounts, NEW amount \in Amounts, Atomic!Deposit(a, amount)
    PROVE  /\ Credit(amount, balance[a] + amount, NoKey) \in Entry
           /\ Appended(a, Credit(amount, balance[a] + amount, NoKey))
           /\ \A b \in Accounts \ {a} : Kept(b)
           /\ balance[a] + amount \in Int
<1>1. amount \in Int /\ balance[a] + amount \in Int
  BY DEF TypeOK
<1>2. Credit(amount, balance[a] + amount, NoKey) \in Entry
  BY <1>1 DEF Credit, Entry
<1> QED BY <1>1, <1>2 DEF Atomic!Deposit, Credit, Atomic!Credit, Appended, Kept, TypeOK

LEMMA WithdrawWrites ==
    ASSUME TypeOK, NEW a \in Accounts, NEW amount \in Amounts, Atomic!Withdraw(a, amount)
    PROVE  /\ Debit(amount, balance[a] - amount, NoKey) \in Entry
           /\ Appended(a, Debit(amount, balance[a] - amount, NoKey))
           /\ \A b \in Accounts \ {a} : Kept(b)
           /\ balance[a] - amount \in Int
<1>1. amount \in Int /\ balance[a] - amount \in Int
  BY DEF TypeOK
<1>2. Debit(amount, balance[a] - amount, NoKey) \in Entry
  BY <1>1 DEF Debit, Entry
<1> QED BY <1>1, <1>2 DEF Atomic!Withdraw, Debit, Atomic!Debit, Appended, Kept, TypeOK

LEMMA AppendedChain ==
    ASSUME TypeOK, AuditChain, NEW a \in Accounts, NEW x \in Entry, Appended(a, x),
           x.after = Signed(x) + balance[a]
    PROVE  Chain(entries'[a], balance'[a])
<1>1. entries[a] \in Seq(Entry) /\ balance[a] \in Int /\ Chain(entries[a], balance[a])
  BY DEF TypeOK, AuditChain
<1>2. Chain(Append(entries[a], x), x.after)
  BY <1>1, ChainAppend
<1> QED BY <1>2 DEF Appended

LEMMA AuditStep == TypeOK /\ AuditChain /\ [Atomic!Next]_(Atomic!vars) => AuditChain'
<1> SUFFICES ASSUME TypeOK, AuditChain, [Atomic!Next]_(Atomic!vars), NEW a \in Accounts
             PROVE  Chain(entries'[a], balance'[a])
  BY DEF AuditChain, Chain
<1>0. Kept(a) => Chain(entries'[a], balance'[a])
  BY DEF AuditChain, Kept
<1>1. CASE UNCHANGED Atomic!vars
  BY <1>0, <1>1 DEF Atomic!vars, Kept
<1>2. ASSUME NEW amount \in Amounts, NEW k \in Keys, NEW s \in Accounts, NEW d \in Accounts,
             Atomic!Transfer(k, s, d, amount)
      PROVE  Chain(entries'[a], balance'[a])
  <2>1. CASE a = s
    <3> DEFINE x == Debit(amount, balance[s] - amount, k)
    <3>1. x \in Entry /\ Appended(s, x)
      BY <1>2, TransferWrites
    <3>2. x.after = Signed(x) + balance[s]
      BY DEF Debit, Signed, TypeOK
    <3> QED BY <2>1, <3>1, <3>2, AppendedChain
  <2>2. CASE a = d
    <3> DEFINE x == Credit(amount, balance[d] + amount, k)
    <3>1. x \in Entry /\ Appended(d, x)
      BY <1>2, TransferWrites
    <3>2. x.after = Signed(x) + balance[d]
      BY DEF Credit, Signed, TypeOK
    <3> QED BY <2>2, <3>1, <3>2, AppendedChain
  <2>3. CASE a \notin {s, d}
    BY <1>0, <1>2, <2>3, TransferWrites
  <2> QED BY <2>1, <2>2, <2>3
<1>3. ASSUME NEW amount \in Amounts, NEW b \in Accounts, Atomic!Deposit(b, amount)
      PROVE  Chain(entries'[a], balance'[a])
  <2> DEFINE x == Credit(amount, balance[b] + amount, NoKey)
  <2>1. x \in Entry /\ Appended(b, x) /\ (a # b => Kept(a))
    BY <1>3, DepositWrites
  <2>2. x.after = Signed(x) + balance[b]
    BY DEF Credit, Signed, TypeOK
  <2> QED BY <1>0, <2>1, <2>2, AppendedChain
<1>4. ASSUME NEW amount \in Amounts, NEW b \in Accounts, Atomic!Withdraw(b, amount)
      PROVE  Chain(entries'[a], balance'[a])
  <2> DEFINE x == Debit(amount, balance[b] - amount, NoKey)
  <2>1. x \in Entry /\ Appended(b, x) /\ (a # b => Kept(a))
    BY <1>4, WithdrawWrites
  <2>2. x.after = Signed(x) + balance[b]
    BY DEF Debit, Signed, TypeOK
  <2> QED BY <1>0, <2>1, <2>2, AppendedChain
<1> QED BY <1>1, <1>2, <1>3, <1>4 DEF Atomic!Next

(* Every account's entries chain to its balance, in every reachable state.  *)
THEOREM AuditTrail == Spec => []AuditChain
<1>1. Init => AuditChain
  BY DEF Init, AuditChain, Chain, OpeningEntries, Credit, Signed
<1> QED BY <1>1, TypeCorrect, Serialised, StepImplements, AuditStep, PTL DEF Spec

LEMMA ReconciledFromAudit == TypeOK /\ AuditChain => Reconciled
<1> SUFFICES ASSUME TypeOK, AuditChain, NEW a \in Accounts
             PROVE  balance[a] = EntrySum(entries[a])
  BY DEF Reconciled, Discrepancies
<1>1. entries[a] \in Seq(Entry) /\ balance[a] \in Int /\ Chain(entries[a], balance[a])
  BY DEF TypeOK, AuditChain
<1> QED BY <1>1, ChainSum

(* The reconciliation query reports nothing, whatever runs: the sum of the     *)
(* entries of an account is its balance at every moment.                     *)
THEOREM BooksReconcile == Spec => []Reconciled
BY ReconciledFromAudit, TypeCorrect, AuditTrail, PTL


LEMMA CoveredAppend ==
    ASSUME NEW e \in Seq(Entry), NEW x \in Entry, Covered(e),
           x.type = "DEBIT" /\ x.txn # NoKey => x.after >= 0
    PROVE  Covered(Append(e, x))
<1> DEFINE f == Append(e, x)
<1> SUFFICES ASSUME NEW i \in 1 .. Len(f), f[i].type = "DEBIT", f[i].txn # NoKey
             PROVE  f[i].after >= 0
  BY DEF Covered
<1>1. CASE i \in 1 .. Len(e)
  BY <1>1 DEF Covered
<1>2. CASE i = Len(e) + 1
  BY <1>2
<1> QED BY <1>1, <1>2

LEMMA CoveredStep ==
    TypeOK /\ TransferCovered /\ [Atomic!Next]_(Atomic!vars) => TransferCovered'
<1> SUFFICES ASSUME TypeOK, TransferCovered, [Atomic!Next]_(Atomic!vars), NEW a \in Accounts
             PROVE  Covered(entries'[a])
  BY DEF TransferCovered, Covered
<1>0. Kept(a) => Covered(entries'[a])
  BY DEF TransferCovered, Kept
<1>1. ASSUME NEW x \in Entry, Appended(a, x), x.type = "DEBIT" /\ x.txn # NoKey => x.after >= 0
      PROVE  Covered(entries'[a])
  <2>1. entries[a] \in Seq(Entry) /\ entries'[a] = Append(entries[a], x) /\ Covered(entries[a])
    BY <1>1 DEF TypeOK, Appended, TransferCovered
  <2> QED BY <1>1, <2>1, CoveredAppend
<1>2. CASE UNCHANGED Atomic!vars
  BY <1>0, <1>2 DEF Atomic!vars, Kept
<1>3. ASSUME NEW amount \in Amounts, NEW k \in Keys, NEW s \in Accounts, NEW d \in Accounts,
             Atomic!Transfer(k, s, d, amount)
      PROVE  Covered(entries'[a])
  <2>1. balance[s] - amount >= 0
    <3>1. amount <= balance[s]
      BY <1>3 DEF Atomic!Transfer
    <3>2. amount \in Int /\ balance[s] \in Int
      BY DEF TypeOK
    <3> QED BY ONLY <3>1, <3>2
  <2> DEFINE x == Debit(amount, balance[s] - amount, k)
             y == Credit(amount, balance[d] + amount, k)
  <2>a. /\ x \in Entry /\ Appended(s, x) /\ y \in Entry /\ Appended(d, y)
        /\ \A b \in Accounts \ {s, d} : Kept(b)
    BY <1>3, TransferWrites
  <2>b. x.after >= 0 /\ y.type # "DEBIT"
    BY <2>1 DEF Debit, Credit
  <2> HIDE DEF x, y
  <2>2. CASE a = s
    BY <1>1, <2>a, <2>b, <2>2
  <2>3. CASE a = d
    BY <1>1, <2>a, <2>b, <2>3
  <2>4. CASE a \notin {s, d}
    BY <1>0, <2>a, <2>4
  <2> QED BY <2>2, <2>3, <2>4
<1>4. ASSUME NEW amount \in Amounts, NEW b \in Accounts, Atomic!Deposit(b, amount)
      PROVE  Covered(entries'[a])
  BY <1>0, <1>1, <1>4, DepositWrites DEF Credit
<1>5. ASSUME NEW amount \in Amounts, NEW b \in Accounts, Atomic!Withdraw(b, amount)
      PROVE  Covered(entries'[a])
  BY <1>0, <1>1, <1>5, WithdrawWrites DEF Debit
<1> QED BY <1>2, <1>3, <1>4, <1>5 DEF Atomic!Next

(* No transfer leaves its source overdrawn, whatever withdrawals do between *)
(* its unlocked check and its debit.                                        *)
THEOREM TransfersAreCovered == Spec => []TransferCovered
<1>1. Init => TransferCovered
  BY DEF Init, TransferCovered, Covered, OpeningEntries, Credit
<1> QED BY <1>1, TypeCorrect, Serialised, StepImplements, CoveredStep, PTL DEF Spec

-----------------------------------------------------------------------------
LEMMA OnceOther ==
    ASSUME NEW e \in Seq(Entry), NEW x \in Entry, NEW k, NEW type, NEW amount,
           Once(e, k, type, amount), x.txn # k
    PROVE  Once(Append(e, x), k, type, amount)
<1> DEFINE f == Append(e, x)
<1>1. /\ Len(f) = Len(e) + 1 /\ f[Len(e) + 1] = x /\ Len(e) \in Nat
      /\ \A j \in 1 .. Len(e) : f[j] = e[j]
  OBVIOUS
<1>2. PICK i \in 1 .. Len(e) :
         /\ e[i].type = type /\ e[i].amount = amount
         /\ \A j \in 1 .. Len(e) : e[j].txn = k <=> j = i
  BY DEF Once
<1>3. i \in 1 .. Len(f) /\ f[i].type = type /\ f[i].amount = amount
  BY <1>1, <1>2
<1>4. ASSUME NEW j \in 1 .. Len(f) PROVE f[j].txn = k <=> j = i
  <2>1. CASE j \in 1 .. Len(e)
    BY <1>1, <1>2, <2>1
  <2>2. CASE j = Len(e) + 1
    BY <1>1, <1>2, <2>2
  <2> QED BY <1>1, <2>1, <2>2
<1> QED BY <1>3, <1>4 DEF Once

LEMMA OnceNew ==
    ASSUME NEW e \in Seq(Entry), NEW x \in Entry, NEW k,
           \A j \in 1 .. Len(e) : e[j].txn # k, x.txn = k
    PROVE  Once(Append(e, x), k, x.type, x.amount)
<1> DEFINE f == Append(e, x)
<1>1. /\ Len(f) = Len(e) + 1 /\ f[Len(e) + 1] = x /\ Len(e) \in Nat
      /\ \A j \in 1 .. Len(e) : f[j] = e[j]
  OBVIOUS
<1>2. ASSUME NEW j \in 1 .. Len(f) PROVE f[j].txn = k <=> j = Len(e) + 1
  <2>1. CASE j \in 1 .. Len(e)
    BY <1>1, <2>1
  <2>2. CASE j = Len(e) + 1
    BY <1>1, <2>2
  <2> QED BY <1>1, <2>1, <2>2
<1>3. Len(e) + 1 \in 1 .. Len(f)
  BY <1>1
<1> QED BY <1>1, <1>2, <1>3 DEF Once

(* A row's entry on account a survives a movement that does not use its key. *)
LEMMA OnceKept ==
    ASSUME TypeOK, NEW a \in Accounts, NEW k, NEW type, NEW amount,
           Once(entries[a], k, type, amount),
           Kept(a) \/ \E x \in Entry : Appended(a, x) /\ x.txn # k
    PROVE  Once(entries'[a], k, type, amount)
<1>1. CASE Kept(a)
  BY <1>1 DEF Kept
<1>2. ASSUME NEW x \in Entry, Appended(a, x), x.txn # k
      PROVE  Once(entries'[a], k, type, amount)
  <2>1. entries[a] \in Seq(Entry) /\ entries'[a] = Append(entries[a], x)
    BY <1>2 DEF Appended, TypeOK
  <2> QED BY <1>2, <2>1, OnceOther
<1> QED BY <1>1, <1>2

(* Entries that name rows still do when the table of rows grows. *)
LEMMA NamedAppend ==
    ASSUME NEW e \in Seq(Entry), NEW x \in Entry, NEW a, NEW T, NEW U, T \subseteq U,
           Named(e, a, T),
           x.txn # NoKey => \E t \in U : t.key = x.txn /\ a \in {t.src, t.dst}
    PROVE  Named(Append(e, x), a, U)
<1> DEFINE f == Append(e, x)
<1> SUFFICES ASSUME NEW i \in 1 .. Len(f), f[i].txn # NoKey
             PROVE  \E t \in U : t.key = f[i].txn /\ a \in {t.src, t.dst}
  BY DEF Named
<1>1. CASE i \in 1 .. Len(e)
  <2>1. f[i] = e[i]
    BY <1>1
  <2>2. PICK t \in T : t.key = e[i].txn /\ a \in {t.src, t.dst}
    BY <1>1, <2>1 DEF Named
  <2> QED BY <2>1, <2>2
<1>2. CASE i = Len(e) + 1
  BY <1>2
<1> QED BY <1>1, <1>2

(* Double entry when one movement of an account a without a key happens. *)
LEMMA KeylessDoubleEntry ==
    ASSUME TypeOK, DoubleEntry, NEW a \in Accounts, NEW x \in Entry, x.txn = NoKey,
           Appended(a, x), \A b \in Accounts \ {a} : Kept(b), UNCHANGED txns
    PROVE  DoubleEntry'
<1>1. ASSUME NEW t \in txns
      PROVE  /\ Once(entries'[t.src], t.key, "DEBIT", t.amount)
             /\ Once(entries'[t.dst], t.key, "CREDIT", t.amount)
  <2>1. t.key \in Keys /\ t.src \in Accounts /\ t.dst \in Accounts
    BY DEF TypeOK, Txn
  <2>2. /\ Once(entries[t.src], t.key, "DEBIT", t.amount)
        /\ Once(entries[t.dst], t.key, "CREDIT", t.amount)
    BY DEF DoubleEntry
  <2>3. x.txn # t.key
    BY <2>1
  <2> QED BY <2>1, <2>2, <2>3, OnceKept
<1>2. ASSUME NEW b \in Accounts PROVE Named(entries'[b], b, txns)
  <2>1. Named(entries[b], b, txns)
    BY DEF DoubleEntry
  <2>2. CASE b = a
    <3>1. entries[a] \in Seq(Entry) /\ entries'[a] = Append(entries[a], x)
      BY DEF Appended, TypeOK
    <3> QED BY <2>1, <2>2, <3>1, NamedAppend
  <2>3. CASE b # a
    BY <2>1, <2>3 DEF Kept
  <2> QED BY <2>2, <2>3
<1> QED BY <1>1, <1>2 DEF DoubleEntry, Once, Named

(* Double entry when a transfer with a fresh key happens. *)
LEMMA TransferDoubleEntry ==
    ASSUME TypeOK, DoubleEntry, NEW k \in Keys, NEW s \in Accounts, NEW d \in Accounts,
           NEW amount \in Amounts, Atomic!Transfer(k, s, d, amount)
    PROVE  DoubleEntry'
<1> DEFINE x == Debit(amount, balance[s] - amount, k)
           y == Credit(amount, balance[d] + amount, k)
           new == [key |-> k, src |-> s, dst |-> d, amount |-> amount]
<1>1. /\ x \in Entry /\ x.txn = k /\ x.type = "DEBIT" /\ x.amount = amount /\ Appended(s, x)
      /\ y \in Entry /\ y.txn = k /\ y.type = "CREDIT" /\ y.amount = amount /\ Appended(d, y)
      /\ \A a \in Accounts \ {s, d} : Kept(a)
  BY TransferWrites DEF Debit, Credit
<1> HIDE DEF x, y
<1>2. s # d /\ txns' = txns \cup {new} /\ (\A t \in txns : t.key # k) /\ k # NoKey
  BY DEF Atomic!Transfer
<1>3. /\ entries[s] \in Seq(Entry) /\ entries'[s] = Append(entries[s], x)
      /\ entries[d] \in Seq(Entry) /\ entries'[d] = Append(entries[d], y)
  BY <1>1 DEF Appended, TypeOK
<1>4. \A a \in Accounts : \A j \in 1 .. Len(entries[a]) : entries[a][j].txn # k
  BY <1>2 DEF DoubleEntry, Named
<1>5. Once(entries'[s], k, "DEBIT", amount) /\ Once(entries'[d], k, "CREDIT", amount)
  <2>1. Once(Append(entries[s], x), k, x.type, x.amount)
    BY <1>1, <1>3, <1>4, OnceNew
  <2>2. Once(Append(entries[d], y), k, y.type, y.amount)
    BY <1>1, <1>3, <1>4, OnceNew
  <2> QED BY <1>1, <1>3, <2>1, <2>2
<1>6. ASSUME NEW t \in txns
      PROVE  /\ Once(entries'[t.src], t.key, "DEBIT", t.amount)
             /\ Once(entries'[t.dst], t.key, "CREDIT", t.amount)
  <2>1. t.key # k /\ t.src \in Accounts /\ t.dst \in Accounts
    BY <1>2 DEF TypeOK, Txn
  <2>2. /\ Once(entries[t.src], t.key, "DEBIT", t.amount)
        /\ Once(entries[t.dst], t.key, "CREDIT", t.amount)
    BY DEF DoubleEntry
  <2>3. \A a \in Accounts : Kept(a) \/ \E z \in Entry : Appended(a, z) /\ z.txn # t.key
    BY <1>1, <2>1
  <2> QED BY <2>1, <2>2, <2>3, OnceKept
<1>7. ASSUME NEW a \in Accounts PROVE Named(entries'[a], a, txns')
  <2>1. Named(entries[a], a, txns) /\ txns \subseteq txns'
    BY <1>2 DEF DoubleEntry
  <2>2. \E t \in txns' : t.key = k /\ s \in {t.src, t.dst} /\ d \in {t.src, t.dst}
    <3>1. new \in txns' /\ new.key = k /\ new.src = s /\ new.dst = d
      BY <1>2
    <3> QED BY <3>1
  <2>3. CASE a = s
    <3>1. x.txn # NoKey => \E t \in txns' : t.key = x.txn /\ s \in {t.src, t.dst}
      BY <1>1, <2>2
    <3>2. Named(Append(entries[s], x), s, txns')
      BY <1>1, <1>3, <2>1, <2>3, <3>1, NamedAppend
    <3> QED BY <1>3, <2>3, <3>2
  <2>4. CASE a = d
    <3>1. y.txn # NoKey => \E t \in txns' : t.key = y.txn /\ d \in {t.src, t.dst}
      BY <1>1, <2>2
    <3>2. Named(Append(entries[d], y), d, txns')
      BY <1>1, <1>3, <2>1, <2>4, <3>1, NamedAppend
    <3> QED BY <1>3, <2>4, <3>2
  <2>5. CASE a \notin {s, d}
    <3>1. entries'[a] = entries[a]
      BY <1>1, <2>5 DEF Kept
    <3> QED BY <2>1, <3>1 DEF Named
  <2> QED BY <2>3, <2>4, <2>5
<1>8. \A t, u \in txns' : t.key = u.key => t = u
  BY <1>2 DEF DoubleEntry
<1>9. ASSUME NEW t \in txns'
      PROVE  /\ t.src # t.dst
             /\ Once(entries'[t.src], t.key, "DEBIT", t.amount)
             /\ Once(entries'[t.dst], t.key, "CREDIT", t.amount)
  <2>1. CASE t \in txns
    BY <1>6, <2>1 DEF DoubleEntry
  <2>2. CASE t = new
    BY <1>2, <1>5, <2>2
  <2> QED BY <1>2, <2>1, <2>2
<1> QED BY <1>7, <1>8, <1>9 DEF DoubleEntry, Once, Named

LEMMA DoubleEntryStep ==
    TypeOK /\ DoubleEntry /\ [Atomic!Next]_(Atomic!vars) => DoubleEntry'
<1> SUFFICES ASSUME TypeOK, DoubleEntry, [Atomic!Next]_(Atomic!vars) PROVE DoubleEntry'
  OBVIOUS
<1>1. CASE UNCHANGED Atomic!vars
  BY <1>1 DEF Atomic!vars, DoubleEntry, Once, Named
<1>2. ASSUME NEW amount \in Amounts, NEW a \in Accounts, Atomic!Deposit(a, amount)
      PROVE  DoubleEntry'
  <2> DEFINE x == Credit(amount, balance[a] + amount, NoKey)
  <2>1. x \in Entry /\ Appended(a, x) /\ x.txn = NoKey /\ \A b \in Accounts \ {a} : Kept(b)
    BY <1>2, DepositWrites DEF Credit
  <2>2. UNCHANGED txns
    BY <1>2 DEF Atomic!Deposit
  <2> HIDE DEF x
  <2> QED BY <2>1, <2>2, KeylessDoubleEntry
<1>3. ASSUME NEW amount \in Amounts, NEW a \in Accounts, Atomic!Withdraw(a, amount)
      PROVE  DoubleEntry'
  <2> DEFINE x == Debit(amount, balance[a] - amount, NoKey)
  <2>1. x \in Entry /\ Appended(a, x) /\ x.txn = NoKey /\ \A b \in Accounts \ {a} : Kept(b)
    BY <1>3, WithdrawWrites DEF Debit
  <2>2. UNCHANGED txns
    BY <1>3 DEF Atomic!Withdraw
  <2> HIDE DEF x
  <2> QED BY <2>1, <2>2, KeylessDoubleEntry
<1> QED BY <1>1, <1>2, <1>3, TransferDoubleEntry DEF Atomic!Next

(* Every committed transfer has its two entries, exactly once per key.      *)
THEOREM ExactlyOnce == Spec => []DoubleEntry
<1>1. Init => DoubleEntry
  BY DEF Init, DoubleEntry, Once, Named, OpeningEntries, Credit
<1> QED BY <1>1, TypeCorrect, Serialised, StepImplements, DoubleEntryStep, PTL DEF Spec

-----------------------------------------------------------------------------
(* Lock order. *)

(* A process that holds a row and waits for another waits for a higher one; *)
(* one that has inserted its key waits for nothing.                         *)
LEMMA LockOrder ==
    ASSUME IInv, NEW q \in Procs
    PROVE  /\ \A a, b \in Accounts : Holds(q, a) /\ WantsRow(q, b) => a < b
           /\ pc[q] = "commit" => \A x \in Procs : ~WaitsFor(q, x)
           /\ \A a \in Accounts : Holds(q, a) => pc[q] # "exec"
<1>1. pc[q] = "second" => FirstRow(req[q]) < SecondRow(req[q])
  <2> SUFFICES ASSUME pc[q] = "second" PROVE FirstRow(req[q]) < SecondRow(req[q])
    OBVIOUS
  <2>1. req[q].src \in Nat /\ req[q].dst \in Nat /\ req[q].src # req[q].dst
    BY DEF IInv, TypeOK, RequestOK, InTransaction, Request
  <2> QED BY <2>1 DEF FirstRow, SecondRow
<1> QED BY <1>1 DEF Holds, WantsRow, WaitsFor

LEMMA NoWaitCycleFromIInv == IInv => NoWaitCycle
<1> SUFFICES ASSUME IInv, NEW S \in SUBSET Procs, S # {},
                    \A p \in S : \E q \in S : WaitsFor(p, q)
             PROVE  FALSE
  BY DEF NoWaitCycle
<1> DEFINE T == {a \in Accounts : \E p, q \in S : WantsRow(p, a) /\ Holds(q, a)}
<1>1. ASSUME NEW p \in S, NEW q \in S, WaitsFor(p, q)
      PROVE  \E a \in T : WantsRow(p, a) /\ Holds(q, a)
  <2>1. PICK x \in S : WaitsFor(q, x)
    OBVIOUS
  <2>2. pc[q] # "commit"
    BY <2>1, LockOrder
  <2>3. PICK a \in Accounts : WantsRow(p, a) /\ Holds(q, a)
    BY <1>1, <2>2 DEF WaitsFor, HoldsKey
  <2> QED BY <2>3
<1>2. T # {}
  BY <1>1
<1>3. PICK n \in AccountIDs : \A a \in AccountIDs : a <= n
  BY BoundedAssumption DEF BoundedAssumption
<1>4. T \subseteq Nat /\ n \in Nat /\ \A a \in T : a <= n
  BY <1>3
<1>5. PICK m \in T : \A a \in T : a <= m
  BY <1>2, <1>4, Greatest
<1>6. PICK p \in S, q \in S : WantsRow(p, m) /\ Holds(q, m)
  OBVIOUS
<1>7. PICK x \in S : WaitsFor(q, x)
  OBVIOUS
<1>8. PICK b \in T : WantsRow(q, b) /\ Holds(x, b)
  BY <1>1, <1>7
<1>9. m < b /\ b <= m /\ m \in Nat /\ b \in Nat
  BY <1>4, <1>5, <1>6, <1>8, LockOrder
<1> QED BY <1>9

(* Updating rows in the order of their ids keeps the database free of       *)
(* deadlock, for any number of accounts and of concurrent requests.         *)
THEOREM DeadlockFree == Spec => []NoWaitCycle
BY Serialised, NoWaitCycleFromIInv, PTL

-----------------------------------------------------------------------------
LEMMA AnsweredStep == IInv /\ AnsweredIsRecorded /\ [Next]_vars => AnsweredIsRecorded'
<1> SUFFICES ASSUME IInv, AnsweredIsRecorded, [Next]_vars, NEW p \in Procs,
                    pc'[p] = "idle", reply'[p] = "ok", req'[p].op = "transfer"
             PROVE  \E t \in txns' : t.key = req'[p].key
  BY DEF AnsweredIsRecorded
<1>1. txns \subseteq txns'
  BY StepImplements DEF Atomic!Next, Atomic!Transfer, Atomic!Deposit, Atomic!Withdraw, Atomic!vars
<1>2. CASE pc[p] = "idle" /\ reply[p] = "ok" /\ req'[p] = req[p]
  BY <1>1, <1>2 DEF AnsweredIsRecorded
<1>3. CASE ~(pc[p] = "idle" /\ reply[p] = "ok" /\ req'[p] = req[p])
  <2>1. CheckIdempotency(p) \/ Commit(p) \/ DepositAtomic(p) \/ WithdrawAtomic(p)
    <3>1. Next
      BY <1>3 DEF vars
    <3>2. PICK q \in Procs :
             \/ \E r \in Request : Start(q, r)
             \/ Step(q) \/ LockTimeout(q) \/ Abort(q)
      BY <3>1 DEF Next
    <3>3. \A x \in Procs \ {q} : pc'[x] = pc[x] /\ reply'[x] = reply[x] /\ req'[x] = req[x]
      <4> DEFINE Others == \A x \in Procs \ {q} :
                              pc'[x] = pc[x] /\ reply'[x] = reply[x] /\ req'[x] = req[x]
      <4>1. ASSUME NEW r \in Request, Start(q, r) PROVE Others
        BY <4>1 DEF IInv, TypeOK, Start, Return, Goto
      <4>2. CASE CheckIdempotency(q) \/ ReadAccounts(q) \/ LockTimeout(q) \/ Abort(q)
        BY <4>2 DEF IInv, TypeOK, CheckIdempotency, ReadAccounts, LockTimeout, Abort,
                    Return, Goto
      <4>3. CASE UpdateFirst(q) \/ UpdateSecond(q)
        BY <4>3 DEF IInv, TypeOK, UpdateFirst, UpdateSecond, DebitAccount, CreditAccount,
                    Return
      <4>4. CASE CreateTransaction(q) \/ Commit(q)
        BY <4>4 DEF IInv, TypeOK, CreateTransaction, Commit, Return, Goto
      <4>5. CASE DepositAtomic(q) \/ WithdrawAtomic(q)
        BY <4>5 DEF IInv, TypeOK, DepositAtomic, WithdrawAtomic, Exec, Return
      <4> QED BY <3>2, <4>1, <4>2, <4>3, <4>4, <4>5 DEF Step
    <3>4. q = p
      BY <1>3, <3>3
    <3> QED BY <3>2, <3>4 DEF IInv, TypeOK, Step, Start, ReadAccounts, UpdateFirst,
                  UpdateSecond, DebitAccount, CreditAccount, CreateTransaction,
                  LockTimeout, Abort, Return, Goto
  <2>2. CASE CheckIdempotency(p)
    BY <2>2 DEF CheckIdempotency, Goto, db, IInv, TypeOK
  <2>3. CASE Commit(p)
    <3> DEFINE new == [key |-> req[p].key, src |-> req[p].src, dst |-> req[p].dst,
                       amount |-> req[p].amount]
    <3>1. new \in txns' /\ new.key = req'[p].key
      BY <2>3 DEF Commit
    <3> QED BY <3>1
  <2>4. CASE DepositAtomic(p) \/ WithdrawAtomic(p)
    BY <2>4 DEF DepositAtomic, WithdrawAtomic, Exec
  <2> QED BY <2>1, <2>2, <2>3, <2>4
<1> QED BY <1>2, <1>3

(* A success answer to a transfer is backed by a committed row. *)
THEOREM AnswersAreRecorded == Spec => []AnsweredIsRecorded
<1>1. Init => AnsweredIsRecorded
  BY DEF Init, AnsweredIsRecorded
<1> QED BY <1>1, Serialised, AnsweredStep, PTL DEF Spec

-----------------------------------------------------------------------------
(* Durability. *)

Snapshot == [balance : [Accounts -> Int], entries : [Accounts -> Seq(Entry)],
             txns : SUBSET Txn]

(* The movements of AtomicLedger, as a relation between two snapshots.       *)
Transferred(t, u, k, s, d, amount) ==
    /\ s # d
    /\ Currency[s] = Currency[d]
    /\ 0 < amount /\ amount <= t.balance[s]
    /\ \A x \in t.txns : x.key # k
    /\ u.balance = [t.balance EXCEPT ![s] = @ - amount, ![d] = @ + amount]
    /\ u.entries = [t.entries EXCEPT
                      ![s] = Append(@, Debit(amount, t.balance[s] - amount, k)),
                      ![d] = Append(@, Credit(amount, t.balance[d] + amount, k))]
    /\ u.txns = t.txns \cup {[key |-> k, src |-> s, dst |-> d, amount |-> amount]}

Added(t, u, a, change, entry) ==
    /\ u.balance = [t.balance EXCEPT ![a] = @ + change]
    /\ u.entries = [t.entries EXCEPT ![a] = Append(@, entry)]
    /\ u.txns = t.txns

Moved(t, u) ==
    \E amount \in Amounts :
       \/ \E k \in Keys, s, d \in Accounts : Transferred(t, u, k, s, d, amount)
       \/ /\ 0 < amount
          /\ \E a \in Accounts :
                \/ Added(t, u, a, amount, Credit(amount, t.balance[a] + amount, NoKey))
                \/ Added(t, u, a, -amount, Debit(amount, t.balance[a] - amount, NoKey))

(* The log: snapshots, each one movement after the one before it; the last    *)
(* one is the tables.                                                        *)
History ==
    /\ wal \in Seq(Snapshot) /\ wal # << >>
    /\ wal[Len(wal)] = Tables
    /\ \A i \in 1 .. Len(wal) - 1 : Moved(wal[i], wal[i + 1])

(* The inductive invariant. *)
DInv == IInv /\ History

LEMMA InitDInv == DurableInit => DInv /\ Durable!Init
<1> SUFFICES ASSUME DurableInit PROVE DInv /\ Durable!Init
  OBVIOUS
<1>1. IInv
  BY InitIInv DEF DurableInit
<1>2. Tables \in Snapshot
  BY <1>1 DEF IInv, TypeOK, Tables, Snapshot
<1>3. History
  BY <1>2 DEF DurableInit, History
<1>4. Durable!Init
  BY DEF DurableInit, Durable!Init, Init, Tables, OpeningEntries,
         Durable!OpeningEntries, Credit, Durable!Credit
<1> QED BY <1>1, <1>3, <1>4 DEF DInv

(* A movement of the tables is one of their snapshots. *)
LEMMA NextMoves ==
    ASSUME IInv, Atomic!Next
    PROVE  Moved(Tables, Tables')
<1>0. balance \in [Accounts -> Int]
  BY DEF IInv, TypeOK
<1>1. PICK amount \in Amounts :
          \/ \E k \in Keys, s, d \in Accounts : Atomic!Transfer(k, s, d, amount)
          \/ \E a \in Accounts : Atomic!Deposit(a, amount) \/ Atomic!Withdraw(a, amount)
  BY DEF Atomic!Next
<1>2. CASE \E k \in Keys, s, d \in Accounts : Atomic!Transfer(k, s, d, amount)
  <2>1. PICK k \in Keys, s \in Accounts, d \in Accounts : Atomic!Transfer(k, s, d, amount)
    BY <1>2
  <2>2. Transferred(Tables, Tables', k, s, d, amount)
    BY <2>1 DEF Atomic!Transfer, Transferred, Tables, Debit, Atomic!Debit,
                    Credit, Atomic!Credit
  <2> QED BY <2>2 DEF Moved
<1>3. ASSUME NEW a \in Accounts, Atomic!Deposit(a, amount)
      PROVE  Moved(Tables, Tables')
  <2>1. 0 < amount
    BY <1>3 DEF Atomic!Deposit
  <2>2. Added(Tables, Tables', a, amount, Credit(amount, Tables.balance[a] + amount, NoKey))
    BY <1>3 DEF Atomic!Deposit, Added, Tables, Credit, Atomic!Credit
  <2> QED BY <2>1, <2>2 DEF Moved
<1>4. ASSUME NEW a \in Accounts, Atomic!Withdraw(a, amount)
      PROVE  Moved(Tables, Tables')
  <2>1. 0 < amount
    BY <1>4 DEF Atomic!Withdraw
  <2>2. [balance EXCEPT ![a] = @ + (-amount)] = [balance EXCEPT ![a] = @ - amount]
    BY <1>0
  <2>3. Added(Tables, Tables', a, -amount, Debit(amount, Tables.balance[a] - amount, NoKey))
    BY <1>4, <2>2 DEF Atomic!Withdraw, Added, Tables, Debit, Atomic!Debit
  <2> QED BY <2>1, <2>3 DEF Moved
<1> QED BY <1>1, <1>2, <1>3, <1>4

(* A step of Ledger extends the history. *)
LEMMA StepDInv ==
    ASSUME DInv, Next, Logged
    PROVE  DInv' /\ UNCHANGED wal[1]
<1>1. IInv'
  BY NextIInv DEF DInv
<1>2. Tables' \in Snapshot
  BY <1>1 DEF IInv, TypeOK, Tables, Snapshot
<1>3. CASE UNCHANGED db
  <2>1. UNCHANGED <<wal, Tables>>
    BY <1>3 DEF Logged, db, Tables
  <2> QED BY <1>1, <2>1 DEF DInv, History
<1>4. CASE ~UNCHANGED db
  <2>1. wal' = Append(wal, Tables')
    BY <1>4 DEF Logged
  <2>2. Atomic!Next
    BY <1>4, StepImplements DEF DInv, Atomic!vars, db
  <2>3. Moved(Tables, Tables')
    BY <2>2, NextMoves DEF DInv
  <2>4. /\ wal' \in Seq(Snapshot) /\ wal' # << >> /\ wal'[Len(wal')] = Tables'
        /\ Len(wal') = Len(wal) + 1 /\ \A i \in 1 .. Len(wal) : wal'[i] = wal[i]
    BY <1>2, <2>1 DEF DInv, History
  <2>5. \A i \in 1 .. Len(wal') - 1 : Moved(wal'[i], wal'[i + 1])
    <3> TAKE i \in 1 .. Len(wal') - 1
    <3>1. CASE i = Len(wal)
      BY <2>3, <2>4, <3>1 DEF DInv, History
    <3>2. CASE i # Len(wal)
      BY <2>4, <3>2 DEF DInv, History
    <3> QED BY <3>1, <3>2
  <2> QED BY <1>1, <2>4, <2>5 DEF DInv, History
<1> QED BY <1>3, <1>4

(* A flush drops the oldest snapshot: on disk, that is a movement. *)
LEMMA FlushDInv ==
    ASSUME DInv, Flush
    PROVE  DInv' /\ Durable!Next
<1>1. UNCHANGED vars
  BY DEF Flush
<1>2. IInv'
  BY <1>1, NextIInv DEF DInv
<1>3. /\ wal' \in Seq(Snapshot) /\ Len(wal') = Len(wal) - 1 /\ wal' # << >>
      /\ \A i \in 1 .. Len(wal') : wal'[i] = wal[i + 1]
  <2>1. wal \in Seq(Snapshot) /\ Len(wal) \in Nat /\ Len(wal) > 1 /\ wal' = Tail(wal)
    BY DEF DInv, History, Flush
  <2>2. wal' \in Seq(Snapshot) /\ Len(wal') = Len(wal) - 1
    BY <2>1
  <2>3. \A i \in 1 .. Len(wal') : wal'[i] = wal[i + 1]
    BY <2>1, HeadTailProperties
  <2>4. Len(wal') > 0
    BY <2>1, <2>2
  <2>5. wal' # << >>
    BY <2>4
  <2> QED BY <2>2, <2>3, <2>5
<1>4. Tables' = Tables
  BY <1>1 DEF vars, Tables
<1>5. History'
  <2>1. wal'[Len(wal')] = Tables'
    BY <1>3, <1>4 DEF DInv, History
  <2>2. ASSUME NEW i \in 1 .. Len(wal') - 1 PROVE Moved(wal'[i], wal'[i + 1])
    <3>1. wal'[i] = wal[i + 1] /\ wal'[i + 1] = wal[i + 1 + 1]
      BY <1>3
    <3>2. Moved(wal[i + 1], wal[i + 1 + 1])
      BY <1>3 DEF DInv, History
    <3> QED BY <3>1, <3>2
  <2> QED BY <1>3, <2>1, <2>2 DEF History
<1>6. Moved(wal[1], wal'[1]) /\ wal[1] \in Snapshot
  BY <1>3 DEF DInv, History, Flush
<1>7. Durable!Next
  <2>1. PICK amount \in Amounts :
            \/ \E k \in Keys, s, d \in Accounts : Transferred(wal[1], wal'[1], k, s, d, amount)
            \/ /\ 0 < amount
               /\ \E a \in Accounts :
                     \/ Added(wal[1], wal'[1], a, amount,
                              Credit(amount, wal[1].balance[a] + amount, NoKey))
                     \/ Added(wal[1], wal'[1], a, -amount,
                              Debit(amount, wal[1].balance[a] - amount, NoKey))
    BY <1>6 DEF Moved
  <2>2. ASSUME NEW k \in Keys, NEW s \in Accounts, NEW d \in Accounts,
               Transferred(wal[1], wal'[1], k, s, d, amount)
        PROVE  Durable!Next
    <3>1. Durable!Transfer(k, s, d, amount)
      BY <2>2 DEF Transferred, Durable!Transfer, Debit, Durable!Debit, Credit,
                    Durable!Credit
    <3> QED BY <3>1 DEF Durable!Next
  <2>3. ASSUME NEW a \in Accounts, 0 < amount,
               Added(wal[1], wal'[1], a, amount,
                     Credit(amount, wal[1].balance[a] + amount, NoKey))
        PROVE  Durable!Next
    <3>1. Durable!Deposit(a, amount)
      BY <2>3 DEF Added, Durable!Deposit, Credit, Durable!Credit
    <3> QED BY <3>1 DEF Durable!Next
  <2>4. ASSUME NEW a \in Accounts, 0 < amount,
               Added(wal[1], wal'[1], a, -amount,
                     Debit(amount, wal[1].balance[a] - amount, NoKey))
        PROVE  Durable!Next
    <3>1. [wal[1].balance EXCEPT ![a] = @ + (-amount)] = [wal[1].balance EXCEPT ![a] = @ - amount]
      BY <1>6 DEF Snapshot
    <3>2. Durable!Withdraw(a, amount)
      BY <2>4, <3>1 DEF Added, Durable!Withdraw, Debit, Durable!Debit
    <3> QED BY <3>2 DEF Durable!Next
  <2> QED BY <2>1, <2>2, <2>3, <2>4
<1> QED BY <1>2, <1>5, <1>7 DEF DInv

(* A crash keeps only what is on disk, and nobody is in a transaction then. *)
LEMMA CrashDInv ==
    ASSUME DInv, Crash
    PROVE  DInv' /\ UNCHANGED wal[1]
<1>1. wal[1] \in Snapshot
  BY DEF DInv, History
<1>2. Tables' = wal[1] /\ wal' = <<wal[1]>>
  BY <1>1 DEF Crash, Tables, Snapshot
<1>3. History'
  BY <1>1, <1>2 DEF History
<1>4. TypeOK'
  <2>1. balance' \in [Accounts -> Int] /\ entries' \in [Accounts -> Seq(Entry)] /\ txns' \subseteq Txn
    BY <1>1 DEF Crash, Snapshot
  <2>2. /\ pc' \in [Procs -> InTransaction \cup {"idle", "exec"}]
        /\ reply' \in [Procs -> Errors \cup {"none", "ok"}]
        /\ updated' \in [Procs -> [src : Int, dst : Int]]
    BY DEF DInv, IInv, TypeOK, Crash, Disconnect, NoUpdate, Errors
  <2>3. \A p \in Procs : pc'[p] = "idle"
    BY DEF Crash, Disconnect
  <2> QED BY <2>1, <2>2, <2>3 DEF DInv, IInv, TypeOK, Crash, Disconnect
<1>5. RequestOK' /\ LockDiscipline' /\ NoLostUpdate'
  <2>1. \A p \in Procs : pc'[p] = "idle"
    BY DEF Crash, Disconnect
  <2> QED BY <2>1 DEF RequestOK, LockDiscipline, NoLostUpdate, Holds, HoldsKey, InTransaction
<1> QED BY <1>2, <1>3, <1>4, <1>5 DEF DInv, IInv

LEMMA DurableStep ==
    DInv /\ [DurableNext]_durabilityVars => DInv' /\ [Durable!Next]_(Durable!vars)
<1> SUFFICES ASSUME DInv, [DurableNext]_durabilityVars
             PROVE  DInv' /\ [Durable!Next]_(Durable!vars)
  OBVIOUS
<1>1. CASE Next /\ Logged
  BY <1>1, StepDInv DEF Durable!vars
<1>2. CASE Flush
  BY <1>2, FlushDInv
<1>3. CASE Crash
  BY <1>3, CrashDInv DEF Durable!vars
<1>4. CASE UNCHANGED durabilityVars
  <2>1. UNCHANGED <<vars, wal>>
    BY <1>4 DEF durabilityVars
  <2>2. IInv'
    BY <2>1, NextIInv DEF DInv
  <2>3. History'
    BY <2>1 DEF DInv, History, Tables, vars
  <2> QED BY <2>1, <2>2, <2>3 DEF DInv, Durable!vars
<1> QED BY <1>1, <1>2, <1>3, <1>4 DEF DurableNext

-----------------------------------------------------------------------------
(* Crashes included, what an open transfer computed under its row locks is    *)
(* current, and the log is a history of the atomic ledger.                   *)
THEOREM LogIsHistory == DurableSpec => []DInv
<1>1. DurableInit => DInv
  BY InitDInv
<1>2. DInv /\ [DurableNext]_durabilityVars => DInv'
  BY DurableStep
<1> QED BY <1>1, <1>2, PTL DEF DurableSpec

(* What is on disk implements the atomic ledger, whatever a crash loses.      *)
THEOREM DiskIsAtomic == DurableSpec => DurableIsAtomic
<1>1. DurableInit => Durable!Init
  BY InitDInv
<1>2. DInv /\ [DurableNext]_durabilityVars => [Durable!Next]_(Durable!vars)
  BY DurableStep
<1> QED BY <1>1, <1>2, LogIsHistory, PTL DEF DurableSpec, DurableIsAtomic, Durable!Spec

-----------------------------------------------------------------------------
(* AuditChain, TransferCovered and DoubleEntry, of a snapshot.               *)
SoundIn(t) ==
    /\ \A a \in Accounts : Chain(t.entries[a], t.balance[a]) /\ Covered(t.entries[a])
    /\ \A x, y \in t.txns : x.key = y.key => x = y
    /\ \A x \in t.txns :
          /\ x.src # x.dst
          /\ Once(t.entries[x.src], x.key, "DEBIT", x.amount)
          /\ Once(t.entries[x.dst], x.key, "CREDIT", x.amount)
    /\ \A a \in Accounts : Named(t.entries[a], a, t.txns)

SoundHistory == \A i \in 1 .. Len(wal) : SoundIn(wal[i])

LEMMA SoundTables == SoundIn(Tables) <=> AuditChain /\ TransferCovered /\ DoubleEntry
BY DEF SoundIn, Tables, AuditChain, TransferCovered, DoubleEntry

LEMMA SoundTablesPrime ==
    SoundIn(Tables') <=> (AuditChain /\ TransferCovered /\ DoubleEntry)'
BY DEF SoundIn, Tables, AuditChain, TransferCovered, DoubleEntry

LEMMA InitSound == DurableInit => SoundHistory
<1>1. Init => AuditChain
  BY AccountsAssumption DEF AccountsAssumption, Init, AuditChain, Chain, OpeningEntries,
                            Credit, Signed
<1>2. Init => TransferCovered
  BY DEF Init, TransferCovered, Covered, OpeningEntries, Credit
<1>3. Init => DoubleEntry
  BY DEF Init, DoubleEntry, Once, Named, OpeningEntries, Credit
<1> QED BY <1>1, <1>2, <1>3, SoundTables DEF DurableInit, SoundHistory

LEMMA SoundStep ==
    DInv /\ DInv' /\ SoundHistory /\ [DurableNext]_durabilityVars => SoundHistory'
<1> SUFFICES ASSUME DInv, DInv', SoundHistory, [DurableNext]_durabilityVars
             PROVE  SoundHistory'
  OBVIOUS
<1>1. CASE Next /\ Logged
  <2>1. SoundIn(Tables)
    BY DEF DInv, History, SoundHistory
  <2>2. SoundIn(Tables')
    <3>1. TypeOK /\ [Atomic!Next]_(Atomic!vars)
      BY <1>1, StepImplements DEF DInv, IInv
    <3> QED BY <2>1, <3>1, SoundTables, SoundTablesPrime, AuditStep, CoveredStep,
               DoubleEntryStep
  <2>3. CASE UNCHANGED wal
    BY <2>3 DEF SoundHistory
  <2>4. CASE wal' = Append(wal, Tables')
    <3>1. wal \in Seq(Snapshot)
      BY DEF DInv, History
    <3>2. SUFFICES ASSUME NEW i \in 1 .. Len(wal') PROVE SoundIn(wal'[i])
      BY DEF SoundHistory
    <3>3. Len(wal') = Len(wal) + 1 /\ i \in 1 .. Len(wal) + 1
      BY <2>4, <3>1
    <3>4. CASE i = Len(wal) + 1
      BY <2>2, <2>4, <3>1, <3>4
    <3>5. CASE i # Len(wal) + 1
      BY <2>4, <3>1, <3>3, <3>5 DEF SoundHistory
    <3> QED BY <3>4, <3>5
  <2> QED BY <1>1, <2>3, <2>4 DEF Logged
<1>2. CASE Flush
  <2>1. \A i \in 1 .. Len(wal') : wal'[i] = wal[i + 1] /\ i + 1 \in 1 .. Len(wal)
    BY <1>2, HeadTailProperties DEF DInv, History, Flush
  <2> QED BY <2>1 DEF SoundHistory
<1>3. CASE Crash
  <2>1. SoundIn(wal[1]) /\ wal' = <<wal[1]>>
    BY <1>3 DEF Crash, DInv, History, SoundHistory
  <2> QED BY <2>1 DEF SoundHistory
<1>4. CASE UNCHANGED durabilityVars
  BY <1>4 DEF durabilityVars, SoundHistory
<1> QED BY <1>1, <1>2, <1>3, <1>4 DEF DurableNext

(* Every state the log may fall back to is one in which the books are right.  *)
THEOREM HistoryIsSound == DurableSpec => []SoundHistory
BY InitSound, SoundStep, LogIsHistory, PTL DEF DurableSpec

(* The audit trail, the funds check and the double entry survive every crash: *)
(* a transfer is lost whole, with the ones that followed it.                  *)
THEOREM BooksSurviveCrashes ==
    DurableSpec => [](AuditChain /\ TransferCovered /\ DoubleEntry)
<1>1. DInv /\ SoundHistory => AuditChain /\ TransferCovered /\ DoubleEntry
  BY SoundTables DEF DInv, History, SoundHistory
<1> QED BY <1>1, LogIsHistory, HistoryIsSound, PTL

(* Nor does the reconciliation query find anything after a crash: no entry is  *)
(* lost without the balance it accounts for.                                 *)
THEOREM ReconciledAfterCrash == DurableSpec => []Reconciled
<1>1. DInv /\ AuditChain => Reconciled
  BY ReconciledFromAudit DEF DInv, IInv
<1> QED BY <1>1, LogIsHistory, BooksSurviveCrashes, PTL

(* No requests wait for one another in a cycle, before or after a crash.      *)
THEOREM DeadlockFreeAfterCrash == DurableSpec => []NoWaitCycle
<1>1. DInv => NoWaitCycle
  BY NoWaitCycleFromIInv DEF DInv
<1> QED BY <1>1, LogIsHistory, PTL
=============================================================================
