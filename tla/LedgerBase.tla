----------------------------- MODULE LedgerBase -----------------------------
(***************************************************************************)
(* The tables of the PostgreSQL ledger that the money movements of         *)
(* internal/ledger/service.go read and write, as data types, and the       *)
(* constants every ledger specification shares.                            *)
(*                                                                         *)
(*   accounts        balance[a], a committed balance per account row       *)
(*   ledger_entries  entries[a], the audit entries of an account in the    *)
(*                   order in which they were committed                    *)
(*   transactions    txns, the committed TRANSFER rows                     *)
(***************************************************************************)
EXTENDS Integers, Sequences, SequencesExt

CONSTANTS
    AccountIDs,   \* account ids a client may name, ordered as their strings are
    Accounts,     \* the ids that have a row in the accounts table
    Currency,     \* the currency column of every row
    Opening,      \* the opening balance, credited by the welcome bonus
    Keys,         \* idempotency keys
    Amounts,      \* amounts a client may ask for, zero and negative ones too
    NoKey         \* the transaction_id of an entry that no transfer wrote

ASSUME AccountsAssumption ==
    /\ AccountIDs \subseteq Nat
    /\ Accounts \subseteq AccountIDs
    /\ Opening \in [Accounts -> Nat]
(* The accounts table is finite: its ids are bounded. *)
ASSUME BoundedAssumption == \E n \in AccountIDs : \A a \in AccountIDs : a <= n
ASSUME AmountsAssumption == Amounts \subseteq Int
ASSUME KeysAssumption == NoKey \notin Keys

Entry == [type : {"CREDIT", "DEBIT"}, amount : Int, after : Int,
          txn : Keys \cup {NoKey}]

Txn == [key : Keys, src : Accounts, dst : Accounts, amount : Int]

CreditBeforeUpdate(amount, after, txn) ==
    [type |-> "CREDIT", amount |-> amount, after |-> after - amount, txn |-> txn]

DebitAsWithdrawal(amount, after, txn) ==
    [type |-> "WITHDRAWAL", amount |-> amount, after |-> after, txn |-> txn]

OpeningEntriesUnlogged(a) == << >>

(* The rows CreateLedgerEntry, DepositAtomic and WithdrawAtomic insert. *)
Credit(amount, after, txn) ==
    [type |-> "CREDIT", amount |-> amount, after |-> after, txn |-> txn]

Debit(amount, after, txn) ==
    [type |-> "DEBIT", amount |-> amount, after |-> after, txn |-> txn]

(* An account starts empty; the welcome bonus that CreateUser pays is a      *)
(* CREDIT entry.  Its DEPOSIT row has a key derived from the user's name,   *)
(* which no client sends, and is left out of txns.                          *)
OpeningEntries(a) ==
    IF Opening[a] = 0 THEN << >> ELSE <<Credit(Opening[a], Opening[a], NoKey)>>

(* What an entry did to the balance. *)
Signed(e) == IF e.type = "CREDIT" THEN e.amount ELSE -e.amount

(* What the discrepancy query of the admin handler adds up for an account:    *)
(* its CREDIT entries less its DEBIT ones.                                   *)
EntrySum(e) == FoldSeq(LAMBDA x, sum : sum + Signed(x), 0, e)

(* The entries e of an account chain up to its balance b: every             *)
(* balance_after is the previous one plus the entry's own signed amount.    *)
Chain(e, b) ==
    /\ b = IF e = << >> THEN 0 ELSE e[Len(e)].after
    /\ \A i \in 1 .. Len(e) :
          e[i].after = Signed(e[i]) + IF i = 1 THEN 0 ELSE e[i - 1].after
=============================================================================
