---------------------------- MODULE AtomicLedger ----------------------------
(***************************************************************************)
(* What the ledger promises: every money movement happens at one instant.  *)
(* A transfer moves money that is there, between two accounts of the same  *)
(* currency, writes its row and its two entries, and does so once per      *)
(* idempotency key.  Deposits and withdrawals change one balance and       *)
(* append one entry; the code gives them no key and no funds check.        *)
(***************************************************************************)
EXTENDS LedgerBase

VARIABLES balance, entries, txns

vars == <<balance, entries, txns>>

Init ==
    /\ balance = Opening
    /\ entries = [a \in Accounts |-> OpeningEntries(a)]
    /\ txns = {}

Transfer(k, s, d, amount) ==
    /\ s # d
    /\ Currency[s] = Currency[d]
    /\ 0 < amount /\ amount <= balance[s]
    /\ \A t \in txns : t.key # k
    /\ balance' = [balance EXCEPT ![s] = @ - amount, ![d] = @ + amount]
    /\ entries' = [entries EXCEPT
                     ![s] = Append(@, Debit(amount, balance[s] - amount, k)),
                     ![d] = Append(@, Credit(amount, balance[d] + amount, k))]
    /\ txns' = txns \cup {[key |-> k, src |-> s, dst |-> d, amount |-> amount]}

Deposit(a, amount) ==
    /\ 0 < amount
    /\ balance' = [balance EXCEPT ![a] = @ + amount]
    /\ entries' = [entries EXCEPT
                     ![a] = Append(@, Credit(amount, balance[a] + amount, NoKey))]
    /\ UNCHANGED txns

Withdraw(a, amount) ==
    /\ 0 < amount
    /\ balance' = [balance EXCEPT ![a] = @ - amount]
    /\ entries' = [entries EXCEPT
                     ![a] = Append(@, Debit(amount, balance[a] - amount, NoKey))]
    /\ UNCHANGED txns

Next ==
    \E amount \in Amounts :
       \/ \E k \in Keys, s, d \in Accounts : Transfer(k, s, d, amount)
       \/ \E a \in Accounts : Deposit(a, amount) \/ Withdraw(a, amount)

Spec == Init /\ [][Next]_vars
=============================================================================
