----------------------------- MODULE TigerBeetle -----------------------------
(***************************************************************************)
(* What tigerbeetle-setup expects of TigerBeetle's CreateTransfers: double   *)
(* entry over accounts that may be constrained, two-phase transfers,         *)
(* balancing transfers, and linked chains that are executed as a whole or    *)
(* not at all.  TigerBeetle is not part of the repository; this module only  *)
(* has the rules its two client programs use.                                *)
(*                                                                         *)
(* A cluster is a record: what every account has posted and pending on each  *)
(* side, and the pending transfers that are neither posted nor voided.       *)
(***************************************************************************)
EXTENDS Integers, Sequences, SequencesExt

CONSTANTS
    Account,      \* the accounts that exist
    Constrained,  \* those created with DebitsMustNotExceedCredits
    MaxErrors     \* bound: calls that return an error to a client that goes on

VARIABLE cluster  \* the state of the TigerBeetle cluster

Empty == [debits_posted |-> 0, debits_pending |-> 0,
          credits_posted |-> 0, credits_pending |-> 0]

EmptyCluster == [accounts |-> [a \in Account |-> Empty], pending |-> {}]

(* types.Transfer: flags is the set of the flags that are set, and pending_id *)
(* names the transfer that is posted or voided (or is the transfer's own id,  *)
(* for a pending one).                                                       *)
Transfer(debit, credit, amount, flags) ==
    [debit |-> debit, credit |-> credit, amount |-> amount, flags |-> flags,
     pending_id |-> 0]

Sub(x, y) == IF x > y THEN x - y ELSE 0
Least(x, y) == IF x <= y THEN x ELSE y

(* balancing_debit takes no more than the debit account has, balancing_credit *)
(* gives no more than the credit account lacks.                              *)
Amount(accounts, t) ==
    LET d == accounts[t.debit]
        c == accounts[t.credit]
        has == Sub(d.credits_posted, d.debits_posted + d.debits_pending)
        lacks == Sub(c.debits_posted, c.credits_posted + c.credits_pending)
        x == IF "balancing_debit" \in t.flags THEN Least(t.amount, has) ELSE t.amount
    IN  IF "balancing_credit" \in t.flags THEN Least(x, lacks) ELSE x

ExceedsCredits(accounts, t) ==
    LET d == accounts[t.debit] IN
    /\ t.debit \in Constrained
    /\ d.debits_posted + d.debits_pending + Amount(accounts, t) > d.credits_posted

Post(accounts, t, amount) ==
    [accounts EXCEPT ![t.debit].debits_posted = @ + amount,
                     ![t.credit].credits_posted = @ + amount]

Reserve(accounts, t, amount) ==
    [accounts EXCEPT ![t.debit].debits_pending = @ + amount,
                     ![t.credit].credits_pending = @ + amount]

(* One transfer on its own: the result, and the cluster if it succeeds. *)
Execute(k, t) ==
    LET reserved == CHOOSE r \in k.pending : r.pending_id = t.pending_id
        released == [accounts |-> Reserve(k.accounts, reserved, -reserved.amount),
                     pending |-> k.pending \ {reserved}]
    IN  IF "post_pending" \in t.flags \/ "void_pending" \in t.flags
          THEN IF ~\E r \in k.pending : r.pending_id = t.pending_id
                 THEN [result |-> "pending_transfer_not_found", cluster |-> k]
                 ELSE [result |-> "ok",
                       cluster |-> IF "void_pending" \in t.flags THEN released
                                   ELSE [released EXCEPT !.accounts = Post(@, t, t.amount)]]
        ELSE IF ExceedsCredits(k.accounts, t)
          THEN [result |-> "exceeds_credits", cluster |-> k]
        ELSE IF "pending" \in t.flags
          THEN [result |-> "ok",
                cluster |-> [accounts |-> Reserve(k.accounts, t, t.amount),
                             pending |-> k.pending \cup {t}]]
        ELSE [result |-> "ok",
              cluster |-> [k EXCEPT
                 !.accounts = Post(@, t, Amount(k.accounts, t))]]

(* A chain is a run of linked transfers and the first one after them.  When   *)
(* one of them fails the cluster is as before the chain.                     *)
InBatch(k) ==
    [cluster |-> k, before |-> k, open |-> 0, broken |-> FALSE, failures |-> 0]

AfterNext(b, t) ==
    LET r == Execute(b.cluster, t)
        fails == b.broken \/ r.result # "ok"
        linked == "linked" \in t.flags
    IN  [cluster |-> IF fails THEN b.before ELSE r.cluster,
         before |-> IF linked THEN b.before ELSE IF fails THEN b.before ELSE r.cluster,
         open |-> IF linked THEN b.open + 1 ELSE 0,
         broken |-> linked /\ fails,
         failures |-> b.failures +
            (IF b.broken THEN 1 ELSE IF fails THEN b.open + 1 ELSE 0)]

(* CreateTransfers answers with one entry for every transfer that failed,    *)
(* the others of its chain included.                                         *)
CreateTransfers(k, batch) ==
    LET b == FoldLeft(AfterNext, InBatch(k), batch)
    IN  [cluster |-> b.cluster, failures |-> b.failures]
=============================================================================
