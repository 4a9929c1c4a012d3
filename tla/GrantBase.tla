------------------------------ MODULE GrantBase ------------------------------
(***************************************************************************)
(* The tables of internal/grants/service.go, next to those of LedgerBase:    *)
(*                                                                         *)
(*   credit_grants         grants[g], a row per idempotency key it was       *)
(*                         issued under, or NoGrant                          *)
(*   grant_ledger_entries  audit[g], the drawdowns of a grant in the order    *)
(*                         in which they were committed                      *)
(***************************************************************************)
EXTENDS LedgerBase, FiniteSets

CONSTANTS
    Terms,        \* the [priority, expires] a client may ask for
    Issued        \* the grants table at the start

NoGrant == [account |-> 0, initial |-> 0, remaining |-> 0, status |-> "NONE",
            priority |-> 0, expires |-> 0]

Grant ==
    [account : Accounts, initial : Nat \ {0}, remaining : Nat,
     status : {"ACTIVE", "EXPIRED", "DEPLETED"}, priority : Nat, expires : Nat]

ASSUME IssuedAssumption ==
    /\ Issued \in [Keys -> Grant \cup {NoGrant}]
    /\ \A g \in Keys : Issued[g].remaining = Issued[g].initial
    /\ \A g \in Keys : Issued[g] # NoGrant => Issued[g].status = "ACTIVE"
    /\ Terms \subseteq [priority : Nat, expires : Nat]
(* A key is a UUID: there are finitely many. *)
ASSUME FiniteKeysAssumption == IsFiniteSet(Keys)
(* An INT and a TIMESTAMPTZ: both are bounded.                               *)
ASSUME TermsBoundedAssumption ==
    LET rows == Terms \cup {Issued[g] : g \in Keys}
        numbers == {0} \cup UNION {{t.priority, t.expires} : t \in rows}
    IN  \E n \in numbers : \A m \in numbers : m <= n

NewGrant(account, amount, terms) ==
    [account |-> account, initial |-> amount, remaining |-> amount,
     status |-> "ACTIVE", priority |-> terms.priority, expires |-> terms.expires]

(* ORDER BY priority ASC, expires_at ASC. *)
Earlier(g, h) ==
    \/ g.priority < h.priority
    \/ g.priority = h.priority /\ g.expires < h.expires

(* What f says of each grant, added up. *)
Sum(f) == MapThenSumSet(LAMBDA g : f[g], Keys)

(* The entry of a drawdown: what it took of what it had read.                *)
Drawn(amount, read) == [amount |-> amount, after |-> read - amount]
=============================================================================
