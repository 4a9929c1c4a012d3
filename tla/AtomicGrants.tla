---------------------------- MODULE AtomicGrants ----------------------------
(***************************************************************************)
(* What the credit grants promise: each request happens at one instant.      *)
(* A waterfall debit takes exactly its amount, from the grants that were     *)
(* usable when it began, in their order, and then from cash that is there.   *)
(* A drawdown takes at most its amount from active grants of its account.    *)
(* Nothing is taken from a grant that is settled, and every grant keeps a     *)
(* trail of what was taken.                                                 *)
(***************************************************************************)
EXTENDS GrantBase

VARIABLES balance, entries, grants, audit, clock

vars == <<balance, entries, grants, audit, clock>>

Init ==
    /\ balance = Opening
    /\ entries = [a \in Accounts |-> OpeningEntries(a)]
    /\ grants = Issued
    /\ audit = [g \in Keys |-> << >>]
    /\ clock = 0

Issue(k, a, amount, terms) ==
    /\ grants[k] = NoGrant /\ amount > 0
    /\ grants' = [grants EXCEPT ![k] = NewGrant(a, amount, terms)]
    /\ UNCHANGED <<balance, entries, audit, clock>>

(* f says what is taken from each grant. *)
Amount == UNION {0 .. grants[g].remaining : g \in Keys}

(* f may be taken from the grants of account a. *)
Takeable(a, f) ==
    \A g \in Keys : f[g] > 0 =>
       /\ grants[g].status = "ACTIVE" /\ grants[g].account = a
       /\ f[g] <= grants[g].remaining

(* A row of which amount is taken. *)
Reduced(g, amount) ==
    [g EXCEPT !.remaining = @ - amount,
              !.status = IF amount = g.remaining THEN "DEPLETED" ELSE @]

Take(f) ==
    /\ UNCHANGED clock
    /\ grants' = [g \in Keys |->
          IF f[g] = 0 THEN grants[g] ELSE Reduced(grants[g], f[g])]
    /\ audit' = [g \in Keys |->
          IF f[g] = 0 THEN audit[g]
          ELSE Append(audit[g], Drawn(f[g], grants[g].remaining))]

Drawdown(f, amount) == Sum(f) <= amount /\ UNCHANGED <<balance, entries>>

Pay(a, amount) ==
    IF amount = 0 THEN UNCHANGED <<balance, entries>>
    ELSE /\ 0 < amount /\ amount <= balance[a]
         /\ balance' = [balance EXCEPT ![a] = @ - amount]
         /\ entries' = [entries EXCEPT
                          ![a] = Append(@, Debit(amount, balance[a] - amount, NoKey))]

(* The waterfall that began at time t. *)
Waterfall(a, f, amount, t) ==
    LET usable == {g \in Keys : /\ grants[g].status = "ACTIVE"
                                /\ grants[g].account = a /\ grants[g].expires > t}
        usedUp(g) == f[g] = grants[g].remaining
    IN  /\ \A g \in Keys : f[g] > 0 =>
              /\ g \in usable
              /\ \A h \in usable : Earlier(grants[h], grants[g]) => usedUp(h)
        /\ Sum(f) < amount => \A h \in usable : usedUp(h)
        /\ Pay(a, amount - Sum(f))

(* An expiry that began at time t. *)
Expire(S, t) ==
    /\ \A g \in S : grants[g].status = "ACTIVE" /\ grants[g].expires < t
    /\ UNCHANGED <<balance, entries, audit, clock>>
    /\ grants' = [g \in Keys |->
          IF g \in S THEN [grants[g] EXCEPT !.status = "EXPIRED"] ELSE grants[g]]

Move(a, amount, entry) ==
    /\ balance' = [balance EXCEPT ![a] = @ + amount]
    /\ entries' = [entries EXCEPT ![a] = Append(@, entry)]
    /\ UNCHANGED <<grants, audit, clock>>

Deposit(a, amount) == Move(a, amount, Credit(amount, balance[a] + amount, NoKey))

Withdraw(a, amount) == Move(a, -amount, Debit(amount, balance[a] - amount, NoKey))

Tick == clock' = clock + 1 /\ UNCHANGED <<balance, entries, grants, audit>>

Next ==
    \/ Tick
    \/ \E t \in 0 .. clock, S \in SUBSET Keys : Expire(S, t)
    \/ \E a \in Accounts, amount \in Amounts :
          \/ amount > 0 /\ (Deposit(a, amount) \/ Withdraw(a, amount))
          \/ \E k \in Keys, terms \in Terms : Issue(k, a, amount, terms)
    \/ \E a \in Accounts, f \in [Keys -> Amount] :
          /\ Take(f) /\ Takeable(a, f)
          /\ \E amount \in Amounts :
                Drawdown(f, amount) \/ \E t \in 0 .. clock : Waterfall(a, f, amount, t)

Spec == Init /\ [][Next]_vars
=============================================================================
