---------------------------- MODULE GrantsProofs ----------------------------
(***************************************************************************)
(* Theorems about the credit grants: for any number of concurrent requests,  *)
(* any set of grants and any clock.                                         *)
(***************************************************************************)
EXTENDS Grants, LedgerBaseProofs, SequenceTheorems, TLAPS

Labels == {"idle", "key", "insert", "account", "select", "lock", "consume"}
Replies == {"none", "ok", "error", "BadRequest", "ErrInvalidAmount",
            "ErrAccountNotFound", "ErrInsufficientGrants", "ErrInsufficientFunds"}
Draw == [amount : Nat \ {0}, after : Nat]

TablesOK ==
    /\ balance \in [Accounts -> Int]
    /\ entries \in [Accounts -> Seq(Entry)]
    /\ grants \in [Keys -> Grant \cup {NoGrant}]
    /\ audit \in [Keys -> Seq(Draw)]

LocalsOK ==
    /\ pc \in [Procs -> Labels]
    /\ req \in [Procs -> Request \cup {NoRequest}]
    /\ \A p \in Procs : pc[p] # "idle" => req[p] \in Request
    /\ reply \in [Procs -> Replies]
    /\ now \in [Procs -> 0 .. MaxClock]
    /\ plan \in [Procs -> SUBSET Keys]
    /\ locked \in [Procs -> SUBSET Keys]
    /\ found \in [Procs -> SUBSET Keys]
    /\ read \in [Procs -> [Keys -> Nat]]
    /\ taken \in [Procs -> [Keys -> Nat]]
    /\ left \in [Procs -> Nat]
    /\ cash \in [Procs -> Int]

CountersOK == clock \in 0 .. MaxClock /\ started \in 0 .. MaxRequests

(* Which requests are where. *)
Requested(p) ==
    /\ pc[p] # "idle" => req[p].amount > 0
    /\ pc[p] \in {"key", "insert"} => req[p].op = "issue"
    /\ pc[p] \in {"account", "consume"} => req[p].op = "waterfall"
    /\ pc[p] = "insert" => req[p].account \in Accounts
    /\ \A a : HoldsAccount(p, a) => a \in Accounts

(* Locks are held, and something is taken, by the statements that do so.      *)
Private(p) ==
    /\ pc[p] \notin {"lock", "consume"} =>
          locked[p] = {} /\ found[p] = {} /\ \A g \in Keys : taken[p][g] = 0
    /\ pc[p] = "lock" /\ req[p].op # "drawdown" => \A g \in Keys : taken[p][g] = 0
    /\ req[p].op = "drawdown" => found[p] = {}
    /\ \A g \in found[p] : taken[p][g] = 0

(* ReadsAreCurrent, of one transaction. *)
Current(p) ==
    /\ \A g \in Keys :
          taken[p][g] > 0 \/ g \in found[p] =>
             /\ g \in locked[p] /\ Active(g)
             /\ read[p][g] = grants[g].remaining
             /\ taken[p][g] <= read[p][g]
    /\ \A a \in Accounts : HoldsAccount(p, a) => cash[p] = balance[a]

(* A grant the waterfall debit p could still use. *)
Usable(p, g) ==
    /\ grants[g].status = "ACTIVE"
    /\ grants[g].account = req[p].account /\ grants[g].expires > now[p]

Partly(p, g) == taken[p][g] > 0 /\ taken[p][g] < read[p][g]

(* A waterfall debit has every usable grant in hand or before it, takes from  *)
(* them in their order, and stops at the one it does not use up.              *)
Ordered(p) ==
    req[p].op = "waterfall" =>
       /\ pc[p] = "lock" => \A h \in Keys : Usable(p, h) => h \in plan[p] \cup found[p]
       /\ pc[p] = "consume" =>
             /\ \A h \in Keys : Usable(p, h) => h \in found[p] \/ taken[p][h] > 0
             /\ \A g, h \in Keys : taken[p][g] > 0 /\ (h \in found[p] \/ Partly(p, h))
                                      => ~Earlier(grants[h], grants[g])
             /\ \A h \in Keys : Partly(p, h) => left[p] = 0

Mine(p) == Requested(p) /\ Private(p) /\ Current(p) /\ Ordered(p)

(* Cash has the ledger's audit trail. *)
CashChain == \A a \in Accounts : Chain(entries[a], balance[a])

(* GrantAudit, of one grant. *)
Trail(e, initial, remaining) ==
    /\ \A i \in 1 .. Len(e) :
          /\ e[i].amount > 0
          /\ e[i].after = (IF i = 1 THEN initial ELSE e[i - 1].after) - e[i].amount
    /\ remaining = IF Len(e) = 0 THEN initial ELSE e[Len(e)].after

Trails ==
    \A g \in Keys :
       /\ Trail(audit[g], grants[g].initial, grants[g].remaining)
       /\ grants[g] # NoGrant => (grants[g].status = "DEPLETED" <=> grants[g].remaining = 0)
       /\ grants[g] = NoGrant => audit[g] = << >>

(* The inductive invariant. *)
GrantsInv ==
    /\ TablesOK /\ LocalsOK /\ CountersOK
    /\ OneHolder /\ Trails /\ CashChain
    /\ \A p \in Procs : Mine(p)

-----------------------------------------------------------------------------
(* What it says. *)

LEMMA GrantsInvImplies ==
    GrantsInv => TypeOK /\ ReadsAreCurrent /\ GrantAudit
<1> SUFFICES ASSUME GrantsInv PROVE TypeOK /\ ReadsAreCurrent /\ GrantAudit
  OBVIOUS
<1>1. TypeOK
  BY DEF GrantsInv, TablesOK, LocalsOK, CountersOK, TypeOK, Labels, Replies, Draw
<1>2. ReadsAreCurrent
  BY DEF GrantsInv, Mine, Current, ReadsAreCurrent
<1>3. GrantAudit
  <2> SUFFICES ASSUME NEW g \in Keys
               PROVE  LET e == audit[g]
                          After(i) == IF i = 0 THEN grants[g].initial ELSE e[i].after
                      IN  /\ \A i \in 1 .. Len(e) :
                                e[i].amount > 0 /\ e[i].after = After(i - 1) - e[i].amount
                          /\ grants[g].remaining = After(Len(e))
                          /\ grants[g] # NoGrant =>
                                (grants[g].status = "DEPLETED" <=> grants[g].remaining = 0)
    BY DEF GrantAudit
  <2>1. Trail(audit[g], grants[g].initial, grants[g].remaining)
        /\ (grants[g] # NoGrant => (grants[g].status = "DEPLETED" <=> grants[g].remaining = 0))
    BY DEF GrantsInv, Trails
  <2>2. Len(audit[g]) \in Nat
    BY LenProperties DEF GrantsInv, TablesOK
  <2>3. \A i \in 1 .. Len(audit[g]) : (i - 1 = 0 <=> i = 1)
    BY <2>2
  <2> QED BY <2>1, <2>2, <2>3 DEF Trail
<1> QED BY <1>1, <1>2, <1>3

LEMMA RequestType ==
    ASSUME NEW r \in Request
    PROVE  /\ r.op \in {"issue", "drawdown", "waterfall", "expire"} /\ r.amount \in Int
           /\ r.op = "issue" => /\ r.key \in Keys
                                /\ r.terms.priority \in Nat /\ r.terms.expires \in Nat
<1>1. /\ Amounts \subseteq Int
      /\ \A t \in Terms : t.priority \in Nat /\ t.expires \in Nat
  BY AmountsAssumption, IssuedAssumption DEF AmountsAssumption, IssuedAssumption
<1>2. \/ r \in [op : {"issue"}, key : Keys, account : AccountIDs,
                amount : Amounts, terms : Terms]
      \/ r \in [op : {"drawdown", "waterfall"}, key : {NoKey},
                account : AccountIDs, amount : Amounts, terms : {NoKey}]
      \/ r \in [op : {"expire"}, key : {NoKey}, account : {0}, amount : {1}, terms : {NoKey}]
  BY DEF Request
<1>3. CASE r \in [op : {"issue"}, key : Keys, account : AccountIDs,
                 amount : Amounts, terms : Terms]
  <2>1. r.op = "issue" /\ r.key \in Keys /\ r.amount \in Amounts /\ r.terms \in Terms
    BY <1>3
  <2> QED BY <1>1, <2>1
<1>4. CASE r \in [op : {"drawdown", "waterfall"}, key : {NoKey},
                 account : AccountIDs, amount : Amounts, terms : {NoKey}]
  <2>1. r.op \in {"drawdown", "waterfall"} /\ r.amount \in Amounts
    BY <1>4
  <2> QED BY <1>1, <2>1
<1>5. CASE r \in [op : {"expire"}, key : {NoKey}, account : {0}, amount : {1}, terms : {NoKey}]
  <2>1. r.op = "expire" /\ r.amount = 1
    BY <1>5
  <2> QED BY <2>1
<1> QED BY <1>2, <1>3, <1>4, <1>5

(* A row of the table. *)
LEMMA RowType ==
    ASSUME GrantsInv, NEW g \in Keys
    PROVE  /\ grants[g].initial \in Nat /\ grants[g].remaining \in Nat
           /\ grants[g].priority \in Nat /\ grants[g].expires \in Nat
           /\ Active(g) => grants[g] \in Grant /\ grants[g] # NoGrant /\ grants[g].remaining > 0
<1>1. grants[g] \in Grant \/ grants[g] = NoGrant
  BY DEF GrantsInv, TablesOK
<1>2. CASE grants[g] \in Grant
  <2>1. grants[g].initial \in Nat /\ grants[g].remaining \in Nat
        /\ grants[g].priority \in Nat /\ grants[g].expires \in Nat
    BY <1>2 DEF Grant
  <2>2. grants[g] # NoGrant
    BY <1>2 DEF Grant, NoGrant
  <2>3. grants[g].status = "DEPLETED" <=> grants[g].remaining = 0
    BY <2>2 DEF GrantsInv, Trails
  <2> QED BY <1>2, <2>1, <2>2, <2>3 DEF Active
<1>3. CASE grants[g] = NoGrant
  BY <1>3 DEF NoGrant, Active
<1> QED BY <1>1, <1>2, <1>3

LEMMA UsableMatches ==
    ASSUME GrantsInv, NEW p \in Procs, NEW g \in Keys, req[p].op = "waterfall", Usable(p, g)
    PROVE  Matches(p, g)
BY RowType DEF Usable, Matches, Active

(* A drawdown continues the trail of its grant.                               *)
LEMMA TrailAppend ==
    ASSUME NEW e \in Seq(Draw), NEW initial \in Nat, NEW remaining \in Nat,
           Trail(e, initial, remaining), NEW amount \in Nat \ {0}, amount <= remaining
    PROVE  /\ Append(e, Drawn(amount, remaining)) \in Seq(Draw)
           /\ Trail(Append(e, Drawn(amount, remaining)), initial, remaining - amount)
<1> DEFINE x == Drawn(amount, remaining)
           f == Append(e, x)
<1>1. x \in Draw /\ x.amount = amount /\ x.after = remaining - amount
  BY DEF Drawn, Draw
<1> HIDE DEF x
<1>2. /\ Len(e) \in Nat /\ f \in Seq(Draw) /\ Len(f) = Len(e) + 1 /\ f[Len(e) + 1] = x
      /\ \A i \in 1 .. Len(e) : f[i] = e[i]
  BY <1>1, LenProperties, AppendProperties
<1> HIDE DEF f
<1>3. ASSUME NEW i \in 1 .. Len(f)
      PROVE  /\ f[i].amount > 0
             /\ f[i].after = (IF i = 1 THEN initial ELSE f[i - 1].after) - f[i].amount
  <2>1. CASE i \in 1 .. Len(e)
    <3>1. i # 1 => i - 1 \in 1 .. Len(e)
      BY <1>2, <2>1
    <3> QED BY <1>2, <2>1, <3>1 DEF Trail
  <2>2. CASE i = Len(e) + 1
    <3>1. CASE Len(e) = 0
      BY <1>1, <1>2, <2>2, <3>1 DEF Trail
    <3>2. CASE Len(e) # 0
      <4>1. i # 1 /\ i - 1 = Len(e) /\ i - 1 \in 1 .. Len(e)
        BY <1>2, <2>2, <3>2
      <4> QED BY <1>1, <1>2, <2>2, <3>2, <4>1 DEF Trail
    <3> QED BY <3>1, <3>2
  <2> QED BY <1>2, <2>1, <2>2
<1>4. remaining - amount = IF Len(f) = 0 THEN initial ELSE f[Len(f)].after
  BY <1>1, <1>2
<1>5. f = Append(e, Drawn(amount, remaining))
  BY DEF f, x
<1> QED BY <1>2, <1>3, <1>4, <1>5 DEF Trail

-----------------------------------------------------------------------------
(* What a step has to leave alone. *)

Same(q) ==
    /\ pc'[q] = pc[q] /\ req'[q] = req[q] /\ now'[q] = now[q] /\ plan'[q] = plan[q]
    /\ locked'[q] = locked[q] /\ found'[q] = found[q] /\ read'[q] = read[q]
    /\ taken'[q] = taken[q] /\ left'[q] = left[q] /\ cash'[q] = cash[q]

(* The active grants q has locked stay as they are, and none becomes usable    *)
(* for it.                                                                   *)
Respected(q) ==
    /\ \A g \in locked[q] : Active(g) => grants'[g] = grants[g]
    /\ \A a \in Accounts : HoldsAccount(q, a) => balance'[a] = balance[a]
    /\ \A h \in Keys : HoldsAccount(q, req[q].account) /\ Usable(q, h)' => Usable(q, h)

LEMMA BystanderMine ==
    ASSUME NEW q \in Procs, LocalsOK, Mine(q), Same(q), Respected(q)
    PROVE  Mine(q)'
<1>1. /\ pc'[q] = pc[q] /\ req'[q] = req[q] /\ now'[q] = now[q] /\ plan'[q] = plan[q]
      /\ locked'[q] = locked[q] /\ found'[q] = found[q] /\ read'[q] = read[q]
      /\ taken'[q] = taken[q] /\ left'[q] = left[q] /\ cash'[q] = cash[q]
  BY DEF Same
<1>2. Requested(q)' /\ Private(q)'
  BY <1>1 DEF Mine, Requested, Private, HoldsAccount
<1>3. Current(q)'
  <2>1. ASSUME NEW g \in Keys, taken[q][g] > 0 \/ g \in found[q]
        PROVE  g \in locked[q] /\ Active(g)' /\ read[q][g] = grants'[g].remaining
               /\ taken[q][g] <= read[q][g]
    BY <2>1 DEF Mine, Current, Respected, Active
  <2>2. \A a \in Accounts : HoldsAccount(q, a)' => cash[q] = balance'[a]
    BY <1>1 DEF Mine, Current, Respected, HoldsAccount
  <2> QED BY <1>1, <2>1, <2>2 DEF Current
<1>4. Ordered(q)'
  <2> SUFFICES ASSUME req[q].op = "waterfall" PROVE Ordered(q)'
    BY <1>1 DEF Ordered
  <2>1. CASE pc[q] = "lock"
    <3>1. \A h \in Keys : Usable(q, h)' => Usable(q, h)
      BY <2>1 DEF Respected, HoldsAccount
    <3> QED BY <1>1, <2>1, <3>1 DEF Mine, Ordered
  <2>2. CASE pc[q] = "consume"
    <3>1. \A h \in Keys : Usable(q, h)' => Usable(q, h)
      BY <2>2 DEF Respected, HoldsAccount
    <3>2. \A h \in Keys : Partly(q, h)' <=> Partly(q, h)
      BY <1>1 DEF Partly
    <3>3. ASSUME NEW g \in Keys, NEW h \in Keys, taken[q][g] > 0, h \in found[q] \/ Partly(q, h)
          PROVE  ~Earlier(grants'[h], grants'[g])
      <4>1. g \in locked[q] /\ h \in locked[q] /\ Active(g) /\ Active(h)
        BY <3>3 DEF Mine, Current, Partly
      <4>2. grants'[g] = grants[g] /\ grants'[h] = grants[h]
        BY <4>1 DEF Respected
      <4> QED BY <2>2, <3>3, <4>2 DEF Mine, Ordered
    <3> QED BY <1>1, <2>2, <3>1, <3>2, <3>3 DEF Mine, Ordered
  <2>3. CASE pc[q] \notin {"lock", "consume"}
    BY <1>1, <2>3 DEF Ordered
  <2> QED BY <2>1, <2>2, <2>3
<1> QED BY <1>2, <1>3, <1>4 DEF Mine

(* A step of p locks only what is free. *)
LocksFree(p) ==
    /\ \A g \in locked'[p] : g \in locked[p] \/ GrantFree(p, g)
    /\ \A a \in Accounts : HoldsAccount(p, a)' => HoldsAccount(p, a) \/ AccountFree(p, a)

(* It changes no active grant and no account that others have locked, and adds *)
(* no usable grant to a locked account.                                      *)
ChangesFree(p) ==
    /\ \A g \in Keys : Active(g) /\ grants'[g] # grants[g] => GrantFree(p, g)
    /\ \A a \in Accounts : balance'[a] # balance[a] => AccountFree(p, a)
    /\ \A g \in Keys :
          /\ grants'[g].status = "ACTIVE"
          /\ ~(/\ grants[g].status = "ACTIVE" /\ grants'[g].account = grants[g].account
               /\ grants'[g].expires = grants[g].expires)
          => AccountFree(p, grants'[g].account)

LEMMA StepInv ==
    ASSUME GrantsInv, NEW p \in Procs, TablesOK', LocalsOK', CountersOK', Trails', CashChain',
           Mine(p)', \A q \in Procs \ {p} : Same(q), LocksFree(p), ChangesFree(p)
    PROVE  GrantsInv'
<1>1. ASSUME NEW q \in Procs \ {p} PROVE Mine(q)'
  <2>1. Same(q)
    OBVIOUS
  <2>2. \A g \in locked[q] : Active(g) => grants'[g] = grants[g]
    <3>1. locked[q] \subseteq Keys
      BY DEF GrantsInv, LocalsOK
    <3> QED BY <3>1 DEF ChangesFree, GrantFree
  <2>3. \A a \in Accounts : HoldsAccount(q, a) => balance'[a] = balance[a]
    BY DEF ChangesFree, AccountFree
  <2>4. ASSUME NEW h \in Keys, HoldsAccount(q, req[q].account), Usable(q, h)'
        PROVE  Usable(q, h)
    <3>1. /\ grants'[h].status = "ACTIVE" /\ grants'[h].account = req[q].account
          /\ grants'[h].expires > now[q]
      BY <2>1, <2>4 DEF Usable, Same
    <3>2. ~AccountFree(p, grants'[h].account)
      BY <2>4, <3>1 DEF AccountFree
    <3> QED BY <3>1, <3>2 DEF ChangesFree, Usable
  <2>5. Respected(q)
    BY <2>2, <2>3, <2>4 DEF Respected
  <2> QED BY <2>1, <2>5, BystanderMine DEF GrantsInv
<1>2. OneHolder'
  <2>1. ASSUME NEW q \in Procs \ {p}
        PROVE  /\ locked'[q] = locked[q]
               /\ \A a \in Accounts : HoldsAccount(q, a)' <=> HoldsAccount(q, a)
    BY DEF Same, HoldsAccount
  <2>2. ASSUME NEW q \in Procs \ {p}
        PROVE  locked'[p] \cap locked'[q] = {}
    BY <2>1 DEF LocksFree, GrantFree, GrantsInv, OneHolder
  <2>3. ASSUME NEW q \in Procs \ {p}, NEW a \in Accounts, HoldsAccount(p, a)'
        PROVE  ~HoldsAccount(q, a)'
    BY <2>1, <2>3 DEF LocksFree, AccountFree, GrantsInv, OneHolder
  <2>4. \A q, r \in Procs : q # r => locked'[q] \cap locked'[r] = {}
    <3> TAKE q, r \in Procs
    <3>1. CASE q # p /\ r # p
      BY <2>1, <3>1 DEF GrantsInv, OneHolder
    <3>2. CASE q = p \/ r = p
      BY <2>2, <3>2
    <3> QED BY <3>1, <3>2
  <2>5. \A q, r \in Procs : \A a \in Accounts : HoldsAccount(q, a)' /\ HoldsAccount(r, a)' => q = r
    <3> TAKE q, r \in Procs
    <3>1. CASE q # p /\ r # p
      BY <2>1, <3>1 DEF GrantsInv, OneHolder
    <3>2. CASE q = p \/ r = p
      BY <2>3, <3>2
    <3> QED BY <3>1, <3>2
  <2> QED BY <2>4, <2>5 DEF OneHolder
<1> QED BY <1>1, <1>2 DEF GrantsInv

(* Steps that change no table. *)
LEMMA LocalStepInv ==
    ASSUME GrantsInv, NEW p \in Procs, UNCHANGED tables, LocalsOK', CountersOK', Mine(p)',
           \A q \in Procs \ {p} : Same(q), LocksFree(p)
    PROVE  GrantsInv'
<1>1. UNCHANGED <<balance, entries, grants, audit>>
  BY DEF tables
<1>2. TablesOK' /\ Trails' /\ CashChain'
  BY <1>1 DEF GrantsInv, TablesOK, Trails, CashChain, Trail, Chain
<1>3. ChangesFree(p)
  BY <1>1 DEF ChangesFree
<1> QED BY <1>2, <1>3, StepInv

(* The end of an operation releases everything.                               *)
LEMMA ReturnInv ==
    ASSUME GrantsInv, NEW p \in Procs, NEW result \in Replies, Return(p, result), CountersOK',
           req' \in [Procs -> Request \cup {NoRequest}],
           \A q \in Procs \ {p} : req'[q] = req[q],
           TablesOK', Trails', CashChain', ChangesFree(p)
    PROVE  GrantsInv'
<1>1. /\ pc' = [pc EXCEPT ![p] = "idle"] /\ reply' = [reply EXCEPT ![p] = result]
      /\ plan' = [plan EXCEPT ![p] = {}] /\ locked' = [locked EXCEPT ![p] = {}]
      /\ found' = [found EXCEPT ![p] = {}] /\ read' = [read EXCEPT ![p] = Nothing]
      /\ taken' = [taken EXCEPT ![p] = Nothing] /\ left' = [left EXCEPT ![p] = 0]
      /\ cash' = [cash EXCEPT ![p] = 0] /\ now' = [now EXCEPT ![p] = 0]
  BY DEF Return, Forget
<1>2. LocalsOK'
  <2>1. Nothing \in [Keys -> Nat] /\ 0 \in 0 .. MaxClock
    BY GrantsAssumption DEF Nothing, GrantsAssumption
  <2>2. /\ pc' \in [Procs -> Labels] /\ reply' \in [Procs -> Replies]
        /\ plan' \in [Procs -> SUBSET Keys] /\ locked' \in [Procs -> SUBSET Keys]
        /\ found' \in [Procs -> SUBSET Keys]
    BY <1>1 DEF GrantsInv, LocalsOK, Labels
  <2>3. /\ read' \in [Procs -> [Keys -> Nat]] /\ taken' \in [Procs -> [Keys -> Nat]]
        /\ left' \in [Procs -> Nat] /\ cash' \in [Procs -> Int] /\ now' \in [Procs -> 0 .. MaxClock]
    BY <1>1, <2>1 DEF GrantsInv, LocalsOK
  <2>4. \A q \in Procs : pc'[q] # "idle" => req'[q] \in Request
    BY <1>1 DEF GrantsInv, LocalsOK
  <2> QED BY <2>2, <2>3, <2>4 DEF LocalsOK
<1>3. pc'[p] = "idle" /\ locked'[p] = {} /\ found'[p] = {} /\ taken'[p] = Nothing
  BY <1>1 DEF GrantsInv, LocalsOK
<1>4. Mine(p)'
  BY <1>3 DEF Mine, Requested, Private, Current, Ordered, HoldsAccount, Nothing
<1>5. ASSUME NEW q \in Procs \ {p} PROVE Same(q)
  BY <1>1 DEF Same
<1>6. LocksFree(p)
  BY <1>3 DEF LocksFree, HoldsAccount
<1> QED BY <1>2, <1>4, <1>5, <1>6, StepInv

LEMMA ReturnLocalInv ==
    ASSUME GrantsInv, NEW p \in Procs, NEW result \in Replies, Return(p, result), CountersOK',
           req' \in [Procs -> Request \cup {NoRequest}],
           \A q \in Procs \ {p} : req'[q] = req[q], UNCHANGED tables
    PROVE  GrantsInv'
<1>1. UNCHANGED <<balance, entries, grants, audit>>
  BY DEF tables
<1>2. TablesOK' /\ Trails' /\ CashChain'
  BY <1>1 DEF GrantsInv, TablesOK, Trails, CashChain, Trail, Chain
<1>3. ChangesFree(p)
  BY <1>1 DEF ChangesFree
<1> QED BY <1>2, <1>3, ReturnInv

-----------------------------------------------------------------------------
(* Steps that only read *)

LEMMA StartInv ==
    ASSUME GrantsInv, NEW p \in Procs, NEW r \in Request, Start(p, r)
    PROVE  GrantsInv'
<1>1. /\ pc[p] = "idle" /\ started < MaxRequests /\ started' = started + 1
      /\ req' = [req EXCEPT ![p] = r] /\ UNCHANGED <<tables, clock>>
      /\ \/ \E result \in {"BadRequest", "ErrInvalidAmount"} : Return(p, result)
         \/ /\ r.amount > 0
            /\ Goto(p, CASE r.op = "issue" -> "key"
                         [] r.op = "waterfall" -> "account"
                         [] OTHER -> "select")
            /\ now' = [now EXCEPT ![p] = clock]
            /\ left' = [left EXCEPT ![p] = r.amount]
            /\ UNCHANGED <<plan, locked, found, read, taken, cash>>
  BY DEF Start
<1>2. CountersOK'
  BY <1>1, GrantsAssumption DEF GrantsInv, CountersOK, GrantsAssumption
<1>3. req' \in [Procs -> Request \cup {NoRequest}] /\ req'[p] = r
      /\ \A q \in Procs \ {p} : req'[q] = req[q]
  BY <1>1 DEF GrantsInv, LocalsOK
<1>4. CASE \E result \in {"BadRequest", "ErrInvalidAmount"} : Return(p, result)
  <2>1. {"BadRequest", "ErrInvalidAmount"} \subseteq Replies
    BY DEF Replies
  <2> QED BY <1>1, <1>2, <1>3, <1>4, <2>1, ReturnLocalInv
<1>5. CASE /\ r.amount > 0
           /\ Goto(p, CASE r.op = "issue" -> "key"
                        [] r.op = "waterfall" -> "account"
                        [] OTHER -> "select")
           /\ now' = [now EXCEPT ![p] = clock]
           /\ left' = [left EXCEPT ![p] = r.amount]
           /\ UNCHANGED <<plan, locked, found, read, taken, cash>>
  <2>1. PICK l \in {"key", "account", "select"} :
           /\ pc' = [pc EXCEPT ![p] = l] /\ UNCHANGED reply
           /\ l = "key" => r.op = "issue"
           /\ l = "account" => r.op = "waterfall"
           /\ l = "select" => r.op \notin {"issue", "waterfall"}
    BY <1>5 DEF Goto
  <2>2. r.amount \in Nat
    BY <1>5, RequestType
  <2>3. /\ pc' \in [Procs -> Labels] /\ now' \in [Procs -> 0 .. MaxClock] /\ left' \in [Procs -> Nat]
        /\ pc'[p] = l
        /\ \A q \in Procs \ {p} : pc'[q] = pc[q] /\ now'[q] = now[q] /\ left'[q] = left[q]
    BY <1>5, <2>1, <2>2 DEF GrantsInv, LocalsOK, CountersOK, Labels
  <2>4. LocalsOK'
    BY <1>3, <1>5, <2>1, <2>3 DEF GrantsInv, LocalsOK
  <2>5. /\ locked[p] = {} /\ found[p] = {} /\ \A g \in Keys : taken[p][g] = 0
    BY <1>1 DEF GrantsInv, Mine, Private
  <2>6. locked'[p] = {} /\ found'[p] = {} /\ taken'[p] = taken[p]
    BY <1>3, <1>5, <2>1, <2>3, <2>5 DEF HoldsAccount
  <2>6a. \A a : ~HoldsAccount(p, a)'
    BY <1>3, <1>5, <2>1, <2>3 DEF HoldsAccount
  <2>7. Mine(p)'
    <3>1. Requested(p)'
      BY <1>3, <1>5, <2>1, <2>3, <2>6a DEF Requested
    <3>2. Private(p)' /\ Current(p)'
      BY <2>5, <2>6, <2>6a DEF Private, Current
    <3>3. Ordered(p)'
      BY <2>1, <2>3 DEF Ordered
    <3> QED BY <3>1, <3>2, <3>3 DEF Mine
  <2>8. \A q \in Procs \ {p} : Same(q)
    BY <1>3, <1>5, <2>3 DEF Same
  <2>9. LocksFree(p)
    BY <2>6, <2>6a DEF LocksFree
  <2> QED BY <1>1, <1>2, <2>4, <2>7, <2>8, <2>9, LocalStepInv
<1> QED BY <1>1, <1>4, <1>5

(* A step of p that only moves on to another place. *)
LEMMA GotoInv ==
    ASSUME GrantsInv, NEW p \in Procs, NEW l \in Labels, pc[p] # "idle",
           Goto(p, l), UNCHANGED <<local, tables, clock, req, started>>,
           Requested(p)', Private(p)', Ordered(p)',
           \A a \in Accounts : HoldsAccount(p, a)' => HoldsAccount(p, a)
    PROVE  GrantsInv'
<1>1. /\ pc' = [pc EXCEPT ![p] = l]
      /\ UNCHANGED <<now, plan, locked, found, read, taken, left, cash, reply, req>>
      /\ UNCHANGED <<balance, entries, grants, audit, clock, started>>
  BY DEF Goto, local, tables
<1>2. pc' \in [Procs -> Labels] /\ \A q \in Procs \ {p} : pc'[q] = pc[q]
  BY <1>1 DEF GrantsInv, LocalsOK
<1>3. LocalsOK' /\ CountersOK'
  BY <1>1, <1>2 DEF GrantsInv, LocalsOK, CountersOK
<1>4. Current(p)'
  BY <1>1 DEF GrantsInv, Mine, Current, Active
<1>5. \A q \in Procs \ {p} : Same(q)
  BY <1>1, <1>2 DEF Same
<1>6. LocksFree(p)
  BY <1>1 DEF LocksFree
<1> QED BY <1>3, <1>4, <1>5, <1>6, LocalStepInv DEF Mine

LEMMA IssueCheckKeyInv ==
    ASSUME GrantsInv, NEW p \in Procs, IssueCheckKey(p)
    PROVE  GrantsInv'
<1>1. /\ pc[p] = "key" /\ UNCHANGED <<tables, clock, req, started>>
      /\ \/ \E result \in {"ok", "ErrAccountNotFound"} : Return(p, result)
         \/ req[p].account \in Accounts /\ Goto(p, "insert") /\ UNCHANGED local
  BY DEF IssueCheckKey
<1>2. CASE \E result \in {"ok", "ErrAccountNotFound"} : Return(p, result)
  <2>1. {"ok", "ErrAccountNotFound"} \subseteq Replies
    BY DEF Replies
  <2>2. CountersOK' /\ req' \in [Procs -> Request \cup {NoRequest}]
    BY <1>1 DEF GrantsInv, CountersOK, LocalsOK
  <2> QED BY <1>1, <1>2, <2>1, <2>2, ReturnLocalInv
<1>3. CASE req[p].account \in Accounts /\ Goto(p, "insert") /\ UNCHANGED local
  <2>1. pc'[p] = "insert" /\ "insert" \in Labels
    BY <1>3 DEF Goto, GrantsInv, LocalsOK, Labels
  <2>2. Requested(p) /\ Private(p)
    BY DEF GrantsInv, Mine
  <2>3. Requested(p)' /\ Private(p)' /\ Ordered(p)'
    BY <1>1, <1>3, <2>1, <2>2 DEF Requested, Private, Ordered, HoldsAccount, local
  <2>4. \A a \in Accounts : HoldsAccount(p, a)' => HoldsAccount(p, a)
    BY <2>1 DEF HoldsAccount
  <2> QED BY <1>1, <1>3, <2>1, <2>3, <2>4, GotoInv
<1> QED BY <1>1, <1>2, <1>3

LEMMA LockAccountInv ==
    ASSUME GrantsInv, NEW p \in Procs, LockAccount(p)
    PROVE  GrantsInv'
<1> DEFINE a == req[p].account
<1>1. /\ pc[p] = "account" /\ UNCHANGED <<tables, clock, req, started>>
      /\ \/ Return(p, "ErrAccountNotFound")
         \/ /\ a \in Accounts /\ AccountFree(p, a) /\ Goto(p, "select")
            /\ cash' = [cash EXCEPT ![p] = balance[a]]
            /\ UNCHANGED <<now, plan, locked, found, read, taken, left>>
  BY DEF LockAccount
<1>2. CountersOK' /\ req' \in [Procs -> Request \cup {NoRequest}]
  BY <1>1 DEF GrantsInv, CountersOK, LocalsOK
<1>3. CASE Return(p, "ErrAccountNotFound")
  <2>1. "ErrAccountNotFound" \in Replies
    BY DEF Replies
  <2> QED BY <1>1, <1>2, <1>3, <2>1, ReturnLocalInv
<1>4. CASE /\ a \in Accounts /\ AccountFree(p, a) /\ Goto(p, "select")
           /\ cash' = [cash EXCEPT ![p] = balance[a]]
           /\ UNCHANGED <<now, plan, locked, found, read, taken, left>>
  <2>1. /\ pc' = [pc EXCEPT ![p] = "select"] /\ UNCHANGED <<reply, req>>
        /\ UNCHANGED <<balance, entries, grants, audit>>
    BY <1>1, <1>4 DEF Goto, tables
  <2>2. balance[a] \in Int
    BY <1>4 DEF GrantsInv, TablesOK
  <2>3. /\ pc' \in [Procs -> Labels] /\ cash' \in [Procs -> Int]
        /\ pc'[p] = "select" /\ cash'[p] = balance[a]
        /\ \A q \in Procs \ {p} : pc'[q] = pc[q] /\ cash'[q] = cash[q]
    BY <1>4, <2>1, <2>2 DEF GrantsInv, LocalsOK, Labels
  <2>4. LocalsOK'
    <3>1. \A q \in Procs : pc'[q] # "idle" => req'[q] \in Request
      BY <1>1, <2>1, <2>3 DEF GrantsInv, LocalsOK
    <3> QED BY <1>4, <2>1, <2>3, <3>1 DEF GrantsInv, LocalsOK
  <2>5. Requested(p) /\ Private(p) /\ Current(p) /\ req[p].op = "waterfall"
    BY <1>1 DEF GrantsInv, Mine, Requested
  <2>6. \A b : HoldsAccount(p, b)' => b = a
    BY <2>1 DEF HoldsAccount
  <2>7. Requested(p)' /\ Private(p)' /\ Ordered(p)'
    BY <1>1, <1>4, <2>1, <2>3, <2>5, <2>6 DEF Requested, Private, Ordered
  <2>8. Current(p)'
    BY <1>1, <1>4, <2>1, <2>3, <2>5, <2>6 DEF Current, Private
  <2>9. \A q \in Procs \ {p} : Same(q)
    BY <1>4, <2>1, <2>3 DEF Same
  <2>10. LocksFree(p)
    BY <1>4, <2>6 DEF LocksFree
  <2> QED BY <1>1, <1>2, <2>4, <2>7, <2>8, <2>9, <2>10, LocalStepInv DEF Mine
<1> QED BY <1>1, <1>3, <1>4

LEMMA SelectGrantsInv ==
    ASSUME GrantsInv, NEW p \in Procs, SelectGrants(p)
    PROVE  GrantsInv'
<1> DEFINE S == {g \in Keys : Matches(p, g)}
<1>1. /\ pc[p] = "select" /\ UNCHANGED <<tables, clock, req, started>>
      /\ \/ Return(p, "ErrInsufficientGrants")
         \/ /\ plan' = [plan EXCEPT ![p] = S] /\ Goto(p, "lock")
            /\ UNCHANGED <<now, locked, found, read, taken, left, cash>>
  BY DEF SelectGrants
<1>2. CountersOK' /\ req' \in [Procs -> Request \cup {NoRequest}]
  BY <1>1 DEF GrantsInv, CountersOK, LocalsOK
<1>3. CASE Return(p, "ErrInsufficientGrants")
  <2>1. "ErrInsufficientGrants" \in Replies
    BY DEF Replies
  <2> QED BY <1>1, <1>2, <1>3, <2>1, ReturnLocalInv
<1>4. CASE /\ plan' = [plan EXCEPT ![p] = S] /\ Goto(p, "lock")
           /\ UNCHANGED <<now, locked, found, read, taken, left, cash>>
  <2>1. /\ pc' = [pc EXCEPT ![p] = "lock"] /\ UNCHANGED <<reply, req>>
        /\ UNCHANGED <<balance, entries, grants, audit>>
    BY <1>1, <1>4 DEF Goto, tables
  <2>3. /\ pc' \in [Procs -> Labels] /\ plan' \in [Procs -> SUBSET Keys]
        /\ pc'[p] = "lock" /\ plan'[p] = S
        /\ \A q \in Procs \ {p} : pc'[q] = pc[q] /\ plan'[q] = plan[q]
    BY <1>4, <2>1 DEF GrantsInv, LocalsOK, Labels
  <2>4. LocalsOK'
    <3>1. \A q \in Procs : pc'[q] # "idle" => req'[q] \in Request
      BY <1>1, <2>1, <2>3 DEF GrantsInv, LocalsOK
    <3> QED BY <1>4, <2>1, <2>3, <3>1 DEF GrantsInv, LocalsOK
  <2>5. Requested(p) /\ Private(p) /\ Current(p)
    BY <1>1 DEF GrantsInv, Mine
  <2>6. \A b : HoldsAccount(p, b)' <=> HoldsAccount(p, b)
    BY <1>1, <2>1, <2>3 DEF HoldsAccount
  <2>7. Requested(p)' /\ Private(p)'
    BY <1>1, <1>4, <2>1, <2>3, <2>5, <2>6 DEF Requested, Private
  <2>8. Current(p)'
    BY <1>1, <1>4, <2>1, <2>3, <2>5, <2>6 DEF Current, Private, Active
  <2>9. Ordered(p)'
    <3>1. ASSUME NEW h \in Keys, req[p].op = "waterfall", Usable(p, h)'
          PROVE  h \in S
      <4>1. Usable(p, h)
        BY <1>4, <2>1, <3>1 DEF Usable
      <4> QED BY <3>1, <4>1, UsableMatches
    <3> QED BY <2>1, <2>3, <3>1 DEF Ordered
  <2>10. \A q \in Procs \ {p} : Same(q)
    BY <1>4, <2>1, <2>3 DEF Same
  <2>11. LocksFree(p)
    BY <1>4, <2>6 DEF LocksFree
  <2> QED BY <1>1, <1>2, <2>4, <2>7, <2>8, <2>9, <2>10, <2>11, LocalStepInv DEF Mine
<1> QED BY <1>1, <1>3, <1>4

(* A locked row is added to those that satisfy the WHERE clause, or not.      *)
LEMMA CollectGrantInv ==
    ASSUME GrantsInv, NEW p \in Procs, NEW g \in Keys, CollectGrant(p, g)
    PROVE  GrantsInv'
<1>1. /\ pc[p] = "lock" /\ req[p].op # "drawdown" /\ GrantFree(p, g)
      /\ plan' = [plan EXCEPT ![p] = @ \ {g}]
      /\ locked' = [locked EXCEPT ![p] = @ \cup {g}]
      /\ UNCHANGED <<tables, clock, pc, req, reply, now, cash, started, taken, left>>
      /\ \/ /\ Matches(p, g)
            /\ found' = [found EXCEPT ![p] = @ \cup {g}]
            /\ read' = [read EXCEPT ![p][g] = grants[g].remaining]
         \/ ~Matches(p, g) /\ UNCHANGED <<found, read>>
  BY DEF CollectGrant, LockGrant
<1>2. UNCHANGED <<balance, entries, grants, audit>>
  BY <1>1 DEF tables
<1>3. grants[g].remaining \in Nat
  BY RowType
<1>4. /\ plan' \in [Procs -> SUBSET Keys] /\ locked' \in [Procs -> SUBSET Keys]
      /\ plan'[p] = plan[p] \ {g} /\ locked'[p] = locked[p] \cup {g}
      /\ \A q \in Procs \ {p} : plan'[q] = plan[q] /\ locked'[q] = locked[q]
  BY <1>1 DEF GrantsInv, LocalsOK
<1>5. /\ found' \in [Procs -> SUBSET Keys] /\ read' \in [Procs -> [Keys -> Nat]]
      /\ \A q \in Procs \ {p} : found'[q] = found[q] /\ read'[q] = read[q]
  <2>1. found \in [Procs -> SUBSET Keys] /\ read \in [Procs -> [Keys -> Nat]]
    BY DEF GrantsInv, LocalsOK
  <2>2. CASE /\ found' = [found EXCEPT ![p] = @ \cup {g}]
             /\ read' = [read EXCEPT ![p][g] = grants[g].remaining]
    BY <1>3, <2>1, <2>2
  <2>3. CASE UNCHANGED <<found, read>>
    BY <2>1, <2>3
  <2> QED BY <1>1, <2>2, <2>3
<1>6. /\ Matches(p, g) => found'[p] = found[p] \cup {g} /\ read'[p][g] = grants[g].remaining
      /\ ~Matches(p, g) => found'[p] = found[p] /\ read'[p][g] = read[p][g]
      /\ \A h \in Keys \ {g} : read'[p][h] = read[p][h]
  BY <1>1 DEF GrantsInv, LocalsOK
<1>7. LocalsOK' /\ CountersOK'
  BY <1>1, <1>4, <1>5 DEF GrantsInv, LocalsOK, CountersOK
<1>8. Requested(p) /\ Private(p) /\ Current(p) /\ Ordered(p) /\ \A h \in Keys : taken[p][h] = 0
  BY <1>1 DEF GrantsInv, Mine, Private
<1>9. Requested(p)'
  BY <1>1, <1>8 DEF Requested, HoldsAccount
<1>10. Private(p)'
  <2>1. found'[p] \subseteq Keys
    BY <1>5
  <2> QED BY <1>1, <1>8, <2>1 DEF Private
<1>11. Current(p)'
  <2>1. ASSUME NEW h \in Keys, h \in found'[p]
        PROVE  h \in locked'[p] /\ Active(h)' /\ read'[p][h] = grants'[h].remaining
               /\ taken'[p][h] <= read'[p][h]
    <3>1. CASE h = g /\ Matches(p, g)
      <4>1. Active(g)
        BY <3>1 DEF Matches
      <4>2. read'[p][h] = grants[g].remaining /\ taken'[p][h] = 0
        BY <1>1, <1>6, <1>8, <3>1
      <4> QED BY <1>2, <1>3, <1>4, <3>1, <4>1, <4>2 DEF Active
    <3>2. CASE ~(h = g /\ Matches(p, g))
      <4>1. h \in found[p] /\ read'[p][h] = read[p][h]
        BY <1>6, <2>1, <3>2
      <4> QED BY <1>1, <1>2, <1>4, <1>8, <4>1 DEF Current, Active
    <3> QED BY <3>1, <3>2
  <2>2. \A h \in Keys : ~(taken'[p][h] > 0)
    BY <1>1, <1>8
  <2>3. \A a \in Accounts : HoldsAccount(p, a)' => cash'[p] = balance'[a]
    BY <1>1, <1>2, <1>8 DEF Current, HoldsAccount
  <2> QED BY <2>1, <2>2, <2>3 DEF Current
<1>12. Ordered(p)'
  <2>1. ASSUME NEW h \in Keys, req[p].op = "waterfall", Usable(p, h)'
        PROVE  h \in plan'[p] \cup found'[p]
    <3>1. Usable(p, h)
      BY <1>1, <1>2, <2>1 DEF Usable
    <3>2. h \in plan[p] \cup found[p] /\ Matches(p, h)
      BY <1>1, <1>8, <2>1, <3>1, UsableMatches DEF Ordered
    <3> QED BY <1>4, <1>6, <3>2
  <2> QED BY <1>1, <2>1 DEF Ordered
<1>13. \A q \in Procs \ {p} : Same(q)
  BY <1>1, <1>4, <1>5 DEF Same
<1>14. LocksFree(p)
  BY <1>1, <1>4 DEF LocksFree, HoldsAccount
<1> QED BY <1>1, <1>7, <1>9, <1>10, <1>11, <1>12, <1>13, <1>14, LocalStepInv DEF Mine

LEMMA SmallerType ==
    ASSUME NEW x \in Nat, NEW y \in Nat
    PROVE  /\ Smaller(x, y) \in Nat /\ Smaller(x, y) <= x /\ y - Smaller(x, y) \in Nat
           /\ Smaller(x, y) < x => y - Smaller(x, y) = 0
           /\ x > 0 /\ y > 0 => Smaller(x, y) > 0
BY DEF Smaller

LEMMA DrawGrantInv ==
    ASSUME GrantsInv, NEW p \in Procs, NEW g \in Keys, DrawGrant(p, g)
    PROVE  GrantsInv'
<1>m. PICK amount : amount = Smaller(grants[g].remaining, left[p])
  OBVIOUS
<1>1. /\ pc[p] = "lock" /\ req[p].op = "drawdown" /\ GrantFree(p, g)
      /\ plan' = [plan EXCEPT ![p] = @ \ {g}]
      /\ locked' = [locked EXCEPT ![p] = @ \cup {g}]
      /\ UNCHANGED <<tables, clock, pc, req, reply, now, cash, started, found>>
      /\ \/ /\ Matches(p, g)
            /\ read' = [read EXCEPT ![p][g] = grants[g].remaining]
            /\ taken' = [taken EXCEPT ![p][g] = amount]
            /\ left' = [left EXCEPT ![p] = @ - amount]
         \/ ~Matches(p, g) /\ UNCHANGED <<read, taken, left>>
  BY <1>m DEF DrawGrant, LockGrant
<1>2. UNCHANGED <<balance, entries, grants, audit>>
  BY <1>1 DEF tables
<1>3. /\ grants[g].remaining \in Nat /\ amount \in Nat /\ amount <= grants[g].remaining
      /\ left[p] - amount \in Nat
  <2>1. grants[g].remaining \in Nat /\ left[p] \in Nat
    BY RowType DEF GrantsInv, LocalsOK
  <2> QED BY <1>m, <2>1, SmallerType
<1>4. /\ plan' \in [Procs -> SUBSET Keys] /\ locked' \in [Procs -> SUBSET Keys]
      /\ locked'[p] = locked[p] \cup {g}
      /\ \A q \in Procs \ {p} : plan'[q] = plan[q] /\ locked'[q] = locked[q]
  BY <1>1 DEF GrantsInv, LocalsOK
<1>5. /\ read' \in [Procs -> [Keys -> Nat]] /\ taken' \in [Procs -> [Keys -> Nat]]
      /\ left' \in [Procs -> Nat]
      /\ \A q \in Procs \ {p} : read'[q] = read[q] /\ taken'[q] = taken[q] /\ left'[q] = left[q]
  <2>1. /\ read \in [Procs -> [Keys -> Nat]] /\ taken \in [Procs -> [Keys -> Nat]]
        /\ left \in [Procs -> Nat]
    BY DEF GrantsInv, LocalsOK
  <2>2. CASE /\ read' = [read EXCEPT ![p][g] = grants[g].remaining]
             /\ taken' = [taken EXCEPT ![p][g] = amount]
             /\ left' = [left EXCEPT ![p] = @ - amount]
    BY <1>3, <2>1, <2>2
  <2>3. CASE UNCHANGED <<read, taken, left>>
    BY <2>1, <2>3
  <2> QED BY <1>1, <2>2, <2>3
<1>6. /\ Matches(p, g) => read'[p][g] = grants[g].remaining /\ taken'[p][g] = amount
      /\ ~Matches(p, g) => read'[p][g] = read[p][g] /\ taken'[p][g] = taken[p][g]
      /\ \A h \in Keys \ {g} : read'[p][h] = read[p][h] /\ taken'[p][h] = taken[p][h]
  BY <1>1 DEF GrantsInv, LocalsOK
<1>7. LocalsOK' /\ CountersOK'
  BY <1>1, <1>4, <1>5 DEF GrantsInv, LocalsOK, CountersOK
<1>8. Requested(p) /\ Private(p) /\ Current(p)
  BY <1>1 DEF GrantsInv, Mine
<1>9. Requested(p)' /\ Ordered(p)'
  BY <1>1, <1>8 DEF Requested, HoldsAccount, Ordered
<1>10. ASSUME NEW h \in Keys, taken'[p][h] > 0 \/ h \in found'[p]
       PROVE  h \in locked'[p] /\ Active(h)' /\ read'[p][h] = grants'[h].remaining
              /\ taken'[p][h] <= read'[p][h]
  <2>1. CASE h = g /\ Matches(p, g)
    BY <1>2, <1>3, <1>4, <1>6, <2>1 DEF Matches, Active
  <2>2. CASE ~(h = g /\ Matches(p, g))
    <3>1. read'[p][h] = read[p][h] /\ taken'[p][h] = taken[p][h] /\ found'[p] = found[p]
      BY <1>1, <1>6, <2>2
    <3> QED BY <1>2, <1>4, <1>8, <1>10, <3>1 DEF Current, Active
  <2> QED BY <2>1, <2>2
<1>11. Current(p)'
  <2>1. \A a \in Accounts : HoldsAccount(p, a)' => cash'[p] = balance'[a]
    BY <1>1, <1>2, <1>8 DEF Current, HoldsAccount
  <2> QED BY <1>10, <2>1 DEF Current
<1>12. found[p] = {}
  BY <1>1, <1>8 DEF Private
<1>13. Private(p)'
  BY <1>1, <1>12 DEF Private
<1>14. \A q \in Procs \ {p} : Same(q)
  BY <1>1, <1>4, <1>5 DEF Same
<1>15. LocksFree(p)
  BY <1>1, <1>4 DEF LocksFree, HoldsAccount
<1> QED BY <1>1, <1>7, <1>9, <1>11, <1>13, <1>14, <1>15, LocalStepInv DEF Mine

LEMMA CheckFundsInv ==
    ASSUME GrantsInv, NEW p \in Procs, CheckFunds(p)
    PROVE  GrantsInv'
<1>1. /\ pc[p] = "lock" /\ req[p].op = "waterfall" /\ plan[p] = {}
      /\ UNCHANGED <<tables, clock, req, started>>
      /\ \/ Return(p, "ErrInsufficientFunds")
         \/ (Goto(p, "consume") /\ UNCHANGED local)
  BY DEF CheckFunds
<1>2. CASE Return(p, "ErrInsufficientFunds")
  <2>1. "ErrInsufficientFunds" \in Replies
    BY DEF Replies
  <2>2. CountersOK' /\ req' \in [Procs -> Request \cup {NoRequest}]
    BY <1>1 DEF GrantsInv, CountersOK, LocalsOK
  <2> QED BY <1>1, <1>2, <2>1, <2>2, ReturnLocalInv
<1>3. CASE Goto(p, "consume") /\ UNCHANGED local
  <2>1. /\ pc'[p] = "consume" /\ "consume" \in Labels
        /\ UNCHANGED <<now, plan, locked, found, read, taken, left, cash, req>>
        /\ UNCHANGED <<balance, entries, grants, audit>>
    BY <1>1, <1>3 DEF Goto, local, tables, GrantsInv, LocalsOK, Labels
  <2>2. Requested(p) /\ Private(p) /\ Ordered(p) /\ \A h \in Keys : taken[p][h] = 0
    BY <1>1 DEF GrantsInv, Mine, Private
  <2>3. \A b : HoldsAccount(p, b)' <=> HoldsAccount(p, b)
    BY <1>1, <2>1 DEF HoldsAccount
  <2>4. Requested(p)' /\ Private(p)'
    BY <1>1, <2>1, <2>2, <2>3 DEF Requested, Private
  <2>5. Ordered(p)'
    <3>1. \A h \in Keys : Usable(p, h)' => h \in found'[p]
      BY <1>1, <2>1, <2>2 DEF Ordered, Usable
    <3>2. \A h \in Keys : ~(taken'[p][h] > 0) /\ ~Partly(p, h)'
      BY <2>1, <2>2 DEF Partly
    <3> QED BY <2>1, <3>1, <3>2 DEF Ordered
  <2> QED BY <1>1, <1>3, <2>1, <2>3, <2>4, <2>5, GotoInv
<1> QED BY <1>1, <1>2, <1>3

(* The grants are used in their order, each as far as it goes.                *)
LEMMA ConsumeGrantInv ==
    ASSUME GrantsInv, NEW p \in Procs, NEW g \in Keys, ConsumeGrant(p, g)
    PROVE  GrantsInv'
<1>m. PICK amount : amount = Smaller(read[p][g], left[p])
  OBVIOUS
<1>1. /\ pc[p] = "consume" /\ left[p] > 0 /\ g \in FirstOf(p, found[p])
      /\ found' = [found EXCEPT ![p] = @ \ {g}]
      /\ taken' = [taken EXCEPT ![p][g] = amount]
      /\ left' = [left EXCEPT ![p] = @ - amount]
      /\ UNCHANGED <<tables, clock, pc, req, reply, now, plan, locked, read, cash, started>>
  BY <1>m DEF ConsumeGrant
<1>2. UNCHANGED <<balance, entries, grants, audit>>
  BY <1>1 DEF tables
<1>8. Requested(p) /\ Private(p) /\ Current(p) /\ Ordered(p) /\ req[p].op = "waterfall"
  BY <1>1 DEF GrantsInv, Mine, Requested
<1>9. g \in found[p] /\ \A h \in found[p] : ~Earlier(grants[h], grants[g])
  BY <1>1, <1>8 DEF FirstOf
<1>10. /\ g \in locked[p] /\ Active(g) /\ read[p][g] = grants[g].remaining
       /\ taken[p][g] = 0
  BY <1>8, <1>9 DEF Current, Private
<1>3. /\ read[p][g] \in Nat /\ read[p][g] > 0 /\ left[p] \in Nat
      /\ amount \in Nat \ {0} /\ amount <= read[p][g] /\ left[p] - amount \in Nat
      /\ amount < read[p][g] => left[p] - amount = 0
  <2>1. read[p][g] \in Nat /\ read[p][g] > 0 /\ left[p] \in Nat
    BY <1>10, RowType DEF GrantsInv, LocalsOK
  <2> QED BY <1>1, <1>m, <2>1, SmallerType
<1>5. /\ found' \in [Procs -> SUBSET Keys] /\ taken' \in [Procs -> [Keys -> Nat]]
      /\ left' \in [Procs -> Nat]
      /\ \A q \in Procs \ {p} : found'[q] = found[q] /\ taken'[q] = taken[q] /\ left'[q] = left[q]
  <2>1. /\ found \in [Procs -> SUBSET Keys] /\ taken \in [Procs -> [Keys -> Nat]]
        /\ left \in [Procs -> Nat]
    BY DEF GrantsInv, LocalsOK
  <2> QED BY <1>1, <1>3, <2>1
<1>6. /\ found'[p] = found[p] \ {g} /\ taken'[p][g] = amount /\ left'[p] = left[p] - amount
      /\ \A h \in Keys \ {g} : taken'[p][h] = taken[p][h]
  BY <1>1 DEF GrantsInv, LocalsOK
<1>7. LocalsOK' /\ CountersOK'
  BY <1>1, <1>5 DEF GrantsInv, LocalsOK, CountersOK
<1>11. Requested(p)'
  BY <1>1, <1>8 DEF Requested, HoldsAccount
<1>12. Private(p)'
  <2>1. found[p] \subseteq Keys
    BY DEF GrantsInv, LocalsOK
  <2>2. \A h \in found'[p] : taken'[p][h] = 0
    BY <1>6, <1>8, <2>1 DEF Private
  <2> QED BY <1>1, <1>8, <2>2 DEF Private
<1>13. Current(p)'
  <2>1. ASSUME NEW h \in Keys, taken'[p][h] > 0 \/ h \in found'[p]
        PROVE  h \in locked'[p] /\ Active(h)' /\ read'[p][h] = grants'[h].remaining
               /\ taken'[p][h] <= read'[p][h]
    <3>1. CASE h = g
      BY <1>1, <1>2, <1>3, <1>6, <1>10, <3>1 DEF Active
    <3>2. CASE h # g
      BY <1>1, <1>2, <1>6, <1>8, <2>1, <3>2 DEF Current, Active
    <3> QED BY <3>1, <3>2
  <2>2. \A a \in Accounts : HoldsAccount(p, a)' => cash'[p] = balance'[a]
    BY <1>1, <1>2, <1>8 DEF Current, HoldsAccount
  <2> QED BY <2>1, <2>2 DEF Current
<1>14. Ordered(p)'
  <2>t. \A h \in Keys : taken[p][h] \in Nat /\ read[p][h] \in Nat
    BY DEF GrantsInv, LocalsOK
  <2>1. \A h \in Keys : Usable(p, h)' => h \in found'[p] \/ taken'[p][h] > 0
    <3> SUFFICES ASSUME NEW h \in Keys, Usable(p, h)' PROVE h \in found'[p] \/ taken'[p][h] > 0
      OBVIOUS
    <3>1. Usable(p, h)
      BY <1>1, <1>2 DEF Usable
    <3>2. h \in found[p] \/ taken[p][h] > 0
      BY <1>1, <1>8, <3>1 DEF Ordered
    <3> QED BY <1>3, <1>6, <3>2
  <2>2. ASSUME NEW h \in Keys, Partly(p, h)
        PROVE  FALSE
    BY <1>1, <1>8, <2>2 DEF Ordered
  <2>3. \A h \in Keys : Partly(p, h)' => h = g /\ left'[p] = 0
    <3> SUFFICES ASSUME NEW h \in Keys, Partly(p, h)' PROVE h = g /\ left'[p] = 0
      OBVIOUS
    <3>1. h = g
      BY <1>1, <1>6, <2>2 DEF Partly
    <3> QED BY <1>1, <1>3, <1>6, <3>1 DEF Partly
  <2>4. ASSUME NEW k \in Keys, NEW h \in Keys, taken'[p][k] > 0, h \in found'[p] \/ Partly(p, h)'
        PROVE  ~Earlier(grants'[h], grants'[k])
    <3>1. h \in found[p]
      BY <1>6, <1>9, <2>3, <2>4
    <3>2. CASE k = g
      BY <1>2, <1>9, <3>1, <3>2
    <3>3. CASE k # g
      <4>1. taken[p][k] > 0
        BY <1>6, <2>4, <3>3
      <4> QED BY <1>1, <1>2, <1>8, <3>1, <4>1 DEF Ordered
    <3> QED BY <3>2, <3>3
  <2> QED BY <1>1, <2>1, <2>3, <2>4 DEF Ordered
<1>15. \A q \in Procs \ {p} : Same(q)
  BY <1>1, <1>5 DEF Same
<1>16. LocksFree(p)
  BY <1>1 DEF LocksFree, HoldsAccount
<1> QED BY <1>1, <1>7, <1>11, <1>12, <1>13, <1>14, <1>15, <1>16, LocalStepInv DEF Mine

LEMMA AbortInv ==
    ASSUME GrantsInv, NEW p \in Procs, Abort(p)
    PROVE  GrantsInv'
<1>1. Return(p, "error") /\ UNCHANGED <<tables, clock, req, started>> /\ "error" \in Replies
  BY DEF Abort, Replies
<1>2. CountersOK' /\ req' \in [Procs -> Request \cup {NoRequest}]
  BY <1>1 DEF GrantsInv, CountersOK, LocalsOK
<1> QED BY <1>1, <1>2, ReturnLocalInv

-----------------------------------------------------------------------------
(* Steps that write *)

LEMMA CreateGrantInv ==
    ASSUME GrantsInv, NEW p \in Procs, CreateGrant(p)
    PROVE  GrantsInv'
<1>k. PICK k : k = req[p].key
  OBVIOUS
<1>n. PICK new : new = NewGrant(req[p].account, req[p].amount, req[p].terms)
  OBVIOUS
<1>1. /\ pc[p] = "insert" /\ UNCHANGED <<balance, entries, audit, clock, req, started>>
      /\ \/ Return(p, "error") /\ UNCHANGED grants
         \/ /\ grants[k] = NoGrant /\ AccountFree(p, req[p].account)
            /\ grants' = [grants EXCEPT ![k] = new]
            /\ \E result \in {"ok", "error"} : Return(p, result)
  BY <1>k, <1>n DEF CreateGrant
<1>2. CountersOK' /\ req' \in [Procs -> Request \cup {NoRequest}] /\ {"ok", "error"} \subseteq Replies
  BY <1>1 DEF GrantsInv, CountersOK, LocalsOK, Replies
<1>3. CASE Return(p, "error") /\ UNCHANGED grants
  <2>1. UNCHANGED tables /\ "error" \in Replies
    BY <1>1, <1>3 DEF tables, Replies
  <2> QED BY <1>1, <1>2, <1>3, <2>1, ReturnLocalInv
<1>4. CASE /\ grants[k] = NoGrant /\ AccountFree(p, req[p].account)
           /\ grants' = [grants EXCEPT ![k] = new]
           /\ \E result \in {"ok", "error"} : Return(p, result)
  <2>1. /\ req[p] \in Request /\ req[p].op = "issue" /\ req[p].amount > 0
        /\ req[p].account \in Accounts
    BY <1>1 DEF GrantsInv, LocalsOK, Mine, Requested
  <2>2. /\ k \in Keys /\ req[p].amount \in Nat \ {0}
        /\ req[p].terms.priority \in Nat /\ req[p].terms.expires \in Nat
    BY <1>k, <2>1, RequestType
  <2>3. new \in Grant /\ new # NoGrant /\ new.status = "ACTIVE" /\ new.account = req[p].account
        /\ new.initial = new.remaining /\ new.remaining > 0
    <3>1. new = [account |-> req[p].account, initial |-> req[p].amount,
                 remaining |-> req[p].amount, status |-> "ACTIVE",
                 priority |-> req[p].terms.priority, expires |-> req[p].terms.expires]
      BY <1>n DEF NewGrant
    <3>2. new.status # NoGrant.status
      BY <3>1 DEF NoGrant
    <3> QED BY <2>1, <2>2, <3>1, <3>2 DEF Grant
  <2>4. grants'[k] = new /\ (\A g \in Keys \ {k} : grants'[g] = grants[g])
        /\ grants' \in [Keys -> Grant \cup {NoGrant}]
    BY <1>4, <2>2, <2>3 DEF GrantsInv, TablesOK
  <2>5. TablesOK' /\ CashChain'
    BY <1>1, <2>4 DEF GrantsInv, TablesOK, CashChain, Chain
  <2>6. Trails'
    <3> SUFFICES ASSUME NEW g \in Keys
                 PROVE  /\ Trail(audit[g], grants'[g].initial, grants'[g].remaining)
                        /\ grants'[g] # NoGrant =>
                              (grants'[g].status = "DEPLETED" <=> grants'[g].remaining = 0)
                        /\ grants'[g] = NoGrant => audit[g] = << >>
      BY <1>1 DEF Trails, Trail
    <3>1. CASE g = k
      <4>1. audit[k] = << >> /\ Len(<< >>) = 0
        BY <1>4, <2>2, EmptySeq DEF GrantsInv, Trails
      <4> QED BY <2>3, <2>4, <3>1, <4>1 DEF Trail
    <3>2. CASE g # k
      BY <2>4, <3>2 DEF GrantsInv, Trails
    <3> QED BY <3>1, <3>2
  <2>7. ChangesFree(p)
    <3>1. \A g \in Keys : Active(g) => grants'[g] = grants[g]
      BY <1>4, <2>4 DEF Active, NoGrant
    <3> QED BY <1>1, <1>4, <2>3, <2>4, <3>1 DEF ChangesFree
  <2> QED BY <1>1, <1>2, <1>4, <2>5, <2>6, <2>7, ReturnInv
<1> QED BY <1>1, <1>3, <1>4

(* What a commit publishes: only what was read under the lock, and current,   *)
(* is written.                                                               *)
LEMMA ConsumeTables ==
    ASSUME GrantsInv, NEW p \in Procs, Consume(p)
    PROVE  /\ grants' \in [Keys -> Grant \cup {NoGrant}] /\ audit' \in [Keys -> Seq(Draw)]
           /\ Trails'
           /\ \A g \in Keys :
                 /\ grants'[g] # grants[g] => GrantFree(p, g)
                 /\ grants'[g].account = grants[g].account
                 /\ grants'[g].expires = grants[g].expires
                 /\ grants'[g].priority = grants[g].priority
                 /\ grants'[g].status = "ACTIVE" =>
                       /\ grants[g].status = "ACTIVE"
                       /\ taken[p][g] = 0 \/ Partly(p, g)
<1>1. ASSUME NEW g \in Keys
      PROVE  /\ grants'[g] \in Grant \cup {NoGrant} /\ audit'[g] \in Seq(Draw)
             /\ Trail(audit'[g], grants'[g].initial, grants'[g].remaining)
             /\ grants'[g] # NoGrant =>
                   (grants'[g].status = "DEPLETED" <=> grants'[g].remaining = 0)
             /\ grants'[g] = NoGrant => audit'[g] = << >>
             /\ grants'[g] # grants[g] => GrantFree(p, g)
             /\ grants'[g].account = grants[g].account
             /\ grants'[g].expires = grants[g].expires
             /\ grants'[g].priority = grants[g].priority
             /\ grants'[g].status = "ACTIVE" =>
                   grants[g].status = "ACTIVE" /\ (taken[p][g] = 0 \/ Partly(p, g))
  <2>1. CASE taken[p][g] = 0
    <3>1. grants'[g] = grants[g] /\ audit'[g] = audit[g]
      BY <2>1 DEF Consume
    <3> QED BY <2>1, <3>1 DEF GrantsInv, TablesOK, Trails
  <2>2. CASE taken[p][g] # 0
    <3>t. PICK t : t = taken[p][g]
      OBVIOUS
    <3>o. PICK old : old = grants[g]
      OBVIOUS
    <3>1. t \in Nat \ {0}
      BY <2>2, <3>t DEF GrantsInv, LocalsOK
    <3>2. /\ g \in locked[p] /\ Active(g) /\ read[p][g] = old.remaining /\ t <= old.remaining
      BY <3>1, <3>t, <3>o DEF GrantsInv, Mine, Current
    <3>3. old \in Grant /\ old # NoGrant /\ old.remaining \in Nat /\ old.initial \in Nat
          /\ old.status = "ACTIVE"
      BY <3>2, <3>o, RowType DEF Active
    <3>4. audit'[g] = Append(audit[g], Drawn(t, old.remaining))
      BY <2>2, <3>t, <3>2 DEF Consume
    <3>5. audit'[g] \in Seq(Draw) /\ Trail(audit'[g], old.initial, old.remaining - t)
      <4>1. audit[g] \in Seq(Draw) /\ Trail(audit[g], old.initial, old.remaining)
        BY <3>o DEF GrantsInv, TablesOK, Trails
      <4> QED BY <3>1, <3>2, <3>3, <3>4, <4>1, TrailAppend
    <3>6. GrantFree(p, g)
      BY <3>2 DEF GrantFree, GrantsInv, OneHolder
    <3>7. CASE t = old.remaining
      <4>1. grants'[g] = [old EXCEPT !.remaining = 0, !.status = "DEPLETED"]
        BY <2>2, <3>t, <3>o, <3>2, <3>7 DEF Consume
      <4>2. /\ grants'[g] \in Grant /\ grants'[g].status = "DEPLETED" /\ grants'[g].remaining = 0
            /\ grants'[g].initial = old.initial /\ grants'[g].account = old.account
            /\ grants'[g].expires = old.expires /\ grants'[g].priority = old.priority
        <5>1. old = [account |-> old.account, initial |-> old.initial,
                     remaining |-> old.remaining, status |-> old.status,
                     priority |-> old.priority, expires |-> old.expires]
          BY <3>3 DEF Grant
        <5>2. grants'[g] = [account |-> old.account, initial |-> old.initial,
                            remaining |-> 0, status |-> "DEPLETED",
                            priority |-> old.priority, expires |-> old.expires]
          BY <4>1, <5>1
        <5> QED BY <3>3, <5>2 DEF Grant
      <4>3. grants'[g] # NoGrant /\ old.remaining - t = 0
        BY <3>3, <3>7, <4>2 DEF NoGrant
      <4> QED BY <3>o, <3>5, <3>6, <4>2, <4>3
    <3>8. CASE t # old.remaining
      <4>1. grants'[g] = [old EXCEPT !.remaining = @ - t]
        BY <2>2, <3>t, <3>o, <3>2, <3>8 DEF Consume
      <4>2. old.remaining - t \in Nat \ {0}
        BY <3>1, <3>2, <3>3, <3>8
      <4>3. /\ grants'[g] \in Grant /\ grants'[g].status = "ACTIVE"
            /\ grants'[g].remaining = old.remaining - t
            /\ grants'[g].initial = old.initial /\ grants'[g].account = old.account
            /\ grants'[g].expires = old.expires /\ grants'[g].priority = old.priority
        BY <3>3, <4>1, <4>2 DEF Grant
      <4>4. grants'[g] # NoGrant
        BY <4>3 DEF NoGrant
      <4>5. Partly(p, g)
        BY <3>1, <3>2, <3>3, <3>8, <3>t DEF Partly
      <4> QED BY <3>3, <3>o, <3>5, <3>6, <4>2, <4>3, <4>4, <4>5
    <3> QED BY <3>7, <3>8
  <2> QED BY <2>1, <2>2
<1>2. DOMAIN grants' = Keys /\ DOMAIN audit' = Keys
      /\ grants' = [g \in Keys |-> grants'[g]] /\ audit' = [g \in Keys |-> audit'[g]]
  BY DEF Consume
<1>3. Trails'
  BY <1>1 DEF Trails
<1> QED BY <1>1, <1>2, <1>3

LEMMA CommitDrawdownInv ==
    ASSUME GrantsInv, NEW p \in Procs, CommitDrawdown(p)
    PROVE  GrantsInv'
<1>1. /\ Consume(p) /\ UNCHANGED <<balance, entries, clock, req, started>>
      /\ \E result \in {"ok", "error"} : Return(p, result)
  BY DEF CommitDrawdown, Commit
<1>2. CountersOK' /\ req' \in [Procs -> Request \cup {NoRequest}] /\ {"ok", "error"} \subseteq Replies
  BY <1>1 DEF GrantsInv, CountersOK, LocalsOK, Replies
<1>3. TablesOK' /\ CashChain' /\ Trails'
  BY <1>1, ConsumeTables DEF GrantsInv, TablesOK, CashChain, Chain
<1>4. ChangesFree(p)
  BY <1>1, ConsumeTables DEF ChangesFree
<1> QED BY <1>1, <1>2, <1>3, <1>4, ReturnInv

(* The row of an account that a waterfall debit holds has one writer. *)
LEMMA CommitWaterfallInv ==
    ASSUME GrantsInv, NEW p \in Procs, CommitWaterfall(p)
    PROVE  GrantsInv'
<1>a. PICK a : a = req[p].account
  OBVIOUS
<1>x. PICK x : x = Debit(left[p], cash[p] - left[p], NoKey)
  OBVIOUS
<1>1. /\ pc[p] = "consume" /\ Consume(p) /\ UNCHANGED <<clock, req, started>>
      /\ \E result \in {"ok", "error"} : Return(p, result)
      /\ \/ /\ balance' = [balance EXCEPT ![a] = @ - left[p]]
            /\ entries' = [entries EXCEPT ![a] = Append(@, x)]
         \/ UNCHANGED <<balance, entries>>
  BY <1>a, <1>x DEF CommitWaterfall, Commit
<1>2. CountersOK' /\ req' \in [Procs -> Request \cup {NoRequest}] /\ {"ok", "error"} \subseteq Replies
  BY <1>1 DEF GrantsInv, CountersOK, LocalsOK, Replies
<1>3. HoldsAccount(p, a) /\ a \in Accounts /\ cash[p] = balance[a] /\ AccountFree(p, a)
  <2>1. HoldsAccount(p, a)
    BY <1>a, <1>1 DEF HoldsAccount, GrantsInv, Mine, Requested
  <2>2. a \in Accounts /\ cash[p] = balance[a]
    BY <2>1 DEF GrantsInv, Mine, Requested, Current
  <2> QED BY <2>1, <2>2 DEF AccountFree, GrantsInv, OneHolder
<1>4. /\ balance' \in [Accounts -> Int] /\ entries' \in [Accounts -> Seq(Entry)]
      /\ CashChain' /\ \A b \in Accounts \ {a} : balance'[b] = balance[b]
  <2>t. balance \in [Accounts -> Int] /\ entries \in [Accounts -> Seq(Entry)] /\ left[p] \in Nat
    BY DEF GrantsInv, TablesOK, LocalsOK
  <2>1. CASE UNCHANGED <<balance, entries>>
    BY <2>t, <2>1 DEF GrantsInv, CashChain, Chain
  <2>2. CASE /\ balance' = [balance EXCEPT ![a] = @ - left[p]]
             /\ entries' = [entries EXCEPT ![a] = Append(@, x)]
    <3>1. /\ x = [type |-> "DEBIT", amount |-> left[p], after |-> balance[a] - left[p], txn |-> NoKey]
          /\ balance[a] \in Int /\ balance[a] - left[p] \in Int
      BY <1>x, <1>3, <2>t DEF Debit
    <3>2. x \in Entry /\ x.after = Signed(x) + balance[a] /\ x.after = balance[a] - left[p]
      BY <2>t, <3>1 DEF Entry, Signed
    <3>3. /\ balance' \in [Accounts -> Int] /\ balance'[a] = x.after
          /\ \A b \in Accounts \ {a} : balance'[b] = balance[b]
      BY <1>3, <2>t, <2>2, <3>1, <3>2
    <3>4. Append(entries[a], x) \in Seq(Entry)
      BY <1>3, <2>t, <3>2, AppendProperties
    <3>5. /\ entries' \in [Accounts -> Seq(Entry)] /\ entries'[a] = Append(entries[a], x)
          /\ \A b \in Accounts \ {a} : entries'[b] = entries[b]
      BY <1>3, <2>t, <2>2, <3>4
    <3>6. Chain(Append(entries[a], x), x.after)
      BY <1>3, <2>t, <3>1, <3>2, ChainAppend DEF GrantsInv, CashChain
    <3>7. CashChain'
      <4> SUFFICES ASSUME NEW b \in Accounts PROVE Chain(entries'[b], balance'[b])
        BY DEF CashChain
      <4> QED BY <3>3, <3>5, <3>6 DEF GrantsInv, CashChain
    <3> QED BY <3>3, <3>5, <3>7
  <2> QED BY <1>1, <2>1, <2>2
<1>5. TablesOK' /\ Trails'
  BY <1>1, <1>4, ConsumeTables DEF TablesOK
<1>6. ChangesFree(p)
  BY <1>1, <1>3, <1>4, ConsumeTables DEF ChangesFree
<1> QED BY <1>1, <1>2, <1>4, <1>5, <1>6, ReturnInv

LEMMA CommitExpiryInv ==
    ASSUME GrantsInv, NEW p \in Procs, CommitExpiry(p)
    PROVE  GrantsInv'
<1>1. /\ pc[p] = "lock" /\ UNCHANGED <<balance, entries, audit, clock, req, started>>
      /\ \E result \in {"ok", "error"} : Return(p, result)
      /\ grants' = [g \in Keys |->
            IF g \in found[p] THEN [grants[g] EXCEPT !.status = "EXPIRED"] ELSE grants[g]]
  BY DEF CommitExpiry, Commit
<1>2. CountersOK' /\ req' \in [Procs -> Request \cup {NoRequest}] /\ {"ok", "error"} \subseteq Replies
  BY <1>1 DEF GrantsInv, CountersOK, LocalsOK, Replies
<1>3. ASSUME NEW g \in Keys
      PROVE  /\ grants'[g] \in Grant \cup {NoGrant}
             /\ grants'[g].initial = grants[g].initial
             /\ grants'[g].remaining = grants[g].remaining
             /\ grants'[g] # grants[g] =>
                   /\ GrantFree(p, g) /\ grants'[g].status = "EXPIRED"
                   /\ grants[g].remaining > 0 /\ grants[g] # NoGrant /\ grants'[g] # NoGrant
  <2>1. CASE g \in found[p]
    <3>1. g \in locked[p] /\ Active(g)
      BY <2>1 DEF GrantsInv, Mine, Current
    <3>2. grants[g] \in Grant /\ grants[g] # NoGrant /\ grants[g].remaining > 0
      BY <3>1, RowType
    <3>3. GrantFree(p, g)
      BY <3>1 DEF GrantFree, GrantsInv, OneHolder
    <3>4. grants'[g] = [grants[g] EXCEPT !.status = "EXPIRED"]
      BY <1>1, <2>1
    <3>5. /\ grants'[g] \in Grant /\ grants'[g].status = "EXPIRED"
          /\ grants'[g].initial = grants[g].initial
          /\ grants'[g].remaining = grants[g].remaining
      BY <3>2, <3>4 DEF Grant
    <3>6. grants'[g] # NoGrant
      BY <3>5 DEF NoGrant
    <3> QED BY <3>2, <3>3, <3>5, <3>6
  <2>2. CASE g \notin found[p]
    <3>1. grants'[g] = grants[g]
      BY <1>1, <2>2
    <3> QED BY <3>1 DEF GrantsInv, TablesOK
  <2> QED BY <2>1, <2>2
<1>4. grants' \in [Keys -> Grant \cup {NoGrant}]
  <2>1. grants' = [g \in Keys |-> grants'[g]]
    BY <1>1
  <2> QED BY <1>3, <2>1
<1>5. TablesOK' /\ CashChain'
  BY <1>1, <1>4 DEF GrantsInv, TablesOK, CashChain, Chain
<1>6. Trails'
  <2> SUFFICES ASSUME NEW g \in Keys
               PROVE  /\ Trail(audit[g], grants'[g].initial, grants'[g].remaining)
                      /\ grants'[g] # NoGrant =>
                            (grants'[g].status = "DEPLETED" <=> grants'[g].remaining = 0)
                      /\ grants'[g] = NoGrant => audit[g] = << >>
    BY <1>1 DEF Trails, Trail
  <2>1. /\ Trail(audit[g], grants[g].initial, grants[g].remaining)
        /\ grants[g] # NoGrant => (grants[g].status = "DEPLETED" <=> grants[g].remaining = 0)
        /\ grants[g] = NoGrant => audit[g] = << >>
    BY DEF GrantsInv, Trails
  <2>2. CASE grants'[g] = grants[g]
    BY <2>1, <2>2
  <2>3. CASE grants'[g] # grants[g]
    <3>1. grants'[g].status = "EXPIRED" /\ grants'[g].remaining > 0 /\ grants'[g] # NoGrant
          /\ grants[g].remaining \in Nat /\ grants'[g].remaining = grants[g].remaining
      BY <1>3, <2>3, RowType
    <3> QED BY <1>3, <2>1, <3>1
  <2> QED BY <2>2, <2>3
<1>7. ChangesFree(p)
  BY <1>1, <1>3 DEF ChangesFree
<1> QED BY <1>1, <1>2, <1>5, <1>6, <1>7, ReturnInv

(* Steps of no request: cash moves while nobody holds the account, or the      *)
(* clock does.                                                               *)
LEMMA NobodyInv ==
    ASSUME GrantsInv, UNCHANGED <<grants, audit, pc, req, reply, local>>, CountersOK',
           TablesOK', CashChain',
           \A a \in Accounts : balance'[a] # balance[a] => \A p \in Procs : ~HoldsAccount(p, a)
    PROVE  GrantsInv'
<1>1. UNCHANGED <<now, plan, locked, found, read, taken, left, cash>>
  BY DEF local
<1>2. LocalsOK' /\ Trails'
  BY <1>1 DEF GrantsInv, LocalsOK, Trails, Trail
<1>3. ASSUME NEW q \in Procs PROVE Mine(q)'
  <2>1. Same(q)
    BY <1>1 DEF Same
  <2>2. Respected(q)
    BY <1>1 DEF Respected, Usable
  <2> QED BY <2>1, <2>2, BystanderMine DEF GrantsInv
<1>4. OneHolder'
  BY <1>1 DEF GrantsInv, OneHolder, HoldsAccount
<1> QED BY <1>2, <1>3, <1>4 DEF GrantsInv

LEMMA MoveCashInv ==
    ASSUME GrantsInv, NEW a \in Accounts, NEW amount \in Int, NEW x,
           x.after = balance[a] + amount, x \in Entry, Signed(x) = amount, MoveCash(a, amount, x)
    PROVE  GrantsInv'
<1>1. /\ started < MaxRequests /\ started' = started + 1 /\ \A p \in Procs : ~HoldsAccount(p, a)
      /\ balance' = [balance EXCEPT ![a] = @ + amount]
      /\ entries' = [entries EXCEPT ![a] = Append(@, x)]
      /\ UNCHANGED <<grants, audit, clock, pc, req, reply, local>>
  BY DEF MoveCash
<1>t. balance \in [Accounts -> Int] /\ entries \in [Accounts -> Seq(Entry)]
  BY DEF GrantsInv, TablesOK
<1>2. /\ balance' \in [Accounts -> Int] /\ balance'[a] = x.after
      /\ \A b \in Accounts \ {a} : balance'[b] = balance[b]
  BY <1>1, <1>t
<1>3. Append(entries[a], x) \in Seq(Entry)
  BY <1>t, AppendProperties
<1>4. /\ entries' \in [Accounts -> Seq(Entry)] /\ entries'[a] = Append(entries[a], x)
      /\ \A b \in Accounts \ {a} : entries'[b] = entries[b]
  BY <1>1, <1>t, <1>3
<1>5. Chain(Append(entries[a], x), x.after)
  <2>1. balance[a] \in Int /\ entries[a] \in Seq(Entry) /\ x.after = Signed(x) + balance[a]
    BY <1>t
  <2> QED BY <2>1, ChainAppend DEF GrantsInv, CashChain
<1>6. CashChain'
  <2> SUFFICES ASSUME NEW b \in Accounts PROVE Chain(entries'[b], balance'[b])
    BY DEF CashChain
  <2> QED BY <1>2, <1>4, <1>5 DEF GrantsInv, CashChain
<1>7. TablesOK' /\ CountersOK'
  BY <1>1, <1>2, <1>4, GrantsAssumption DEF GrantsInv, TablesOK, CountersOK, GrantsAssumption
<1> QED BY <1>1, <1>2, <1>6, <1>7, NobodyInv

LEMMA DepositInv ==
    ASSUME GrantsInv, NEW a \in Accounts, NEW amount \in Amounts,
           Deposit(a, amount) \/ Withdraw(a, amount)
    PROVE  GrantsInv'
<1>1. amount \in Int /\ balance[a] \in Int
  BY AmountsAssumption DEF AmountsAssumption, GrantsInv, TablesOK
<1>2. CASE Deposit(a, amount)
  <2> DEFINE x == Credit(amount, balance[a] + amount, NoKey)
  <2>1. x \in Entry /\ x.after = balance[a] + amount /\ Signed(x) = amount
    BY <1>1 DEF Credit, Entry, Signed
  <2>2. MoveCash(a, amount, x)
    BY <1>2 DEF Deposit
  <2> HIDE DEF x
  <2> QED BY <1>1, <2>1, <2>2, MoveCashInv
<1>3. CASE Withdraw(a, amount)
  <2> DEFINE x == Debit(amount, balance[a] - amount, NoKey)
  <2>1. x \in Entry /\ x.after = balance[a] + (-amount) /\ Signed(x) = -amount /\ -amount \in Int
    BY <1>1 DEF Debit, Entry, Signed
  <2>2. MoveCash(a, -amount, x)
    BY <1>3 DEF Withdraw
  <2> HIDE DEF x
  <2> QED BY <2>1, <2>2, MoveCashInv
<1> QED BY <1>2, <1>3

LEMMA TickInv ==
    ASSUME GrantsInv, Tick
    PROVE  GrantsInv'
<1>1. /\ clock < MaxClock /\ clock' = clock + 1
      /\ UNCHANGED <<balance, entries, grants, audit, pc, req, reply, local, started>>
  BY DEF Tick, tables
<1>2. CountersOK' /\ TablesOK' /\ CashChain'
  <2>1. CountersOK'
    BY <1>1, GrantsAssumption DEF GrantsInv, CountersOK, GrantsAssumption
  <2>2. TablesOK' /\ CashChain'
    BY <1>1 DEF GrantsInv, TablesOK, CashChain, Chain
  <2> QED BY <2>1, <2>2
<1> QED BY <1>1, <1>2, NobodyInv

-----------------------------------------------------------------------------
(* The theorems *)

LEMMA InitGrantsInv == Init => GrantsInv
<1> SUFFICES ASSUME Init PROVE GrantsInv
  OBVIOUS
<1>1. TablesOK
  <2>1. balance \in [Accounts -> Int] /\ entries \in [Accounts -> Seq(Entry)]
    BY AccountsAssumption, OpeningChain DEF Init, AccountsAssumption
  <2>2. grants \in [Keys -> Grant \cup {NoGrant}] /\ audit \in [Keys -> Seq(Draw)]
    BY IssuedAssumption, EmptySeq DEF Init, IssuedAssumption
  <2> QED BY <2>1, <2>2 DEF TablesOK
<1>2. LocalsOK /\ CountersOK
  <2>1. Nothing \in [Keys -> Nat] /\ 0 \in 0 .. MaxClock /\ 0 \in 0 .. MaxRequests
    BY GrantsAssumption DEF Nothing, GrantsAssumption
  <2>2. /\ pc \in [Procs -> Labels] /\ req \in [Procs -> Request \cup {NoRequest}]
        /\ reply \in [Procs -> Replies] /\ \A p \in Procs : pc[p] = "idle"
    BY DEF Init, Labels, Replies
  <2>3. /\ now \in [Procs -> 0 .. MaxClock] /\ plan \in [Procs -> SUBSET Keys]
        /\ locked \in [Procs -> SUBSET Keys] /\ found \in [Procs -> SUBSET Keys]
        /\ read \in [Procs -> [Keys -> Nat]] /\ taken \in [Procs -> [Keys -> Nat]]
        /\ left \in [Procs -> Nat] /\ cash \in [Procs -> Int]
    BY <2>1 DEF Init
  <2> QED BY <2>1, <2>2, <2>3 DEF Init, LocalsOK, CountersOK
<1>3. OneHolder
  BY DEF Init, OneHolder, HoldsAccount
<1>4. Trails
  <2> SUFFICES ASSUME NEW g \in Keys
               PROVE  /\ Trail(<< >>, Issued[g].initial, Issued[g].remaining)
                      /\ Issued[g] # NoGrant =>
                            (Issued[g].status = "DEPLETED" <=> Issued[g].remaining = 0)
    BY DEF Init, Trails
  <2>1. /\ Issued[g] \in Grant \cup {NoGrant} /\ Issued[g].remaining = Issued[g].initial
        /\ Issued[g] # NoGrant => Issued[g].status = "ACTIVE"
    BY IssuedAssumption DEF IssuedAssumption
  <2>2. Len(<< >>) = 0
    OBVIOUS
  <2>3. Trail(<< >>, Issued[g].initial, Issued[g].remaining)
    BY <2>1, <2>2 DEF Trail
  <2>4. Issued[g] # NoGrant => Issued[g].initial \in Nat \ {0}
    BY <2>1 DEF Grant
  <2> QED BY <2>1, <2>3, <2>4
<1>5. CashChain
  BY OpeningChain DEF Init, CashChain
<1>6. \A p \in Procs : Mine(p)
  BY DEF Init, Mine, Requested, Private, Current, Ordered, HoldsAccount, Nothing
<1> QED BY <1>1, <1>2, <1>3, <1>4, <1>5, <1>6 DEF GrantsInv

LEMMA NextGrantsInv == GrantsInv /\ [Next]_vars => GrantsInv'
<1> SUFFICES ASSUME GrantsInv, [Next]_vars PROVE GrantsInv'
  OBVIOUS
<1>1. CASE \E p \in Procs : \E r \in Request : Start(p, r)
  BY <1>1, StartInv
<1>2. ASSUME NEW p \in Procs, Step(p) PROVE GrantsInv'
  <2>1. CASE IssueCheckKey(p) \/ CreateGrant(p)
    BY <2>1, IssueCheckKeyInv, CreateGrantInv
  <2>2. CASE LockAccount(p) \/ SelectGrants(p) \/ CheckFunds(p)
    BY <2>2, LockAccountInv, SelectGrantsInv, CheckFundsInv
  <2>3. CASE \E g \in Keys : CollectGrant(p, g) \/ DrawGrant(p, g) \/ ConsumeGrant(p, g)
    BY <2>3, CollectGrantInv, DrawGrantInv, ConsumeGrantInv
  <2>4. CASE CommitDrawdown(p) \/ CommitWaterfall(p) \/ CommitExpiry(p)
    BY <2>4, CommitDrawdownInv, CommitWaterfallInv, CommitExpiryInv
  <2> QED BY <1>2, <2>1, <2>2, <2>3, <2>4 DEF Step
<1>3. CASE \E p \in Procs : Abort(p)
  BY <1>3, AbortInv
<1>4. CASE \E a \in Accounts, amount \in Amounts : Deposit(a, amount) \/ Withdraw(a, amount)
  BY <1>4, DepositInv
<1>5. CASE Tick
  BY <1>5, TickInv
<1>6. CASE UNCHANGED vars
  <2>1. UNCHANGED <<balance, entries, grants, audit, pc, req, reply, local, started, clock>>
    BY <1>6 DEF vars, tables
  <2>2. CountersOK' /\ TablesOK' /\ CashChain'
    BY <2>1 DEF GrantsInv, CountersOK, TablesOK, CashChain, Chain
  <2> QED BY <2>1, <2>2, NobodyInv
<1> QED BY <1>1, <1>2, <1>3, <1>4, <1>5, <1>6 DEF Next

(* In every reachable state of any number of concurrent requests the          *)
(* invariant holds: what a request has read and locked is current, locks have *)
(* one holder, trails are unbroken and waterfalls keep to the order.          *)
THEOREM GrantsInvariant == Spec => []GrantsInv
<1> QED BY InitGrantsInv, NextGrantsInv, PTL DEF Spec

(* The tables and the open transactions have their types: no remaining_amount *)
(* is ever negative.                                                         *)
THEOREM GrantsTypes == Spec => []TypeOK
<1>1. GrantsInv => TypeOK
  BY GrantsInvImplies
<1> QED BY <1>1, GrantsInvariant, PTL

(* Row locks taken one by one, in three different orders, have one holder.    *)
THEOREM LocksHaveOneHolder == Spec => []OneHolder
<1>1. GrantsInv => OneHolder
  BY DEF GrantsInv
<1> QED BY <1>1, GrantsInvariant, PTL

(* What Drawdown and WaterfallDebit read of a grant and of the cash balance   *)
(* is still true when they use it, whatever ran in between.                   *)
THEOREM ReadsStayCurrent == Spec => []ReadsAreCurrent
<1>1. GrantsInv => ReadsAreCurrent
  BY GrantsInvImplies
<1> QED BY <1>1, GrantsInvariant, PTL

(* grant_ledger_entries is an unbroken trail from initial_amount down to      *)
(* remaining_amount, and DEPLETED says that nothing remains.                  *)
THEOREM TrailsAreUnbroken == Spec => []GrantAudit
<1>1. GrantsInv => GrantAudit
  BY GrantsInvImplies
<1> QED BY <1>1, GrantsInvariant, PTL

(* The cash part of a waterfall debit, computed from a balance read earlier,  *)
(* continues the ledger's audit trail like any deposit or withdrawal.         *)
THEOREM CashHasATrail == Spec => []CashChain
<1>1. GrantsInv => CashChain
  BY DEF GrantsInv
<1> QED BY <1>1, GrantsInvariant, PTL

(* Only its own commit ends a waterfall debit with a change to the tables.    *)
LEMMA WaterfallCommits ==
    ASSUME GrantsInv, [Next]_vars, NEW p \in Procs, CommitsWaterfall(p)
    PROVE  CommitWaterfall(p)
<1>1. pc[p] = "consume" /\ pc'[p] = "idle" /\ (grants' # grants \/ balance' # balance)
  BY DEF CommitsWaterfall
<1>2. req[p].op = "waterfall"
  BY <1>1 DEF GrantsInv, Mine, Requested
<1>3. ASSUME NEW q \in Procs, NEW result, Return(q, result)
      PROVE  q = p
  <2>1. pc' = [pc EXCEPT ![q] = "idle"]
    BY <1>3 DEF Return
  <2> QED BY <1>1, <2>1 DEF GrantsInv, LocalsOK
<1>4. ASSUME NEW q \in Procs, Step(q)
      PROVE  CommitWaterfall(p)
  <2>1. CASE IssueCheckKey(q) \/ LockAccount(q) \/ SelectGrants(q) \/ CheckFunds(q)
    BY <1>1, <2>1 DEF IssueCheckKey, LockAccount, SelectGrants, CheckFunds, tables
  <2>2. CASE CreateGrant(q)
    <3>1. pc[q] = "insert" /\ \E result \in {"ok", "error"} : Return(q, result)
      BY <2>2 DEF CreateGrant
    <3> QED BY <1>1, <1>3, <3>1
  <2>3. CASE \E g \in Keys : CollectGrant(q, g) \/ DrawGrant(q, g) \/ ConsumeGrant(q, g)
    BY <1>1, <2>3 DEF CollectGrant, DrawGrant, ConsumeGrant, LockGrant, tables
  <2>4. CASE CommitDrawdown(q) \/ CommitExpiry(q)
    <3>1. pc[q] = "lock" /\ \E result \in {"ok", "error"} : Return(q, result)
      BY <2>4 DEF CommitDrawdown, CommitExpiry, Commit
    <3> QED BY <1>1, <1>3, <3>1
  <2>5. CASE CommitWaterfall(q)
    <3>1. \E result \in {"ok", "error"} : Return(q, result)
      BY <2>5 DEF CommitWaterfall, Commit
    <3>2. q = p
      BY <1>3, <3>1
    <3> QED BY <2>5, <3>2
  <2> QED BY <1>4, <2>1, <2>2, <2>3, <2>4, <2>5 DEF Step
<1>5. ASSUME NEW q \in Procs, (\E r \in Request : Start(q, r)) \/ Abort(q)
      PROVE  FALSE
  BY <1>1, <1>5 DEF Start, Abort, tables
<1>6. ASSUME NEW a \in Accounts, NEW amount \in Amounts, Deposit(a, amount) \/ Withdraw(a, amount)
      PROVE  FALSE
  BY <1>1, <1>6 DEF Deposit, Withdraw, MoveCash
<1>7. CASE Tick \/ UNCHANGED vars
  BY <1>1, <1>7 DEF Tick, vars, tables
<1> QED BY <1>4, <1>5, <1>6, <1>7 DEF Next

(* Grants before cash, and in order, for every interleaving of issues,        *)
(* drawdowns, expiries and waterfall debits: no usable grant that comes       *)
(* earlier is left when a waterfall debit commits, none at all if it took     *)
(* cash.                                                                     *)
THEOREM WaterfallKeepsOrder == Spec => GrantsBeforeCash
<1> DEFINE Kept(p) ==
             CommitsWaterfall(p) =>
                \A h \in Keys :
                   /\ grants'[h].status = "ACTIVE" /\ grants'[h].expires > now[p]
                   /\ grants'[h].account = req[p].account
                   => /\ UNCHANGED balance
                      /\ \A g \in Keys : taken[p][g] > 0 => ~Earlier(grants[h], grants[g])
<1>1. ASSUME GrantsInv, [Next]_vars, NEW p \in Procs PROVE Kept(p)
  <2> SUFFICES ASSUME CommitsWaterfall(p), NEW h \in Keys,
                      grants'[h].status = "ACTIVE", grants'[h].expires > now[p],
                      grants'[h].account = req[p].account
               PROVE  /\ UNCHANGED balance
                      /\ \A g \in Keys : taken[p][g] > 0 => ~Earlier(grants[h], grants[g])
    OBVIOUS
  <2>1. /\ pc[p] = "consume" /\ (found[p] = {} \/ left[p] = 0) /\ Consume(p)
        /\ left[p] = 0 => UNCHANGED balance
    <3>1. CommitWaterfall(p)
      BY <1>1, WaterfallCommits
    <3> QED BY <3>1 DEF CommitWaterfall
  <2>2. Usable(p, h) /\ (taken[p][h] = 0 \/ Partly(p, h))
    BY <1>1, <2>1, ConsumeTables DEF Usable
  <2>3. Ordered(p) /\ req[p].op = "waterfall"
    BY <1>1, <2>1 DEF GrantsInv, Mine, Requested
  <2>4. h \in found[p] \/ Partly(p, h)
    BY <2>1, <2>2, <2>3 DEF Ordered
  <2>5. UNCHANGED balance
    BY <2>1, <2>3, <2>4 DEF Ordered
  <2>6. \A g \in Keys : taken[p][g] > 0 => ~Earlier(grants[h], grants[g])
    BY <2>1, <2>3, <2>4 DEF Ordered
  <2> QED BY <2>5, <2>6
<1>2. GrantsInv /\ [Next]_vars => [\A p \in Procs : Kept(p)]_vars
  BY <1>1
<1> QED BY <1>2, GrantsInvariant, PTL DEF Spec, GrantsBeforeCash

-----------------------------------------------------------------------------
(* Lock order *)

(* Priorities and expiries go no further than what may be asked for. *)
Within(n) ==
    /\ \A t \in Terms : t.priority <= n /\ t.expires <= n
    /\ \A g \in Keys : grants[g].priority <= n /\ grants[g].expires <= n

(* A reading statement locks its rows in their order: none that it has yet to *)
(* lock comes before one that it has.                                        *)
InOrder(p) ==
    /\ plan[p] # {} => pc[p] = "lock"
    /\ \A g \in plan[p] \cup locked[p] : grants[g] # NoGrant
    /\ req[p].op # "expire" =>
          \A g \in locked[p], h \in plan[p] : ~Earlier(grants[h], grants[g])

OrderInv == (\E n \in Nat : Within(n)) /\ \A p \in Procs : InOrder(p)

(* The terms of a grant never change. *)
SameTerms(g) ==
    /\ grants'[g] # NoGrant /\ grants'[g].account = grants[g].account
    /\ grants'[g].priority = grants[g].priority /\ grants'[g].expires = grants[g].expires

TermsKept == \A g \in Keys : grants[g] # NoGrant => SameTerms(g)

LEMMA RowKept ==
    ASSUME GrantsInv, NEW g \in Keys, grants[g] # NoGrant, NEW r, NEW s,
           grants'[g] = [grants[g] EXCEPT !.remaining = r, !.status = s]
    PROVE  SameTerms(g)
<1>1. grants[g] \in Grant
  BY DEF GrantsInv, TablesOK
<1>2. grants[g].account \in Accounts /\ grants'[g].account = grants[g].account
      /\ grants'[g].priority = grants[g].priority /\ grants'[g].expires = grants[g].expires
      /\ grants'[g].initial = grants[g].initial /\ grants[g].initial # 0
  BY <1>1 DEF Grant
<1>3. NoGrant.initial = 0
  BY DEF NoGrant
<1> QED BY <1>2, <1>3 DEF SameTerms

LEMMA TermsAreKept ==
    ASSUME GrantsInv, [Next]_vars
    PROVE  TermsKept
<1>1. ASSUME UNCHANGED grants PROVE TermsKept
  BY <1>1 DEF TermsKept, SameTerms
<1>2. ASSUME NEW p \in Procs, Consume(p) PROVE TermsKept
  <2> SUFFICES ASSUME NEW g \in Keys, grants[g] # NoGrant PROVE SameTerms(g)
    BY DEF TermsKept
  <2>1. grants[g] \in Grant
    BY DEF GrantsInv, TablesOK
  <2>2. grants'[g] = IF taken[p][g] = 0 THEN grants[g]
                     ELSE IF taken[p][g] = read[p][g]
                          THEN [grants[g] EXCEPT !.remaining = 0, !.status = "DEPLETED"]
                          ELSE [grants[g] EXCEPT !.remaining = @ - taken[p][g]]
    BY <1>2 DEF Consume
  <2>3. CASE grants'[g] = grants[g]
    BY <2>3 DEF SameTerms
  <2>4. CASE grants'[g] = [grants[g] EXCEPT !.remaining = 0, !.status = "DEPLETED"]
    BY <2>4, RowKept
  <2>5. CASE grants'[g] = [grants[g] EXCEPT !.remaining = @ - taken[p][g]]
    <3>1. grants'[g] = [grants[g] EXCEPT !.remaining = grants[g].remaining - taken[p][g],
                                         !.status = grants[g].status]
      BY <2>1, <2>5 DEF Grant
    <3> QED BY <3>1, RowKept
  <2> QED BY <2>2, <2>3, <2>4, <2>5
<1>3. ASSUME NEW p \in Procs, CreateGrant(p) PROVE TermsKept
  BY <1>3, <1>1 DEF CreateGrant, TermsKept, SameTerms, GrantsInv, TablesOK
<1>4. ASSUME NEW p \in Procs, CommitExpiry(p) PROVE TermsKept
  <2> SUFFICES ASSUME NEW g \in Keys, grants[g] # NoGrant PROVE SameTerms(g)
    BY DEF TermsKept
  <2>1. grants[g] \in Grant
    BY DEF GrantsInv, TablesOK
  <2>2. grants'[g] = IF g \in found[p] THEN [grants[g] EXCEPT !.status = "EXPIRED"]
                     ELSE grants[g]
    BY <1>4 DEF CommitExpiry
  <2>3. CASE grants'[g] = grants[g]
    BY <2>3 DEF SameTerms
  <2>4. CASE grants'[g] = [grants[g] EXCEPT !.status = "EXPIRED"]
    <3>1. grants'[g] = [grants[g] EXCEPT !.remaining = grants[g].remaining,
                                         !.status = "EXPIRED"]
      BY <2>1, <2>4 DEF Grant
    <3> QED BY <3>1, RowKept
  <2> QED BY <2>2, <2>3, <2>4
<1>5. ASSUME NEW p \in Procs, Step(p) PROVE TermsKept
  <2>1. CASE IssueCheckKey(p) \/ LockAccount(p) \/ SelectGrants(p) \/ CheckFunds(p)
    BY <1>1, <2>1 DEF IssueCheckKey, LockAccount, SelectGrants, CheckFunds, tables
  <2>2. CASE \E g \in Keys : CollectGrant(p, g) \/ DrawGrant(p, g) \/ ConsumeGrant(p, g)
    BY <1>1, <2>2 DEF CollectGrant, DrawGrant, ConsumeGrant, LockGrant, tables
  <2>3. CASE CommitDrawdown(p) \/ CommitWaterfall(p)
    BY <1>2, <2>3 DEF CommitDrawdown, CommitWaterfall
  <2> QED BY <1>3, <1>4, <1>5, <2>1, <2>2, <2>3 DEF Step
<1>6. ASSUME NEW p \in Procs, (\E r \in Request : Start(p, r)) \/ Abort(p) PROVE TermsKept
  BY <1>1, <1>6 DEF Start, Abort, tables
<1>7. ASSUME NEW a \in Accounts, NEW amount \in Amounts, Deposit(a, amount) \/ Withdraw(a, amount)
      PROVE  TermsKept
  BY <1>1, <1>7 DEF Deposit, Withdraw, MoveCash
<1>8. CASE Tick \/ UNCHANGED vars
  BY <1>1, <1>8 DEF Tick, vars, tables
<1> QED BY <1>5, <1>6, <1>7, <1>8 DEF Next

(* One more than it has, or nothing more to lock. *)
LEMMA OthersInOrder ==
    ASSUME TermsKept, NEW q \in Procs, InOrder(q), LocalsOK,
           plan'[q] = plan[q], locked'[q] = locked[q], req'[q] = req[q],
           plan[q] # {} => pc'[q] = "lock"
    PROVE  InOrder(q)'
<1>1. plan[q] \subseteq Keys /\ locked[q] \subseteq Keys
  BY DEF LocalsOK
<1>2. \A g \in plan[q] \cup locked[q] : SameTerms(g)
  BY <1>1 DEF InOrder, TermsKept
<1>3. \A g \in plan'[q] \cup locked'[q] : grants'[g] # NoGrant
  BY <1>2 DEF SameTerms
<1>4. ASSUME NEW g \in locked[q], NEW h \in plan[q], req[q].op # "expire"
      PROVE  ~Earlier(grants'[h], grants'[g])
  <2>1. ~Earlier(grants[h], grants[g])
    BY <1>4 DEF InOrder
  <2> QED BY <1>2, <2>1 DEF SameTerms, Earlier
<1> QED BY <1>3, <1>4 DEF InOrder

LEMMA NothingInOrder ==
    ASSUME NEW q \in Procs, plan'[q] = {}, locked'[q] = {}
    PROVE  InOrder(q)'
BY DEF InOrder

LEMMA ReturnInOrder ==
    ASSUME GrantsInv, TermsKept, NEW p \in Procs, NEW result, Return(p, result),
           \A q \in Procs \ {p} : req'[q] = req[q], NEW q \in Procs, InOrder(q)
    PROVE  InOrder(q)'
<1>1. /\ pc' = [pc EXCEPT ![p] = "idle"]
      /\ plan' = [plan EXCEPT ![p] = {}] /\ locked' = [locked EXCEPT ![p] = {}]
  BY DEF Return, Forget
<1>2. /\ pc \in [Procs -> Labels] /\ plan \in [Procs -> SUBSET Keys]
      /\ locked \in [Procs -> SUBSET Keys] /\ LocalsOK
  BY DEF GrantsInv, LocalsOK
<1>3. CASE q = p
  BY <1>1, <1>2, <1>3, NothingInOrder
<1>4. CASE q # p
  <2>1. plan'[q] = plan[q] /\ locked'[q] = locked[q] /\ req'[q] = req[q] /\ pc'[q] = pc[q]
    BY <1>1, <1>2, <1>4
  <2> QED BY <1>2, <2>1, OthersInOrder DEF InOrder
<1> QED BY <1>3, <1>4

(* A step that only moves p on. *)
LEMMA GotoInOrder ==
    ASSUME GrantsInv, TermsKept, NEW p \in Procs, NEW l, pc' = [pc EXCEPT ![p] = l],
           plan[p] = {}, UNCHANGED <<plan, locked>>, \A q \in Procs : plan[q] # {} => req'[q] = req[q],
           \A q \in Procs \ {p} : req'[q] = req[q],
           NEW q \in Procs, InOrder(q)
    PROVE  InOrder(q)'
<1>1. pc \in [Procs -> Labels] /\ LocalsOK
  BY DEF GrantsInv, LocalsOK
<1>2. CASE q # p
  BY <1>1, <1>2, OthersInOrder DEF InOrder
<1>3. CASE q = p
  <2>1. \A g \in locked[p] : SameTerms(g)
    BY <1>1, <1>3 DEF InOrder, TermsKept, LocalsOK
  <2> QED BY <1>3, <2>1 DEF InOrder, SameTerms
<1> QED BY <1>2, <1>3

LEMMA LockInOrder ==
    ASSUME GrantsInv, TermsKept, NEW p \in Procs, NEW g \in Keys, LockGrant(p, g),
           NEW q \in Procs, InOrder(q)
    PROVE  InOrder(q)'
<1>1. /\ pc[p] = "lock" /\ g \in FirstOf(p, plan[p])
      /\ plan' = [plan EXCEPT ![p] = @ \ {g}] /\ locked' = [locked EXCEPT ![p] = @ \cup {g}]
      /\ UNCHANGED <<grants, pc, req>>
  BY DEF LockGrant, tables
<1>2. /\ plan \in [Procs -> SUBSET Keys] /\ locked \in [Procs -> SUBSET Keys] /\ LocalsOK
  BY DEF GrantsInv, LocalsOK
<1>3. CASE q # p
  <2>1. plan'[q] = plan[q] /\ locked'[q] = locked[q]
    BY <1>1, <1>2, <1>3
  <2> QED BY <1>1, <1>2, <2>1, OthersInOrder DEF InOrder
<1>4. CASE q = p
  <2>1. plan'[p] = plan[p] \ {g} /\ locked'[p] = locked[p] \cup {g}
    BY <1>1, <1>2
  <2>2. g \in plan[p] /\ (req[p].op # "expire" => \A h \in plan[p] : ~Earlier(grants[h], grants[g]))
    BY <1>1 DEF FirstOf
  <2> QED BY <1>1, <1>4, <2>1, <2>2 DEF InOrder
<1> QED BY <1>3, <1>4

LEMMA StepInOrder ==
    ASSUME GrantsInv, TermsKept, NEW p \in Procs, Step(p), NEW q \in Procs, InOrder(q), InOrder(p)
    PROVE  InOrder(q)'
<1>1. LocalsOK /\ Private(p)
  BY DEF GrantsInv, Mine
<1>2. \A l : pc[p] # "lock" /\ Goto(p, l) /\ UNCHANGED <<plan, locked, req>> => InOrder(q)'
  BY GotoInOrder DEF Goto, InOrder
<1>3. \A result : Return(p, result) /\ UNCHANGED req => InOrder(q)'
  BY ReturnInOrder
<1>4. CASE IssueCheckKey(p)
  BY <1>2, <1>3, <1>4 DEF IssueCheckKey, local
<1>5. CASE CreateGrant(p)
  BY <1>3, <1>5 DEF CreateGrant
<1>6. CASE LockAccount(p)
  BY <1>2, <1>3, <1>6 DEF LockAccount
<1>7. CASE SelectGrants(p)
  <2> DEFINE S == {g \in Keys : Matches(p, g)}
  <2>1. \/ Return(p, "ErrInsufficientGrants")
        \/ /\ plan' = [plan EXCEPT ![p] = S]
           /\ Goto(p, "lock") /\ UNCHANGED locked
    BY <1>7 DEF SelectGrants
  <2>2. pc[p] = "select" /\ UNCHANGED <<req, tables>>
    BY <1>7 DEF SelectGrants
  <2>3. \A g \in S : grants[g] # NoGrant
    BY DEF Matches, Active, NoGrant
  <2> HIDE DEF S
  <2>4. CASE /\ plan' = [plan EXCEPT ![p] = S]
             /\ Goto(p, "lock") /\ UNCHANGED locked
    <3>1. CASE q # p
      BY <1>1, <2>2, <2>4, <3>1, OthersInOrder DEF Goto, LocalsOK, InOrder
    <3>2. CASE q = p
      <4>1. plan'[p] = S /\ pc'[p] = "lock" /\ locked'[p] = {} /\ grants' = grants
        BY <1>1, <2>2, <2>4 DEF Goto, LocalsOK, Private, tables
      <4> QED BY <2>3, <3>2, <4>1 DEF InOrder
    <3> QED BY <3>1, <3>2
  <2> QED BY <1>3, <2>1, <2>2, <2>4
<1>8. CASE \E g \in Keys : CollectGrant(p, g) \/ DrawGrant(p, g)
  BY <1>8, LockInOrder DEF CollectGrant, DrawGrant
<1>9. CASE \E g \in Keys : ConsumeGrant(p, g)
  <2>1. UNCHANGED <<plan, locked, req, pc>>
    BY <1>9 DEF ConsumeGrant
  <2> QED BY <1>1, <2>1, OthersInOrder DEF InOrder
<1>10. CASE CheckFunds(p)
  <2>1. \/ Return(p, "ErrInsufficientFunds")
        \/ Goto(p, "consume") /\ UNCHANGED <<plan, locked>>
    BY <1>10 DEF CheckFunds, local
  <2>2. plan[p] = {} /\ UNCHANGED req
    BY <1>10 DEF CheckFunds
  <2> QED BY <1>3, <2>1, <2>2, GotoInOrder DEF Goto
<1>11. CASE CommitDrawdown(p) \/ CommitWaterfall(p) \/ CommitExpiry(p)
  BY <1>3, <1>11 DEF CommitDrawdown, CommitWaterfall, CommitExpiry, Commit
<1> QED BY <1>4, <1>5, <1>6, <1>7, <1>8, <1>9, <1>10, <1>11 DEF Step

LEMMA NextInOrder ==
    ASSUME GrantsInv, [Next]_vars, \A p \in Procs : InOrder(p)
    PROVE  \A p \in Procs : InOrder(p)'
<1> SUFFICES ASSUME NEW q \in Procs PROVE InOrder(q)'
  OBVIOUS
<1>1. TermsKept /\ LocalsOK
  BY TermsAreKept DEF GrantsInv
<1>2. ASSUME NEW p \in Procs, NEW r \in Request, Start(p, r)
      PROVE  InOrder(q)'
  <2>1. pc[p] = "idle" /\ req' = [req EXCEPT ![p] = r]
        /\ \/ \E result : Return(p, result)
           \/ \E l : Goto(p, l) /\ UNCHANGED <<plan, locked>>
    BY <1>2 DEF Start
  <2>2. \A x \in Procs \ {p} : req'[x] = req[x]
    BY <1>1, <2>1 DEF LocalsOK
  <2>3. plan[p] = {}
    BY <2>1 DEF InOrder
  <2>4. CASE \E result : Return(p, result)
    BY <1>1, <2>2, <2>4, ReturnInOrder
  <2>5. CASE \E l : Goto(p, l) /\ UNCHANGED <<plan, locked>>
    BY <1>1, <2>2, <2>3, <2>5, GotoInOrder DEF Goto
  <2> QED BY <2>1, <2>4, <2>5
<1>3. CASE \E p \in Procs : Step(p)
  BY <1>1, <1>3, StepInOrder
<1>4. ASSUME NEW p \in Procs, Abort(p) PROVE InOrder(q)'
  BY <1>1, <1>4, ReturnInOrder DEF Abort
<1>5. ASSUME UNCHANGED <<plan, locked, req, pc>> PROVE InOrder(q)'
  BY <1>1, <1>5, OthersInOrder DEF InOrder
<1>6. ASSUME NEW a \in Accounts, NEW amount \in Amounts, Deposit(a, amount) \/ Withdraw(a, amount)
      PROVE  InOrder(q)'
  BY <1>5, <1>6 DEF Deposit, Withdraw, MoveCash, local
<1>7. CASE Tick \/ UNCHANGED vars
  BY <1>5, <1>7 DEF Tick, vars, local
<1> QED BY <1>2, <1>3, <1>4, <1>6, <1>7 DEF Next

LEMMA InitOrderInv == Init => OrderInv
<1> SUFFICES ASSUME Init PROVE OrderInv
  OBVIOUS
<1> DEFINE rows == Terms \cup {Issued[g] : g \in Keys}
           numbers == {0} \cup UNION {{t.priority, t.expires} : t \in rows}
<1>1. PICK n \in numbers : \A m \in numbers : m <= n
  BY TermsBoundedAssumption DEF TermsBoundedAssumption
<1>2. \A t \in rows : t.priority \in Nat /\ t.expires \in Nat
  <2>1. \A t \in Terms : t.priority \in Nat /\ t.expires \in Nat
    BY IssuedAssumption DEF IssuedAssumption
  <2>2. \A g \in Keys : Issued[g].priority \in Nat /\ Issued[g].expires \in Nat
    BY IssuedAssumption DEF IssuedAssumption, Grant, NoGrant
  <2> QED BY <2>1, <2>2
<1>3. n \in Nat
  BY <1>1, <1>2
<1>4. ASSUME NEW t \in rows PROVE t.priority <= n /\ t.expires <= n
  <2>1. t.priority \in numbers /\ t.expires \in numbers
    OBVIOUS
  <2> QED BY <1>1, <2>1
<1>5. Within(n)
  BY <1>4 DEF Within, Init
<1>6. \A p \in Procs : InOrder(p)
  BY DEF Init, InOrder
<1> QED BY <1>3, <1>5, <1>6 DEF OrderInv

LEMMA NextOrderInv == GrantsInv /\ OrderInv /\ [Next]_vars => OrderInv'
<1> SUFFICES ASSUME GrantsInv, OrderInv, [Next]_vars PROVE OrderInv'
  OBVIOUS
<1>1. \A p \in Procs : InOrder(p)'
  BY NextInOrder DEF OrderInv
<1>2. PICK n \in Nat : Within(n)
  BY DEF OrderInv
<1>3. ASSUME NEW g \in Keys PROVE grants'[g].priority <= n /\ grants'[g].expires <= n
  <2>1. CASE grants[g] # NoGrant
    BY <1>2, <2>1, TermsAreKept DEF TermsKept, SameTerms, Within
  <2>2. CASE grants'[g] = grants[g]
    BY <1>2, <2>2 DEF Within
  <2>3. CASE grants[g] = NoGrant /\ grants'[g] # grants[g]
    <3>1. PICK p \in Procs : CreateGrant(p) \/ CommitExpiry(p) \/ Consume(p)
      <4>1. CASE \E p \in Procs : (\E r \in Request : Start(p, r)) \/ Abort(p)
        BY <2>3, <4>1 DEF Start, Abort, tables
      <4>2. CASE \E a \in Accounts, amount \in Amounts : Deposit(a, amount) \/ Withdraw(a, amount)
        BY <2>3, <4>2 DEF Deposit, Withdraw, MoveCash
      <4>3. CASE Tick \/ UNCHANGED vars
        BY <2>3, <4>3 DEF Tick, vars, tables
      <4>4. ASSUME NEW p \in Procs, Step(p), ~CreateGrant(p), ~CommitExpiry(p)
            PROVE  Consume(p)
        <5>1. CASE IssueCheckKey(p) \/ LockAccount(p) \/ SelectGrants(p) \/ CheckFunds(p)
          BY <2>3, <5>1 DEF IssueCheckKey, LockAccount, SelectGrants, CheckFunds, tables
        <5>2. CASE \E x \in Keys : CollectGrant(p, x) \/ DrawGrant(p, x) \/ ConsumeGrant(p, x)
          BY <2>3, <5>2 DEF CollectGrant, DrawGrant, ConsumeGrant, LockGrant, tables
        <5>3. CASE CommitDrawdown(p) \/ CommitWaterfall(p)
          BY <5>3 DEF CommitDrawdown, CommitWaterfall
        <5> QED BY <4>4, <5>1, <5>2, <5>3 DEF Step
      <4> QED BY <4>1, <4>2, <4>3, <4>4 DEF Next
    <3>2. ~Active(g)
      BY <2>3 DEF Active, NoGrant
    <3>3. taken[p][g] = 0 /\ g \notin found[p]
      <4>1. Current(p) /\ taken[p][g] \in Nat
        BY DEF GrantsInv, Mine, LocalsOK
      <4> QED BY <3>2, <4>1 DEF Current
    <3>4. CreateGrant(p)
      BY <2>3, <3>1, <3>3 DEF CommitExpiry, Consume
    <3>5. /\ grants' = [grants EXCEPT ![req[p].key] =
                           NewGrant(req[p].account, req[p].amount, req[p].terms)]
          /\ pc[p] = "insert"
      BY <2>3, <3>4 DEF CreateGrant
    <3>6. grants'[g] = NewGrant(req[p].account, req[p].amount, req[p].terms)
      BY <2>3, <3>5 DEF GrantsInv, TablesOK
    <3>7. req[p] \in Request /\ req[p].op = "issue"
      BY <3>5 DEF GrantsInv, Mine, Requested, LocalsOK
    <3>8. req[p].terms \in Terms
      BY <3>7 DEF Request
    <3> QED BY <1>2, <3>6, <3>8 DEF Within, NewGrant
  <2> QED BY <2>1, <2>2, <2>3
<1>4. Within(n)'
  BY <1>2, <1>3 DEF Within
<1> QED BY <1>1, <1>4 DEF OrderInv

(* Who waits in a cycle waits for a grant: those who wait for an account hold  *)
(* nothing yet.                                                              *)
LEMMA WaitsForGrant ==
    ASSUME GrantsInv, NEW p \in Procs, NEW q \in Procs, NEW x \in Procs,
           WaitsFor(p, q), WaitsFor(q, x)
    PROVE  /\ pc[q] = "lock"
           /\ pc[p] = "lock" => \E g \in FirstOf(p, plan[p]) : g \in locked[q]
<1>1. Private(q)
  BY DEF GrantsInv, Mine
<1>2. pc[q] \notin {"account", "insert"}
  <2>1. pc[q] \in {"account", "insert"} => locked[q] = {}
    BY <1>1 DEF Private
  <2> QED BY <2>1 DEF WaitsFor, HoldsAccount
<1> QED BY <1>2 DEF WaitsFor

(* Of the grants that requests in a cycle wait for, take the last in the       *)
(* order of the reads: whoever holds it waits for a later one.                 *)
LEMMA CyclesNeedExpiryOrTie == GrantsInv /\ OrderInv => CyclesExplained
<1> SUFFICES ASSUME GrantsInv, OrderInv, NEW S \in SUBSET Procs, S # {},
                    \A p \in S : req[p].op # "expire", \A g, h \in Keys : ~Tie(g, h),
                    \A p \in S : \E q \in S : WaitsFor(p, q)
             PROVE  FALSE
  BY DEF CyclesExplained
<1> DEFINE Wanted(p, q) == FirstOf(p, plan[p]) \cap locked[q]
           T == {g \in Keys : \E p, q \in S : pc[p] = "lock" /\ g \in Wanted(p, q)}
<1>1. ASSUME NEW p \in S, NEW q \in S, pc[p] = "lock", WaitsFor(p, q)
      PROVE  pc[q] = "lock" /\ \E g \in T : g \in Wanted(p, q)
  <2>1. PICK x \in S : WaitsFor(q, x)
    OBVIOUS
  <2>2. PICK g \in FirstOf(p, plan[p]) : g \in locked[q]
    BY <1>1, <2>1, WaitsForGrant
  <2>3. g \in Keys
    BY <2>2 DEF GrantsInv, LocalsOK
  <2> QED BY <1>1, <2>1, <2>2, <2>3, WaitsForGrant
<1>2. T # {}
  <2>1. PICK o \in S, p \in S, q \in S : WaitsFor(o, p) /\ WaitsFor(p, q)
    OBVIOUS
  <2>2. pc[p] = "lock"
    BY <2>1, WaitsForGrant
  <2> QED BY <1>1, <2>1, <2>2
<1>3. \A g \in T : /\ g \in Keys
                   /\ \E p, q \in S : pc[p] = "lock" /\ g \in FirstOf(p, plan[p]) /\ g \in locked[q]
  OBVIOUS
<1>w. \A p, q \in S : \A g \in T : g \in Wanted(p, q) <=> g \in FirstOf(p, plan[p]) /\ g \in locked[q]
  OBVIOUS
<1> HIDE DEF T, Wanted
<1>4. PICK n \in Nat : Within(n)
  BY DEF OrderInv
<1>5. \A g \in T : grants[g].priority \in 0 .. n /\ grants[g].expires \in 0 .. n
  BY <1>3, <1>4, RowType DEF Within
<1>6. PICK m \in T : \A g \in T : ~Earlier(grants[m], grants[g])
  <2> DEFINE P == {grants[g].priority : g \in T}
  <2>1. P \subseteq Nat /\ P # {} /\ \A a \in P : a <= n
    BY <1>2, <1>5
  <2>2. PICK a \in P : \A b \in P : b <= a
    BY <2>1, Greatest
  <2> DEFINE E == {grants[g].expires : g \in {h \in T : grants[h].priority = a}}
  <2>3. E \subseteq Nat /\ E # {} /\ \A b \in E : b <= n
    BY <1>5, <2>2
  <2> HIDE DEF E
  <2>4. PICK e \in E : \A b \in E : b <= e
    BY <2>3, Greatest
  <2>5. PICK m \in T : grants[m].priority = a /\ grants[m].expires = e
    BY <2>4 DEF E
  <2>6. ASSUME NEW g \in T PROVE ~Earlier(grants[m], grants[g])
    <3>1. grants[g].priority <= a
      BY <2>2
    <3>2. grants[g].priority = a => grants[g].expires <= e
      BY <2>4 DEF E
    <3> QED BY <1>5, <2>5, <3>1, <3>2 DEF Earlier
  <2> QED BY <2>6
<1>7. PICK p \in S, q \in S : pc[p] = "lock" /\ m \in FirstOf(p, plan[p]) /\ m \in locked[q]
  BY <1>3
<1>8. pc[q] = "lock"
  <2>1. PICK x \in S : WaitsFor(q, x)
    OBVIOUS
  <2>2. pc[q] \in {"account", "insert"} => locked[q] = {}
    BY DEF GrantsInv, Mine, Private
  <2> QED BY <1>7, <2>1, <2>2 DEF WaitsFor
<1>9. PICK x \in S : WaitsFor(q, x)
  OBVIOUS
<1>10. PICK b \in T : b \in FirstOf(q, plan[q]) /\ b \in locked[x]
  BY <1>1, <1>8, <1>9, <1>w
<1>11. b \in plan[q] /\ q # x
  BY <1>9, <1>10 DEF FirstOf, WaitsFor
<1>12. ~Earlier(grants[b], grants[m])
  BY <1>7, <1>11 DEF OrderInv, InOrder
<1>13. b # m
  BY <1>7, <1>10, <1>11 DEF GrantsInv, OneHolder
<1>14. grants[b] # NoGrant /\ grants[m] # NoGrant
  BY <1>7, <1>11 DEF OrderInv, InOrder
<1>15. Tie(b, m)
  BY <1>6, <1>12, <1>13, <1>14 DEF Tie
<1> QED BY <1>3, <1>15

(* Deadlock needs an expiry or grants that tie, for any number of concurrent   *)
(* drawdowns, waterfalls and issues: the others wait in one order.            *)
THEOREM OtherwiseDeadlockFree == Spec => []CyclesExplained
<1>1. Spec => []OrderInv
  <2>1. GrantsInv /\ GrantsInv' /\ OrderInv /\ [Next]_vars => OrderInv'
    BY NextOrderInv
  <2> QED BY <2>1, InitOrderInv, GrantsInvariant, PTL DEF Spec
<1> QED BY <1>1, CyclesNeedExpiryOrTie, GrantsInvariant, PTL

-----------------------------------------------------------------------------
(* Amounts *)

(* What is still to be taken and what is taken make up the amount asked for;   *)
(* a waterfall debit that has checked its funds can still cover what is left  *)
(* from the rows in hand and the cash it read.  What it took or has in hand   *)
(* still satisfies its WHERE clause.                                         *)
Accounted(p) ==
    /\ now[p] <= clock
    /\ pc[p] \in {"select", "lock", "consume"} => req[p].op # "issue"
    /\ /\ req[p].op \in {"drawdown", "waterfall"}
       /\ pc[p] \in {"account", "select", "lock", "consume"}
       => left[p] + Total(taken[p], Keys) = req[p].amount
    /\ pc[p] = "consume" /\ left[p] > 0 => left[p] <= Total(read[p], found[p]) + cash[p]
    /\ \A g \in Keys : taken[p][g] > 0 \/ g \in found[p] => Matches(p, g) /\ g \notin plan[p]

AccountsInv == \A p \in Procs : Accounted(p)

(* The sums are sums of naturals over finitely many grants. *)
LEMMA SumsDefined ==
    ASSUME LocalsOK, NEW p \in Procs
    PROVE  /\ IsFiniteSet(Keys) /\ IsFiniteSet(found[p]) /\ found[p] \subseteq Keys
           /\ \A g \in Keys : taken[p][g] \in Nat /\ read[p][g] \in Nat
           /\ Total(taken[p], Keys) \in Int /\ Total(read[p], found[p]) \in Int
           /\ left[p] \in Nat /\ cash[p] \in Int
<1>1. IsFiniteSet(Keys) /\ found[p] \in SUBSET Keys /\ left[p] \in Nat /\ cash[p] \in Int
  BY FiniteKeysAssumption DEF LocalsOK, FiniteKeysAssumption
<1>2. \A g \in Keys : taken[p][g] \in Nat /\ read[p][g] \in Nat
  BY DEF LocalsOK
<1>3. IsFiniteSet(found[p])
  BY <1>1, FS_Subset
<1>4. \A g \in found[p] : read[p][g] \in Int
  BY <1>1, <1>2
<1>5. Total(taken[p], Keys) \in Int /\ Total(read[p], found[p]) \in Int
  BY <1>1, <1>2, <1>3, <1>4, TotalType
<1> QED BY <1>1, <1>2, <1>3, <1>5

(* What a transaction holds stays as its WHERE clause wants it. *)
LEMMA MatchesKept ==
    ASSUME GrantsInv, GrantsInv', TermsKept, NEW q \in Procs, NEW g \in Keys,
           taken[q][g] > 0 \/ g \in found[q], taken'[q][g] > 0 \/ g \in found'[q],
           Matches(q, g), req'[q] = req[q], now'[q] = now[q],
           req[q].op \in {"drawdown", "waterfall", "expire"}
    PROVE  Matches(q, g)'
<1>1. Active(g) /\ Active(g)'
  BY DEF GrantsInv, Mine, Current
<1>2. SameTerms(g)
  BY <1>1, RowType DEF TermsKept
<1>3. grants'[g].remaining > 0
  <2>1. grants'[g] \in Grant \/ grants'[g] = NoGrant
    BY DEF GrantsInv, TablesOK
  <2>2. grants'[g].status = "ACTIVE" /\ grants'[g] # NoGrant
    BY <1>1, <1>2 DEF Active, SameTerms
  <2>3. grants'[g].remaining # 0
    BY <2>2 DEF GrantsInv, Trails
  <2> QED BY <2>1, <2>2, <2>3 DEF Grant
<1> QED BY <1>1, <1>2, <1>3 DEF Matches, SameTerms

(* Only a request that settles grants has some in hand. *)
LEMMA SettlingRequest ==
    ASSUME GrantsInv, NEW q \in Procs, NEW g \in Keys, Accounted(q),
           taken[q][g] > 0 \/ g \in found[q]
    PROVE  req[q].op \in {"drawdown", "waterfall", "expire"}
<1>1. pc[q] \in {"lock", "consume"}
  BY DEF GrantsInv, Mine, Private
<1>2. req[q] \in Request
  BY <1>1 DEF GrantsInv, LocalsOK
<1> QED BY <1>1, <1>2, RequestType DEF Accounted

LEMMA BystanderAccounted ==
    ASSUME GrantsInv, GrantsInv', TermsKept, NEW q \in Procs, Accounted(q), Same(q),
           clock <= clock'
    PROVE  Accounted(q)'
<1>1. /\ pc'[q] = pc[q] /\ req'[q] = req[q] /\ now'[q] = now[q] /\ plan'[q] = plan[q]
      /\ found'[q] = found[q] /\ read'[q] = read[q]
      /\ taken'[q] = taken[q] /\ left'[q] = left[q] /\ cash'[q] = cash[q]
  BY DEF Same
<1>2. now'[q] <= clock'
  <2>1. now[q] \in Nat /\ clock \in Nat /\ clock' \in Nat
    BY GrantsAssumption DEF GrantsInv, LocalsOK, CountersOK, GrantsAssumption
  <2> QED BY <1>1, <2>1 DEF Accounted
<1>3. ASSUME NEW g \in Keys, taken'[q][g] > 0 \/ g \in found'[q]
      PROVE  Matches(q, g)' /\ g \notin plan'[q]
  <2>1. (taken[q][g] > 0 \/ g \in found[q]) /\ Matches(q, g) /\ g \notin plan[q]
    BY <1>1, <1>3 DEF Accounted
  <2>2. req[q].op \in {"drawdown", "waterfall", "expire"}
    BY <2>1, SettlingRequest
  <2> QED BY <1>1, <1>3, <2>1, <2>2, MatchesKept
<1> QED BY <1>1, <1>2, <1>3 DEF Accounted

LEMMA ReturnAccounted ==
    ASSUME GrantsInv, GrantsInv', NEW p \in Procs, NEW result, Return(p, result)
    PROVE  Accounted(p)'
<1>1. pc'[p] = "idle" /\ found'[p] = {} /\ taken'[p] = Nothing /\ now'[p] = 0
  BY DEF Return, Forget, GrantsInv, LocalsOK
<1>2. 0 <= clock'
  BY GrantsAssumption DEF GrantsInv, CountersOK, GrantsAssumption
<1> QED BY <1>1, <1>2 DEF Accounted, Nothing

(* A request before its first row is locked has taken nothing.                *)
LEMMA NothingTaken ==
    ASSUME GrantsInv, NEW p \in Procs, \A g \in Keys : taken[p][g] = 0
    PROVE  Total(taken[p], Keys) = 0
BY TotalZero, FiniteKeysAssumption DEF FiniteKeysAssumption

LEMMA StartAccounted ==
    ASSUME GrantsInv, GrantsInv', NEW p \in Procs, NEW r \in Request, Start(p, r)
    PROVE  Accounted(p)'
<1>1. /\ pc[p] = "idle" /\ req'[p] = r /\ clock' = clock
      /\ \/ \E result : Return(p, result)
         \/ /\ r.amount > 0 /\ \E l : Goto(p, l)
            /\ now' = [now EXCEPT ![p] = clock] /\ left' = [left EXCEPT ![p] = r.amount]
            /\ UNCHANGED <<plan, locked, found, read, taken, cash>>
            /\ pc'[p] \in {"key", "account", "select"} /\ (r.op = "issue" => pc'[p] = "key")
  <2>1. pc[p] = "idle" /\ req' = [req EXCEPT ![p] = r] /\ UNCHANGED <<tables, clock>>
    BY DEF Start
  <2>2. req'[p] = r
    BY <2>1 DEF GrantsInv, LocalsOK
  <2>3. \A l \in {"key", "account", "select"} : Goto(p, l) => pc'[p] = l
    BY DEF Goto, GrantsInv, LocalsOK
  <2> QED BY <2>1, <2>2, <2>3 DEF Start
<1>2. CASE \E result : Return(p, result)
  BY <1>2, ReturnAccounted
<1>3. CASE /\ now' = [now EXCEPT ![p] = clock] /\ left' = [left EXCEPT ![p] = r.amount]
           /\ UNCHANGED <<plan, locked, found, read, taken, cash>>
           /\ pc'[p] \in {"key", "account", "select"} /\ (r.op = "issue" => pc'[p] = "key")
  <2>1. now'[p] = clock /\ left'[p] = r.amount /\ taken'[p] = taken[p] /\ found'[p] = {}
    BY <1>1, <1>3 DEF GrantsInv, LocalsOK, Mine, Private
  <2>2. \A g \in Keys : taken[p][g] = 0
    BY <1>1 DEF GrantsInv, Mine, Private
  <2>3. Total(taken[p], Keys) = 0
    BY <2>2, NothingTaken
  <2>4. clock \in Nat /\ r.amount \in Int
    BY RequestType, GrantsAssumption DEF GrantsInv, CountersOK, GrantsAssumption
  <2>5. left'[p] + Total(taken'[p], Keys) = req'[p].amount
    BY <1>1, <2>1, <2>3, <2>4
  <2>6. \A g \in Keys : ~(taken'[p][g] > 0) /\ g \notin found'[p]
    BY <2>1, <2>2
  <2> QED BY <1>1, <1>3, <2>1, <2>4, <2>5, <2>6 DEF Accounted
<1> QED BY <1>1, <1>2, <1>3

-----------------------------------------------------------------------------
(* The steps of the request itself *)

LEMMA MatchesSame ==
    ASSUME NEW p \in Procs, NEW g \in Keys, Matches(p, g), grants' = grants,
           req'[p] = req[p], now'[p] = now[p],
           req[p].op \in {"drawdown", "waterfall", "expire"}
    PROVE  Matches(p, g)'
BY DEF Matches, Active

(* A step that takes nothing and puts no grant in hand. *)
LEMMA IdleAccounted ==
    ASSUME GrantsInv, GrantsInv', NEW p \in Procs, Accounted(p),
           UNCHANGED <<grants, clock, req, now, taken, found, left>>,
           pc'[p] \in {"select", "lock", "consume"} => req[p].op # "issue",
           pc'[p] \in {"account", "select", "lock", "consume"} =>
              pc[p] \in {"account", "select", "lock", "consume"},
           pc'[p] = "consume" /\ left[p] > 0 =>
              left[p] <= Total(read'[p], found[p]) + cash'[p],
           \A g \in Keys : taken[p][g] > 0 \/ g \in found[p] => g \notin plan'[p]
    PROVE  Accounted(p)'
<1>1. ASSUME NEW g \in Keys, taken[p][g] > 0 \/ g \in found[p]
      PROVE  Matches(p, g)'
  BY <1>1, SettlingRequest, MatchesSame DEF Accounted
<1> QED BY <1>1 DEF Accounted

LEMMA IssueCheckKeyAccounted ==
    ASSUME GrantsInv, GrantsInv', NEW p \in Procs, Accounted(p), IssueCheckKey(p)
    PROVE  Accounted(p)'
<1>1. /\ pc[p] = "key" /\ UNCHANGED <<grants, clock, req>>
      /\ \/ \E result : Return(p, result)
         \/ Goto(p, "insert") /\ UNCHANGED local
  BY DEF IssueCheckKey, tables
<1>2. CASE \E result : Return(p, result)
  BY <1>2, ReturnAccounted
<1>3. CASE Goto(p, "insert") /\ UNCHANGED local
  <2>1. pc'[p] = "insert" /\ UNCHANGED <<now, plan, found, taken, left>>
    BY <1>3 DEF Goto, local, GrantsInv, LocalsOK
  <2>2. \A g \in Keys : ~(taken[p][g] > 0) /\ g \notin found[p]
    BY <1>1 DEF GrantsInv, Mine, Private
  <2> QED BY <1>1, <2>1, <2>2, IdleAccounted
<1> QED BY <1>1, <1>2, <1>3

LEMMA LockAccountAccounted ==
    ASSUME GrantsInv, GrantsInv', NEW p \in Procs, Accounted(p), LockAccount(p)
    PROVE  Accounted(p)'
<1>1. /\ pc[p] = "account" /\ UNCHANGED <<grants, clock, req>>
      /\ \/ \E result : Return(p, result)
         \/ Goto(p, "select") /\ UNCHANGED <<now, plan, locked, found, read, taken, left>>
  BY DEF LockAccount, tables
<1>2. CASE \E result : Return(p, result)
  BY <1>2, ReturnAccounted
<1>3. CASE Goto(p, "select") /\ UNCHANGED <<now, plan, locked, found, read, taken, left>>
  <2>1. pc'[p] = "select"
    BY <1>3 DEF Goto, GrantsInv, LocalsOK
  <2>2. \A g \in Keys : ~(taken[p][g] > 0) /\ g \notin found[p]
    BY <1>1 DEF GrantsInv, Mine, Private
  <2>3. req[p].op = "waterfall"
    BY <1>1 DEF GrantsInv, Mine, Requested
  <2> QED BY <1>1, <1>3, <2>1, <2>2, <2>3, IdleAccounted
<1> QED BY <1>1, <1>2, <1>3

LEMMA SelectGrantsAccounted ==
    ASSUME GrantsInv, GrantsInv', NEW p \in Procs, Accounted(p), SelectGrants(p)
    PROVE  Accounted(p)'
<1>1. /\ pc[p] = "select" /\ UNCHANGED <<grants, clock, req>>
      /\ \/ \E result : Return(p, result)
         \/ Goto(p, "lock") /\ UNCHANGED <<now, locked, found, read, taken, left, cash>>
  BY DEF SelectGrants, tables
<1>2. CASE \E result : Return(p, result)
  BY <1>2, ReturnAccounted
<1>3. CASE Goto(p, "lock") /\ UNCHANGED <<now, locked, found, read, taken, left, cash>>
  <2>1. pc'[p] = "lock"
    BY <1>3 DEF Goto, GrantsInv, LocalsOK
  <2>2. \A g \in Keys : ~(taken[p][g] > 0) /\ g \notin found[p]
    BY <1>1 DEF GrantsInv, Mine, Private
  <2>3. req[p].op # "issue"
    BY <1>1 DEF Accounted
  <2> QED BY <1>1, <1>3, <2>1, <2>2, <2>3, IdleAccounted
<1> QED BY <1>1, <1>2, <1>3

(* The check: nothing is taken yet, and the rows in hand and the cash cover   *)
(* the amount.                                                               *)
LEMMA CheckFundsAccounted ==
    ASSUME GrantsInv, GrantsInv', NEW p \in Procs, Accounted(p), CheckFunds(p)
    PROVE  Accounted(p)'
<1>1. /\ pc[p] = "lock" /\ req[p].op = "waterfall" /\ UNCHANGED <<grants, clock, req>>
      /\ \/ \E result : Return(p, result)
         \/ /\ ~(MapThenSumSet(LAMBDA g : read[p][g], found[p]) + cash[p] < req[p].amount)
            /\ Goto(p, "consume") /\ UNCHANGED local /\ plan[p] = {}
  BY DEF CheckFunds, tables
<1>2. CASE \E result : Return(p, result)
  BY <1>2, ReturnAccounted
<1>3. CASE /\ ~(MapThenSumSet(LAMBDA g : read[p][g], found[p]) + cash[p] < req[p].amount)
           /\ Goto(p, "consume") /\ UNCHANGED local /\ plan[p] = {}
  <2>1. UNCHANGED <<now, plan, found, read, taken, left, cash>>
    BY <1>3 DEF local
  <2>2. /\ IsFiniteSet(found[p]) /\ \A g \in found[p] : read[p][g] \in Int
        /\ Total(read[p], found[p]) \in Int /\ left[p] \in Nat /\ cash[p] \in Int
    BY SumsDefined DEF GrantsInv
  <2>3. MapThenSumSet(LAMBDA g : read[p][g], found[p]) = Total(read[p], found[p])
    BY <2>2, SumSetTotal
  <2>4. \A g \in Keys : taken[p][g] = 0
    BY <1>1 DEF GrantsInv, Mine, Private
  <2>5. left[p] = req[p].amount
    BY <1>1, <2>2, <2>4, NothingTaken DEF Accounted
  <2>6. left[p] <= Total(read[p], found[p]) + cash[p]
    BY <1>3, <2>2, <2>3, <2>5
  <2>7. \A g \in Keys : taken[p][g] > 0 \/ g \in found[p] => g \notin plan'[p]
    BY <1>3, <2>1
  <2>8. Total(read'[p], found[p]) + cash'[p] = Total(read[p], found[p]) + cash[p]
    BY <2>1
  <2> QED BY <1>1, <2>1, <2>6, <2>7, <2>8, IdleAccounted
<1> QED BY <1>1, <1>2, <1>3

LEMMA CollectGrantAccounted ==
    ASSUME GrantsInv, GrantsInv', NEW p \in Procs, Accounted(p), NEW g \in Keys,
           CollectGrant(p, g)
    PROVE  Accounted(p)'
<1>1. /\ pc[p] = "lock" /\ UNCHANGED <<grants, clock, pc, req, now, cash, taken, left>>
      /\ plan'[p] = plan[p] \ {g}
      /\ \A h \in Keys : h \in found'[p] => h \in found[p] \/ (h = g /\ Matches(p, g))
  BY DEF CollectGrant, LockGrant, tables, GrantsInv, LocalsOK
<1>2. req[p].op \in {"drawdown", "waterfall", "expire"}
  <2>1. req[p] \in Request
    BY <1>1 DEF GrantsInv, LocalsOK
  <2> QED BY <1>1, <2>1, RequestType DEF Accounted
<1>3. ASSUME NEW h \in Keys, taken'[p][h] > 0 \/ h \in found'[p]
      PROVE  Matches(p, h)' /\ h \notin plan'[p]
  <2>1. Matches(p, h) /\ h \notin plan'[p]
    BY <1>1, <1>3 DEF Accounted
  <2> QED BY <1>1, <1>2, <2>1, MatchesSame
<1> QED BY <1>1, <1>3 DEF Accounted

(* What is taken from one more grant is no longer to be taken.                *)
LEMMA TakeOne ==
    ASSUME GrantsInv, GrantsInv', NEW p \in Procs, NEW g \in Keys, NEW amount \in Nat,
           taken[p][g] = 0, taken' = [taken EXCEPT ![p][g] = amount],
           left' = [left EXCEPT ![p] = @ - amount]
    PROVE  left'[p] + Total(taken'[p], Keys) = left[p] + Total(taken[p], Keys)
<1>1. /\ taken'[p][g] = amount /\ \A h \in Keys \ {g} : taken'[p][h] = taken[p][h]
      /\ left'[p] = left[p] - amount
  BY DEF GrantsInv, LocalsOK
<1>2. IsFiniteSet(Keys) /\ left[p] \in Int /\ Total(taken[p], Keys) \in Int
  BY SumsDefined DEF GrantsInv
<1>3. \A h \in Keys : taken[p][h] \in Int /\ taken'[p][h] \in Int
  BY DEF GrantsInv, LocalsOK
<1>4. Total(taken'[p], Keys) = Total(taken[p], Keys) + taken'[p][g] - taken[p][g]
  <2>1. PICK old, new : old = taken[p] /\ new = taken'[p]
    OBVIOUS
  <2>2. /\ \A h \in Keys : old[h] \in Int /\ new[h] \in Int
        /\ \A h \in Keys \ {g} : old[h] = new[h]
    BY <1>1, <1>3, <2>1
  <2>3. Total(new, Keys) = Total(old, Keys) + new[g] - old[g]
    BY ONLY <1>2, <2>2, g \in Keys, TotalPoint
  <2> QED BY <2>1, <2>3
<1> QED BY <1>1, <1>2, <1>4

LEMMA DrawGrantAccounted ==
    ASSUME GrantsInv, GrantsInv', NEW p \in Procs, Accounted(p), NEW g \in Keys,
           DrawGrant(p, g)
    PROVE  Accounted(p)'
<1> DEFINE amount == Smaller(grants[g].remaining, left[p])
<1>1. /\ pc[p] = "lock" /\ UNCHANGED <<grants, clock, pc, req, now, cash, found>>
      /\ req[p].op = "drawdown" /\ g \in plan[p] /\ plan'[p] = plan[p] \ {g}
      /\ \/ /\ Matches(p, g)
            /\ taken' = [taken EXCEPT ![p][g] = amount]
            /\ left' = [left EXCEPT ![p] = @ - amount]
         \/ UNCHANGED <<taken, left>>
  BY DEF DrawGrant, LockGrant, FirstOf, tables, GrantsInv, LocalsOK
<1>2. taken[p][g] = 0 /\ amount \in Nat
  <2>1. taken[p][g] \in Nat /\ left[p] \in Nat /\ grants[g].remaining \in Nat
    BY RowType DEF GrantsInv, LocalsOK
  <2> QED BY <1>1, <2>1, SmallerType DEF Accounted
<1> HIDE DEF amount
<1>3. left'[p] + Total(taken'[p], Keys) = req[p].amount
  <2>1. CASE /\ taken' = [taken EXCEPT ![p][g] = amount]
             /\ left' = [left EXCEPT ![p] = @ - amount]
    BY <1>1, <1>2, <2>1, TakeOne DEF Accounted
  <2>2. CASE UNCHANGED <<taken, left>>
    BY <1>1, <2>2 DEF Accounted
  <2> QED BY <1>1, <2>1, <2>2
<1>4. ASSUME NEW h \in Keys, taken'[p][h] > 0 \/ h \in found'[p]
      PROVE  Matches(p, h)' /\ h \notin plan'[p]
  <2>1. taken[p][h] > 0 \/ h \in found[p] \/ (h = g /\ Matches(p, g))
    BY <1>1, <1>4 DEF GrantsInv, LocalsOK
  <2>2. Matches(p, h) /\ h \notin plan'[p]
    BY <1>1, <2>1 DEF Accounted
  <2> QED BY <1>1, <2>2, MatchesSame
<1> QED BY <1>1, <1>3, <1>4 DEF Accounted

(* What is left after the grant is used up was to come from the others and    *)
(* the cash all along.                                                       *)
LEMMA ConsumeGrantAccounted ==
    ASSUME GrantsInv, GrantsInv', NEW p \in Procs, Accounted(p), NEW g \in Keys,
           ConsumeGrant(p, g)
    PROVE  Accounted(p)'
<1> DEFINE amount == Smaller(read[p][g], left[p])
<1>1. /\ pc[p] = "consume" /\ left[p] > 0 /\ g \in found[p]
      /\ UNCHANGED <<grants, clock, pc, req, now, plan, read, cash>>
      /\ found'[p] = found[p] \ {g}
      /\ taken' = [taken EXCEPT ![p][g] = amount] /\ left' = [left EXCEPT ![p] = @ - amount]
  BY DEF ConsumeGrant, FirstOf, tables, GrantsInv, LocalsOK
<1>2. /\ taken[p][g] = 0 /\ req[p].op = "waterfall"
      /\ read[p][g] \in Nat /\ left[p] \in Nat /\ amount \in Nat
      /\ left[p] - amount > 0 => amount = read[p][g]
  <2>1. read[p][g] \in Nat /\ left[p] \in Nat
    BY DEF GrantsInv, LocalsOK
  <2>2. taken[p][g] = 0 /\ req[p].op = "waterfall"
    BY <1>1 DEF GrantsInv, Mine, Private, Requested
  <2> QED BY <2>1, <2>2 DEF Smaller
<1> HIDE DEF amount
<1>3. left'[p] + Total(taken'[p], Keys) = req[p].amount
  BY <1>1, <1>2, TakeOne DEF Accounted
<1>4. left'[p] > 0 => left'[p] <= Total(read'[p], found'[p]) + cash'[p]
  <2>1. /\ IsFiniteSet(found[p]) /\ \A h \in found[p] : read[p][h] \in Int
        /\ Total(read[p], found[p]) \in Int /\ cash[p] \in Int
    BY SumsDefined DEF GrantsInv
  <2>2. /\ Total(read[p], found[p]) = Total(read[p], found[p] \ {g}) + read[p][g]
        /\ Total(read[p], found[p] \ {g}) \in Int
    <3>1. IsFiniteSet(found[p] \ {g}) /\ \A h \in found[p] \ {g} : read[p][h] \in Int
      BY <2>1, FS_RemoveElement
    <3>2. PICK f, S : f = read[p] /\ S = found[p]
      OBVIOUS
    <3>3. Total(f, S) = Total(f, S \ {g}) + f[g]
      <4>1. IsFiniteSet(S) /\ g \in S /\ \A h \in S : f[h] \in Int
        BY <1>1, <2>1, <3>2
      <4> QED BY ONLY <4>1, TotalRemove
    <3>4. Total(f, S \ {g}) \in Int
      <4>1. IsFiniteSet(S \ {g}) /\ \A h \in S \ {g} : f[h] \in Int
        BY <3>1, <3>2
      <4> QED BY ONLY <4>1, TotalType
    <3> QED BY <3>2, <3>3, <3>4
  <2>3. left'[p] = left[p] - amount /\ Total(read'[p], found'[p]) = Total(read[p], found[p] \ {g})
        /\ cash'[p] = cash[p]
    BY <1>1 DEF GrantsInv, LocalsOK
  <2>4. left[p] <= Total(read[p], found[p]) + cash[p]
    BY <1>1 DEF Accounted
  <2> QED BY <1>2, <2>1, <2>2, <2>3, <2>4
<1>5. ASSUME NEW h \in Keys, taken'[p][h] > 0 \/ h \in found'[p]
      PROVE  Matches(p, h)' /\ h \notin plan'[p]
  <2>1. taken[p][h] > 0 \/ h \in found[p]
    BY <1>1, <1>5 DEF GrantsInv, LocalsOK
  <2>2. Matches(p, h) /\ h \notin plan'[p]
    BY <1>1, <2>1 DEF Accounted
  <2> QED BY <1>1, <1>2, <2>2, MatchesSame
<1> QED BY <1>1, <1>2, <1>3, <1>4, <1>5 DEF Accounted

LEMMA StepAccounted ==
    ASSUME GrantsInv, GrantsInv', NEW p \in Procs, Accounted(p), Step(p)
    PROVE  Accounted(p)'
<1>1. CASE IssueCheckKey(p) \/ LockAccount(p) \/ SelectGrants(p) \/ CheckFunds(p)
  BY <1>1, IssueCheckKeyAccounted, LockAccountAccounted, SelectGrantsAccounted,
     CheckFundsAccounted
<1>2. CASE \E g \in Keys : CollectGrant(p, g) \/ DrawGrant(p, g) \/ ConsumeGrant(p, g)
  BY <1>2, CollectGrantAccounted, DrawGrantAccounted, ConsumeGrantAccounted
<1>3. CASE CreateGrant(p) \/ CommitDrawdown(p) \/ CommitWaterfall(p) \/ CommitExpiry(p)
  <2>1. \E result : Return(p, result)
    BY <1>3 DEF CreateGrant, CommitDrawdown, CommitWaterfall, CommitExpiry, Commit
  <2> QED BY <2>1, ReturnAccounted
<1> QED BY <1>1, <1>2, <1>3 DEF Step

(* A step of one request leaves what the others have read and locked alone.   *)
LEMMA OthersSame ==
    ASSUME GrantsInv, NEW p \in Procs, NEW q \in Procs \ {p},
           (\E r \in Request : Start(p, r)) \/ Step(p) \/ Abort(p)
    PROVE  Same(q) /\ clock' = clock
<1>1. ASSUME NEW result, Return(p, result), req'[q] = req[q] PROVE Same(q)
  BY <1>1 DEF Return, Forget, Same
<1>2. ASSUME NEW l, Goto(p, l) PROVE pc'[q] = pc[q]
  BY <1>2 DEF Goto
<1>3. CASE \E r \in Request : Start(p, r)
  <2>1. /\ req'[q] = req[q] /\ clock' = clock
        /\ \/ \E result : Return(p, result)
           \/ /\ \E l : Goto(p, l)
              /\ now'[q] = now[q] /\ left'[q] = left[q]
              /\ UNCHANGED <<plan, locked, found, read, taken, cash>>
    BY <1>3 DEF Start, GrantsInv, LocalsOK
  <2> QED BY <1>1, <1>2, <2>1 DEF Same
<1>4. CASE Abort(p)
  BY <1>1, <1>4 DEF Abort
<1>5. CASE IssueCheckKey(p) \/ CheckFunds(p)
  <2>1. /\ UNCHANGED <<clock, req>>
        /\ (\E result : Return(p, result)) \/ ((\E l : Goto(p, l)) /\ UNCHANGED local)
    BY <1>5 DEF IssueCheckKey, CheckFunds
  <2> QED BY <1>1, <1>2, <2>1 DEF Same, local
<1>6. CASE LockAccount(p)
  <2>1. /\ UNCHANGED <<clock, req>>
        /\ \/ \E result : Return(p, result)
           \/ /\ \E l : Goto(p, l)
              /\ cash'[q] = cash[q] /\ UNCHANGED <<now, plan, locked, found, read, taken, left>>
    BY <1>6 DEF LockAccount, GrantsInv, LocalsOK
  <2> QED BY <1>1, <1>2, <2>1 DEF Same
<1>7. CASE SelectGrants(p)
  <2>1. /\ UNCHANGED <<clock, req>>
        /\ \/ \E result : Return(p, result)
           \/ /\ \E l : Goto(p, l)
              /\ plan'[q] = plan[q] /\ UNCHANGED <<now, locked, found, read, taken, left, cash>>
    BY <1>7 DEF SelectGrants, GrantsInv, LocalsOK
  <2> QED BY <1>1, <1>2, <2>1 DEF Same
<1>8. CASE \E g \in Keys : CollectGrant(p, g) \/ DrawGrant(p, g) \/ ConsumeGrant(p, g)
  BY <1>8 DEF CollectGrant, DrawGrant, ConsumeGrant, LockGrant, Same, GrantsInv, LocalsOK
<1>9. CASE CreateGrant(p) \/ CommitDrawdown(p) \/ CommitWaterfall(p) \/ CommitExpiry(p)
  <2>1. UNCHANGED <<clock, req>> /\ \E result : Return(p, result)
    BY <1>9 DEF CreateGrant, CommitDrawdown, CommitWaterfall, CommitExpiry, Commit
  <2> QED BY <1>1, <2>1
<1> QED BY <1>3, <1>4, <1>5, <1>6, <1>7, <1>8, <1>9 DEF Step

LEMMA NextAccounted ==
    ASSUME GrantsInv, GrantsInv', AccountsInv, [Next]_vars
    PROVE  AccountsInv'
<1>1. TermsKept
  BY TermsAreKept
<1>2. ASSUME NEW q \in Procs, Same(q), clock <= clock' PROVE Accounted(q)'
  BY <1>1, <1>2, BystanderAccounted DEF AccountsInv
<1>3. clock \in Nat
  BY GrantsAssumption DEF GrantsInv, CountersOK, GrantsAssumption
<1>4. ASSUME NEW p \in Procs, (\E r \in Request : Start(p, r)) \/ Step(p) \/ Abort(p)
      PROVE  AccountsInv'
  <2>1. Accounted(p)'
    BY <1>4, StartAccounted, StepAccounted, ReturnAccounted DEF AccountsInv, Abort
  <2>2. ASSUME NEW q \in Procs \ {p} PROVE Accounted(q)'
    BY <1>2, <1>3, <1>4, OthersSame
  <2> QED BY <2>1, <2>2 DEF AccountsInv
<1>5. CASE \E a \in Accounts, amount \in Amounts : Deposit(a, amount) \/ Withdraw(a, amount)
  <2>1. UNCHANGED <<clock, pc, req, local>>
    BY <1>5 DEF Deposit, Withdraw, MoveCash
  <2> QED BY <1>2, <1>3, <2>1 DEF AccountsInv, Same, local
<1>6. CASE Tick
  <2>1. UNCHANGED <<pc, req, local>> /\ clock <= clock'
    BY <1>3, <1>6 DEF Tick
  <2> QED BY <1>2, <2>1 DEF AccountsInv, Same, local
<1>7. CASE UNCHANGED vars
  BY <1>2, <1>3, <1>7 DEF AccountsInv, Same, local, vars
<1> QED BY <1>4, <1>5, <1>6, <1>7 DEF Next

LEMMA InitAccounted == Init => AccountsInv
<1> SUFFICES ASSUME Init, NEW p \in Procs PROVE Accounted(p)
  BY DEF AccountsInv
<1>1. pc[p] = "idle" /\ now[p] = 0 /\ clock = 0 /\ found[p] = {}
      /\ \A g \in Keys : taken[p][g] = 0
  BY DEF Init, Nothing
<1> QED BY <1>1 DEF Accounted

(* In every reachable state of any number of concurrent requests: what is     *)
(* still to be taken and what is taken make up the amount asked for, and a    *)
(* waterfall debit that has checked its funds never needs more cash than its  *)
(* account has.                                                              *)
THEOREM AmountsAddUp == Spec => []AccountsInv
<1>1. GrantsInv /\ GrantsInv' /\ AccountsInv /\ [Next]_vars => AccountsInv'
  BY NextAccounted
<1> QED BY <1>1, InitAccounted, GrantsInvariant, PTL DEF Spec

-----------------------------------------------------------------------------
(* What a commit takes *)

(* The rows lose what the transaction took from them. *)
LEMMA ConsumeDrop ==
    ASSUME GrantsInv, NEW p \in Procs, Consume(p)
    PROVE  Drop = Total(taken[p], Keys)
<1> DEFINE f == [g \in Keys |-> grants[g].remaining - grants'[g].remaining]
<1>1. ASSUME NEW g \in Keys PROVE f[g] \in Int /\ f[g] = taken[p][g]
  <2>1. grants[g].remaining \in Nat /\ taken[p][g] \in Nat
    BY RowType DEF GrantsInv, LocalsOK
  <2>2. f[g] = grants[g].remaining - grants'[g].remaining
    OBVIOUS
  <2>3. CASE taken[p][g] = 0
    <3>1. grants'[g] = grants[g]
      BY <2>3 DEF Consume
    <3> QED BY <2>1, <2>2, <2>3, <3>1
  <2>4. CASE taken[p][g] # 0
    <3>1. Active(g) /\ read[p][g] = grants[g].remaining
      BY <2>1, <2>4 DEF GrantsInv, Mine, Current
    <3>2. grants[g] \in Grant
      BY <3>1, RowType
    <3>3. CASE taken[p][g] = read[p][g]
      <4>1. grants'[g] = [grants[g] EXCEPT !.remaining = 0, !.status = "DEPLETED"]
        BY <2>4, <3>3 DEF Consume
      <4>2. grants'[g].remaining = 0
        BY <3>2, <4>1 DEF Grant
      <4> QED BY <2>1, <2>2, <3>1, <3>3, <4>2
    <3>4. CASE taken[p][g] # read[p][g]
      <4>1. grants'[g] = [grants[g] EXCEPT !.remaining = @ - taken[p][g]]
        BY <2>4, <3>4 DEF Consume
      <4>2. grants'[g].remaining = grants[g].remaining - taken[p][g]
        BY <3>2, <4>1 DEF Grant
      <4> QED BY <2>1, <2>2, <4>2
    <3> QED BY <3>3, <3>4
  <2> QED BY <2>1, <2>3, <2>4
<1>2. IsFiniteSet(Keys)
  BY FiniteKeysAssumption DEF FiniteKeysAssumption
<1>3. Drop = MapThenSumSet(LAMBDA g : f[g], Keys)
  BY DEF Drop, Sum
<1> HIDE DEF f
<1>4. MapThenSumSet(LAMBDA g : f[g], Keys) = Total(f, Keys)
  BY <1>1, <1>2, SumSetTotal
<1>5. Total(f, Keys) = Total(taken[p], Keys)
  BY <1>1, <1>2, TotalAgree
<1> QED BY <1>3, <1>4, <1>5

(* What a waterfall debit still needs at its commit is in its account.        *)
LEMMA CashIsThere ==
    ASSUME GrantsInv, NEW p \in Procs, Accounted(p), CommitWaterfall(p)
    PROVE  /\ req[p].op = "waterfall" /\ req[p].account \in Accounts
           /\ left[p] \in Nat /\ balance[req[p].account] \in Int
           /\ cash[p] = balance[req[p].account]
           /\ left[p] > 0 => found[p] = {} /\ left[p] <= balance[req[p].account]
           /\ left[p] + Total(taken[p], Keys) = req[p].amount
<1>1. pc[p] = "consume" /\ (found[p] = {} \/ left[p] = 0)
  BY DEF CommitWaterfall
<1>2. req[p].op = "waterfall" /\ HoldsAccount(p, req[p].account)
  BY <1>1 DEF GrantsInv, Mine, Requested, HoldsAccount
<1>3. /\ req[p].account \in Accounts /\ cash[p] = balance[req[p].account]
      /\ left[p] \in Nat /\ balance[req[p].account] \in Int
  BY <1>2 DEF GrantsInv, Mine, Requested, Current, LocalsOK, TablesOK
<1>4. left[p] > 0 => found[p] = {} /\ left[p] <= Total(read[p], found[p]) + cash[p]
  BY <1>1, <1>3 DEF Accounted
<1>5. left[p] > 0 => Total(read[p], found[p]) = 0
  BY <1>4, TotalEmpty
<1>6. left[p] + Total(taken[p], Keys) = req[p].amount
  BY <1>1, <1>2 DEF Accounted
<1>7. left[p] > 0 => left[p] <= balance[req[p].account]
  BY <1>3, <1>4, <1>5
<1> QED BY <1>2, <1>3, <1>4, <1>6, <1>7

(* A waterfall debit takes exactly its amount, from grants and cash together, *)
(* and leaves no overdraft when it takes cash: for any number of requests     *)
(* that issue, draw down, expire and debit at the same time.                  *)
THEOREM WaterfallTakesItsAmount == Spec => WaterfallExact
<1> DEFINE Exact(p) ==
             CommitsWaterfall(p) =>
                LET a == req[p].account
                    paid == balance[a] - balance'[a]
                IN  /\ Drop + paid = req[p].amount
                    /\ paid >= 0
                    /\ paid > 0 => balance'[a] >= 0
<1>1. ASSUME GrantsInv, AccountsInv, [Next]_vars, NEW p \in Procs PROVE Exact(p)
  <2> DEFINE a == req[p].account
             paid == balance[a] - balance'[a]
  <2> SUFFICES ASSUME CommitsWaterfall(p)
               PROVE  Drop + paid = req[p].amount /\ paid >= 0 /\ (paid > 0 => balance'[a] >= 0)
    OBVIOUS
  <2>2. CommitWaterfall(p)
    BY <1>1, WaterfallCommits
  <2>3. /\ a \in Accounts /\ left[p] \in Nat /\ balance[a] \in Int
        /\ left[p] > 0 => left[p] <= balance[a]
        /\ left[p] + Total(taken[p], Keys) = req[p].amount
    BY <1>1, <2>2, CashIsThere DEF AccountsInv
  <2>4. Drop = Total(taken[p], Keys) /\ Total(taken[p], Keys) \in Int
    BY <1>1, <2>2, ConsumeDrop, SumsDefined DEF CommitWaterfall, GrantsInv
  <2>5. balance'[a] = balance[a] - left[p]
    <3>1. CASE left[p] > 0
      BY <1>1, <2>2, <2>3, <3>1 DEF CommitWaterfall, GrantsInv, TablesOK
    <3>2. CASE left[p] = 0
      BY <2>2, <2>3, <3>2 DEF CommitWaterfall
    <3> QED BY <2>3, <3>1, <3>2
  <2> HIDE DEF a
  <2> QED BY <2>3, <2>4, <2>5
<1>2. GrantsInv /\ AccountsInv /\ [Next]_vars => [\A p \in Procs : Exact(p)]_vars
  BY <1>1
<1> QED BY <1>2, GrantsInvariant, AmountsAddUp, PTL DEF Spec, WaterfallExact

-----------------------------------------------------------------------------
(* One instant for each request *)

LEMMA RequestAmounts ==
    ASSUME NEW r \in Request
    PROVE  /\ r.op \in {"issue", "drawdown", "waterfall"} => r.amount \in Amounts
           /\ r.op = "issue" => r.key \in Keys /\ r.terms \in Terms
<1>1. \/ r \in [op : {"issue"}, key : Keys, account : AccountIDs,
                amount : Amounts, terms : Terms]
      \/ r \in [op : {"drawdown", "waterfall"}, key : {NoKey},
                account : AccountIDs, amount : Amounts, terms : {NoKey}]
      \/ r \in [op : {"expire"}, key : {NoKey}, account : {0}, amount : {1}, terms : {NoKey}]
  BY DEF Request
<1> QED BY <1>1

(* The insert of a grant issues it. *)
LEMMA CreateGrantIssues ==
    ASSUME GrantsInv, NEW p \in Procs, CreateGrant(p)
    PROVE  [Atomic!Next]_Atomic!vars
<1> DEFINE r == req[p]
<1>1. /\ pc[p] = "insert" /\ UNCHANGED <<balance, entries, audit, clock>>
      /\ \/ UNCHANGED grants
         \/ /\ grants[r.key] = NoGrant
            /\ grants' = [grants EXCEPT ![r.key] = NewGrant(r.account, r.amount, r.terms)]
  BY DEF CreateGrant
<1>2. r.op = "issue" /\ r.amount > 0 /\ r.account \in Accounts /\ r \in Request
  BY <1>1 DEF GrantsInv, Mine, Requested, LocalsOK
<1>3. r.key \in Keys /\ r.amount \in Amounts /\ r.terms \in Terms
  BY <1>2, RequestAmounts
<1>4. CASE UNCHANGED grants
  BY <1>1, <1>4 DEF Atomic!vars
<1>5. CASE /\ grants[r.key] = NoGrant
           /\ grants' = [grants EXCEPT ![r.key] = NewGrant(r.account, r.amount, r.terms)]
  <2>1. Atomic!Issue(r.key, r.account, r.amount, r.terms)
    BY <1>1, <1>2, <1>5 DEF Atomic!Issue, Atomic!NoGrant, NoGrant, Atomic!NewGrant, NewGrant
  <2> QED BY <1>2, <1>3, <2>1 DEF Atomic!Next
<1> QED BY <1>1, <1>4, <1>5

(* What COMMIT publishes is the taking of what the transaction took.          *)
LEMMA ConsumeTakes ==
    ASSUME GrantsInv, NEW p \in Procs, Consume(p), UNCHANGED clock
    PROVE  /\ Atomic!Take(taken[p]) /\ taken[p] \in [Keys -> Atomic!Amount]
           /\ \A g \in Keys : taken[p][g] > 0 =>
                 Active(g) /\ taken[p][g] <= grants[g].remaining
<1>1. ASSUME NEW g \in Keys, taken[p][g] # 0
      PROVE  /\ Active(g) /\ read[p][g] = grants[g].remaining /\ grants[g] \in Grant
             /\ taken[p][g] \in Nat \ {0} /\ taken[p][g] <= grants[g].remaining
  <2>1. taken[p][g] \in Nat \ {0}
    BY <1>1 DEF GrantsInv, LocalsOK
  <2>2. Active(g) /\ read[p][g] = grants[g].remaining /\ taken[p][g] <= grants[g].remaining
    BY <2>1 DEF GrantsInv, Mine, Current
  <2> QED BY <2>1, <2>2, RowType
<1>2. ASSUME NEW g \in Keys
      PROVE  grants'[g] = IF taken[p][g] = 0 THEN grants[g]
                          ELSE Atomic!Reduced(grants[g], taken[p][g])
  <2>1. CASE taken[p][g] = 0
    BY <2>1 DEF Consume
  <2>2. CASE taken[p][g] # 0 /\ taken[p][g] = read[p][g]
    <3>1. grants'[g] = [grants[g] EXCEPT !.remaining = 0, !.status = "DEPLETED"]
      BY <2>2 DEF Consume
    <3>2. grants[g].remaining - taken[p][g] = 0 /\ taken[p][g] = grants[g].remaining
      BY <1>1, <2>2
    <3>3. grants'[g] = [grants[g] EXCEPT !.remaining = grants[g].remaining - taken[p][g],
                                         !.status = "DEPLETED"]
      BY <3>1, <3>2
    <3> QED BY <2>2, <3>2, <3>3 DEF Atomic!Reduced
  <2>3. CASE taken[p][g] # 0 /\ taken[p][g] # read[p][g]
    <3>1. grants'[g] = [grants[g] EXCEPT !.remaining = @ - taken[p][g]]
      BY <2>3 DEF Consume
    <3>2. grants'[g] = [grants[g] EXCEPT !.remaining = grants[g].remaining - taken[p][g],
                                         !.status = grants[g].status]
      BY <1>1, <2>3, <3>1 DEF Grant
    <3>3. taken[p][g] # grants[g].remaining
      BY <1>1, <2>3
    <3> QED BY <2>3, <3>2, <3>3 DEF Atomic!Reduced
  <2> QED BY <2>1, <2>2, <2>3
<1>3. grants' = [g \in Keys |-> IF taken[p][g] = 0 THEN grants[g]
                                ELSE Atomic!Reduced(grants[g], taken[p][g])]
  <2>1. grants' = [g \in Keys |-> grants'[g]]
    BY DEF Consume
  <2> QED BY <1>2, <2>1
<1>4. audit' = [g \in Keys |-> IF taken[p][g] = 0 THEN audit[g]
                               ELSE Append(audit[g], Drawn(taken[p][g], grants[g].remaining))]
  <2>1. audit' = [g \in Keys |-> IF taken[p][g] = 0 THEN audit[g]
                                 ELSE Append(audit[g], Drawn(taken[p][g], read[p][g]))]
    BY DEF Consume
  <2> QED BY <1>1, <2>1
<1>5. taken[p] \in [Keys -> Atomic!Amount]
  <2>1. ASSUME NEW g \in Keys PROVE taken[p][g] \in 0 .. grants[g].remaining
    BY <1>1, RowType DEF GrantsInv, LocalsOK
  <2>2. \A g \in Keys : taken[p][g] \in Atomic!Amount
    BY <2>1 DEF Atomic!Amount
  <2>3. taken[p] \in [Keys -> Nat]
    BY DEF GrantsInv, LocalsOK
  <2> QED BY <2>2, <2>3
<1>6. Atomic!Take(taken[p])
  BY <1>3, <1>4 DEF Atomic!Take, Atomic!Drawn, Drawn
<1> QED BY <1>1, <1>5, <1>6

LEMMA AtomicSum ==
    ASSUME GrantsInv, NEW p \in Procs
    PROVE  Atomic!Sum(taken[p]) = Total(taken[p], Keys)
<1>1. IsFiniteSet(Keys) /\ \A g \in Keys : taken[p][g] \in Int
  BY SumsDefined DEF GrantsInv
<1>2. Atomic!Sum(taken[p]) = MapThenSumSet(LAMBDA g : taken[p][g], Keys)
  BY DEF Atomic!Sum, MapThenSumSet, MapThenFoldSet, Atomic!MapThenSumSet,
         Atomic!MapThenFoldSet
<1> QED BY <1>1, <1>2, SumSetTotal

(* The commit of a drawdown takes at most its amount from its account.        *)
LEMMA CommitDrawdownTakes ==
    ASSUME GrantsInv, NEW p \in Procs, Accounted(p), CommitDrawdown(p)
    PROVE  [Atomic!Next]_Atomic!vars
<1>1. /\ pc[p] = "lock" /\ req[p].op = "drawdown" /\ Consume(p)
      /\ UNCHANGED <<balance, entries, clock>>
  BY DEF CommitDrawdown, Commit
<1>2. /\ Atomic!Take(taken[p]) /\ taken[p] \in [Keys -> Atomic!Amount]
      /\ \A g \in Keys : taken[p][g] > 0 => Active(g) /\ taken[p][g] <= grants[g].remaining
  BY <1>1, ConsumeTakes
<1>3. \A g \in Keys : taken[p][g] > 0 => grants[g].account = req[p].account
  BY <1>1 DEF Accounted, Matches
<1>4. Atomic!Drawdown(taken[p], req[p].amount)
  <2>1. left[p] \in Nat /\ Total(taken[p], Keys) \in Int
    BY SumsDefined DEF GrantsInv
  <2>2. left[p] + Total(taken[p], Keys) = req[p].amount
    BY <1>1 DEF Accounted
  <2> QED BY <1>1, <2>1, <2>2, AtomicSum DEF Atomic!Drawdown
<1>5. CASE \E g \in Keys : taken[p][g] > 0
  <2>1. PICK g \in Keys : taken[p][g] > 0
    BY <1>5
  <2>2. grants[g] \in Grant /\ grants[g].account = req[p].account
    BY <1>2, <1>3, <2>1, RowType
  <2>3. req[p].account \in Accounts
    BY <2>2 DEF Grant
  <2>4. req[p].amount \in Amounts
    <3>1. req[p] \in Request
      BY <1>1 DEF GrantsInv, LocalsOK
    <3> QED BY <1>1, <3>1, RequestAmounts
  <2>5. Atomic!Takeable(req[p].account, taken[p])
    BY <1>2, <1>3 DEF Atomic!Takeable, Active
  <2> QED BY <1>2, <1>4, <2>3, <2>4, <2>5 DEF Atomic!Next
<1>6. CASE ~\E g \in Keys : taken[p][g] > 0
  <2>1. \A g \in Keys : taken[p][g] = 0
    BY <1>6 DEF GrantsInv, LocalsOK
  <2>2. grants' = [g \in Keys |-> grants[g]] /\ audit' = [g \in Keys |-> audit[g]]
    BY <1>1, <2>1 DEF Consume
  <2>3. UNCHANGED <<grants, audit>>
    BY <2>2 DEF GrantsInv, TablesOK
  <2> QED BY <1>1, <2>3 DEF Atomic!vars
<1> QED BY <1>5, <1>6

(* The commit of a waterfall debit takes from the grants that were usable when *)
(* it began, in their order and before any cash.                             *)
LEMMA CommitWaterfallTakes ==
    ASSUME GrantsInv, NEW p \in Procs, Accounted(p), CommitWaterfall(p)
    PROVE  [Atomic!Next]_Atomic!vars
<1> DEFINE a == req[p].account
           f == taken[p]
           usable == {g \in Keys : /\ grants[g].status = "ACTIVE"
                                   /\ grants[g].account = a /\ grants[g].expires > now[p]}
           usedUp(g) == f[g] = grants[g].remaining
<1>1. /\ pc[p] = "consume" /\ Consume(p) /\ UNCHANGED clock
      /\ found[p] = {} \/ left[p] = 0
  BY DEF CommitWaterfall, Commit
<1>2. /\ req[p].op = "waterfall" /\ a \in Accounts /\ left[p] \in Nat
      /\ balance[a] \in Int /\ cash[p] = balance[a]
      /\ left[p] > 0 => left[p] <= balance[a]
      /\ left[p] + Total(f, Keys) = req[p].amount
  BY CashIsThere
<1>3. /\ Atomic!Take(f) /\ f \in [Keys -> Atomic!Amount]
      /\ \A g \in Keys : f[g] > 0 => Active(g) /\ f[g] <= grants[g].remaining
  BY <1>1, ConsumeTakes
<1>4. \A g \in Keys : f[g] > 0 => g \in usable
  BY <1>2, <1>3 DEF Accounted, Matches, Active
<1>5. \A h \in usable : Usable(p, h)
  BY DEF Usable
<1>6. ASSUME NEW h \in usable, f[h] > 0, ~Partly(p, h) PROVE usedUp(h)
  <2>1. /\ read[p][h] = grants[h].remaining /\ f[h] <= read[p][h]
        /\ f[h] \in Nat /\ read[p][h] \in Nat
    BY <1>6 DEF GrantsInv, Mine, Current, LocalsOK
  <2> QED BY <1>6, <2>1 DEF Partly
<1>7. ASSUME NEW g \in Keys, f[g] > 0, NEW h \in usable, Earlier(grants[h], grants[g])
      PROVE  usedUp(h)
  <2>1. ~(h \in found[p] \/ Partly(p, h)) /\ (h \in found[p] \/ f[h] > 0)
    BY <1>1, <1>2, <1>5, <1>7 DEF GrantsInv, Mine, Ordered
  <2> QED BY <1>6, <2>1
<1>8. Atomic!Sum(f) = Total(f, Keys) /\ Total(f, Keys) \in Int
  BY AtomicSum, SumsDefined DEF GrantsInv
<1>9. ASSUME Atomic!Sum(f) < req[p].amount, NEW h \in usable PROVE usedUp(h)
  <2>1. left[p] > 0
    BY <1>2, <1>8, <1>9
  <2>2. found[p] = {}
    BY <1>1, <2>1
  <2>3. f[h] > 0 /\ ~Partly(p, h)
    BY <1>1, <1>2, <1>5, <2>1, <2>2 DEF GrantsInv, Mine, Ordered
  <2> QED BY <1>6, <2>3
<1>10. Atomic!Pay(a, req[p].amount - Atomic!Sum(f))
  <2>1. req[p].amount - Atomic!Sum(f) = left[p]
    BY <1>2, <1>8
  <2>2. Atomic!Pay(a, left[p])
    <3>1. CASE left[p] = 0
      BY <1>2, <3>1 DEF Atomic!Pay, CommitWaterfall
    <3>2. CASE left[p] > 0
      <4>1. /\ balance' = [balance EXCEPT ![a] = @ - left[p]]
            /\ entries' = [entries EXCEPT
                   ![a] = Append(@, Debit(left[p], balance[a] - left[p], NoKey))]
        BY <1>2, <3>2 DEF CommitWaterfall
      <4> QED BY <1>2, <3>2, <4>1 DEF Atomic!Pay, Atomic!Debit, Debit
    <3> QED BY <1>2, <3>1, <3>2
  <2> QED BY <2>1, <2>2
<1>11. \A g \in Keys : f[g] > 0 =>
          g \in usable /\ \A h \in usable : Atomic!Earlier(grants[h], grants[g]) => usedUp(h)
  BY <1>4, <1>7 DEF Atomic!Earlier, Earlier
<1>12. Atomic!Waterfall(a, f, req[p].amount, now[p])
  BY <1>9, <1>10, <1>11 DEF Atomic!Waterfall
<1>13. Atomic!Takeable(a, f)
  BY <1>3, <1>4 DEF Atomic!Takeable
<1>14. now[p] \in 0 .. clock /\ req[p].amount \in Amounts
  <2>1. req[p] \in Request /\ now[p] \in Nat /\ clock \in Nat
    BY <1>1, GrantsAssumption DEF GrantsInv, LocalsOK, CountersOK, GrantsAssumption
  <2> QED BY <1>2, <2>1, RequestAmounts DEF Accounted
<1> HIDE DEF a, f
<1> QED BY <1>2, <1>3, <1>12, <1>13, <1>14 DEF Atomic!Next

(* The commit of an expiry expires grants that had expired when it began.     *)
LEMMA CommitExpiryExpires ==
    ASSUME GrantsInv, NEW p \in Procs, Accounted(p), CommitExpiry(p)
    PROVE  [Atomic!Next]_Atomic!vars
<1>1. /\ pc[p] = "lock" /\ req[p].op = "expire"
      /\ grants' = [g \in Keys |->
            IF g \in found[p] THEN [grants[g] EXCEPT !.status = "EXPIRED"] ELSE grants[g]]
      /\ UNCHANGED <<balance, entries, audit, clock>>
  BY DEF CommitExpiry, Commit
<1>2. found[p] \in SUBSET Keys /\ now[p] \in 0 .. clock
  BY GrantsAssumption DEF GrantsInv, LocalsOK, CountersOK, GrantsAssumption, Accounted
<1>3. \A g \in found[p] : grants[g].status = "ACTIVE" /\ grants[g].expires < now[p]
  BY <1>1, <1>2 DEF Accounted, Matches, Active
<1>4. Atomic!Expire(found[p], now[p])
  BY <1>1, <1>3 DEF Atomic!Expire
<1> QED BY <1>2, <1>4 DEF Atomic!Next

LEMMA MoveCashMoves ==
    ASSUME NEW a \in Accounts, NEW amount \in Amounts, Deposit(a, amount) \/ Withdraw(a, amount)
    PROVE  Atomic!Next
<1>1. CASE Deposit(a, amount)
  <2>1. Atomic!Deposit(a, amount) /\ amount > 0
    BY <1>1 DEF Deposit, MoveCash, Atomic!Deposit, Atomic!Move, Atomic!Credit, Credit
  <2> QED BY <2>1 DEF Atomic!Next
<1>2. CASE Withdraw(a, amount)
  <2>1. Atomic!Withdraw(a, amount) /\ amount > 0
    BY <1>2 DEF Withdraw, MoveCash, Atomic!Withdraw, Atomic!Move, Atomic!Debit, Debit
  <2> QED BY <2>1 DEF Atomic!Next
<1> QED BY <1>1, <1>2

LEMMA StepIsAtomic ==
    ASSUME GrantsInv, AccountsInv, [Next]_vars
    PROVE  [Atomic!Next]_Atomic!vars
<1>1. ASSUME UNCHANGED <<tables, clock>> PROVE UNCHANGED Atomic!vars
  BY <1>1 DEF tables, Atomic!vars
<1>2. ASSUME NEW p \in Procs, (\E r \in Request : Start(p, r)) \/ Abort(p)
      PROVE  UNCHANGED Atomic!vars
  BY <1>1, <1>2 DEF Start, Abort
<1>3. ASSUME NEW p \in Procs, Step(p) PROVE [Atomic!Next]_Atomic!vars
  <2>1. CASE IssueCheckKey(p) \/ LockAccount(p) \/ SelectGrants(p) \/ CheckFunds(p)
    BY <1>1, <2>1 DEF IssueCheckKey, LockAccount, SelectGrants, CheckFunds
  <2>2. CASE \E g \in Keys : CollectGrant(p, g) \/ DrawGrant(p, g) \/ ConsumeGrant(p, g)
    BY <1>1, <2>2 DEF CollectGrant, DrawGrant, ConsumeGrant, LockGrant
  <2>3. CASE CreateGrant(p)
    BY <2>3, CreateGrantIssues
  <2>4. CASE CommitDrawdown(p) \/ CommitWaterfall(p) \/ CommitExpiry(p)
    BY <2>4, CommitDrawdownTakes, CommitWaterfallTakes, CommitExpiryExpires DEF AccountsInv
  <2> QED BY <1>3, <2>1, <2>2, <2>3, <2>4 DEF Step
<1>4. CASE \E a \in Accounts, amount \in Amounts : Deposit(a, amount) \/ Withdraw(a, amount)
  BY <1>4, MoveCashMoves
<1>5. CASE Tick
  BY <1>5 DEF Tick, tables, Atomic!Next, Atomic!Tick
<1>6. CASE UNCHANGED vars
  BY <1>1, <1>6 DEF vars
<1> QED BY <1>2, <1>3, <1>4, <1>5, <1>6 DEF Next

(* The abstract specification is implemented: statement by statement and lock *)
(* by lock as requests run, each commit is one whole operation of             *)
(* AtomicGrants, and every other step leaves the tables alone.                *)
THEOREM RequestsAreAtomic == Spec => ImplementsAtomicGrants
<1>1. Init => Atomic!Init
  BY DEF Init, Atomic!Init, OpeningEntries, Atomic!OpeningEntries, Credit, Atomic!Credit
<1>2. GrantsInv /\ AccountsInv /\ [Next]_vars => [Atomic!Next]_Atomic!vars
  BY StepIsAtomic
<1> QED BY <1>1, <1>2, GrantsInvariant, AmountsAddUp, PTL
        DEF Spec, ImplementsAtomicGrants, Atomic!Spec
=============================================================================
