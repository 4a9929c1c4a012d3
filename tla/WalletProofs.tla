---------------------------- MODULE WalletProofs ----------------------------
(***************************************************************************)
(* Theorems about Wallet, for every number of users and requests, every       *)
(* limit on the goroutines of a Seed request, and all amounts.                *)
(***************************************************************************)
EXTENDS Wallet, TLAPS

(* Who has inserted a user and not committed has the external_id for himself. *)
Locks ==
    /\ \A c \in Callers : pc[c] = "bonus" => User(c) \notin users
    /\ \A c, d \in Callers :
          pc[c] = "bonus" /\ pc[d] = "bonus" /\ User(c) = User(d) => c = d

(* Past GetOrCreateUser the user exists; and who exists has been paid.        *)
Existence ==
    /\ \A c \in Callers : pc[c] \in {"accounts", "topup", "balance"} => User(c) \in users
    /\ \A u \in Users : IF u \in users THEN balance[u] >= SignupBonusAmount
                                       ELSE balance[u] = 0

(* What the goroutines of a Seed request know of the balance.                 *)
Seeding ==
    \A c \in Callers :
       /\ pc[c] \in {"topup", "balance"} => IsSeed(c)
       /\ pc[c] = "topup" => seen[c] < InitialBalance /\ seen[c] <= balance[User(c)]
       /\ pc[c] = "balance" => balance[User(c)] >= InitialBalance
       /\ outcome[c] # "none" => pc[c] = "done"

(* Who is about to top a user up alone has read the balance the user has.     *)
Alone ==
    \A c \in Callers :
       pc[c] = "topup" /\ User(c) \notin overlapped =>
          /\ balance[User(c)] = seen[c]
          /\ \A d \in Callers \ {c} : User(d) = User(c) => pc[d] # "topup"

(* The inductive invariant. *)
WInv ==
    /\ TypeOK /\ Locks /\ Existence /\ OneBonusEach
    /\ Seeding /\ AnswersAreTrue
    /\ Alone /\ OvershootNeedsOverlap

LEMMA Amounts ==
    SignupBonusAmount \in Nat /\ SignupBonusAmount > 0 /\ InitialBalance \in Nat
BY WalletAssumption DEF WalletAssumption

LEMMA UserType ==
    ASSUME NEW c \in Callers
    PROVE  User(c) \in Users
BY WalletAssumption DEF WalletAssumption, Callers, User

LEMMA InitWInv == Init => WInv
BY Amounts, UserType DEF Init, WInv, TypeOK, Locks, Existence, OneBonusEach, Seeding,
   AnswersAreTrue, Alone, OvershootNeedsOverlap

(* A goroutine goes on or returns without touching the tables, and is not      *)
(* told anything.                                                           *)
LEMMA MoveWInv ==
    ASSUME WInv, NEW c \in Callers, NEW l, NEW o,
           l \in {"lookup", "insert", "done"} \/ (l = "accounts" /\ User(c) \in users),
           o = "none" \/ (o = "error" /\ l = "done"),
           outcome[c] = "none",
           pc' = [pc EXCEPT ![c] = l], outcome' = [outcome EXCEPT ![c] = o],
           UNCHANGED <<tables, seen, answered, overlapped>>
    PROVE  WInv'
<1>1. UNCHANGED <<users, balance, bonuses, seen, answered, overlapped>>
  BY DEF tables
<1>2. /\ pc \in [Callers -> {"start", "lookup", "insert", "bonus", "accounts",
                             "topup", "balance", "done"}]
      /\ outcome \in [Callers -> {"none", "ok", "error"}]
  BY DEF WInv, TypeOK
<1>3. /\ pc'[c] = l /\ outcome'[c] = o
      /\ \A d \in Callers \ {c} : pc'[d] = pc[d] /\ outcome'[d] = outcome[d]
  BY <1>2
<1>4. TypeOK'
  BY <1>1, <1>2 DEF WInv, TypeOK
<1>5. Locks' /\ Existence' /\ OneBonusEach'
  BY <1>1, <1>3 DEF WInv, Locks, Existence, OneBonusEach
<1>6. Seeding' /\ AnswersAreTrue'
  BY <1>1, <1>3 DEF WInv, Seeding, AnswersAreTrue
<1>7. Alone' /\ OvershootNeedsOverlap'
  BY <1>1, <1>3 DEF WInv, Alone, OvershootNeedsOverlap
<1> QED BY <1>4, <1>5, <1>6, <1>7 DEF WInv

(* Steps that only move on: Start, GetUserByExternalID, Fail, and an INSERT     *)
(* that is refused.                                                         *)
LEMMA PassWInv ==
    ASSUME WInv, NEW c \in Callers,
           \/ Start(c) \/ GetUserByExternalID(c) \/ Fail(c)
           \/ InsertUser(c) /\ User(c) \in users
    PROVE  WInv'
<1>1. outcome[c] = "none"
  <2>1. pc[c] # "done"
    BY DEF Start, GetUserByExternalID, Fail, InsertUser
  <2> QED BY <2>1 DEF WInv, Seeding, TypeOK
<1>2. UNCHANGED outcome => outcome' = [outcome EXCEPT ![c] = "none"]
  BY <1>1 DEF WInv, TypeOK
<1>3. CASE Start(c)
  BY <1>1, <1>2, <1>3, MoveWInv DEF Start, Goto
<1>4. CASE GetUserByExternalID(c)
  <2> DEFINE l == IF User(c) \in users THEN "accounts" ELSE "insert"
  <2>1. l \in {"lookup", "insert", "done"} \/ (l = "accounts" /\ User(c) \in users)
    OBVIOUS
  <2>2. /\ pc' = [pc EXCEPT ![c] = l] /\ UNCHANGED outcome
        /\ UNCHANGED <<tables, seen, answered, overlapped>>
    BY <1>4 DEF GetUserByExternalID, Goto
  <2> HIDE DEF l
  <2> QED BY <1>1, <1>2, <2>1, <2>2, MoveWInv
<1>5. CASE Fail(c)
  BY <1>1, <1>5, MoveWInv DEF Fail, Return, Goto
<1>6. CASE InsertUser(c) /\ User(c) \in users
  BY <1>1, <1>6, MoveWInv DEF InsertUser, Return, Goto
<1> QED BY <1>3, <1>4, <1>5, <1>6

(* The INSERT succeeds: nobody else has the external_id.                      *)
LEMMA InsertUserWInv ==
    ASSUME WInv, NEW c \in Callers, InsertUser(c), User(c) \notin users
    PROVE  WInv'
<1>1. /\ pc' = [pc EXCEPT ![c] = "bonus"]
      /\ pc[c] = "insert" /\ \A d \in Callers \ {c} : User(d) = User(c) => pc[d] # "bonus"
      /\ UNCHANGED <<users, balance, bonuses, seen, outcome, answered, overlapped>>
  BY DEF InsertUser, Goto, Inserting, tables
<1>2. pc'[c] = "bonus" /\ \A d \in Callers \ {c} : pc'[d] = pc[d]
  BY <1>1 DEF WInv, TypeOK
<1>3. TypeOK'
  BY <1>1 DEF WInv, TypeOK
<1>4. Locks' /\ Existence' /\ OneBonusEach'
  BY <1>1, <1>2 DEF WInv, Locks, Existence, OneBonusEach
<1>5. Seeding' /\ AnswersAreTrue'
  BY <1>1, <1>2 DEF WInv, Seeding, AnswersAreTrue
<1>6. Alone' /\ OvershootNeedsOverlap'
  BY <1>1, <1>2 DEF WInv, Alone, OvershootNeedsOverlap
<1> QED BY <1>3, <1>4, <1>5, <1>6 DEF WInv

LEMMA CreateUserWInv ==
    ASSUME WInv, NEW c \in Callers, CreateUser(c)
    PROVE  WInv'
<1> DEFINE u == User(c)
<1>1. u \in Users /\ u \notin users
  BY UserType DEF CreateUser, WInv, Locks
<1>2. PICK l \in {"accounts", "done"} :
         /\ pc' = [pc EXCEPT ![c] = l] /\ pc[c] = "bonus"
         /\ \/ l = "accounts" /\ outcome' = outcome
            \/ l = "done" /\ outcome' = [outcome EXCEPT ![c] = "error"]
  BY DEF CreateUser, Goto, Return
<1>3. /\ users' = users \cup {u}
      /\ balance' = [balance EXCEPT ![u] = SignupBonusAmount]
      /\ bonuses' = [bonuses EXCEPT ![u] = @ + 1]
      /\ seen' = seen /\ answered' = answered /\ overlapped' = overlapped
  BY DEF CreateUser
<1> HIDE DEF u
<1>4. TypeOK'
  BY <1>1, <1>2, <1>3, Amounts DEF WInv, TypeOK
<1>5. /\ balance'[u] = SignupBonusAmount /\ bonuses'[u] = bonuses[u] + 1
      /\ balance[u] = 0 /\ bonuses[u] = 0
      /\ \A v \in Users \ {u} : balance'[v] = balance[v] /\ bonuses'[v] = bonuses[v]
  BY <1>1, <1>3 DEF WInv, TypeOK, OneBonusEach, Existence
<1>6. /\ pc'[c] = l /\ outcome'[c] \in {outcome[c], "error"}
      /\ outcome'[c] # outcome[c] => l = "done"
      /\ \A d \in Callers \ {c} : pc'[d] = pc[d] /\ outcome'[d] = outcome[d]
  BY <1>2 DEF WInv, TypeOK
<1>7. \A d \in Callers : User(d) \in Users
  BY UserType
<1>8. \A d \in Callers : pc[d] \in {"topup", "balance", "accounts"} => User(d) # u
  BY <1>1 DEF WInv, Existence
<1>9. Locks'
  BY <1>2, <1>3, <1>6 DEF WInv, Locks, u
<1>10. Existence' /\ OneBonusEach'
  <2>1. \A v \in Users : IF v \in users' THEN balance'[v] >= SignupBonusAmount
                                         ELSE balance'[v] = 0
    BY <1>1, <1>3, <1>5, Amounts DEF WInv, Existence
  <2>2. \A d \in Callers : pc'[d] \in {"accounts", "topup", "balance"} => User(d) \in users'
    BY <1>2, <1>3, <1>6 DEF WInv, Existence, u
  <2>3. OneBonusEach'
    BY <1>1, <1>3, <1>5 DEF WInv, OneBonusEach
  <2> QED BY <2>1, <2>2, <2>3 DEF Existence
<1>11. Seeding'
  BY <1>2, <1>3, <1>5, <1>6, <1>7, <1>8 DEF WInv, Seeding, IsSeed
<1>12. AnswersAreTrue'
  <2>1. \A d \in Callers : balance'[User(d)] >= balance[User(d)]
    BY <1>4, <1>5, <1>7, Amounts DEF WInv, TypeOK
  <2>2. ASSUME NEW d \in Callers, outcome'[d] = "ok"
        PROVE  outcome[d] = "ok"
    BY <1>6, <2>2
  <2> QED BY <1>3, <1>4, <1>7, <2>1, <2>2, Amounts DEF WInv, AnswersAreTrue, IsSeed, TypeOK
<1>13. Alone'
  BY <1>2, <1>3, <1>5, <1>6, <1>7, <1>8 DEF WInv, Alone
<1>14. OvershootNeedsOverlap'
  BY <1>1, <1>3, <1>5, Amounts DEF WInv, OvershootNeedsOverlap
<1> QED BY <1>4, <1>9, <1>10, <1>11, <1>12, <1>13, <1>14 DEF WInv

(* The balance read: a seed that finds too little goes on to top it up.       *)
LEMMA GetAccountsWInv ==
    ASSUME WInv, NEW c \in Callers, GetAccountsByUser(c)
    PROVE  WInv'
<1>1. PICK l \in {"done", "topup", "balance"} :
         /\ pc[c] = "accounts" /\ pc' = [pc EXCEPT ![c] = l]
         /\ \/ ~IsSeed(c) /\ l = "done" /\ outcome' = [outcome EXCEPT ![c] = "ok"]
            \/ /\ IsSeed(c) /\ outcome' = outcome
               /\ l = IF balance[User(c)] < InitialBalance THEN "topup" ELSE "balance"
  BY DEF GetAccountsByUser, Return, Goto, NeedsTopUp
<1>2. /\ users' = users /\ balance' = balance /\ bonuses' = bonuses /\ answered' = answered
      /\ seen' = [seen EXCEPT ![c] = balance[User(c)]]
      /\ overlapped' = overlapped \cup
            {u \in {User(c)} : IsSeed(c) /\ \E d \in Callers : User(d) = u /\ pc[d] = "topup"}
  BY DEF GetAccountsByUser, tables
<1>3. User(c) \in Users /\ balance[User(c)] \in Nat /\ balance[User(c)] >= SignupBonusAmount
  BY <1>1, UserType DEF WInv, TypeOK, Existence
<1>4. /\ pc'[c] = l /\ seen'[c] = balance[User(c)]
      /\ \A d \in Callers \ {c} : pc'[d] = pc[d] /\ outcome'[d] = outcome[d] /\ seen'[d] = seen[d]
      /\ outcome'[c] = IF IsSeed(c) THEN outcome[c] ELSE "ok"
      /\ outcome[c] = "none"
  BY <1>1, <1>2 DEF WInv, TypeOK, Seeding
<1>5. TypeOK'
  BY <1>1, <1>2, <1>3 DEF WInv, TypeOK
<1>6. Locks' /\ Existence' /\ OneBonusEach'
  BY <1>1, <1>2, <1>4 DEF WInv, Locks, Existence, OneBonusEach
<1>7. Seeding' /\ AnswersAreTrue'
  BY <1>1, <1>2, <1>3, <1>4, Amounts DEF WInv, Seeding, AnswersAreTrue
<1>8. OvershootNeedsOverlap'
  BY <1>2 DEF WInv, OvershootNeedsOverlap
<1>9. Alone'
  <2>1. ASSUME NEW d \in Callers, pc'[d] = "topup", User(d) \notin overlapped'
        PROVE  /\ balance'[User(d)] = seen'[d]
               /\ \A e \in Callers \ {d} : User(e) = User(d) => pc'[e] # "topup"
    <3>1. CASE d = c
      BY <1>1, <1>2, <1>4, <2>1, <3>1
    <3>2. CASE d # c
      <4>1. pc[d] = "topup" /\ User(d) \notin overlapped
        BY <1>2, <1>4, <2>1, <3>2
      <4>2. User(c) = User(d) => pc'[c] # "topup"
        BY <1>1, <1>2, <1>4, <2>1, <4>1
      <4> QED BY <1>2, <1>4, <3>2, <4>1, <4>2 DEF WInv, Alone
    <3> QED BY <3>1, <3>2
  <2> QED BY <2>1 DEF Alone
<1> QED BY <1>5, <1>6, <1>7, <1>8, <1>9 DEF WInv

(* The top-up reaches the initial balance at least, and exactly if the seed    *)
(* was alone with the user.                                                  *)
LEMMA DepositWInv ==
    ASSUME WInv, NEW c \in Callers, Deposit(c)
    PROVE  WInv'
<1> DEFINE u == User(c)
           sum == balance[u] + (InitialBalance - seen[c])
<1>1. PICK l \in {"balance", "done"} :
         /\ pc[c] = "topup" /\ pc' = [pc EXCEPT ![c] = l]
         /\ \/ l = "balance" /\ outcome' = outcome
            \/ l = "done" /\ outcome' = [outcome EXCEPT ![c] = "error"]
  BY DEF Deposit, Goto, Return
<1>2. /\ balance' = [balance EXCEPT ![u] = sum]
      /\ users' = users /\ bonuses' = bonuses /\ seen' = seen
      /\ answered' = answered /\ overlapped' = overlapped
  BY DEF Deposit, TopUp
<1>3. u \in Users /\ u \in users /\ IsSeed(c)
  BY <1>1, UserType DEF WInv, Existence, Seeding
<1>4. /\ sum \in Nat /\ sum >= InitialBalance /\ sum >= balance[u]
      /\ u \notin overlapped => sum = InitialBalance
  <2>1. /\ balance[u] \in Nat /\ seen[c] \in Nat
        /\ seen[c] < InitialBalance /\ seen[c] <= balance[u]
    BY <1>1, <1>3 DEF WInv, TypeOK, Seeding
  <2>2. u \notin overlapped => balance[u] = seen[c]
    BY <1>1 DEF WInv, Alone
  <2> QED BY <2>1, <2>2, Amounts
<1> HIDE DEF u, sum
<1>5. /\ pc'[c] = l /\ outcome'[c] \in {outcome[c], "error"}
      /\ outcome'[c] # outcome[c] => l = "done"
      /\ \A d \in Callers \ {c} : pc'[d] = pc[d] /\ outcome'[d] = outcome[d]
  BY <1>1 DEF WInv, TypeOK
<1>6. balance'[u] = sum /\ \A v \in Users \ {u} : balance'[v] = balance[v]
  BY <1>2, <1>3 DEF WInv, TypeOK
<1>7. \A v \in Users : balance[v] \in Nat /\ balance'[v] \in Nat /\ balance'[v] >= balance[v]
  BY <1>4, <1>6 DEF WInv, TypeOK
<1>8. \A d \in Callers : User(d) \in Users
  BY UserType
<1>9. TypeOK'
  BY <1>1, <1>2, <1>4 DEF WInv, TypeOK
<1>10. Locks' /\ OneBonusEach'
  BY <1>1, <1>2, <1>5 DEF WInv, Locks, OneBonusEach
<1>11. Existence'
  <2>1. \A v \in Users : IF v \in users THEN balance'[v] >= SignupBonusAmount
                                        ELSE balance'[v] = 0
    BY <1>3, <1>6, <1>7, Amounts DEF WInv, Existence
  <2>2. \A d \in Callers : pc'[d] \in {"accounts", "topup", "balance"} => User(d) \in users
    BY <1>3, <1>5 DEF WInv, Existence, u
  <2> QED BY <1>2, <2>1, <2>2 DEF Existence
<1>12. Seeding'
  <2>1. ASSUME NEW d \in Callers
        PROVE  /\ pc'[d] \in {"topup", "balance"} => IsSeed(d)
               /\ pc'[d] = "topup" => seen'[d] < InitialBalance /\ seen'[d] <= balance'[User(d)]
               /\ pc'[d] = "balance" => balance'[User(d)] >= InitialBalance
               /\ outcome'[d] # "none" => pc'[d] = "done"
    <3>1. CASE d = c
      BY <1>1, <1>2, <1>3, <1>4, <1>5, <1>6, <3>1 DEF WInv, Seeding, u
    <3>2. CASE d # c
      <4>1. /\ pc'[d] = pc[d] /\ outcome'[d] = outcome[d] /\ seen'[d] = seen[d]
            /\ seen[d] \in Nat
            /\ balance'[User(d)] >= balance[User(d)]
            /\ balance[User(d)] \in Nat /\ balance'[User(d)] \in Nat
        BY <1>2, <1>5, <1>7, <1>8, <3>2 DEF WInv, TypeOK
      <4> QED BY <4>1, Amounts DEF WInv, Seeding
    <3> QED BY <3>1, <3>2
  <2> QED BY <2>1 DEF Seeding, IsSeed
<1>13. AnswersAreTrue'
  <2>1. \A d \in Callers : outcome'[d] = "ok" => outcome[d] = "ok"
    BY <1>5
  <2> QED BY <1>2, <1>7, <1>8, <2>1, Amounts DEF WInv, AnswersAreTrue, IsSeed
<1>14. Alone'
  <2>1. ASSUME NEW d \in Callers, pc'[d] = "topup", User(d) \notin overlapped
        PROVE  /\ balance'[User(d)] = seen[d]
               /\ \A e \in Callers \ {d} : User(e) = User(d) => pc'[e] # "topup"
    <3>1. d # c /\ pc[d] = "topup"
      BY <1>1, <1>5, <2>1
    <3>2. /\ balance[User(d)] = seen[d]
          /\ \A e \in Callers \ {d} : User(e) = User(d) => pc[e] # "topup"
      BY <2>1, <3>1 DEF WInv, Alone
    <3>3. User(d) # u
      BY <1>1, <3>1, <3>2 DEF u
    <3> QED BY <1>1, <1>5, <1>6, <1>8, <3>2, <3>3
  <2> QED BY <1>2, <2>1 DEF Alone
<1>15. OvershootNeedsOverlap'
  BY <1>2, <1>4, <1>6, Amounts DEF WInv, OvershootNeedsOverlap
<1> QED BY <1>9, <1>10, <1>11, <1>12, <1>13, <1>14, <1>15 DEF WInv

(* The balance a Seed request reports: what it reads, or 0.                   *)
LEMMA GetBalanceWInv ==
    ASSUME WInv, NEW c \in Callers, GetBalance(c)
    PROVE  WInv'
<1>1. PICK n \in {balance[User(c)], 0} : seen' = [seen EXCEPT ![c] = n]
  BY DEF GetBalance
<1>2. /\ pc[c] = "balance" /\ pc' = [pc EXCEPT ![c] = "done"]
      /\ outcome' = [outcome EXCEPT ![c] = "ok"]
      /\ UNCHANGED <<users, balance, bonuses, answered, overlapped>>
  BY DEF GetBalance, Return, Goto, tables
<1>3. IsSeed(c) /\ balance[User(c)] >= InitialBalance /\ balance[User(c)] \in Nat
  BY <1>2, UserType DEF WInv, Seeding, TypeOK
<1>4. n \in Nat /\ (n = 0 \/ n >= InitialBalance)
  BY <1>3
<1>5. /\ pc'[c] = "done" /\ outcome'[c] = "ok" /\ seen'[c] = n
      /\ \A d \in Callers \ {c} : pc'[d] = pc[d] /\ outcome'[d] = outcome[d] /\ seen'[d] = seen[d]
  BY <1>1, <1>2 DEF WInv, TypeOK
<1>6. TypeOK'
  BY <1>1, <1>2, <1>4 DEF WInv, TypeOK
<1>7. Locks' /\ Existence' /\ OneBonusEach'
  BY <1>2, <1>5 DEF WInv, Locks, Existence, OneBonusEach
<1>8. Seeding' /\ AnswersAreTrue'
  BY <1>2, <1>3, <1>4, <1>5 DEF WInv, Seeding, AnswersAreTrue
<1>9. Alone' /\ OvershootNeedsOverlap'
  BY <1>2, <1>5 DEF WInv, Alone, OvershootNeedsOverlap
<1> QED BY <1>6, <1>7, <1>8, <1>9 DEF WInv

-----------------------------------------------------------------------------
LEMMA NextWInv == WInv /\ [Next]_vars => WInv'
<1> SUFFICES ASSUME WInv, [Next]_vars PROVE WInv'
  OBVIOUS
<1>1. ASSUME NEW c \in Callers, Step(c) \/ Fail(c)
      PROVE  WInv'
  BY <1>1, PassWInv, InsertUserWInv, CreateUserWInv, GetAccountsWInv, DepositWInv,
     GetBalanceWInv DEF Step
<1>2. ASSUME NEW s \in Seeds, Answer(s)
      PROVE  WInv'
  BY <1>2 DEF Answer, tables, WInv, TypeOK, Locks, Existence, OneBonusEach, Seeding,
         AnswersAreTrue, Alone, OvershootNeedsOverlap
<1>3. CASE UNCHANGED vars
  BY <1>3 DEF vars, tables, WInv, TypeOK, Locks, Existence, OneBonusEach, Seeding,
         AnswersAreTrue, Alone, OvershootNeedsOverlap
<1> QED BY <1>1, <1>2, <1>3 DEF Next

(* The state of the wallet service and its callers keeps to all that is said   *)
(* of it above.                                                             *)
THEOREM WalletInvariant == Spec => []WInv
<1>1. Init => WInv
  BY InitWInv
<1>2. WInv /\ [Next]_vars => WInv'
  BY NextWInv
<1> QED BY <1>1, <1>2, PTL DEF Spec

(* CreateUser pays one welcome bonus to every user, however many goroutines    *)
(* of however many requests ask for him at once.                             *)
THEOREM OneBonus == Spec => []OneBonusEach
<1>1. WInv => OneBonusEach
  BY DEF WInv
<1> QED BY <1>1, WalletInvariant, PTL

(* What GetAccounts and Seed answer is true of the accounts.                  *)
THEOREM TrueAnswers == Spec => []AnswersAreTrue
<1>1. WInv => AnswersAreTrue
  BY DEF WInv
<1> QED BY <1>1, WalletInvariant, PTL

(* Only Seed requests that overlap pay a user more than the initial balance.   *)
THEOREM OvershootExplained == Spec => []OvershootNeedsOverlap
<1>1. WInv => OvershootNeedsOverlap
  BY DEF WInv
<1> QED BY <1>1, WalletInvariant, PTL
=============================================================================
