------------------------------- MODULE Wallet -------------------------------
(***************************************************************************)
(* Users come into being when somebody first asks for them:                 *)
(* GetOrCreateUser of internal/wallet/service.go, called by the GetAccounts  *)
(* handler and, up to concurrency at a time, by the goroutines of an admin   *)
(* Seed request, which then tops the new accounts up.                        *)
(*                                                                         *)
(* A caller is one goroutine.  CreateUser is one transaction: the INSERT     *)
(* into users takes the unique external_id, and whoever wants the same one   *)
(* waits until that transaction ends; the rest of it touches rows that only  *)
(* it can see.                                                              *)
(***************************************************************************)
EXTENDS Integers, FiniteSets

CONSTANTS
    Users,              \* external ids
    Viewed,             \* users whose own GetAccounts request comes in
    Viewer,             \* stands for the GetAccounts requests
    Seeds,              \* admin Seed requests, each for all the users
    concurrency,        \* goroutines of a Seed request at work; 10 in the code
    SignupBonusAmount,
    InitialBalance      \* initial_balance of the Seed requests

ASSUME WalletAssumption ==
    /\ Viewed \subseteq Users /\ Viewer \notin Seeds
    /\ concurrency \in Nat \ {0}
    /\ SignupBonusAmount \in Nat \ {0}
    /\ InitialBalance \in Nat

Callers == (Seeds \X Users) \cup ({Viewer} \X Viewed)

VARIABLES
    users,       \* committed rows of users
    balance,     \* the USD account of a user, 0 while there is none
    bonuses,     \* welcome bonus entries of a user
    pc,          \* the statement a caller runs next
    seen,        \* the balance it read last
    outcome,     \* "none", "ok", or "error"
    answered,    \* Seed requests that have been answered
    overlapped   \* history: users whom two seeds have both read before topping up

tables == <<users, balance, bonuses>>
vars == <<tables, pc, seen, outcome, answered, overlapped>>

Request(c) == c[1]
User(c) == c[2]
IsSeed(c) == Request(c) \in Seeds

Init ==
    /\ users = {}
    /\ balance = [u \in Users |-> 0]
    /\ bonuses = [u \in Users |-> 0]
    /\ pc = [c \in Callers |-> "start"]
    /\ seen = [c \in Callers |-> 0]
    /\ outcome = [c \in Callers |-> "none"]
    /\ answered = {}
    /\ overlapped = {}

Goto(c, l) == pc' = [pc EXCEPT ![c] = l]

(* A goroutine returns; its deferred functions give its place back.          *)
ReturnErrorKeepsPlace(c, o) ==
    /\ outcome' = [outcome EXCEPT ![c] = o]
    /\ Goto(c, IF o = "error" THEN "stuck" ELSE "done")

Return(c, o) ==
    /\ outcome' = [outcome EXCEPT ![c] = o]
    /\ Goto(c, "done")

(* sem: the places that the goroutines of a Seed request have taken. *)
Working(s) == {c \in Callers : Request(c) = s /\ pc[c] \notin {"start", "done"}}

Start(c) ==
    /\ pc[c] = "start"
    /\ IsSeed(c) => Cardinality(Working(Request(c))) < concurrency
    /\ Goto(c, "lookup")
    /\ UNCHANGED <<tables, seen, outcome, answered, overlapped>>

(* GetOrCreateUser: GetUserByExternalID, and CreateUser if there is no row.  *)
GetUserByExternalID(c) ==
    /\ pc[c] = "lookup"
    /\ Goto(c, IF User(c) \in users THEN "accounts" ELSE "insert")
    /\ UNCHANGED <<tables, seen, outcome, answered, overlapped>>

(* Another CreateUser has inserted the user and not yet ended. *)
Inserting(c) ==
    \E d \in Callers \ {c} : User(d) = User(c) /\ pc[d] = "bonus"

(* As an upsert, the way GetOrCreateAccount is written. *)
InsertUserUpserts(c) ==
    /\ pc[c] = "insert" /\ ~Inserting(c)
    /\ Goto(c, "bonus") /\ UNCHANGED outcome
    /\ UNCHANGED <<tables, seen, answered, overlapped>>

(* INSERT INTO users: waits for the one who is inserting the same user, and  *)
(* is refused if that one has committed.                                     *)
InsertUser(c) ==
    /\ pc[c] = "insert" /\ ~Inserting(c)
    /\ IF User(c) \in users
         THEN Return(c, "error")
         ELSE Goto(c, "bonus") /\ UNCHANGED outcome
    /\ UNCHANGED <<tables, seen, answered, overlapped>>

BonusLater(c) ==
    /\ pc[c] = "bonus"
    /\ users' = users \cup {User(c)}
    /\ \/ /\ User(c) \in users
          /\ balance' = [balance EXCEPT ![User(c)] = @ + SignupBonusAmount]
          /\ bonuses' = [bonuses EXCEPT ![User(c)] = @ + 1]
          /\ Goto(c, "accounts")
       \/ /\ User(c) \notin users
          /\ UNCHANGED <<balance, bonuses, pc>>
    /\ UNCHANGED <<seen, outcome, answered, overlapped>>

(* The rest of CreateUser: the USD account, the bonus with its DEPOSIT and    *)
(* CREDIT rows, and the commit, whose answer may be lost.                    *)
CreateUser(c) ==
    /\ pc[c] = "bonus"
    /\ users' = users \cup {User(c)}
    /\ balance' = [balance EXCEPT ![User(c)] = SignupBonusAmount]
    /\ bonuses' = [bonuses EXCEPT ![User(c)] = @ + 1]
    /\ \/ Goto(c, "accounts") /\ UNCHANGED outcome
       \/ Return(c, "error")
    /\ UNCHANGED <<seen, answered, overlapped>>

(* A statement fails, or its wait ends with lock_timeout: the deferred        *)
(* Rollback leaves no trace.                                                 *)
Fail(c) ==
    /\ pc[c] \in {"lookup", "insert", "bonus", "accounts", "topup"}
    /\ Return(c, "error")
    /\ UNCHANGED <<tables, seen, answered, overlapped>>

NeedsTopUp(c) == balance[User(c)] < InitialBalance

(* GetAccountsByUser.  The handler answers with what it reads; a seed tops    *)
(* the account up if it holds too little.                                    *)
GetAccountsByUser(c) ==
    /\ pc[c] = "accounts"
    /\ seen' = [seen EXCEPT ![c] = balance[User(c)]]
    /\ IF ~IsSeed(c)
         THEN Return(c, "ok")
         ELSE /\ Goto(c, IF NeedsTopUp(c) THEN "topup" ELSE "balance")
              /\ UNCHANGED outcome
    /\ overlapped' = overlapped \cup
          {u \in {User(c)} : IsSeed(c) /\ \E d \in Callers : User(d) = u /\ pc[d] = "topup"}
    /\ UNCHANGED <<tables, answered>>

TopUpInFull(c) == InitialBalance

TopUp(c) == InitialBalance - seen[c]

(* Deposit of the difference, at one instant; its answer may be lost.  The    *)
(* key made by SeedIdempotencyKey is not looked at.                          *)
Deposit(c) ==
    /\ pc[c] = "topup"
    /\ balance' = [balance EXCEPT ![User(c)] = @ + TopUp(c)]
    /\ \/ Goto(c, "balance") /\ UNCHANGED outcome
       \/ Return(c, "error")
    /\ UNCHANGED <<users, bonuses, seen, answered, overlapped>>

(* GetBalance, whose error is ignored: the balance is then reported as 0.    *)
GetBalance(c) ==
    /\ pc[c] = "balance"
    /\ seen' = [seen EXCEPT ![c] = balance[User(c)]] \/ seen' = [seen EXCEPT ![c] = 0]
    /\ Return(c, "ok")
    /\ UNCHANGED <<tables, answered, overlapped>>

(* When the last goroutine is done the channel is closed, and the loop over  *)
(* it ends with the answer.                                                  *)
Answer(s) ==
    /\ s \notin answered
    /\ \A c \in Callers : Request(c) = s => pc[c] = "done"
    /\ answered' = answered \cup {s}
    /\ UNCHANGED <<tables, pc, seen, outcome, overlapped>>

Step(c) ==
    \/ Start(c) \/ GetUserByExternalID(c) \/ InsertUser(c) \/ CreateUser(c)
    \/ GetAccountsByUser(c) \/ Deposit(c) \/ GetBalance(c)

Next ==
    \/ \E c \in Callers : Step(c) \/ Fail(c)
    \/ \E s \in Seeds : Answer(s)

(* Goroutines run; nothing needs to fail for a request to be answered. *)
Fairness ==
    /\ \A c \in Callers : WF_vars(Step(c))
    /\ \A s \in Seeds : WF_vars(Answer(s))

Spec == Init /\ [][Next]_vars /\ Fairness

-----------------------------------------------------------------------------
(* Type correctness. *)
TypeOK ==
    /\ users \subseteq Users
    /\ balance \in [Users -> Nat]
    /\ bonuses \in [Users -> Nat]
    /\ pc \in [Callers -> {"start", "lookup", "insert", "bonus", "accounts",
                           "topup", "balance", "done"}]
    /\ seen \in [Callers -> Nat]
    /\ outcome \in [Callers -> {"none", "ok", "error"}]
    /\ answered \subseteq Seeds
    /\ overlapped \subseteq Users

(* However many requests create a user at once, fail, or are told nothing,    *)
(* CreateUser pays every user that exists one welcome bonus, and nobody else. *)
OneBonusEach ==
    \A u \in Users : bonuses[u] = IF u \in users THEN 1 ELSE 0

(* What callers are told is true.  GetAccounts never shows an account before  *)
(* its bonus: GetOrCreateUser does not return a user whom another request has *)
(* half created.  And a user whom Seed reports has at least the initial       *)
(* balance (a failed GetBalance reports 0).                                  *)
AnswersAreTrue ==
    \A c \in Callers :
       outcome[c] = "ok" =>
          IF IsSeed(c)
            THEN /\ balance[User(c)] >= InitialBalance
                 /\ seen[c] = 0 \/ seen[c] >= InitialBalance
            ELSE seen[c] >= SignupBonusAmount

(* Repeating a Seed request does not pay again: more than initial_balance is  *)
(* only reached when two requests read the account before either has topped   *)
(* it up.                                                                    *)
OvershootNeedsOverlap ==
    \A u \in Users :
       balance[u] > InitialBalance /\ balance[u] > SignupBonusAmount => u \in overlapped

(* A Seed request is answered: no goroutine waits for ever for a place or     *)
(* for another one's insert, and none keeps its place when it returns.       *)
EverySeedAnswered == \A s \in Seeds : <>(s \in answered)
=============================================================================
