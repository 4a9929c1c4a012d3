-------------------------- MODULE LedgerBaseProofs --------------------------
(***************************************************************************)
(* What the proofs about the components that write ledger_entries share.     *)
(***************************************************************************)
EXTENDS LedgerBase, SumProofs

(* An entry that adds its amount to the balance continues the chain.         *)
LEMMA ChainAppend ==
    ASSUME NEW e \in Seq(Entry), NEW b \in Int, NEW x \in Entry,
           Chain(e, b), x.after = Signed(x) + b
    PROVE  Chain(Append(e, x), x.after)
<1> DEFINE f == Append(e, x)
<1>a. Len(e) \in Nat /\ f \in Seq(Entry) /\ Len(f) = Len(e) + 1
  OBVIOUS
<1>b. f[Len(e) + 1] = x /\ \A i \in 1 .. Len(e) : f[i] = e[i]
  BY <1>a
<1>c. f # << >>
  BY <1>a
<1>1. /\ f \in Seq(Entry) /\ Len(f) = Len(e) + 1 /\ f[Len(f)] = x /\ f # << >>
      /\ \A i \in 1 .. Len(e) : f[i] = e[i]
      /\ Len(e) \in Nat
  BY ONLY <1>a, <1>b, <1>c
<1>2. ASSUME NEW i \in 1 .. Len(f)
      PROVE  f[i].after = Signed(f[i]) + IF i = 1 THEN 0 ELSE f[i - 1].after
  <2>1. CASE i = Len(f) /\ e = << >>
    BY <1>1, <2>1 DEF Chain, Entry, Signed
  <2>2. CASE i = Len(f) /\ e # << >>
    <3>1. Len(e) \in 1 .. Len(e) /\ i # 1 /\ i - 1 = Len(e)
      BY <1>1, <2>2
    <3> QED BY <1>1, <2>2, <3>1 DEF Chain
  <2>3. CASE i # Len(f)
    <3>1. i \in 1 .. Len(e) /\ (i # 1 => i - 1 \in 1 .. Len(e))
      BY <1>1, <2>3
    <3> QED BY <1>1, <3>1 DEF Chain
  <2> QED BY <2>1, <2>2, <2>3
<1> QED BY <1>1, <1>2 DEF Chain

(* The welcome bonus is a chain of its own. *)
LEMMA OpeningChain ==
    ASSUME NEW a \in Accounts
    PROVE  OpeningEntries(a) \in Seq(Entry) /\ Chain(OpeningEntries(a), Opening[a])
<1>1. Opening[a] \in Nat
  BY AccountsAssumption DEF AccountsAssumption
<1>2. Credit(Opening[a], Opening[a], NoKey) \in Entry
  BY <1>1 DEF Credit, Entry
<1>3. CASE Opening[a] = 0
  BY <1>3 DEF OpeningEntries, Chain
<1>4. CASE Opening[a] # 0
  <2>1. OpeningEntries(a) = <<Credit(Opening[a], Opening[a], NoKey)>>
    BY <1>4 DEF OpeningEntries
  <2>2. Credit(Opening[a], Opening[a], NoKey).after = Signed(Credit(Opening[a], Opening[a], NoKey))
    BY DEF Credit, Signed
  <2> QED BY <1>1, <1>2, <2>1, <2>2 DEF Chain, Credit
<1> QED BY <1>3, <1>4

(* A bounded set of naturals has a greatest element: what waits in a cycle,   *)
(* and takes its locks in an order, has a last one.                          *)
LEMMA Greatest ==
    ASSUME NEW T, T \subseteq Nat, T # {}, NEW n \in Nat, \A a \in T : a <= n
    PROVE  \E m \in T : \A a \in T : a <= m
<1> DEFINE U == {n - a : a \in T}
           R == OpToRel(<, Nat)
<1>1. U \subseteq Nat /\ U # {}
  <2>1. \A a \in T : n - a \in Nat
    OBVIOUS
  <2> QED BY <2>1
<1>2. IsWellFoundedOn(R, Nat)
  BY NatLessThanWellFounded
<1> HIDE DEF R
<1>3. PICK x \in U : \A y \in U : <<y, x>> \notin R
  BY <1>1, <1>2, WFMin
<1>4. \A y \in U : ~(y < x)
  <2>1. \A y \in U : y < x => <<y, x>> \in R
    BY <1>1 DEF R, OpToRel
  <2> QED BY <1>3, <2>1
<1>5. PICK m \in T : x = n - m
  OBVIOUS
<1>6. \A a \in T : n - a \in U
  OBVIOUS
<1> HIDE DEF U
<1>7. ASSUME NEW a \in T PROVE a <= m
  <2>1. ~(n - a < n - m)
    BY <1>4, <1>5, <1>6
  <2> QED BY <2>1
<1> QED BY <1>7

(* The sum the discrepancy query computes, whatever order it reads the rows in. *)
LEMMA EntrySumTotal ==
    ASSUME NEW e \in Seq(Entry)
    PROVE  EntrySum(e) = Total([i \in 1 .. Len(e) |-> Signed(e[i])], 1 .. Len(e))
<1> DEFINE S == 1 .. Len(e)
           s == [i \in S |-> Signed(e[i])]
           ch(T) == CHOOSE x \in T : TRUE
           Step(G) == [T \in SUBSET S |->
                         IF T = {} THEN 0 ELSE G[T \ {ch(T)}] + Signed(e[ch(T)])]
           H == CHOOSE G : G = Step(G)
<1>1. EntrySum(e) = H[S]
  <2>1. DOMAIN e = S
    OBVIOUS
  <2>2. EntrySum(e) = (CHOOSE G : G = [T \in SUBSET DOMAIN e |->
                         IF T = {} THEN 0 ELSE G[T \ {ch(T)}] + Signed(e[ch(T)])])[DOMAIN e]
    BY DEF EntrySum, FoldSeq, FoldFunction, FoldFunctionOnSet, MapThenFoldSet
  <2> QED BY <2>1, <2>2
<1>2. IsFiniteSet(S) /\ \A i \in S : s[i] \in Int /\ s[i] = Signed(e[i])
  <2>1. \A i \in S : e[i] \in Entry
    OBVIOUS
  <2>2. \A i \in S : Signed(e[i]) \in Int
    BY <2>1 DEF Signed, Entry
  <2>3. IsFiniteSet(S)
    BY FS_Interval
  <2> QED BY <2>2, <2>3
<1>3. PICK F : Additive(F, s, S)
  <2> HIDE DEF s, S
  <2> QED BY <1>2, AdditiveExists
<1>4. ASSUME NEW T \in SUBSET S, T # {}
      PROVE  /\ ch(T) \in T
             /\ F[T] = F[T \ {ch(T)}] + Signed(e[ch(T)])
             /\ F[T \ {ch(T)}] \in Int
  <2>1. ch(T) \in T
    BY <1>4
  <2> HIDE DEF ch, s, S
  <2>2. /\ T = (T \ {ch(T)}) \cup {ch(T)} /\ T \ {ch(T)} \in SUBSET S
        /\ ch(T) \in S \ (T \ {ch(T)})
    BY <2>1
  <2>3. F[(T \ {ch(T)}) \cup {ch(T)}] = F[T \ {ch(T)}] + s[ch(T)]
    BY ONLY <1>3, <2>2 DEF Additive
  <2>4. F[T \ {ch(T)}] \in Int
    BY <1>3, <2>2 DEF Additive
  <2>5. F[T] = F[T \ {ch(T)}] + s[ch(T)]
    BY ONLY <2>2, <2>3
  <2>6. s[ch(T)] = Signed(e[ch(T)])
    BY <1>2, <2>2
  <2> QED BY ONLY <2>1, <2>4, <2>5, <2>6
<1>5. F = Step(F)
  <2>1. F = [T \in SUBSET S |-> F[T]] /\ F[{}] = 0
    BY <1>3 DEF Additive
  <2> QED BY ONLY <1>4, <2>1
<1>6. H = Step(H)
  BY ONLY <1>5
<1>7. OneByOne(H, s, S)
  <2> HIDE DEF H
  <2>1. H[{}] = 0
    BY <1>6
  <2>2. ASSUME NEW T \in SUBSET S, T # {}
        PROVE  H[T] = H[T \ {ch(T)}] + s[ch(T)]
    <3>1. H[T] = H[T \ {ch(T)}] + Signed(e[ch(T)])
      BY <1>6, <2>2
    <3>2. ch(T) \in S
      BY <1>4, <2>2
    <3> QED BY <1>2, <3>1, <3>2
  <2>3. \A T \in SUBSET S : T # {} => ch(T) \in T
    BY <1>4
  <2> HIDE DEF ch, s, S
  <2> QED BY <2>1, <2>2, <2>3 DEF OneByOne
<1>8. H[S] = F[S] /\ Total(s, S) = F[S]
  <2> HIDE DEF H, s, S
  <2> QED BY <1>2, <1>3, <1>7, AdditiveUnique, TotalSubset
<1> QED BY <1>1, <1>8

(* An account whose entries chain up to its balance passes the discrepancy     *)
(* query: the amounts are the differences of the balance_after column.        *)
LEMMA ChainSum ==
    ASSUME NEW e \in Seq(Entry), NEW b \in Int, Chain(e, b)
    PROVE  EntrySum(e) = b
<1> DEFINE n == Len(e)
           s == [i \in 1 .. n |-> Signed(e[i])]
           A == [i \in 0 .. n |-> IF i = 0 THEN 0 ELSE e[i].after]
<1>1. n \in Nat /\ \A i \in 1 .. n : e[i] \in Entry
  OBVIOUS
<1>2. \A i \in 0 .. n : A[i] \in Int
  BY <1>1 DEF Entry
<1>3. \A i \in 1 .. n : s[i] = A[i] - A[i - 1]
  <2>1. ASSUME NEW i \in 1 .. n PROVE s[i] = A[i] - A[i - 1]
    <3>1. e[i].after = Signed(e[i]) + IF i = 1 THEN 0 ELSE e[i - 1].after
      BY DEF Chain
    <3>2. Signed(e[i]) \in Int
      BY <1>1 DEF Signed, Entry
    <3>3. i \in 0 .. n /\ i - 1 \in 0 .. n /\ i # 0 /\ (i - 1 = 0 <=> i = 1)
      BY <1>1
    <3>4. A[i] = e[i].after /\ A[i - 1] = IF i = 1 THEN 0 ELSE e[i - 1].after
      BY <3>3
    <3>5. s[i] = Signed(e[i])
      OBVIOUS
    <3>6. A[i] = s[i] + A[i - 1]
      BY ONLY <3>1, <3>4, <3>5
    <3>7. A[i - 1] \in Int
      BY <1>2, <3>3
    <3> QED BY ONLY <3>2, <3>5, <3>6, <3>7
  <2> QED BY <2>1
<1>4. Total(s, 1 .. n) = A[n]
  <2>1. A[0] = 0
    BY <1>1
  <2> HIDE DEF s, A, n
  <2> QED BY <1>1, <1>2, <1>3, <2>1, Telescope
<1>5. A[n] = b
  <2>1. CASE e = << >>
    BY <2>1 DEF Chain
  <2>2. CASE e # << >>
    <3>1. n # 0 /\ n \in 0 .. n
      BY <1>1, <2>2
    <3> QED BY <2>2, <3>1 DEF Chain
  <2> QED BY <2>1, <2>2
<1> QED BY <1>4, <1>5, EntrySumTotal
=============================================================================
