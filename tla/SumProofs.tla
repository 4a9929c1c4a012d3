------------------------------ MODULE SumProofs ------------------------------
(***************************************************************************)
(* Sums of integers over finite sets, for every set and every function.      *)
(*                                                                         *)
(* The specifications add up rows with the folds of the community modules,   *)
(* which are recursive functions on the subsets of a set that choose one      *)
(* element after the other.  Total is that sum without the choice.  Each      *)
(* induction is the argument of the minimal counterexample: of the finite    *)
(* subsets for which a claim fails, one is smallest.  At the end, what is true *)
(* of remainders.                                                            *)
(***************************************************************************)
EXTENDS Integers, SequencesExt, FiniteSetTheorems, WellFoundedInduction, TLAPS

(* F gives every subset of S the sum of f over it. *)
Additive(F, f, S) ==
    /\ F \in [SUBSET S -> Int]
    /\ F[{}] = 0
    /\ \A T \in SUBSET S : \A x \in S \ T : F[T \cup {x}] = F[T] + f[x]

(* G is computed by taking one element of a set after the other. *)
OneByOne(G, f, S) ==
    /\ G[{}] = 0
    /\ \A T \in SUBSET S : T # {} =>
          \E x \in T : G[T \ {x}] \in Int => G[T] = G[T \ {x}] + f[x]

Total(f, S) == (CHOOSE F : Additive(F, f, S))[S]

(* What fails for a subset of a finite set fails for a smallest one. *)
LEMMA MinimalSubset ==
    ASSUME NEW S, IsFiniteSet(S), NEW B \in SUBSET SUBSET S, B # {}
    PROVE  \E T \in B : \A U \in B : U \subseteq T => U = T
<1> DEFINE R == StrictSubsetOrdering(S)
<1>1. B \subseteq FiniteSubsetsOf(S)
  BY FS_Subset DEF FiniteSubsetsOf
<1>2. IsWellFoundedOn(R, FiniteSubsetsOf(S))
  BY FS_StrictSubsetOrderingWellFounded
<1>3. \A T, U \in SUBSET S : U \subseteq T /\ U # T => <<U, T>> \in R
  BY DEF StrictSubsetOrdering
<1> HIDE DEF R
<1>4. PICK T \in B : \A U \in B : ~(<<U, T>> \in R)
  BY <1>1, <1>2, WFMin
<1> QED BY <1>3, <1>4

(* Every function to the integers can be added up over a finite set: the sum *)
(* over the subsets with x is the sum without it, plus f[x].                 *)
LEMMA AdditiveExists ==
    ASSUME NEW S, IsFiniteSet(S), NEW f, \A x \in S : f[x] \in Int
    PROVE  \E F : Additive(F, f, S)
<1> DEFINE B == {T \in SUBSET S : ~ \E F : Additive(F, f, T)}
<1>1. SUFFICES ASSUME B # {} PROVE FALSE
  BY <1>1
<1>2. B \in SUBSET SUBSET S
  OBVIOUS
<1>3. PICK T \in B : \A U \in B : U \subseteq T => U = T
  <2> HIDE DEF B
  <2> QED BY <1>1, <1>2, MinimalSubset
<1>4. CASE T = {}
  <2>1. Additive([U \in SUBSET {} |-> 0], f, {})
    BY DEF Additive
  <2> QED BY <1>3, <1>4, <2>1
<1>5. CASE T # {}
  <2>1. PICK x \in T : TRUE
    BY <1>5
  <2>2. T \ {x} \in SUBSET S /\ T \ {x} \notin B
    BY <1>3, <2>1
  <2>3. PICK F : Additive(F, f, T \ {x})
    BY <2>2
  <2> DEFINE G == [U \in SUBSET T |-> IF x \in U THEN F[U \ {x}] + f[x] ELSE F[U]]
  <2>4. \A U \in SUBSET T : U \ {x} \in SUBSET (T \ {x}) /\ (x \notin U => U = U \ {x})
    OBVIOUS
  <2>5. f[x] \in Int /\ F \in [SUBSET (T \ {x}) -> Int]
    BY <2>3 DEF Additive
  <2>6. G \in [SUBSET T -> Int]
    BY <2>4, <2>5
  <2>7. G[{}] = 0
    BY <2>3 DEF Additive
  <2>8. ASSUME NEW U \in SUBSET T, NEW y \in T \ U
        PROVE  G[U \cup {y}] = G[U] + f[y]
    <3>1. f[y] \in Int /\ U \cup {y} \in SUBSET T
      BY <1>3
    <3>2. CASE y = x
      <4>1. (U \cup {y}) \ {x} = U /\ x \in U \cup {y} /\ x \notin U
        BY <3>2
      <4> QED BY <3>1, <3>2, <4>1
    <3>3. CASE y # x /\ x \in U
      <4>1. /\ (U \cup {y}) \ {x} = (U \ {x}) \cup {y}
            /\ y \in (T \ {x}) \ (U \ {x}) /\ U \ {x} \in SUBSET (T \ {x})
        BY <3>3
      <4>2. F[(U \ {x}) \cup {y}] = F[U \ {x}] + f[y]
        BY <2>3, <4>1 DEF Additive
      <4>3. F[U \ {x}] \in Int
        BY <2>5, <4>1
      <4>4. G[U \cup {y}] = F[(U \ {x}) \cup {y}] + f[x] /\ G[U] = F[U \ {x}] + f[x]
        BY <3>1, <3>3, <4>1
      <4> QED BY <2>5, <3>1, <4>2, <4>3, <4>4
    <3>4. CASE y # x /\ x \notin U
      <4>1. y \in (T \ {x}) \ U /\ U \in SUBSET (T \ {x}) /\ x \notin U \cup {y}
        BY <3>4
      <4>2. F[U \cup {y}] = F[U] + f[y]
        BY <2>3, <4>1 DEF Additive
      <4> QED BY <3>1, <3>4, <4>1, <4>2
    <3> QED BY <3>2, <3>3, <3>4
  <2>9. Additive(G, f, T)
    BY <2>6, <2>7, <2>8 DEF Additive
  <2> QED BY <1>3, <2>9
<1> QED BY <1>4, <1>5

(* Whatever takes one element after the other computes the same sums.        *)
LEMMA AdditiveUnique ==
    ASSUME NEW S, IsFiniteSet(S), NEW f, \A x \in S : f[x] \in Int,
           NEW F, Additive(F, f, S), NEW G, OneByOne(G, f, S)
    PROVE  \A T \in SUBSET S : G[T] = F[T]
<1> DEFINE B == {T \in SUBSET S : G[T] # F[T]}
<1>1. SUFFICES ASSUME B # {} PROVE FALSE
  BY <1>1
<1>2. B \in SUBSET SUBSET S
  OBVIOUS
<1>3. PICK T \in B : \A U \in B : U \subseteq T => U = T
  <2> HIDE DEF B
  <2> QED BY <1>1, <1>2, MinimalSubset
<1>4. T # {}
  BY <1>3 DEF Additive, OneByOne
<1>5. PICK x \in T : G[T \ {x}] \in Int => G[T] = G[T \ {x}] + f[x]
  BY <1>3, <1>4 DEF OneByOne
<1>6. G[T \ {x}] = F[T \ {x}]
  BY <1>3, <1>5
<1>7. F[T] = F[T \ {x}] + f[x]
  <2>1. T = (T \ {x}) \cup {x} /\ T \ {x} \in SUBSET S /\ x \in S \ (T \ {x})
    BY <1>3, <1>5
  <2>2. F[(T \ {x}) \cup {x}] = F[T \ {x}] + f[x]
    BY ONLY <2>1, Additive(F, f, S) DEF Additive
  <2> QED BY <2>1, <2>2
<1>8. F[T \ {x}] \in Int /\ f[x] \in Int
  BY <1>5 DEF Additive
<1> QED BY <1>3, <1>5, <1>6, <1>7, <1>8

(* The sum over no element, and the sum over one element more. *)
LEMMA TotalEmpty == ASSUME NEW f PROVE Total(f, {}) = 0
<1>1. \E F : Additive(F, f, {})
  BY AdditiveExists, FS_EmptySet
<1> QED BY <1>1 DEF Total, Additive

LEMMA TotalSubset ==
    ASSUME NEW S, IsFiniteSet(S), NEW f, \A x \in S : f[x] \in Int,
           NEW F, Additive(F, f, S), NEW T \in SUBSET S
    PROVE  Total(f, T) = F[T]
<1> DEFINE H == CHOOSE G : Additive(G, f, T)
<1>1. IsFiniteSet(T) /\ \A x \in T : f[x] \in Int
  BY FS_Subset
<1>2. Additive(H, f, T)
  BY <1>1, AdditiveExists
<1>3. F[{}] = 0
  BY DEF Additive
<1>4. ASSUME NEW U \in SUBSET T, U # {} PROVE \E x \in U : F[U] = F[U \ {x}] + f[x]
  <2>1. PICK x \in U : TRUE
    BY <1>4
  <2>2. U = (U \ {x}) \cup {x} /\ U \ {x} \in SUBSET S /\ x \in S \ (U \ {x})
    BY <2>1
  <2>3. F[U] = F[U \ {x}] + f[x] /\ F[U \ {x}] \in Int /\ f[x] \in Int
    BY <2>2 DEF Additive
  <2> QED BY <2>1, <2>3
<1> HIDE DEF H
<1>5. \A U \in SUBSET T : F[U] = H[U]
  <2>1. OneByOne(F, f, T)
    BY <1>3, <1>4 DEF OneByOne
  <2> QED BY <1>1, <1>2, <2>1, AdditiveUnique
<1>6. F[T] = H[T]
  BY <1>5
<1> QED BY <1>6 DEF Total, H

LEMMA TotalType ==
    ASSUME NEW S, IsFiniteSet(S), NEW f, \A x \in S : f[x] \in Int
    PROVE  Total(f, S) \in Int
<1>1. PICK F : Additive(F, f, S)
  BY AdditiveExists
<1>2. Total(f, S) = F[S]
  BY <1>1, TotalSubset
<1> QED BY <1>1, <1>2 DEF Additive

LEMMA TotalAdd ==
    ASSUME NEW S, IsFiniteSet(S), NEW f, NEW x, x \notin S,
           \A y \in S \cup {x} : f[y] \in Int
    PROVE  Total(f, S \cup {x}) = Total(f, S) + f[x]
<1>1. IsFiniteSet(S \cup {x})
  BY FS_AddElement
<1>2. PICK F : Additive(F, f, S \cup {x})
  BY <1>1, AdditiveExists
<1>3. Total(f, S) = F[S] /\ Total(f, S \cup {x}) = F[S \cup {x}]
  BY <1>1, <1>2, TotalSubset
<1> QED BY <1>2, <1>3 DEF Additive

LEMMA TotalRemove ==
    ASSUME NEW S, IsFiniteSet(S), NEW f, NEW x \in S, \A y \in S : f[y] \in Int
    PROVE  Total(f, S) = Total(f, S \ {x}) + f[x]
<1>1. IsFiniteSet(S \ {x}) /\ (S \ {x}) \cup {x} = S /\ x \notin S \ {x}
  BY FS_RemoveElement
<1> QED BY <1>1, TotalAdd

(* The sum depends on the values of f on the set only. *)
LEMMA TotalAgree ==
    ASSUME NEW S, IsFiniteSet(S), NEW f, NEW g, \A x \in S : f[x] \in Int /\ f[x] = g[x]
    PROVE  Total(f, S) = Total(g, S)
<1>1. PICK F : Additive(F, f, S)
  BY AdditiveExists
<1>2. Additive(F, g, S)
  BY <1>1 DEF Additive
<1>3. \A x \in S : g[x] \in Int
  OBVIOUS
<1> QED BY <1>1, <1>2, <1>3, TotalSubset

(* A claim about sums holds for every subset of S when it holds for no        *)
(* element and for one element more: the smallest set without it, less one.  *)
LEMMA OneLess ==
    ASSUME NEW S, IsFiniteSet(S), NEW B \in SUBSET SUBSET S, B # {}, {} \notin B
    PROVE  \E T \in B : \E x \in T : T \ {x} \in (SUBSET S) \ B
<1>1. PICK T \in B : \A U \in B : U \subseteq T => U = T
  BY MinimalSubset
<1>2. PICK x \in T : TRUE
  OBVIOUS
<1> QED BY <1>1, <1>2

(* No term is greater: nor is the sum. *)
LEMMA TotalMonotone ==
    ASSUME NEW S, IsFiniteSet(S), NEW f, NEW g,
           \A x \in S : f[x] \in Int /\ g[x] \in Int /\ f[x] <= g[x]
    PROVE  Total(f, S) <= Total(g, S)
<1> DEFINE B == {T \in SUBSET S : ~(Total(f, T) <= Total(g, T))}
<1>1. SUFFICES ASSUME B # {} PROVE FALSE
  BY <1>1
<1>2. {} \notin B
  BY TotalEmpty
<1>0. PICK T \in B : \E x \in T : T \ {x} \in (SUBSET S) \ B
  <2>1. B \in SUBSET SUBSET S
    OBVIOUS
  <2> HIDE DEF B
  <2> QED BY <1>1, <1>2, <2>1, OneLess
<1>3. PICK x \in T : T \ {x} \in (SUBSET S) \ B
  BY <1>0
<1>4. IsFiniteSet(T) /\ IsFiniteSet(T \ {x}) /\ x \in S
  BY FS_Subset, <1>3
<1>5. Total(f, T) = Total(f, T \ {x}) + f[x] /\ Total(g, T) = Total(g, T \ {x}) + g[x]
  BY <1>4, TotalRemove
<1>6. Total(f, T \ {x}) \in Int /\ Total(g, T \ {x}) \in Int
  BY <1>4, TotalType
<1>7. Total(f, T \ {x}) <= Total(g, T \ {x})
  BY <1>3
<1>8. Total(f, T) <= Total(g, T)
  BY <1>4, <1>5, <1>6, <1>7
<1> QED BY <1>3, <1>8

(* The sum of differences is the difference of the sums. *)
LEMMA TotalMinus ==
    ASSUME NEW S, IsFiniteSet(S), NEW f, NEW g, NEW h,
           \A x \in S : f[x] \in Int /\ g[x] \in Int /\ h[x] = f[x] - g[x]
    PROVE  Total(h, S) = Total(f, S) - Total(g, S)
<1> DEFINE B == {T \in SUBSET S : Total(h, T) # Total(f, T) - Total(g, T)}
<1>1. SUFFICES ASSUME B # {} PROVE FALSE
  BY <1>1
<1>2. {} \notin B
  BY TotalEmpty
<1>0. PICK T \in B : \E x \in T : T \ {x} \in (SUBSET S) \ B
  <2>1. B \in SUBSET SUBSET S
    OBVIOUS
  <2> HIDE DEF B
  <2> QED BY <1>1, <1>2, <2>1, OneLess
<1>3. PICK x \in T : T \ {x} \in (SUBSET S) \ B
  BY <1>0
<1>4. IsFiniteSet(T) /\ IsFiniteSet(T \ {x}) /\ x \in S /\ \A y \in S : h[y] \in Int
  BY FS_Subset, <1>3
<1>5. /\ Total(f, T) = Total(f, T \ {x}) + f[x]
      /\ Total(g, T) = Total(g, T \ {x}) + g[x]
      /\ Total(h, T) = Total(h, T \ {x}) + h[x]
  BY <1>4, TotalRemove
<1>6. /\ Total(f, T \ {x}) \in Int /\ Total(g, T \ {x}) \in Int
      /\ Total(h, T \ {x}) \in Int
  BY <1>4, TotalType
<1>7. Total(h, T \ {x}) = Total(f, T \ {x}) - Total(g, T \ {x})
  BY <1>3
<1>8. Total(h, T) = Total(f, T) - Total(g, T)
  BY <1>4, <1>5, <1>6, <1>7
<1> QED BY <1>3, <1>8

(* Terms that are zero may be left out. *)
LEMMA TotalSupport ==
    ASSUME NEW S, IsFiniteSet(S), NEW f, NEW A \in SUBSET S,
           \A x \in A : f[x] \in Int, \A x \in S \ A : f[x] = 0
    PROVE  Total(f, S) = Total(f, A)
<1> DEFINE B == {T \in SUBSET S : Total(f, T) # Total(f, T \cap A)}
<1>1. SUFFICES ASSUME B # {} PROVE FALSE
  <2>1. S \cap A = A
    OBVIOUS
  <2> QED BY <1>1, <2>1
<1>2. {} \notin B
  BY TotalEmpty
<1>0. PICK T \in B : \E x \in T : T \ {x} \in (SUBSET S) \ B
  <2>1. B \in SUBSET SUBSET S
    OBVIOUS
  <2> HIDE DEF B
  <2> QED BY <1>1, <1>2, <2>1, OneLess
<1>3. PICK x \in T : T \ {x} \in (SUBSET S) \ B
  BY <1>0
<1>4. IsFiniteSet(T) /\ IsFiniteSet(T \cap A) /\ x \in S /\ \A y \in S : f[y] \in Int
  <2>1. T \cap A \in SUBSET S
    OBVIOUS
  <2> QED BY FS_Subset, <1>3, <2>1
<1>5. Total(f, T) = Total(f, T \ {x}) + f[x]
  BY <1>4, TotalRemove
<1>6. Total(f, T \ {x}) = Total(f, (T \ {x}) \cap A)
  BY <1>3
<1>7. CASE x \in A
  <2>1. (T \ {x}) \cap A = (T \cap A) \ {x} /\ x \in T \cap A
    BY <1>7
  <2>2. Total(f, T \cap A) = Total(f, (T \cap A) \ {x}) + f[x]
    BY <1>4, <2>1, TotalRemove
  <2>3. Total(f, T) = Total(f, T \cap A)
    BY ONLY <1>5, <1>6, <2>1, <2>2
  <2> QED BY <1>0, <2>3
<1>8. CASE x \notin A
  <2>1. (T \ {x}) \cap A = T \cap A /\ f[x] = 0
    BY <1>4, <1>8
  <2>2. Total(f, T \cap A) \in Int
    BY <1>4, TotalType
  <2>3. Total(f, T) = Total(f, T \cap A)
    BY ONLY <1>5, <1>6, <2>1, <2>2
  <2> QED BY <1>0, <2>3
<1> QED BY <1>7, <1>8

(* Zeros add up to zero. *)
LEMMA TotalZero ==
    ASSUME NEW S, IsFiniteSet(S), NEW f, \A x \in S : f[x] = 0
    PROVE  Total(f, S) = 0
<1>1. {} \in SUBSET S
  OBVIOUS
<1> QED BY <1>1, TotalSupport, TotalEmpty

(* Equal terms. *)
LEMMA TotalEqual ==
    ASSUME NEW S, IsFiniteSet(S), NEW f, NEW c \in Int, \A x \in S : f[x] = c
    PROVE  Total(f, S) = c * Cardinality(S)
<1> DEFINE B == {T \in SUBSET S : Total(f, T) # c * Cardinality(T)}
<1>1. SUFFICES ASSUME B # {} PROVE FALSE
  <2>1. S \notin B
    BY <1>1
  <2> QED BY <2>1
<1>2. {} \notin B
  BY TotalEmpty, FS_EmptySet
<1>3. PICK T \in B : \E x \in T : T \ {x} \in (SUBSET S) \ B
  <2>1. B \in SUBSET SUBSET S
    OBVIOUS
  <2> HIDE DEF B
  <2> QED BY <1>1, <1>2, <2>1, OneLess
<1>4. PICK x \in T : T \ {x} \in (SUBSET S) \ B
  BY <1>3
<1>5. IsFiniteSet(T) /\ x \in S /\ \A y \in T : f[y] \in Int
  BY FS_Subset, <1>4
<1>6. Total(f, T) = Total(f, T \ {x}) + c
  BY <1>5, TotalRemove
<1>7. Cardinality(T) \in Nat /\ Cardinality(T \ {x}) = Cardinality(T) - 1
  BY <1>5, FS_RemoveElement, FS_CardinalityType
<1>8. Total(f, T \ {x}) = c * (Cardinality(T) - 1)
  BY <1>4, <1>7
<1>9. \A n \in Nat : c * (n - 1) + c = c * n
  OBVIOUS
<1> QED BY <1>3, <1>6, <1>7, <1>8, <1>9

(* One term changes: the sum changes by as much. *)
LEMMA TotalPoint ==
    ASSUME NEW S, IsFiniteSet(S), NEW f, NEW g, NEW x \in S,
           \A y \in S : f[y] \in Int /\ g[y] \in Int,
           \A y \in S \ {x} : f[y] = g[y]
    PROVE  Total(g, S) = Total(f, S) + g[x] - f[x]
<1>1. IsFiniteSet(S \ {x})
  BY FS_RemoveElement
<1>2. Total(f, S) = Total(f, S \ {x}) + f[x] /\ Total(g, S) = Total(g, S \ {x}) + g[x]
  BY TotalRemove
<1>3. Total(f, S \ {x}) = Total(g, S \ {x}) /\ Total(f, S \ {x}) \in Int
  BY <1>1, TotalAgree, TotalType
<1> QED BY <1>2, <1>3

-----------------------------------------------------------------------------
(* The folds of the community modules. *)

Folded(G, f, S) ==
    G = [T \in SUBSET S |->
            IF T = {} THEN 0
            ELSE f[CHOOSE x \in T : TRUE] + G[T \ {CHOOSE x \in T : TRUE}]]

LEMMA FoldedSum ==
    ASSUME NEW S, IsFiniteSet(S), NEW f, \A x \in S : f[x] \in Int
    PROVE  /\ \E F : Folded(F, f, S)
           /\ \A H : Folded(H, f, S) => H[S] = Total(f, S)
<1> DEFINE ch(T) == CHOOSE x \in T : TRUE
<1>1. PICK F : Additive(F, f, S)
  BY AdditiveExists
<1>2. \A T \in SUBSET S : T # {} => ch(T) \in T
  OBVIOUS
<1>3. ASSUME NEW T \in SUBSET S, T # {} PROVE F[T] = f[ch(T)] + F[T \ {ch(T)}]
  <2>1. /\ T = (T \ {ch(T)}) \cup {ch(T)} /\ T \ {ch(T)} \in SUBSET S
        /\ ch(T) \in S \ (T \ {ch(T)})
    BY <1>2, <1>3
  <2> HIDE DEF ch
  <2>2. F[(T \ {ch(T)}) \cup {ch(T)}] = F[T \ {ch(T)}] + f[ch(T)]
    BY ONLY <1>1, <2>1 DEF Additive
  <2>3. F[T \ {ch(T)}] \in Int /\ f[ch(T)] \in Int
    BY <1>1, <2>1 DEF Additive
  <2>4. F[T] = F[T \ {ch(T)}] + f[ch(T)]
    BY ONLY <2>1, <2>2
  <2> QED BY ONLY <2>3, <2>4
<1>4. Folded(F, f, S)
  <2>1. F = [T \in SUBSET S |-> F[T]] /\ F[{}] = 0
    BY <1>1 DEF Additive
  <2> QED BY <1>3, <2>1 DEF Folded
<1>5. ASSUME NEW H, Folded(H, f, S) PROVE H[S] = Total(f, S)
  <2>1. OneByOne(H, f, S)
    <3>1. H[{}] = 0
      BY <1>5 DEF Folded
    <3>2. \A T \in SUBSET S : T # {} => H[T] = f[ch(T)] + H[T \ {ch(T)}]
      BY <1>5 DEF Folded
    <3> HIDE DEF ch
    <3>3. \A T \in SUBSET S : T # {} => f[ch(T)] \in Int
      BY <1>2
    <3>4. ASSUME NEW T \in SUBSET S, T # {}, H[T \ {ch(T)}] \in Int
          PROVE  H[T] = H[T \ {ch(T)}] + f[ch(T)]
      <4>1. H[T] = f[ch(T)] + H[T \ {ch(T)}] /\ f[ch(T)] \in Int
        BY <3>2, <3>3, <3>4
      <4> QED BY ONLY <3>4, <4>1
    <3> QED BY <1>2, <3>1, <3>4 DEF OneByOne
  <2>2. H[S] = F[S] /\ Total(f, S) = F[S]
    BY <1>1, <2>1, AdditiveUnique, TotalSubset
  <2> QED BY <2>2
<1> QED BY <1>4, <1>5

LEMMA FoldedTotal ==
    ASSUME NEW S, IsFiniteSet(S), NEW f, \A x \in S : f[x] \in Int
    PROVE  (CHOOSE G : Folded(G, f, S))[S] = Total(f, S)
<1>1. Folded(CHOOSE G : Folded(G, f, S), f, S)
  <2>1. \E F : Folded(F, f, S)
    BY FoldedSum
  <2> QED BY <2>1
<1> QED BY <1>1, FoldedSum

(* MapThenSumSet and FoldSet. *)
LEMMA SumSetTotal ==
    ASSUME NEW S, IsFiniteSet(S), NEW f, \A x \in S : f[x] \in Int
    PROVE  MapThenSumSet(LAMBDA x : f[x], S) = Total(f, S)
<1>1. MapThenSumSet(LAMBDA x : f[x], S) = (CHOOSE G : Folded(G, f, S))[S]
  BY DEF MapThenSumSet, MapThenFoldSet, Folded
<1> QED BY <1>1, FoldedTotal

LEMMA FoldSetTotal ==
    ASSUME NEW S, IsFiniteSet(S), NEW f, \A x \in S : f[x] \in Int
    PROVE  FoldSet(LAMBDA x, s : f[x] + s, 0, S) = Total(f, S)
<1>1. FoldSet(LAMBDA x, s : f[x] + s, 0, S) = (CHOOSE G : Folded(G, f, S))[S]
  BY DEF FoldSet, MapThenFoldSet, Folded
<1> QED BY <1>1, FoldedTotal

(* A set of naturals has a least element: the first counterexample of a claim *)
(* about sequences.                                                          *)
LEMMA LeastExists ==
    ASSUME NEW T, T \subseteq Nat, T # {}
    PROVE  \E m \in T : \A a \in T : m <= a
<1> DEFINE R == OpToRel(<, Nat)
<1>1. IsWellFoundedOn(R, Nat)
  BY NatLessThanWellFounded
<1>2. \A a, b \in T : a < b => <<a, b>> \in R
  BY DEF OpToRel
<1> HIDE DEF R
<1>3. PICK m \in T : \A a \in T : <<a, m>> \notin R
  BY <1>1, WFMin
<1>4. ASSUME NEW a \in T PROVE m <= a
  <2>1. ~(a < m)
    BY <1>2, <1>3
  <2>2. a \in Nat /\ m \in Nat
    OBVIOUS
  <2> QED BY ONLY <2>1, <2>2
<1> QED BY <1>4

(* The differences of a sequence that starts at zero add up to its last term. *)
LEMMA Telescope ==
    ASSUME NEW n \in Nat, NEW f, NEW A, \A i \in 0 .. n : A[i] \in Int, A[0] = 0,
           \A i \in 1 .. n : f[i] = A[i] - A[i - 1]
    PROVE  Total(f, 1 .. n) = A[n]
<1> DEFINE B == {i \in 0 .. n : Total(f, 1 .. i) # A[i]}
<1>1. SUFFICES ASSUME B # {} PROVE FALSE
  BY <1>1
<1>2. PICK m \in B : \A a \in B : m <= a
  <2>1. B \subseteq Nat
    OBVIOUS
  <2> HIDE DEF B
  <2> QED BY <1>1, <2>1, LeastExists
<1>3. m # 0
  <2>1. 1 .. 0 = {}
    OBVIOUS
  <2> QED BY <1>2, <2>1, TotalEmpty
<1>4. m - 1 \in 0 .. n /\ m - 1 \notin B /\ m \in 1 .. n
  BY <1>2, <1>3
<1>5. Total(f, 1 .. (m - 1)) = A[m - 1]
  BY <1>4
<1>6. \A i \in 1 .. n : f[i] \in Int
  <2>1. \A i \in 1 .. n : i \in 0 .. n /\ i - 1 \in 0 .. n
    OBVIOUS
  <2> QED BY <2>1
<1>7. Total(f, 1 .. m) = Total(f, 1 .. (m - 1)) + f[m]
  <2> DEFINE D == 1 .. m
  <2>1. D \ {m} = 1 .. (m - 1) /\ m \in D /\ \A i \in D : i \in 1 .. n
    BY <1>4
  <2>2. IsFiniteSet(D)
    BY <1>4, FS_Interval
  <2>3. \A i \in D : f[i] \in Int
    BY <1>6, <2>1
  <2>4. Total(f, D) = Total(f, D \ {m}) + f[m]
    <3> HIDE DEF D
    <3> QED BY <2>1, <2>2, <2>3, TotalRemove
  <2> QED BY <2>1, <2>4
<1>8. Total(f, 1 .. m) = A[m]
  <2>1. A[m - 1] \in Int /\ A[m] \in Int /\ f[m] = A[m] - A[m - 1]
    BY <1>4
  <2> QED BY <1>5, <1>7, <2>1
<1> QED BY <1>2, <1>8

(* Induction over 0 .. n, for a set that has the numbers for which a claim     *)
(* holds.                                                                    *)
LEMMA Climb ==
    ASSUME NEW n \in Nat, NEW T, 0 \in T, \A m \in 0 .. n - 1 : m \in T => m + 1 \in T
    PROVE  \A m \in 0 .. n : m \in T
<1> DEFINE U == {m \in 0 .. n : m \notin T}
<1>1. SUFFICES ASSUME U # {} PROVE FALSE
  OBVIOUS
<1>2. PICK m \in U : \A a \in U : m <= a
  <2> U \subseteq Nat
    OBVIOUS
  <2> QED BY <1>1, LeastExists
<1>3. m \in 1 .. n
  BY <1>2
<1>4. m - 1 \in T
  BY <1>2, <1>3
<1>5. (m - 1) + 1 = m /\ m - 1 \in 0 .. n - 1
  BY <1>3
<1> QED BY <1>2, <1>4, <1>5

-----------------------------------------------------------------------------
LEMMA Product ==
    ASSUME NEW m \in Nat, NEW x \in Int, NEW y \in Int, x <= y
    PROVE  m * x \in Int /\ m * x <= m * y
OBVIOUS

(* Division and its remainder.                                              *)
LEMMA DivMod ==
    ASSUME NEW n \in Int, NEW d \in Nat \ {0}
    PROVE  /\ n \div d \in Int /\ n % d \in 0 .. d - 1
           /\ n = d * (n \div d) + (n % d)
OBVIOUS

LEMMA Unique ==
    ASSUME NEW d \in Nat \ {0}, NEW q \in Int, NEW k \in Int, NEW r \in 0 .. d - 1,
           NEW s \in 0 .. d - 1, d * q + r = d * k + s
    PROVE  q = k /\ r = s
<1>1. CASE q < k
  <2>1. d * q <= d * (k - 1) /\ d * q \in Int /\ d * k \in Int
    BY <1>1, Product
  <2>2. d * (k - 1) = d * k - d
    OBVIOUS
  <2> QED BY <2>1, <2>2
<1>2. CASE k < q
  <2>1. d * k <= d * (q - 1) /\ d * q \in Int /\ d * k \in Int
    BY <1>2, Product
  <2>2. d * (q - 1) = d * q - d
    OBVIOUS
  <2> QED BY <2>1, <2>2
<1> QED BY <1>1, <1>2

LEMMA ModStep ==
    ASSUME NEW n \in Int, NEW d \in Nat \ {0}
    PROVE  (n + 1) % d = IF n % d = d - 1 THEN 0 ELSE (n % d) + 1
<1> DEFINE q == n \div d
           r == n % d
           k == (n + 1) \div d
           s == (n + 1) % d
<1>1. /\ q \in Int /\ r \in 0 .. d - 1 /\ n = d * q + r
      /\ k \in Int /\ s \in 0 .. d - 1 /\ n + 1 = d * k + s
  <2>1. PICK m \in Int : m = n + 1
    OBVIOUS
  <2>2. m \div d \in Int /\ m % d \in 0 .. d - 1 /\ m = d * (m \div d) + (m % d)
    BY DivMod
  <2> QED BY <2>1, <2>2, DivMod
<1> HIDE DEF q, r, k, s
<1>2. CASE r = d - 1
  <2>1. d * (q + 1) + 0 = d * k + s
    <3>1. d * (q + 1) = d * q + d /\ d * q \in Int
      BY <1>1
    <3> QED BY <1>1, <1>2, <3>1
  <2>2. q + 1 \in Int /\ 0 \in 0 .. d - 1
    BY <1>1
  <2>3. s = 0
    BY <1>1, <2>1, <2>2, Unique
  <2> QED BY <1>2, <2>3 DEF r, s
<1>3. CASE r # d - 1
  <2>1. d * q + (r + 1) = d * k + s
    BY <1>1
  <2>2. r + 1 \in 0 .. d - 1
    BY <1>1, <1>3
  <2>3. s = r + 1
    BY <1>1, <2>1, <2>2, Unique
  <2> QED BY <1>3, <2>3 DEF r, s
<1> QED BY <1>2, <1>3

LEMMA ModLess ==
    ASSUME NEW n \in Int, NEW d \in Nat \ {0}
    PROVE  (n - d) % d = n % d
<1> DEFINE q == n \div d
           r == n % d
           k == (n - d) \div d
           s == (n - d) % d
<1>1. /\ q \in Int /\ r \in 0 .. d - 1 /\ n = d * q + r
      /\ k \in Int /\ s \in 0 .. d - 1 /\ n - d = d * k + s
  <2>1. PICK m \in Int : m = n - d
    OBVIOUS
  <2>2. m \div d \in Int /\ m % d \in 0 .. d - 1 /\ m = d * (m \div d) + (m % d)
    BY DivMod
  <2> QED BY <2>1, <2>2, DivMod
<1> HIDE DEF q, r, k, s
<1>2. d * (q - 1) + r = d * k + s
    <2>1. d * (q - 1) = d * q - d /\ d * q \in Int
      BY <1>1
    <2> QED BY <1>1, <2>1
<1>3. q - 1 \in Int
  BY <1>1
<1>4. r = s
  BY <1>1, <1>2, <1>3, Unique
<1> QED BY <1>4 DEF r, s
=============================================================================
