--------------------------- MODULE TBToolsProofs ---------------------------
(***************************************************************************)
(* Theorems about TBBench, for every number of workers, chains, payees and    *)
(* operations, and all amounts that its assumptions allow; and about TBVerify, *)
(* for every funding, target and number of goroutines.                       *)
(***************************************************************************)
EXTENDS TBTools, SumProofs, SequenceTheorems

-----------------------------------------------------------------------------
(* A call of CreateTransfers is a run of AfterNext over its batch. *)

LEMMA GreatestOf ==
    ASSUME NEW n \in Nat, NEW S, S \subseteq 1 .. n, S # {}
    PROVE  Max(S) \in S /\ \A y \in S : Max(S) >= y
<1> DEFINE U == {n - x : x \in S}
<1>1. U \subseteq Nat /\ U # {}
  OBVIOUS
<1>2. PICK m \in U : \A a \in U : m <= a
  BY <1>1, LeastExists
<1>3. PICK x \in S : m = n - x
  BY <1>2
<1>4. ASSUME NEW y \in S PROVE x >= y
  <2>1. n - x <= n - y
    BY <1>2, <1>3
  <2> QED BY <2>1
<1>5. \E z \in S : \A y \in S : z >= y
  BY <1>4
<1> QED BY <1>5 DEF Max

FoldedBatch(G, k, batch, n) ==
    G = [S \in SUBSET (1 .. n) |->
            IF S = {} THEN InBatch(k)
            ELSE AfterNext(G[S \ {Max(S)}], batch[Max(S)])]

LEMMA FoldExists ==
    ASSUME NEW k, NEW batch, NEW n \in Nat, NEW G, FoldedBatch(G, k, batch, n)
    PROVE  \E H : FoldedBatch(H, k, batch, n + 1)
<1> DEFINE m == n + 1
           H == [S \in SUBSET (1 .. m) |->
                    IF m \in S THEN AfterNext(G[S \ {m}], batch[m]) ELSE G[S]]
<1>0. m \in Nat
  OBVIOUS
<1>1. ASSUME NEW S \in SUBSET (1 .. m)
      PROVE  H[S] = IF S = {} THEN InBatch(k)
                    ELSE AfterNext(H[S \ {Max(S)}], batch[Max(S)])
  <2>1. CASE m \in S
    <3>1. Max(S) \in S /\ Max(S) >= m
      <4> HIDE DEF m, H
      <4> QED BY <1>0, <2>1, GreatestOf
    <3>2. Max(S) = m
      <4>1. Max(S) \in 1 .. m
        BY <3>1
      <4> HIDE DEF m, H
      <4> QED BY <1>0, <3>1, <4>1
    <3>3. S \ {m} \in SUBSET (1 .. m) /\ m \notin S \ {m} /\ S # {}
      BY <2>1
    <3>4. H[S \ {m}] = G[S \ {m}]
      BY <3>3
    <3>5. H[S] = AfterNext(G[S \ {m}], batch[m])
      BY <2>1
    <3> HIDE DEF H, m
    <3> QED BY <3>2, <3>3, <3>4, <3>5
  <2>2. CASE m \notin S /\ S # {}
    <3>1. S \in SUBSET (1 .. n)
      BY <2>2
    <3>2. Max(S) \in S
      <4> HIDE DEF m, H
      <4> QED BY <1>0, <2>2, GreatestOf
    <3>3. S \ {Max(S)} \in SUBSET (1 .. m) /\ m \notin S \ {Max(S)}
      BY <2>2
    <3>4. H[S \ {Max(S)}] = G[S \ {Max(S)}] /\ H[S] = G[S]
      BY <2>2, <3>3
    <3>5. G[S] = AfterNext(G[S \ {Max(S)}], batch[Max(S)])
      BY <2>2, <3>1 DEF FoldedBatch
    <3> HIDE DEF H, m
    <3> QED BY <2>2, <3>4, <3>5
  <2>3. CASE S = {}
    <3>1. H[{}] = G[{}] /\ G[{}] = InBatch(k)
      BY DEF FoldedBatch
    <3> HIDE DEF H
    <3> QED BY <2>3, <3>1
  <2> QED BY <2>1, <2>2, <2>3
<1>2. H = [S \in SUBSET (1 .. m) |-> H[S]]
  OBVIOUS
<1>3. FoldedBatch(H, k, batch, m)
  <2> HIDE DEF H
  <2>1. [S \in SUBSET (1 .. m) |-> H[S]] =
        [S \in SUBSET (1 .. m) |->
            IF S = {} THEN InBatch(k)
            ELSE AfterNext(H[S \ {Max(S)}], batch[Max(S)])]
    BY <1>1
  <2> QED BY <1>2, <2>1 DEF FoldedBatch
<1> QED BY <1>3

(* st: what AfterNext makes of a batch, transfer by transfer. *)
IsRun(st, k, batch) ==
    /\ st[0] = InBatch(k)
    /\ \A n \in 1 .. Len(batch) : st[n] = AfterNext(st[n - 1], batch[n])

LEMMA BatchRun ==
    ASSUME NEW k, NEW T, NEW batch \in Seq(T)
    PROVE  \E st : /\ IsRun(st, k, batch)
                   /\ CreateTransfers(k, batch).cluster = st[Len(batch)].cluster
                   /\ CreateTransfers(k, batch).failures = st[Len(batch)].failures
<1> DEFINE N == Len(batch)
           F == CHOOSE G : FoldedBatch(G, k, batch, N)
           W == {n \in Nat : \E G : FoldedBatch(G, k, batch, n)}
<1>1. N \in Nat /\ DOMAIN batch = 1 .. N
  OBVIOUS
<1>2. FoldLeft(AfterNext, InBatch(k), batch) = F[1 .. N]
  BY <1>1 DEF FoldLeft, MapThenFoldSet, FoldedBatch
<1>3. N \in W
  <2>1. 0 \in W
    <3>1. \A G : G = [S \in SUBSET (1 .. 0) |-> InBatch(k)] => FoldedBatch(G, k, batch, 0)
      <4>1. \A S \in SUBSET (1 .. 0) : S = {}
        OBVIOUS
      <4> QED BY <4>1 DEF FoldedBatch
    <3> QED BY <3>1
  <2>2. \A n \in 0 .. N - 1 : n \in W => n + 1 \in W
    BY FoldExists
  <2> HIDE DEF W, N
  <2>3. \A n \in 0 .. N : n \in W
    BY <1>1, <2>1, <2>2, Climb
  <2> QED BY <1>1, <2>3
<1>4. FoldedBatch(F, k, batch, N)
  BY <1>3
<1> HIDE DEF F
<1> DEFINE st == [n \in 0 .. N |-> F[1 .. n]]
<1>5. st[0] = InBatch(k) /\ st[N] = F[1 .. N]
  <2>1. 1 .. 0 = {} /\ {} \in SUBSET (1 .. N)
    OBVIOUS
  <2>2. F[{}] = InBatch(k)
    BY <1>4, <2>1 DEF FoldedBatch
  <2> QED BY <1>1, <2>1, <2>2
<1>6. ASSUME NEW n \in 1 .. N PROVE st[n] = AfterNext(st[n - 1], batch[n])
  <2>1. 1 .. n \in SUBSET (1 .. N) /\ n \in 1 .. n
    BY <1>1
  <2>2. Max(1 .. n) = n
    <3>1. n \in Nat /\ 1 .. n # {} /\ 1 .. n \subseteq 1 .. n
      <4>1. n \in Nat
        BY <1>1
      <4> QED BY ONLY <2>1, <4>1
    <3>2. \A S : S \subseteq 1 .. n /\ S # {} => Max(S) \in S /\ \A y \in S : Max(S) >= y
      BY <3>1, GreatestOf
    <3>3. Max(1 .. n) \in 1 .. n /\ Max(1 .. n) >= n
      BY <2>1, <3>1, <3>2
    <3> QED BY <3>1, <3>3
  <2>3. (1 .. n) \ {n} = 1 .. (n - 1)
    BY <1>1
  <2>4. F[1 .. n] = AfterNext(F[1 .. (n - 1)], batch[n])
    BY <1>4, <2>1, <2>2, <2>3 DEF FoldedBatch
  <2>5. st[n] = F[1 .. n] /\ st[n - 1] = F[1 .. (n - 1)]
    BY <1>1
  <2> QED BY <2>4, <2>5
<1> HIDE DEF st
<1>7. IsRun(st, k, batch)
  BY <1>5, <1>6 DEF IsRun
<1> QED BY <1>2, <1>5, <1>7 DEF CreateTransfers

-----------------------------------------------------------------------------
(* Batches put together of the transfers of several chains or workers. *)

Flattened(G, s, n) == G = [i \in 1 .. n |-> IF i = 1 THEN s[i] ELSE G[i - 1] \o s[i]]

LEMMA Flatten ==
    ASSUME NEW X, NEW s \in Seq(Seq(X)), Len(s) > 0
    PROVE  \E G : Flattened(G, s, Len(s)) /\ FlattenSeq(s) = G[Len(s)]
<1> DEFINE N == Len(s)
           F == CHOOSE G : Flattened(G, s, N)
           W == {n \in Nat : \E G : Flattened(G, s, n)}
<1>1. N \in Nat /\ N # 0
  OBVIOUS
<1>2. FlattenSeq(s) = F[N]
  BY <1>1 DEF FlattenSeq, Flattened
<1>3. N \in W
  <2>1. 0 \in W
    <3>1. \A G : G = [i \in 1 .. 0 |-> << >>] => Flattened(G, s, 0)
      <4>1. \A i \in 1 .. 0 : FALSE
        OBVIOUS
      <4> QED BY <4>1 DEF Flattened
    <3> QED BY <3>1
  <2>2. ASSUME NEW n \in 0 .. N - 1, n \in W PROVE n + 1 \in W
    <3>1. PICK G : Flattened(G, s, n)
      BY <2>2
    <3> DEFINE m == n + 1
               H == [i \in 1 .. m |->
                        IF i < m THEN G[i] ELSE IF i = 1 THEN s[i] ELSE G[i - 1] \o s[i]]
    <3>2. ASSUME NEW i \in 1 .. m
          PROVE  H[i] = IF i = 1 THEN s[i] ELSE H[i - 1] \o s[i]
      <4>1. CASE i = m
        <5>1. H[i] = IF i = 1 THEN s[i] ELSE G[i - 1] \o s[i]
          BY <4>1
        <5>2. i # 1 => H[i - 1] = G[i - 1]
          BY <4>1
        <5> QED BY <5>1, <5>2
      <4>2. CASE i < m
        <5>1. i \in 1 .. n
          BY <4>2
        <5>2. G[i] = IF i = 1 THEN s[i] ELSE G[i - 1] \o s[i]
          BY <3>1, <5>1 DEF Flattened
        <5>3. H[i] = G[i] /\ (i # 1 => H[i - 1] = G[i - 1])
          BY <4>2
        <5> QED BY <5>2, <5>3
      <4> QED BY <4>1, <4>2
    <3>3. H = [i \in 1 .. m |-> H[i]]
      OBVIOUS
    <3>4. Flattened(H, s, m)
      <4> HIDE DEF H
      <4>1. [i \in 1 .. m |-> H[i]] = [i \in 1 .. m |-> IF i = 1 THEN s[i] ELSE H[i - 1] \o s[i]]
        BY <3>2
      <4> QED BY <3>3, <4>1 DEF Flattened
    <3>5. m \in Nat
      BY <1>1
    <3> QED BY <3>4, <3>5
  <2> HIDE DEF W, N
  <2>3. \A n \in 0 .. N : n \in W
    BY <1>1, <2>1, <2>2, Climb
  <2> QED BY <1>1, <2>3
<1>4. Flattened(F, s, N)
  BY <1>3
<1> QED BY <1>2, <1>4

LEMMA FlatType ==
    ASSUME NEW X, NEW s \in Seq(Seq(X))
    PROVE  FlattenSeq(s) \in Seq(X)
<1> DEFINE N == Len(s)
<1>1. CASE N = 0
  <2>1. FlattenSeq(s) = << >>
    BY <1>1 DEF FlattenSeq
  <2> QED BY <2>1
<1>2. CASE N # 0
  <2>0. N \in Nat /\ N > 0
    BY <1>2
  <2>1. PICK G : Flattened(G, s, N) /\ FlattenSeq(s) = G[N]
    BY <2>0, Flatten
  <2> DEFINE W == {i \in 0 .. N : i = 0 \/ G[i] \in Seq(X)}
  <2>2. ASSUME NEW i \in 0 .. N - 1, i \in W PROVE i + 1 \in W
    <3>1. i + 1 \in 1 .. N
      BY <2>0
    <3>2. s[i + 1] \in Seq(X)
      BY <3>1
    <3>3. G[i + 1] = IF i + 1 = 1 THEN s[i + 1] ELSE G[(i + 1) - 1] \o s[i + 1]
      BY <2>1, <3>1 DEF Flattened
    <3>4. (i + 1 = 1 <=> i = 0) /\ (i + 1) - 1 = i
      OBVIOUS
    <3>5. i = 0 \/ G[i] \in Seq(X)
      BY <2>2
    <3>6. G[i + 1] \in Seq(X)
      BY <3>2, <3>3, <3>4, <3>5
    <3> QED BY <3>1, <3>6
  <2>3. 0 \in W
    BY <2>0
  <2> HIDE DEF W, N
  <2>4. \A i \in 0 .. N : i \in W
    BY <2>0, <2>2, <2>3, Climb
  <2>5. N \in W
    BY <2>0, <2>4
  <2> QED BY <2>0, <2>1, <2>5 DEF W
<1> QED BY <1>1, <1>2

(* Where the transfers of a chain are in the batch of all chains. *)
LEMMA FlatPieces ==
    ASSUME NEW X, NEW s \in Seq(Seq(X)), Len(s) > 0, \A k \in 1 .. Len(s) : Len(s[k]) = 7
    PROVE  /\ Len(FlattenSeq(s)) = 7 * Len(s)
           /\ \A k \in 1 .. Len(s) : \A j \in 1 .. 7 : FlattenSeq(s)[7 * (k - 1) + j] = s[k][j]
<1> DEFINE N == Len(s)
<1>1. N \in Nat /\ N > 0
  OBVIOUS
<1>2. PICK G : Flattened(G, s, N) /\ FlattenSeq(s) = G[N]
  BY <1>1, Flatten
<1> DEFINE P(i) == /\ G[i] \in Seq(X) /\ Len(G[i]) = 7 * i
                   /\ \A k \in 1 .. i : \A j \in 1 .. 7 : G[i][7 * (k - 1) + j] = s[k][j]
           W == {i \in 0 .. N : i = 0 \/ P(i)}
<1>3. ASSUME NEW i \in 0 .. N - 1, i \in W PROVE i + 1 \in W
  <2>1. i + 1 \in 1 .. N /\ i \in Nat
    BY <1>1
  <2>2. PICK c : c = s[i + 1] /\ c \in Seq(X) /\ Len(c) = 7
    BY <2>1
  <2>3. G[i + 1] = IF i + 1 = 1 THEN c ELSE G[(i + 1) - 1] \o c
    BY <1>2, <2>1, <2>2 DEF Flattened
  <2>4. CASE i = 0
    <3>1. G[1] = c /\ c = s[1]
      BY <2>2, <2>3, <2>4
    <3>2. \A k \in 1 .. 1 : k = 1
      OBVIOUS
    <3>3. \A j \in 1 .. 7 : 7 * (1 - 1) + j = j
      OBVIOUS
    <3>4. P(1)
      BY <2>2, <3>1, <3>2, <3>3
    <3> QED BY <2>1, <2>4, <3>4
  <2>5. CASE i # 0
    <3>1. G[i + 1] = G[i] \o c /\ P(i)
      <4>1. i + 1 # 1 /\ (i + 1) - 1 = i
        BY <2>1, <2>5
      <4>2. P(i)
        BY <1>3, <2>5
      <4> HIDE DEF P
      <4> QED BY <2>3, <4>1, <4>2
    <3>2. PICK g : g = G[i] /\ g \in Seq(X) /\ Len(g) = 7 * i
      BY <3>1
    <3>3. g \o c \in Seq(X) /\ Len(g \o c) = 7 * i + 7
      <4>1. \A a, b \in Seq(X) : a \o b \in Seq(X) /\ Len(a \o b) = Len(a) + Len(b)
        OBVIOUS
      <4> QED BY ONLY <2>2, <3>2, <4>1
    <3>4. /\ \A x \in 1 .. 7 * i : (g \o c)[x] = g[x]
          /\ \A j \in 1 .. 7 : (g \o c)[7 * i + j] = c[j]
      <4>1. \A x \in 1 .. (7 * i + 7) :
               (g \o c)[x] = IF x <= 7 * i THEN g[x] ELSE c[x - 7 * i]
        <5>1. \A a, b \in Seq(X) : \A x \in 1 .. Len(a) + Len(b) :
                 (a \o b)[x] = IF x <= Len(a) THEN a[x] ELSE b[x - Len(a)]
          OBVIOUS
        <5>2. \A x \in 1 .. Len(g) + Len(c) :
                 (g \o c)[x] = IF x <= Len(g) THEN g[x] ELSE c[x - Len(g)]
          BY ONLY <2>2, <3>2, <5>1
        <5> QED BY ONLY <2>2, <3>2, <5>2
      <4>2. \A j \in 1 .. 7 : /\ 7 * i + j \in 1 .. (7 * i + 7) /\ ~(7 * i + j <= 7 * i)
                              /\ (7 * i + j) - 7 * i = j
        BY <2>1
      <4>3. \A x \in 1 .. 7 * i : x \in 1 .. (7 * i + 7) /\ x <= 7 * i
        BY <2>1
      <4> QED BY ONLY <4>1, <4>2, <4>3
    <3>5. ASSUME NEW k \in 1 .. (i + 1), NEW j \in 1 .. 7
          PROVE  (g \o c)[7 * (k - 1) + j] = s[k][j]
      <4>1. CASE k = i + 1
        <5>1. 7 * (k - 1) + j = 7 * i + j
          BY <2>1, <4>1
        <5> QED BY <2>2, <3>4, <4>1, <5>1
      <4>2. CASE k # i + 1
        <5>1. k \in 1 .. i /\ 7 * (k - 1) + j \in 1 .. 7 * i
          BY <2>1, <4>2
        <5>2. G[i][7 * (k - 1) + j] = s[k][j]
          BY <3>1, <5>1
        <5> QED BY <3>2, <3>4, <5>1, <5>2
      <4> QED BY <4>1, <4>2
    <3>6. 7 * i + 7 = 7 * (i + 1)
      BY <2>1
    <3>7. P(i + 1)
      <4>1. G[i + 1] = g \o c
        BY ONLY <3>1, <3>2
      <4> QED BY ONLY <3>3, <3>5, <3>6, <4>1
    <3> HIDE DEF P
    <3> QED BY <2>1, <3>7
  <2> QED BY <2>4, <2>5
<1>4. 0 \in W
  BY <1>1
<1> HIDE DEF W
<1>5. \A i \in 0 .. N : i \in W
  BY <1>1, <1>3, <1>4, Climb
<1>6. N \in W
  BY <1>1, <1>5
<1>7. P(N)
  BY <1>1, <1>6 DEF W
<1> QED BY <1>2, <1>7

-----------------------------------------------------------------------------
(* Ids *)

Waterfall == waterfallBase .. waterfallBase + nWorkers * nChains * 7 - 1

LEMMA BenchNumbers ==
    /\ nWorkers \in Nat \ {0} /\ nChains \in Nat \ {0} /\ nDests \in Nat
    /\ Target \in Nat \ {0} /\ Small \in Nat /\ Cash \in Nat
    /\ topUpEvery \in Nat \ {0} /\ MaxOps \in Nat
    /\ Target < AmountMax /\ AmountMax \in Nat
    /\ nWorkers * nChains \in Nat /\ nWorkers * nChains * 7 <= 1000000
<1>1. \A m, n \in Nat : m * n \in Nat
  OBVIOUS
<1> QED BY <1>1, BenchAssumption, ClusterAssumption
       DEF BenchAssumption, ClusterAssumption, AmountMax

LEMMA FewWorkers == nWorkers <= 1000000
<1>1. PICK m \in Nat \ {0}, n \in Nat \ {0} : m = nWorkers /\ n = nChains
  BY BenchNumbers
<1>2. m <= m * n
  BY ONLY <1>1
<1>3. m * n \in Nat
  BY ONLY <1>1
<1>4. m * n * 7 <= 1000000
  BY <1>1, BenchNumbers
<1> QED BY <1>1, <1>2, <1>3, <1>4

(* The chains have numbers. *)
LEMMA ChainNumber ==
    ASSUME NEW i \in Workers, NEW c \in Chains
    PROVE  /\ i * nChains \in Nat /\ i * nChains + c \in 0 .. (nWorkers * nChains - 1)
           /\ chainBase(i, c) = waterfallBase + 7 * (i * nChains + c)
<1>1. PICK m \in Nat, n \in Nat \ {0}, w \in Nat : m = i /\ n = nChains /\ w = nWorkers
  BY BenchNumbers DEF Workers
<1>2. c \in 0 .. n - 1 /\ m <= w - 1 /\ w - 1 \in Nat
  BY <1>1, BenchNumbers DEF Workers, Chains
<1>3. m * n \in Nat
  BY ONLY <1>1
<1>4. \A x, y \in Nat : x <= y => x * n <= y * n
  BY ONLY <1>1
<1>5. m * n <= (w - 1) * n
  BY ONLY <1>1, <1>2, <1>4
<1>6. (w - 1) * n = w * n - n /\ w * n \in Nat
  BY ONLY <1>1
<1>7. m * n + c \in 0 .. (w * n - 1)
  BY ONLY <1>1, <1>2, <1>3, <1>5, <1>6
<1>8. chainBase(i, c) = waterfallBase + 7 * (m * n + c)
  <2>1. m * (n * 7) = 7 * (m * n)
    BY ONLY <1>1
  <2>2. chainBase(i, c) = waterfallBase + m * (n * 7) + c * 7
    BY <1>1 DEF chainBase
  <2> QED BY ONLY <1>2, <1>3, <2>1, <2>2 DEF waterfallBase
<1> QED BY <1>1, <1>3, <1>7, <1>8

LEMMA OneChain ==
    ASSUME NEW i \in Workers, NEW c \in Chains, NEW v \in Workers, NEW d \in Chains,
           i * nChains + c = v * nChains + d
    PROVE  i = v /\ c = d
<1>1. PICK m \in Nat, n \in Nat \ {0}, w \in Nat : m = i /\ n = nChains /\ w = v
  BY BenchNumbers DEF Workers
<1>2. c \in 0 .. n - 1 /\ d \in 0 .. n - 1 /\ m * n + c = w * n + d
  BY <1>1 DEF Chains
<1>3. ASSUME NEW x \in Nat, NEW y \in Nat, x < y PROVE x * n + n <= y * n
  <2>1. x + 1 <= y
    BY ONLY <1>3
  <2>2. (x + 1) * n <= y * n
    BY ONLY <1>1, <1>3, <2>1
  <2>3. (x + 1) * n = x * n + n
    BY ONLY <1>1, <1>3
  <2> QED BY <2>2, <2>3
<1>4. m * n \in Nat /\ w * n \in Nat
  BY ONLY <1>1
<1>5. ~(m < w)
  <2>1. m < w => m * n + n <= w * n
    BY <1>3
  <2> QED BY ONLY <1>1, <1>2, <1>4, <2>1
<1>6. ~(w < m)
  <2>1. w < m => w * n + n <= m * n
    BY <1>3
  <2> QED BY ONLY <1>1, <1>2, <1>4, <2>1
<1>7. m = w
  BY ONLY <1>1, <1>5, <1>6
<1> QED BY <1>1, <1>2, <1>4, <1>7

(* Chains have seven accounts of their own each. *)
LEMMA ChainsApart ==
    ASSUME NEW i \in Workers, NEW c \in Chains, NEW v \in Workers, NEW d \in Chains
    PROVE  /\ chainBase(i, c) \in Nat /\ chainBase(v, d) \in Nat
           /\ \/ i = v /\ c = d
              \/ chainBase(i, c) + 7 <= chainBase(v, d)
              \/ chainBase(v, d) + 7 <= chainBase(i, c)
<1>1. PICK p \in Nat, q \in Nat : p = i * nChains + c /\ q = v * nChains + d
  BY ChainNumber
<1>2. chainBase(i, c) = waterfallBase + 7 * p /\ chainBase(v, d) = waterfallBase + 7 * q
  BY <1>1, ChainNumber
<1>3. p = q => i = v /\ c = d
  BY <1>1, OneChain
<1> QED BY <1>2, <1>3 DEF waterfallBase

LEMMA ChainIDs ==
    ASSUME NEW i \in Workers, NEW c \in Chains
    PROVE  /\ chainBase(i, c) \in Nat
           /\ chainBase(i, c) .. chainBase(i, c) + 6 \subseteq Waterfall
           /\ Waterfall \subseteq BenchAccounts /\ BenchAccounts \subseteq Account
           /\ chainBase(i, c) .. chainBase(i, c) + 3 \subseteq Constrained
           /\ chainBase(i, c) + 6 \in Constrained
           /\ chainBase(i, c) + 4 \notin Constrained /\ chainBase(i, c) + 5 \notin Constrained
<1>1. PICK p \in Nat : p = i * nChains + c /\ p <= nWorkers * nChains - 1
  BY ChainNumber
<1>2. chainBase(i, c) = waterfallBase + 7 * p
  BY <1>1, ChainNumber
<1>3. PICK b \in Nat : b = chainBase(i, c)
  BY <1>2 DEF waterfallBase
<1>4. b .. b + 6 \subseteq Waterfall
  <2>1. PICK n \in Nat : n = nWorkers * nChains
    BY BenchNumbers
  <2>2. b = waterfallBase + 7 * p /\ p <= n - 1
    BY <1>1, <1>2, <1>3, <2>1
  <2>3. b .. b + 6 \subseteq waterfallBase .. waterfallBase + n * 7 - 1
    BY ONLY <1>1, <1>3, <2>1, <2>2 DEF waterfallBase
  <2> QED BY <2>1, <2>3 DEF Waterfall
<1>5. Waterfall \subseteq BenchAccounts /\ BenchAccounts \subseteq Account
  BY ClusterAssumption DEF Waterfall, BenchAccounts, ClusterAssumption
<1>6. \A x \in b .. b + 6 : x \in Constrained <=> x \in BenchConstrained
  BY <1>4, <1>5, ClusterAssumption DEF ClusterAssumption
<1>7. \A j \in 1 .. 4 : sources(i, c)[j] = b + j - 1
  BY <1>3 DEF sources
<1>8. b .. b + 3 \subseteq BenchConstrained /\ b + 6 \in BenchConstrained
  <2>1. ASSUME NEW x \in b .. b + 3 PROVE x \in {sources(i, c)[j] : j \in 1 .. 4}
    <3>1. x - b + 1 \in 1 .. 4 /\ x = b + (x - b + 1) - 1
      BY <1>3, <2>1
    <3> QED BY <1>7, <3>1
  <2>2. limit(i, c) = b + 6
    BY <1>3 DEF limit
  <2>3. {sources(i, c)[j] : j \in 1 .. 4} \cup {limit(i, c)} \subseteq BenchConstrained
    <3> DEFINE S(v, d) == {sources(v, d)[j] : j \in 1 .. 4} \cup {limit(v, d)}
    <3>1. BenchConstrained = UNION {S(v, d) : v \in Workers, d \in Chains}
      BY DEF BenchConstrained
    <3> HIDE DEF S
    <3>2. S(i, c) \subseteq BenchConstrained
      BY <3>1
    <3> QED BY <3>2 DEF S
  <2> QED BY ONLY <2>1, <2>2, <2>3
<1>9. ASSUME NEW x \in {b + 4, b + 5} PROVE x \notin BenchConstrained
  <2>1. SUFFICES ASSUME NEW v \in Workers, NEW d \in Chains,
                        x \in {sources(v, d)[j] : j \in 1 .. 4} \cup {limit(v, d)}
                 PROVE  FALSE
    BY DEF BenchConstrained
  <2>2. PICK q \in Nat : q = chainBase(v, d)
    BY ChainsApart
  <2>3. x \in {q, q + 1, q + 2, q + 3, q + 6}
    BY <2>1, <2>2 DEF sources, limit
  <2>4. b = q \/ b + 7 <= q \/ q + 7 <= b
    BY <1>3, <2>2, ChainsApart
  <2> QED BY ONLY <1>3, <1>9, <2>2, <2>3, <2>4
<1>10. {b + 4, b + 5} \subseteq b .. b + 6 /\ b .. b + 3 \subseteq b .. b + 6 /\ b + 6 \in b .. b + 6
  BY <1>3
<1> QED BY <1>3, <1>4, <1>5, <1>6, <1>8, <1>9, <1>10

LEMMA WaterfallAccounts == Waterfall \subseteq BenchAccounts /\ BenchAccounts \subseteq Account
BY ClusterAssumption DEF Waterfall, BenchAccounts, ClusterAssumption

(* The ids looked up in PostgreSQL are those of the TB only variants. *)
LEMMA LookUp ==
    ASSUME NEW i \in Workers, NEW c \in Chains, NEW resolved \in BOOLEAN
    PROVE  \A k \in 1 .. 4 : SourceIDs(i, c, resolved)[k] = chainBase(i, c) + k - 1
<1> DEFINE u == userID(i, c)
           row(k) == [user |-> u, account |-> waterfallBase + u * 7 + (k - 1), priority |-> k - 1]
<1>1. chainBase(i, c) = waterfallBase + 7 * u /\ u \in Nat
  BY ChainNumber DEF userID
<1>2. CASE ~resolved
  BY <1>2 DEF SourceIDs, sources
<1>3. ASSUME NEW k \in 1 .. 4 PROVE Ordered(u)[k] = chainBase(i, c) + k - 1
  <2> DEFINE r == CHOOSE r \in userAccounts : r.user = u /\ r.priority = k - 1
  <2>1. row(k) \in userAccounts
    <3>1. k - 1 \in 0 .. 3
      OBVIOUS
    <3>2. userAccounts =
             {[user |-> userID(v, d), account |-> waterfallBase + userID(v, d) * 7 + pri,
               priority |-> pri] : v \in Workers, d \in Chains, pri \in 0 .. 3}
      BY DEF userAccounts, userID
    <3> QED BY <3>1, <3>2
  <2>2. r \in userAccounts /\ r.user = u /\ r.priority = k - 1
    BY <2>1
  <2>3. \A x \in userAccounts : x.account = waterfallBase + x.user * 7 + x.priority
    BY DEF userAccounts, userID
  <2>4. r.account = waterfallBase + u * 7 + (k - 1)
    <3> HIDE DEF r, row, u
    <3> QED BY <2>2, <2>3
  <2>5. Ordered(u)[k] = r.account
    BY DEF Ordered
  <2> HIDE DEF r, row, u
  <2> QED BY <1>1, <2>4, <2>5 DEF waterfallBase
<1>4. CASE resolved
  BY <1>3, <1>4 DEF SourceIDs
<1> QED BY <1>2, <1>4

-----------------------------------------------------------------------------
(* Single transfers *)

(* The account of a chain: nothing is ever pending. *)
ChainRow == [debits_posted : Nat, debits_pending : {0}, credits_posted : Nat,
             credits_pending : {0}]

SoundAccounts(A) == DOMAIN A = Account /\ \A a \in Waterfall : A[a] \in ChainRow

Sound(k) ==
    /\ k = [accounts |-> k.accounts, pending |-> k.pending]
    /\ SoundAccounts(k.accounts)

NotTwoPhase(t) ==
    "post_pending" \notin t.flags /\ "void_pending" \notin t.flags /\ "pending" \notin t.flags

LEMMA ExecuteEffect ==
    ASSUME NEW k, NEW t, Sound(k), NotTwoPhase(t)
    PROVE  /\ ExceedsCredits(k.accounts, t) => Execute(k, t).result # "ok"
           /\ ~ExceedsCredits(k.accounts, t) =>
                 /\ Execute(k, t).result = "ok"
                 /\ Execute(k, t).cluster =
                       [accounts |-> Post(k.accounts, t, Amount(k.accounts, t)),
                        pending |-> k.pending]
<1>1. CASE ExceedsCredits(k.accounts, t)
  BY <1>1 DEF Execute, NotTwoPhase
<1>2. CASE ~ExceedsCredits(k.accounts, t)
  <2>1. Execute(k, t) =
           [result |-> "ok",
            cluster |-> [k EXCEPT !.accounts = Post(@, t, Amount(k.accounts, t))]]
    BY <1>2 DEF Execute, NotTwoPhase
  <2>2. PICK A : A = Post(k.accounts, t, Amount(k.accounts, t))
    OBVIOUS
  <2>3. [k EXCEPT !.accounts = Post(@, t, Amount(k.accounts, t))] =
           [accounts |-> A, pending |-> k.pending]
    BY <2>2 DEF Sound
  <2> QED BY <1>2, <2>1, <2>2, <2>3
<1> QED BY <1>1, <1>2

LEMMA PostEffect ==
    ASSUME NEW A, NEW t, NEW x \in Nat, SoundAccounts(A),
           t.debit \in Account, t.credit \in Account, t.debit # t.credit
    PROVE  /\ SoundAccounts(Post(A, t, x))
           /\ \A a \in Account \ {t.debit, t.credit} : Post(A, t, x)[a] = A[a]
           /\ t.debit \in Waterfall =>
                 /\ Post(A, t, x)[t.debit].debits_posted = A[t.debit].debits_posted + x
                 /\ Post(A, t, x)[t.debit].credits_posted = A[t.debit].credits_posted
           /\ t.credit \in Waterfall =>
                 /\ Post(A, t, x)[t.credit].credits_posted = A[t.credit].credits_posted + x
                 /\ Post(A, t, x)[t.credit].debits_posted = A[t.credit].debits_posted
<1> DEFINE B == Post(A, t, x)
           d == t.debit
           c == t.credit
<1>1. /\ DOMAIN B = Account
      /\ B[d] = [A[d] EXCEPT !.debits_posted = A[d].debits_posted + x]
      /\ B[c] = [A[c] EXCEPT !.credits_posted = A[c].credits_posted + x]
      /\ \A a \in Account \ {d, c} : B[a] = A[a]
  BY DEF Post, SoundAccounts
<1> HIDE DEF B
<1>2. ASSUME d \in Waterfall
      PROVE  /\ B[d] \in ChainRow /\ B[d].debits_posted = A[d].debits_posted + x
             /\ B[d].credits_posted = A[d].credits_posted
  <2>1. A[d] \in ChainRow
    BY <1>2 DEF SoundAccounts
  <2> QED BY <1>1, <2>1 DEF ChainRow
<1>3. ASSUME c \in Waterfall
      PROVE  /\ B[c] \in ChainRow /\ B[c].credits_posted = A[c].credits_posted + x
             /\ B[c].debits_posted = A[c].debits_posted
  <2>1. A[c] \in ChainRow
    BY <1>3 DEF SoundAccounts
  <2> QED BY <1>1, <2>1 DEF ChainRow
<1>4. ASSUME NEW a \in Waterfall PROVE B[a] \in ChainRow
  <2>1. a \in Account
    BY WaterfallAccounts
  <2> QED BY <1>1, <1>2, <1>3, <2>1 DEF SoundAccounts
<1>5. SoundAccounts(B)
  BY <1>1, <1>4 DEF SoundAccounts
<1> QED BY <1>1, <1>2, <1>3, <1>5 DEF B

(* A transfer that is executed, and the last one of a chain that is not. *)
LEMMA AfterOK ==
    ASSUME NEW b, NEW t, b.broken = FALSE, Sound(b.cluster), NotTwoPhase(t), b.failures \in Nat,
           ~ExceedsCredits(b.cluster.accounts, t)
    PROVE  LET n == AfterNext(b, t) IN
           /\ n.cluster = [accounts |-> Post(b.cluster.accounts, t, Amount(b.cluster.accounts, t)),
                           pending |-> b.cluster.pending]
           /\ n.before = IF "linked" \in t.flags THEN b.before ELSE n.cluster
           /\ n.open = IF "linked" \in t.flags THEN b.open + 1 ELSE 0
           /\ n.broken = FALSE /\ n.failures = b.failures
<1>1. PICK r : r = Execute(b.cluster, t)
  OBVIOUS
<1>2. /\ r.result = "ok"
      /\ r.cluster = [accounts |-> Post(b.cluster.accounts, t, Amount(b.cluster.accounts, t)),
                      pending |-> b.cluster.pending]
  BY <1>1, ExecuteEffect
<1>3. AfterNext(b, t) =
         [cluster |-> r.cluster,
          before |-> IF "linked" \in t.flags THEN b.before ELSE r.cluster,
          open |-> IF "linked" \in t.flags THEN b.open + 1 ELSE 0,
          broken |-> FALSE, failures |-> b.failures]
  <2> DEFINE fails == b.broken \/ r.result # "ok"
             linked == "linked" \in t.flags
  <2>1. AfterNext(b, t) =
           [cluster |-> IF fails THEN b.before ELSE r.cluster,
            before |-> IF linked THEN b.before ELSE IF fails THEN b.before ELSE r.cluster,
            open |-> IF linked THEN b.open + 1 ELSE 0,
            broken |-> linked /\ fails,
            failures |-> b.failures + (IF b.broken THEN 1 ELSE IF fails THEN b.open + 1 ELSE 0)]
    BY <1>1 DEF AfterNext
  <2>2. ~fails /\ b.failures + 0 = b.failures /\ (linked /\ fails) = FALSE
    BY <1>2
  <2> HIDE DEF fails
  <2> QED BY <2>1, <2>2
<1> QED BY <1>2, <1>3

LEMMA AfterRefused ==
    ASSUME NEW b, NEW t, b.broken = FALSE, Sound(b.cluster), NotTwoPhase(t), b.failures \in Nat,
           b.open \in Nat, ExceedsCredits(b.cluster.accounts, t), "linked" \notin t.flags
    PROVE  LET n == AfterNext(b, t) IN
           /\ n.cluster = b.before /\ n.before = b.before
           /\ n.open = 0 /\ n.broken = FALSE /\ n.failures = b.failures + b.open + 1
<1>1. Execute(b.cluster, t).result # "ok"
  BY ExecuteEffect
<1>2. AfterNext(b, t) =
         [cluster |-> b.before, before |-> b.before, open |-> 0, broken |-> FALSE,
          failures |-> b.failures + (b.open + 1)]
  BY <1>1 DEF AfterNext
<1> QED BY <1>2

-----------------------------------------------------------------------------
(* Calls that refill sources, or have nothing to do with the chains. *)

Sources ==
    {chainBase(w[1], w[2]) + w[3] : w \in Workers \X Chains \X (0 .. 3)}

PlainTransfers ==
    [debit : Account \ (Constrained \cup Waterfall),
     credit : (Account \ Waterfall) \cup Sources,
     amount : Nat, flags : {{}}, pending_id : {0}]

Plain == {t \in PlainTransfers : t.debit # t.credit}

(* Accounts B are A but for credits of sources. *)
Refilled(A, B) ==
    /\ SoundAccounts(A) /\ SoundAccounts(B)
    /\ \A a \in Waterfall :
          /\ B[a].debits_posted = A[a].debits_posted
          /\ B[a].credits_posted >= A[a].credits_posted
          /\ a \notin Sources => B[a].credits_posted = A[a].credits_posted

LEMMA RefilledSame ==
    ASSUME NEW A, SoundAccounts(A)
    PROVE  Refilled(A, A)
<1>1. \A a \in Waterfall : A[a].credits_posted \in Nat
  BY DEF SoundAccounts, ChainRow
<1>2. \A a \in Waterfall : A[a].credits_posted >= A[a].credits_posted
  BY <1>1
<1> QED BY <1>2 DEF Refilled

LEMMA SourcesAreAccounts == Sources \subseteq Waterfall
<1> SUFFICES ASSUME NEW w \in Workers \X Chains \X (0 .. 3)
             PROVE  chainBase(w[1], w[2]) + w[3] \in Waterfall
  BY DEF Sources
<1>1. PICK p \in Nat : p = chainBase(w[1], w[2]) /\ p .. p + 6 \subseteq Waterfall
  BY ChainIDs
<1>2. p + w[3] \in p .. p + 6
  BY <1>1
<1> QED BY <1>1, <1>2

LEMMA PlainStep ==
    ASSUME NEW A, NEW B, Refilled(A, B), NEW t \in Plain
    PROVE  /\ ~ExceedsCredits(B, t) /\ NotTwoPhase(t) /\ "linked" \notin t.flags
           /\ Refilled(A, Post(B, t, Amount(B, t)))
<1>1. /\ t.debit \in Account /\ t.credit \in Account /\ t.debit # t.credit /\ t.amount \in Nat
      /\ t.debit \notin Constrained /\ t.debit \notin Waterfall /\ t.flags = {}
      /\ t.credit \in Waterfall => t.credit \in Sources
  BY SourcesAreAccounts, WaterfallAccounts DEF Plain, PlainTransfers
<1>2. Amount(B, t) = t.amount
  BY <1>1 DEF Amount
<1> DEFINE C == Post(B, t, t.amount)
<1>3. /\ SoundAccounts(C)
      /\ \A a \in Account \ {t.debit, t.credit} : C[a] = B[a]
      /\ t.credit \in Waterfall =>
            /\ C[t.credit].credits_posted = B[t.credit].credits_posted + t.amount
            /\ C[t.credit].debits_posted = B[t.credit].debits_posted
  BY <1>1, PostEffect DEF Refilled
<1> HIDE DEF C
<1>4. ASSUME NEW a \in Waterfall
      PROVE  /\ C[a].debits_posted = A[a].debits_posted
             /\ C[a].credits_posted >= A[a].credits_posted
             /\ a \notin Sources => C[a].credits_posted = A[a].credits_posted
  <2>1. /\ B[a].debits_posted = A[a].debits_posted
        /\ B[a].credits_posted >= A[a].credits_posted
        /\ a \notin Sources => B[a].credits_posted = A[a].credits_posted
        /\ A[a].credits_posted \in Nat /\ B[a].credits_posted \in Nat
    BY DEF Refilled, SoundAccounts, ChainRow
  <2>2. CASE a # t.credit
    <3>1. a \in Account \ {t.debit, t.credit}
      BY <1>1, <2>2, WaterfallAccounts
    <3> QED BY <1>3, <2>1, <3>1
  <2>3. CASE a = t.credit
    BY <1>1, <1>3, <2>1, <2>3
  <2> QED BY <2>2, <2>3
<1>5. Refilled(A, C)
  BY <1>3, <1>4 DEF Refilled
<1> QED BY <1>1, <1>2, <1>5 DEF C, ExceedsCredits, NotTwoPhase

LEMMA PlainCall ==
    ASSUME NEW k, Sound(k), NEW batch \in Seq(Plain)
    PROVE  /\ Sound(CreateTransfers(k, batch).cluster)
           /\ Refilled(k.accounts, CreateTransfers(k, batch).cluster.accounts)
<1> DEFINE N == Len(batch)
           r == CreateTransfers(k, batch)
<1>1. PICK st : IsRun(st, k, batch) /\ r.cluster = st[N].cluster /\ r.failures = st[N].failures
  BY BatchRun
<1>2. N \in Nat
  OBVIOUS
<1> DEFINE Q(b) == /\ b.broken = FALSE /\ b.failures \in Nat /\ Sound(b.cluster)
                   /\ Refilled(k.accounts, b.cluster.accounts)
           W == {n \in 0 .. N : Q(st[n])}
<1>3. 0 \in W
  <2>1. st[0] = InBatch(k)
    BY <1>1 DEF IsRun
  <2>2. Q(st[0])
    BY <2>1, RefilledSame DEF InBatch, Sound
  <2> QED BY <1>2, <2>2
<1>4. ASSUME NEW n \in 0 .. N - 1, n \in W PROVE n + 1 \in W
  <2>1. n + 1 \in 1 .. N /\ (n + 1) - 1 = n
    BY <1>2
  <2>2. PICK b : b = st[n] /\ Q(b)
    BY <1>4
  <2>3. PICK t \in Plain : t = batch[n + 1]
    BY <2>1
  <2>4. st[n + 1] = AfterNext(b, t)
    BY <1>1, <2>1, <2>2, <2>3 DEF IsRun
  <2>5. /\ ~ExceedsCredits(b.cluster.accounts, t) /\ NotTwoPhase(t) /\ "linked" \notin t.flags
        /\ Refilled(k.accounts, Post(b.cluster.accounts, t, Amount(b.cluster.accounts, t)))
    BY <2>2, PlainStep
  <2>6. PICK c : c = AfterNext(b, t)
    OBVIOUS
  <2>7. /\ c.cluster = [accounts |-> Post(b.cluster.accounts, t, Amount(b.cluster.accounts, t)),
                        pending |-> b.cluster.pending]
        /\ c.broken = FALSE /\ c.failures = b.failures
    BY <2>2, <2>5, <2>6, AfterOK
  <2>8. Q(c)
    <3>1. PICK B : B = Post(b.cluster.accounts, t, Amount(b.cluster.accounts, t))
      OBVIOUS
    <3>2. c.cluster = [accounts |-> B, pending |-> b.cluster.pending] /\ Refilled(k.accounts, B)
      BY ONLY <2>5, <2>7, <3>1
    <3>3. SoundAccounts(B)
      BY ONLY <3>2 DEF Refilled
    <3>4. Sound(c.cluster)
      BY ONLY <3>2, <3>3 DEF Sound
    <3> QED BY ONLY <2>2, <2>7, <3>2, <3>4
  <2>9. n + 1 \in 0 .. N
    BY <2>1
  <2> HIDE DEF Q, N
  <2> QED BY <2>4, <2>6, <2>8, <2>9
<1> HIDE DEF W
<1>5. \A n \in 0 .. N : n \in W
  BY <1>2, <1>3, <1>4, Climb
<1>6. Q(st[N])
  BY <1>2, <1>5 DEF W
<1> HIDE DEF r
<1> QED BY <1>1, <1>6 DEF r

-----------------------------------------------------------------------------
(* One draw: the seven transfers of a chain, whose accounts begin at p. *)

(* Between draws: sources are not overdrawn, control accounts are level. *)
Settled(A, p) ==
    /\ \A r \in 0 .. 3 : A[p + r].debits_posted <= A[p + r].credits_posted
    /\ A[p + 5].debits_posted = A[p + 5].credits_posted
    /\ A[p + 6].debits_posted = A[p + 6].credits_posted

Seven == [0 .. 6 -> Nat]

(* Accounts B are A but for debits dd and credits cc of the chain. *)
Shifted(A, B, p, dd, cc) ==
    /\ SoundAccounts(A) /\ SoundAccounts(B) /\ dd \in Seven /\ cc \in Seven
    /\ \A a \in Waterfall \ (p .. p + 6) : B[a] = A[a]
    /\ \A r \in 0 .. 6 :
          /\ B[p + r].debits_posted = A[p + r].debits_posted + dd[r]
          /\ B[p + r].credits_posted = A[p + r].credits_posted + cc[r]

LEMMA RowNumbers ==
    ASSUME NEW A, SoundAccounts(A), NEW a \in Waterfall
    PROVE  /\ A[a].debits_posted \in Nat /\ A[a].credits_posted \in Nat
           /\ A[a].debits_pending = 0 /\ A[a].credits_pending = 0
BY DEF SoundAccounts, ChainRow

LEMMA ShiftStep ==
    ASSUME NEW A, NEW B, NEW p \in Nat, p .. p + 6 \subseteq Waterfall,
           NEW dd, NEW cc, Shifted(A, B, p, dd, cc),
           NEW u \in 0 .. 6, NEW v \in 0 .. 6, u # v, NEW x \in Nat,
           NEW t, t.debit = p + u, t.credit = p + v
    PROVE  Shifted(A, Post(B, t, x), p, [dd EXCEPT ![u] = dd[u] + x], [cc EXCEPT ![v] = cc[v] + x])
<1> DEFINE C == Post(B, t, x)
           d2 == [dd EXCEPT ![u] = dd[u] + x]
           c2 == [cc EXCEPT ![v] = cc[v] + x]
<1>1. p + u \in Waterfall /\ p + v \in Waterfall /\ p + u # p + v /\ Waterfall \subseteq Account
  <2>1. p + u \in p .. p + 6 /\ p + v \in p .. p + 6 /\ p + u # p + v
    OBVIOUS
  <2> QED BY <2>1, WaterfallAccounts
<1>2. /\ SoundAccounts(C)
      /\ \A a \in Account \ {p + u, p + v} : C[a] = B[a]
      /\ C[p + u].debits_posted = B[p + u].debits_posted + x
      /\ C[p + u].credits_posted = B[p + u].credits_posted
      /\ C[p + v].credits_posted = B[p + v].credits_posted + x
      /\ C[p + v].debits_posted = B[p + v].debits_posted
  BY <1>1, PostEffect DEF Shifted
<1>3. d2 \in Seven /\ c2 \in Seven
  BY DEF Shifted, Seven
<1>4. /\ \A r \in 0 .. 6 : d2[r] = IF r = u THEN dd[r] + x ELSE dd[r]
      /\ \A r \in 0 .. 6 : c2[r] = IF r = v THEN cc[r] + x ELSE cc[r]
  BY DEF Shifted, Seven
<1> HIDE DEF C, d2, c2
<1>5. ASSUME NEW a \in Waterfall \ (p .. p + 6) PROVE C[a] = A[a]
  <2>1. a \in Account \ {p + u, p + v}
    BY <1>1
  <2> QED BY <1>2, <2>1 DEF Shifted
<1>6. ASSUME NEW r \in 0 .. 6
      PROVE  /\ C[p + r].debits_posted = A[p + r].debits_posted + d2[r]
             /\ C[p + r].credits_posted = A[p + r].credits_posted + c2[r]
  <2>1. /\ B[p + r].debits_posted = A[p + r].debits_posted + dd[r]
        /\ B[p + r].credits_posted = A[p + r].credits_posted + cc[r]
        /\ dd[r] \in Nat /\ cc[r] \in Nat
    BY DEF Shifted, Seven
  <2>2. /\ A[p + r].debits_posted \in Nat /\ A[p + r].credits_posted \in Nat
        /\ p + r \in Account
    <3>1. p + r \in Waterfall
      OBVIOUS
    <3> QED BY <1>1, <3>1, RowNumbers DEF Shifted
  <2>3. CASE r = u
    BY <1>2, <1>4, <2>1, <2>2, <2>3
  <2>4. CASE r = v
    BY <1>2, <1>4, <2>1, <2>2, <2>4
  <2>5. CASE r # u /\ r # v
    <3>1. p + r \in Account \ {p + u, p + v}
      BY <2>2, <2>5
    <3>2. C[p + r] = B[p + r]
      BY <1>2, <3>1
    <3> QED BY <1>4, <2>1, <2>5, <3>2
  <2> QED BY <2>3, <2>4, <2>5
<1>7. Shifted(A, C, p, d2, c2)
  BY <1>2, <1>3, <1>5, <1>6 DEF Shifted
<1> QED BY <1>7 DEF C, d2, c2

(* A source gives what it has, or what is lacking. *)
LEMMA SourceStep ==
    ASSUME NEW A, NEW B, NEW p \in Nat, p .. p + 6 \subseteq Waterfall,
           NEW dd, NEW cc, Shifted(A, B, p, dd, cc), Settled(A, p),
           NEW j \in 0 .. 3, dd[j] = 0, cc[j] = 0,
           cc[5] <= dd[5], dd[5] - cc[5] <= Target,
           NEW t, t.debit = p + j, t.credit = p + 5, t.amount = Target, t.flags = balancing
    PROVE  /\ ~ExceedsCredits(B, t) /\ NotTwoPhase(t) /\ "linked" \in t.flags
           /\ \E x \in Nat :
                 /\ Amount(B, t) = x /\ x <= dd[5] - cc[5]
                 /\ x <= A[p + j].credits_posted - A[p + j].debits_posted
                 /\ \/ x = dd[5] - cc[5]
                    \/ x = A[p + j].credits_posted - A[p + j].debits_posted
                 /\ Shifted(A, Post(B, t, x), p, [dd EXCEPT ![j] = x], [cc EXCEPT ![5] = cc[5] + x])
<1>1. p + j \in Waterfall /\ p + 5 \in Waterfall /\ j \in 0 .. 6
  <2>1. p + j \in p .. p + 6 /\ p + 5 \in p .. p + 6
    OBVIOUS
  <2> QED BY <2>1
<1>2. PICK D \in Nat, C \in Nat, E \in Nat, F \in Nat, d \in Nat, c \in Nat :
         /\ D = A[p + j].debits_posted /\ C = A[p + j].credits_posted
         /\ E = A[p + 5].debits_posted /\ F = A[p + 5].credits_posted
         /\ d = dd[5] /\ c = cc[5]
  <2>1. SoundAccounts(A)
    BY DEF Shifted
  <2>2. A[p + j].debits_posted \in Nat /\ A[p + j].credits_posted \in Nat
    BY <1>1, <2>1, RowNumbers
  <2>3. A[p + 5].debits_posted \in Nat /\ A[p + 5].credits_posted \in Nat
    BY <1>1, <2>1, RowNumbers
  <2>4. dd[5] \in Nat /\ cc[5] \in Nat
    BY DEF Shifted, Seven
  <2> QED BY ONLY <2>2, <2>3, <2>4
<1>3. /\ B[p + j].debits_posted = D /\ B[p + j].credits_posted = C
      /\ B[p + 5].debits_posted = E + d /\ B[p + 5].credits_posted = F + c
  BY <1>1, <1>2 DEF Shifted
<1>4. D <= C /\ E = F
  BY <1>2 DEF Settled
<1>5. /\ B[p + j].debits_pending = 0 /\ B[p + 5].credits_pending = 0
  BY <1>1, RowNumbers DEF Shifted
<1>6. PICK T \in Nat : T = Target
  BY BenchNumbers
<1> DEFINE x == Amount(B, t)
<1>7. Sub(C, D + 0) = C - D /\ Sub(E + d, F + c + 0) = d - c
  <2>1. c <= d
    BY <1>2
  <2> QED BY <1>4, <2>1 DEF Sub
<1>8. x = Least(Least(T, C - D), d - c)
  <2>1. "balancing_debit" \in t.flags /\ "balancing_credit" \in t.flags
    BY DEF balancing
  <2> QED BY <1>3, <1>5, <1>6, <1>7, <2>1 DEF Amount
<1>9. x \in Nat /\ x <= d - c /\ x <= C - D /\ (x = d - c \/ x = C - D)
  <2>1. c <= d /\ d - c <= T
    BY <1>2, <1>6
  <2>2. PICK y : y = x
    OBVIOUS
  <2>3. y = Least(Least(T, C - D), d - c)
    BY <1>8, <2>2
  <2>4. y \in Nat /\ y <= d - c /\ y <= C - D /\ (y = d - c \/ y = C - D)
    BY ONLY <1>2, <1>4, <1>6, <2>1, <2>3 DEF Least
  <2> QED BY <2>2, <2>4
<1> HIDE DEF x
<1>10. ~ExceedsCredits(B, t)
  <2>1. B[p + j].debits_posted + B[p + j].debits_pending + x <= B[p + j].credits_posted
    BY <1>2, <1>3, <1>5, <1>9
  <2> QED BY <1>3, <1>5, <1>9, <2>1 DEF ExceedsCredits, x
<1>11. NotTwoPhase(t) /\ "linked" \in t.flags
  BY DEF NotTwoPhase, balancing
<1>12. Shifted(A, Post(B, t, x), p, [dd EXCEPT ![j] = x], [cc EXCEPT ![5] = cc[5] + x])
  <2>1. Shifted(A, Post(B, t, x), p, [dd EXCEPT ![j] = dd[j] + x], [cc EXCEPT ![5] = cc[5] + x])
    <3>1. PICK y \in Nat : y = x
      BY <1>9
    <3>2. 5 \in 0 .. 6 /\ j # 5
      OBVIOUS
    <3>3. Shifted(A, Post(B, t, y), p, [dd EXCEPT ![j] = dd[j] + y], [cc EXCEPT ![5] = cc[5] + y])
      BY <1>1, <3>2, ShiftStep
    <3> QED BY <3>1, <3>3
  <2>2. dd[j] + x = x
    BY <1>9
  <2> QED BY <2>1, <2>2
<1> QED BY <1>2, <1>9, <1>10, <1>11, <1>12 DEF x

-----------------------------------------------------------------------------
(* Inside a draw: n transfers of the chain have been executed, which began at *)
(* b0; accounts are A but for debits dd and credits cc of the chain.          *)
InDraw(b, b0, A, p, n, dd, cc) ==
    /\ b.broken = FALSE /\ b.before = b0.cluster /\ b.open = n /\ b.failures = b0.failures
    /\ Sound(b.cluster) /\ Shifted(A, b.cluster.accounts, p, dd, cc)

LEMMA LinkedStep ==
    ASSUME NEW b, NEW b0, NEW A, NEW p, NEW n \in Nat, NEW dd, NEW cc, NEW d2, NEW c2,
           InDraw(b, b0, A, p, n, dd, cc), b0.failures \in Nat,
           NEW t, NotTwoPhase(t), "linked" \in t.flags,
           ~ExceedsCredits(b.cluster.accounts, t),
           Shifted(A, Post(b.cluster.accounts, t, Amount(b.cluster.accounts, t)), p, d2, c2)
    PROVE  InDraw(AfterNext(b, t), b0, A, p, n + 1, d2, c2)
<1>1. /\ b.broken = FALSE /\ Sound(b.cluster) /\ b.failures \in Nat
      /\ b.before = b0.cluster /\ b.open = n /\ b.failures = b0.failures
  BY DEF InDraw
<1>2. PICK c : c = AfterNext(b, t)
  OBVIOUS
<1>3. PICK B : B = Post(b.cluster.accounts, t, Amount(b.cluster.accounts, t))
  OBVIOUS
<1>4. /\ c.cluster = [accounts |-> B, pending |-> b.cluster.pending]
      /\ c.before = b.before /\ c.open = b.open + 1
      /\ c.broken = FALSE /\ c.failures = b.failures
  BY <1>1, <1>2, <1>3, AfterOK
<1>5. Shifted(A, B, p, d2, c2) /\ SoundAccounts(B)
  BY <1>3 DEF Shifted
<1>6. Sound(c.cluster) /\ c.cluster.accounts = B
  BY <1>4, <1>5 DEF Sound
<1>7. InDraw(c, b0, A, p, n + 1, d2, c2)
  BY ONLY <1>1, <1>4, <1>5, <1>6 DEF InDraw
<1> QED BY <1>2, <1>7

(* A transfer of the target between accounts of the chain that has no limit. *)
Passes(b, b0, A, p, n, dd, cc, u, v) ==
    \E d2, c2 : /\ InDraw(b, b0, A, p, n, d2, c2)
                /\ d2[u] = dd[u] + Target /\ \A r \in 0 .. 6 \ {u} : d2[r] = dd[r]
                /\ c2[v] = cc[v] + Target /\ \A r \in 0 .. 6 \ {v} : c2[r] = cc[r]

LEMMA DrawPlain ==
    ASSUME NEW b, NEW b0, NEW A, NEW p \in Nat, p .. p + 6 \subseteq Waterfall,
           NEW n \in Nat, NEW dd, NEW cc,
           InDraw(b, b0, A, p, n, dd, cc), b0.failures \in Nat,
           NEW u \in 0 .. 6, NEW v \in 0 .. 6, u # v, p + u \notin Constrained,
           NEW t, t = Transfer(p + u, p + v, Target, {"linked"})
    PROVE  Passes(AfterNext(b, t), b0, A, p, n + 1, dd, cc, u, v)
<1> DEFINE d2 == [dd EXCEPT ![u] = dd[u] + Target]
           c2 == [cc EXCEPT ![v] = cc[v] + Target]
<1>1. /\ t.debit = p + u /\ t.credit = p + v /\ t.amount = Target /\ t.flags = {"linked"}
  BY DEF Transfer
<1>2. NotTwoPhase(t) /\ "linked" \in t.flags
  BY <1>1 DEF NotTwoPhase
<1>3. Amount(b.cluster.accounts, t) = Target
  BY <1>1 DEF Amount
<1>4. ~ExceedsCredits(b.cluster.accounts, t)
  BY <1>1 DEF ExceedsCredits
<1>5. Shifted(A, b.cluster.accounts, p, dd, cc)
  BY DEF InDraw
<1>6. dd \in Seven /\ cc \in Seven
  BY <1>5 DEF Shifted
<1>7. Shifted(A, Post(b.cluster.accounts, t, Target), p, d2, c2)
  <2> HIDE DEF d2, c2
  <2>1. PICK B : B = b.cluster.accounts
    OBVIOUS
  <2>2. PICK x \in Nat : x = Target
    BY BenchNumbers
  <2>3. Shifted(A, Post(B, t, x), p, [dd EXCEPT ![u] = dd[u] + x], [cc EXCEPT ![v] = cc[v] + x])
    BY <1>1, <1>5, <2>1, ShiftStep
  <2> QED BY <2>1, <2>2, <2>3 DEF d2, c2
<1>8. /\ d2[u] = dd[u] + Target /\ \A r \in 0 .. 6 \ {u} : d2[r] = dd[r]
      /\ c2[v] = cc[v] + Target /\ \A r \in 0 .. 6 \ {v} : c2[r] = cc[r]
  BY <1>6 DEF Seven
<1> HIDE DEF d2, c2
<1>9. InDraw(AfterNext(b, t), b0, A, p, n + 1, d2, c2)
  BY <1>2, <1>3, <1>4, <1>7, LinkedStep
<1> QED BY ONLY <1>8, <1>9 DEF Passes

(* What account a may still pay. *)
Left(A, a) == A[a].credits_posted - A[a].debits_posted

(* Source j gives x: what it has or what is lacking.                         *)
MayGive(b, b0, A, p, n, dd, cc, j) ==
    /\ InDraw(b, b0, A, p, n, dd, cc) /\ b0.failures \in Nat /\ Settled(A, p)
    /\ dd[j] = 0 /\ cc[j] = 0 /\ cc[5] <= dd[5] /\ dd[5] - cc[5] <= Target

Gives(b, b0, A, p, n, dd, cc, j, x) ==
    /\ \E d2, c2 :
          /\ InDraw(b, b0, A, p, n, d2, c2)
          /\ d2[j] = x /\ \A r \in 0 .. 6 \ {j} : d2[r] = dd[r]
          /\ c2[5] = cc[5] + x /\ \A r \in 0 .. 6 \ {5} : c2[r] = cc[r]
    /\ x <= dd[5] - cc[5] /\ x <= Left(A, p + j)
    /\ x = dd[5] - cc[5] \/ x = Left(A, p + j)

LEMMA DrawSource ==
    ASSUME NEW b, NEW b0, NEW A, NEW p \in Nat, p .. p + 6 \subseteq Waterfall,
           NEW n \in Nat, NEW dd, NEW cc, NEW j \in 0 .. 3, MayGive(b, b0, A, p, n, dd, cc, j),
           NEW t, t = Transfer(p + j, p + 5, Target, balancing)
    PROVE  \E x \in Nat : Gives(AfterNext(b, t), b0, A, p, n + 1, dd, cc, j, x)
<1>0. /\ InDraw(b, b0, A, p, n, dd, cc) /\ b0.failures \in Nat /\ Settled(A, p)
      /\ dd[j] = 0 /\ cc[j] = 0 /\ cc[5] <= dd[5] /\ dd[5] - cc[5] <= Target
  BY DEF MayGive
<1>1. /\ t.debit = p + j /\ t.credit = p + 5 /\ t.amount = Target /\ t.flags = balancing
  BY DEF Transfer
<1>2. Shifted(A, b.cluster.accounts, p, dd, cc)
  BY <1>0 DEF InDraw
<1>3. dd \in Seven /\ cc \in Seven
  BY <1>2 DEF Shifted
<1>4. PICK B : B = b.cluster.accounts
  OBVIOUS
<1>5. /\ ~ExceedsCredits(B, t) /\ NotTwoPhase(t) /\ "linked" \in t.flags
      /\ \E x \in Nat :
            /\ Amount(B, t) = x /\ x <= dd[5] - cc[5]
            /\ x <= A[p + j].credits_posted - A[p + j].debits_posted
            /\ \/ x = dd[5] - cc[5]
               \/ x = A[p + j].credits_posted - A[p + j].debits_posted
            /\ Shifted(A, Post(B, t, x), p, [dd EXCEPT ![j] = x], [cc EXCEPT ![5] = cc[5] + x])
  <2>1. /\ p \in Nat /\ p .. p + 6 \subseteq Waterfall /\ Shifted(A, B, p, dd, cc)
        /\ Settled(A, p) /\ j \in 0 .. 3 /\ dd[j] = 0 /\ cc[j] = 0
        /\ cc[5] <= dd[5] /\ dd[5] - cc[5] <= Target
    BY <1>0, <1>2, <1>4
  <2> QED BY ONLY <1>1, <2>1, SourceStep
<1>6. PICK x \in Nat :
            /\ Amount(B, t) = x /\ x <= dd[5] - cc[5] /\ x <= Left(A, p + j)
            /\ x = dd[5] - cc[5] \/ x = Left(A, p + j)
            /\ Shifted(A, Post(B, t, x), p, [dd EXCEPT ![j] = x], [cc EXCEPT ![5] = cc[5] + x])
  BY <1>5 DEF Left
<1> DEFINE d2 == [dd EXCEPT ![j] = x]
           c2 == [cc EXCEPT ![5] = cc[5] + x]
<1>7. /\ d2[j] = x /\ \A r \in 0 .. 6 \ {j} : d2[r] = dd[r]
      /\ c2[5] = cc[5] + x /\ \A r \in 0 .. 6 \ {5} : c2[r] = cc[r]
  BY <1>3 DEF Seven
<1>8. Shifted(A, Post(B, t, Amount(B, t)), p, d2, c2)
  BY <1>6
<1> HIDE DEF d2, c2
<1>9. InDraw(AfterNext(b, t), b0, A, p, n + 1, d2, c2)
  BY <1>0, <1>4, <1>5, <1>8, LinkedStep
<1> QED BY ONLY <1>6, <1>7, <1>9 DEF Gives

(* Between chains of a call. *)
Boundary(b) ==
    /\ b.broken = FALSE /\ b.open = 0 /\ b.failures \in Nat
    /\ Sound(b.cluster) /\ b.before = b.cluster

(* The last transfer of the chain levels the control accounts if the sources  *)
(* paid the target, and is refused if they did not.                          *)
LEMMA DrawLast ==
    ASSUME NEW b, NEW b0, NEW A, NEW p \in Nat, p .. p + 6 \subseteq Waterfall,
           NEW dd, NEW cc, InDraw(b, b0, A, p, 6, dd, cc),
           Boundary(b0), A = b0.cluster.accounts, Settled(A, p), p + 6 \in Constrained,
           dd[5] = Target + Target, cc[5] <= Target, dd[6] = 0, cc[6] = Target,
           NEW t, t = Transfer(p + 6, p + 5, AmountMax, {"balancing_credit"})
    PROVE  /\ Boundary(AfterNext(b, t))
           /\ \/ /\ cc[5] = Target /\ AfterNext(b, t).failures = b0.failures
                 /\ \E d2, c2 :
                       /\ Shifted(A, AfterNext(b, t).cluster.accounts, p, d2, c2)
                       /\ d2[6] = Target /\ \A r \in 0 .. 5 : d2[r] = dd[r]
                       /\ c2[5] = Target + Target /\ \A r \in 0 .. 6 \ {5} : c2[r] = cc[r]
              \/ AfterNext(b, t).cluster = b0.cluster /\ AfterNext(b, t).failures > b0.failures
<1>1. /\ t.debit = p + 6 /\ t.credit = p + 5 /\ t.amount = AmountMax
      /\ t.flags = {"balancing_credit"}
  BY DEF Transfer
<1>2. NotTwoPhase(t) /\ "linked" \notin t.flags
  BY <1>1 DEF NotTwoPhase
<1>3. PICK B : B = b.cluster.accounts
  OBVIOUS
<1>4. Shifted(A, B, p, dd, cc)
  BY <1>3 DEF InDraw
<1>5. /\ b.broken = FALSE /\ Sound(b.cluster) /\ b.failures \in Nat /\ b.before = b0.cluster
      /\ b.open = 6 /\ b.failures = b0.failures /\ Sound(b0.cluster) /\ b0.failures \in Nat
  BY DEF InDraw, Boundary
<1>6. p + 5 \in Waterfall /\ p + 6 \in Waterfall
  <2>1. p + 5 \in p .. p + 6 /\ p + 6 \in p .. p + 6
    OBVIOUS
  <2> QED BY <2>1
<1>7. PICK e \in Nat, f \in Nat, T \in Nat, s \in Nat :
         /\ e = A[p + 5].debits_posted /\ f = A[p + 6].debits_posted
         /\ T = Target /\ s = cc[5]
  <2>1. A[p + 5].debits_posted \in Nat /\ A[p + 6].debits_posted \in Nat
    BY <1>4, <1>6, RowNumbers DEF Shifted
  <2>2. cc[5] \in Nat
    BY <1>4 DEF Shifted, Seven
  <2>3. Target \in Nat
    BY BenchNumbers
  <2> QED BY ONLY <2>1, <2>2, <2>3
<1>8. /\ B[p + 5].debits_posted = e + (T + T) /\ B[p + 5].credits_posted = e + s
      /\ B[p + 6].debits_posted = f /\ B[p + 6].credits_posted = f + T
      /\ B[p + 5].credits_pending = 0 /\ B[p + 6].debits_pending = 0
  <2>1. A[p + 5].credits_posted = e /\ A[p + 6].credits_posted = f
    BY <1>7 DEF Settled
  <2>2. /\ B[p + 5].debits_posted = A[p + 5].debits_posted + dd[5]
        /\ B[p + 5].credits_posted = A[p + 5].credits_posted + cc[5]
        /\ B[p + 6].debits_posted = A[p + 6].debits_posted + dd[6]
        /\ B[p + 6].credits_posted = A[p + 6].credits_posted + cc[6]
    BY <1>4 DEF Shifted
  <2>3. B[p + 5].credits_pending = 0 /\ B[p + 6].debits_pending = 0
    BY <1>4, <1>6, RowNumbers DEF Shifted
  <2> QED BY <1>7, <2>1, <2>2, <2>3
<1>9. s <= T /\ T < AmountMax /\ AmountMax \in Nat
  BY <1>7, BenchNumbers
<1>10. Amount(B, t) = Least(AmountMax, (T + T) - s)
  <2>1. Sub(e + (T + T), (e + s) + 0) = (T + T) - s
    BY ONLY <1>7, <1>9 DEF Sub
  <2> QED BY <1>1, <1>8, <2>1 DEF Amount
<1>11. PICK c : c = AfterNext(b, t)
  OBVIOUS
<1>12. CASE s = T
  <2>1. Amount(B, t) = T
    BY ONLY <1>7, <1>9, <1>10, <1>12 DEF Least
  <2>2. ~ExceedsCredits(B, t)
    <3>1. f + 0 + T <= f + T
      BY ONLY <1>7
    <3> QED BY <1>1, <1>7, <1>8, <2>1, <3>1 DEF ExceedsCredits
  <2>3. /\ c.cluster = [accounts |-> Post(B, t, T), pending |-> b.cluster.pending]
        /\ c.before = c.cluster /\ c.open = 0 /\ c.broken = FALSE /\ c.failures = b.failures
    <3>1. ~ExceedsCredits(b.cluster.accounts, t)
      BY <1>3, <2>2
    <3>2. b.broken = FALSE /\ Sound(b.cluster) /\ b.failures \in Nat /\ NotTwoPhase(t)
      BY ONLY <1>2, <1>5
    <3>3. LET n == AfterNext(b, t) IN
          /\ n.cluster = [accounts |-> Post(b.cluster.accounts, t, Amount(b.cluster.accounts, t)),
                          pending |-> b.cluster.pending]
          /\ n.before = IF "linked" \in t.flags THEN b.before ELSE n.cluster
          /\ n.open = IF "linked" \in t.flags THEN b.open + 1 ELSE 0
          /\ n.broken = FALSE /\ n.failures = b.failures
      BY ONLY <3>1, <3>2, AfterOK
    <3> QED BY ONLY <1>2, <1>3, <1>11, <2>1, <3>3
  <2> DEFINE d2 == [dd EXCEPT ![6] = dd[6] + T]
             c2 == [cc EXCEPT ![5] = cc[5] + T]
  <2>4. Shifted(A, Post(B, t, T), p, d2, c2)
    <3>1. 5 \in 0 .. 6 /\ 6 \in 0 .. 6 /\ 6 # 5
      OBVIOUS
    <3>2. p \in Nat /\ p .. p + 6 \subseteq Waterfall /\ T \in Nat
      OBVIOUS
    <3> QED BY ONLY <1>1, <1>4, <3>1, <3>2, ShiftStep
  <2>5. /\ d2[6] = Target /\ \A r \in 0 .. 5 : d2[r] = dd[r]
        /\ c2[5] = Target + Target /\ \A r \in 0 .. 6 \ {5} : c2[r] = cc[r]
    <3>1. dd \in Seven /\ cc \in Seven
      BY <1>4 DEF Shifted
    <3>2. d2[6] = 0 + T /\ c2[5] = T + T
      BY <1>7, <1>12, <3>1 DEF Seven
    <3>3. (\A r \in 0 .. 5 : d2[r] = dd[r]) /\ \A r \in 0 .. 6 \ {5} : c2[r] = cc[r]
      BY <3>1 DEF Seven
    <3> QED BY <1>7, <3>2, <3>3
  <2> HIDE DEF d2, c2
  <2>6. Boundary(c) /\ c.cluster.accounts = Post(B, t, T)
    BY <1>5, <2>3, <2>4 DEF Boundary, Sound, Shifted
  <2> QED BY <1>5, <1>7, <1>11, <1>12, <2>3, <2>4, <2>5, <2>6
<1>13. CASE s # T
  <2>1. Amount(B, t) > T /\ Amount(B, t) \in Nat
    BY ONLY <1>7, <1>9, <1>10, <1>13 DEF Least
  <2>2. ExceedsCredits(B, t)
    <3>1. f + 0 + Amount(B, t) > f + T
      BY ONLY <1>7, <2>1
    <3> QED BY <1>1, <1>7, <1>8, <3>1 DEF ExceedsCredits
  <2>3. /\ c.cluster = b.before /\ c.before = b.before /\ c.open = 0 /\ c.broken = FALSE
        /\ c.failures = b.failures + b.open + 1
    <3>1. b.open \in Nat
      BY <1>5
    <3> QED BY <1>2, <1>3, <1>5, <1>11, <2>2, <3>1, AfterRefused
  <2>4. Boundary(c) /\ c.failures > b0.failures
    BY ONLY <1>5, <2>3 DEF Boundary
  <2> QED BY <1>5, <1>11, <2>3, <2>4
<1> QED BY <1>12, <1>13

FromSources == [0 .. 3 -> Nat]

AddUp(x) == x[0] + x[1] + x[2] + x[3]

(* Sources give x, in their order: a later one only what is lacking. *)
InOrderOf(A, p, x, n) ==
    /\ \A j \in 0 .. 3 : j < n => x[j] <= Left(A, p + j)
    /\ \A h, j \in 0 .. 3 : h < j /\ x[j] > 0 => x[h] = Left(A, p + h)

(* Inside a draw, after the first n sources. *)
Sourced(b, b0, A, p, n, x) ==
    /\ x \in FromSources /\ AddUp(x) <= Target /\ \A j \in 0 .. 3 : j >= n => x[j] = 0
    /\ InOrderOf(A, p, x, n)
    /\ AddUp(x) < Target => \A j \in 0 .. 3 : j < n => x[j] = Left(A, p + j)
    /\ \E dd, cc :
          /\ InDraw(b, b0, A, p, n + 1, dd, cc)
          /\ \A j \in 0 .. 3 : dd[j] = x[j] /\ cc[j] = 0
          /\ dd[4] = 0 /\ dd[5] = Target /\ dd[6] = 0
          /\ cc[4] = 0 /\ cc[5] = AddUp(x) /\ cc[6] = Target

LEMMA AddUpOne ==
    ASSUME NEW x \in FromSources, NEW n \in 0 .. 3, x[n] = 0, NEW y \in Nat
    PROVE  /\ [x EXCEPT ![n] = y] \in FromSources
           /\ [x EXCEPT ![n] = y][n] = y
           /\ \A j \in 0 .. 3 : j # n => [x EXCEPT ![n] = y][j] = x[j]
           /\ AddUp([x EXCEPT ![n] = y]) = AddUp(x) + y
           /\ AddUp(x) \in Nat
<1> DEFINE z == [x EXCEPT ![n] = y]
<1>1. /\ z \in FromSources /\ z[n] = y
      /\ \A j \in 0 .. 3 : j # n => z[j] = x[j]
  BY DEF FromSources
<1>2. x[0] \in Nat /\ x[1] \in Nat /\ x[2] \in Nat /\ x[3] \in Nat
  BY DEF FromSources
<1> HIDE DEF z
<1>3. n = 0 \/ n = 1 \/ n = 2 \/ n = 3
  OBVIOUS
<1>4. AddUp(z) = AddUp(x) + y
  <2>1. CASE n = 0
    BY <1>1, <1>2, <2>1 DEF AddUp
  <2>2. CASE n = 1
    BY <1>1, <1>2, <2>2 DEF AddUp
  <2>3. CASE n = 2
    BY <1>1, <1>2, <2>3 DEF AddUp
  <2>4. CASE n = 3
    BY <1>1, <1>2, <2>4 DEF AddUp
  <2> QED BY <1>3, <2>1, <2>2, <2>3, <2>4
<1>5. AddUp(x) \in Nat
  BY <1>2 DEF AddUp
<1> QED BY <1>1, <1>4, <1>5 DEF z

LEMMA DrawNext ==
    ASSUME NEW b, NEW b0, NEW A, NEW p \in Nat, p .. p + 6 \subseteq Waterfall,
           NEW n \in 0 .. 3, NEW x, Sourced(b, b0, A, p, n, x), b0.failures \in Nat,
           Settled(A, p), NEW t, t = Transfer(p + n, p + 5, Target, balancing)
    PROVE  \E z : Sourced(AfterNext(b, t), b0, A, p, n + 1, z)
<1>1. PICK dd, cc :
          /\ InDraw(b, b0, A, p, n + 1, dd, cc)
          /\ \A j \in 0 .. 3 : dd[j] = x[j] /\ cc[j] = 0
          /\ dd[4] = 0 /\ dd[5] = Target /\ dd[6] = 0
          /\ cc[4] = 0 /\ cc[5] = AddUp(x) /\ cc[6] = Target
  BY DEF Sourced
<1>2. /\ x \in FromSources /\ AddUp(x) <= Target /\ x[n] = 0
      /\ AddUp(x) \in Nat
  <2>1. x \in FromSources /\ AddUp(x) <= Target /\ x[n] = 0
    BY DEF Sourced
  <2> QED BY <2>1, AddUpOne
<1>3. PICK s \in Nat, T \in Nat : s = AddUp(x) /\ T = Target /\ s <= T
  <2>1. Target \in Nat
    BY BenchNumbers
  <2> QED BY ONLY <1>2, <2>1
<1>4. PICK y, d2, c2 :
          /\ y \in Nat
          /\ InDraw(AfterNext(b, t), b0, A, p, (n + 1) + 1, d2, c2)
          /\ d2[n] = y /\ \A r \in 0 .. 6 \ {n} : d2[r] = dd[r]
          /\ c2[5] = cc[5] + y /\ \A r \in 0 .. 6 \ {5} : c2[r] = cc[r]
          /\ y <= dd[5] - cc[5] /\ y <= Left(A, p + n)
          /\ y = dd[5] - cc[5] \/ y = Left(A, p + n)
  <2>1. /\ p \in Nat /\ p .. p + 6 \subseteq Waterfall /\ n + 1 \in Nat
        /\ InDraw(b, b0, A, p, n + 1, dd, cc) /\ b0.failures \in Nat /\ Settled(A, p)
        /\ n \in 0 .. 3 /\ t = Transfer(p + n, p + 5, Target, balancing)
    BY <1>1
  <2>2. dd[n] = 0 /\ cc[n] = 0
    BY <1>1, <1>2
  <2>3. cc[5] <= dd[5] /\ dd[5] - cc[5] <= Target
    <3>1. s <= T /\ T - s <= T
      BY ONLY <1>3
    <3> QED BY ONLY <1>1, <1>3, <3>1
  <2>4. PICK m \in Nat : m = n + 1
    BY <2>1
  <2>5. MayGive(b, b0, A, p, m, dd, cc, n)
    BY ONLY <2>1, <2>2, <2>3, <2>4 DEF MayGive
  <2>6. \E y \in Nat : Gives(AfterNext(b, t), b0, A, p, m + 1, dd, cc, n, y)
    BY ONLY <2>1, <2>5, DrawSource
  <2> QED BY ONLY <2>4, <2>6 DEF Gives
<1> DEFINE z == [x EXCEPT ![n] = y]
<1>5. /\ z \in FromSources /\ z[n] = y /\ \A j \in 0 .. 3 : j # n => z[j] = x[j]
      /\ AddUp(z) = s + y
  <2>1. y \in Nat
    BY <1>4
  <2> QED BY <1>2, <1>3, <2>1, AddUpOne
<1> HIDE DEF z
<1>6. y <= T - s /\ y <= Left(A, p + n) /\ (y = T - s \/ y = Left(A, p + n))
  BY ONLY <1>1, <1>3, <1>4
<1>7. s + y <= T /\ (s + y < T => y = Left(A, p + n) /\ s < T) /\ (y > 0 => s < T)
  BY ONLY <1>3, <1>4, <1>6
<1>8. /\ \A j \in 0 .. 3 : j >= n + 1 => z[j] = 0
      /\ AddUp(z) <= Target
      /\ AddUp(z) < Target => \A j \in 0 .. 3 : j < n + 1 => z[j] = Left(A, p + j)
  <2>1. /\ \A j \in 0 .. 3 : j >= n => x[j] = 0
        /\ s < T => \A j \in 0 .. 3 : j < n => x[j] = Left(A, p + j)
    BY <1>3 DEF Sourced
  <2>2. ASSUME NEW j \in 0 .. 3, j >= n + 1 PROVE z[j] = 0
    <3>1. j >= n /\ j # n
      BY <2>2
    <3> QED BY <1>5, <2>1, <3>1
  <2>3. ASSUME AddUp(z) < Target, NEW j \in 0 .. 3, j < n + 1 PROVE z[j] = Left(A, p + j)
    <3>1. j = n \/ (j < n /\ j # n)
      BY <2>3
    <3>2. s + y < T
      BY <1>3, <1>5, <2>3
    <3> QED BY <1>5, <1>7, <2>1, <3>1, <3>2
  <2> QED BY <1>3, <1>5, <1>7, <2>2, <2>3
<1>9. InOrderOf(A, p, z, n + 1)
  <2>1. InOrderOf(A, p, x, n) /\ s < T => \A j \in 0 .. 3 : j < n => x[j] = Left(A, p + j)
    BY <1>3 DEF Sourced
  <2>2. InOrderOf(A, p, x, n) /\ \A j \in 0 .. 3 : j >= n => x[j] = 0
    BY DEF Sourced
  <2>3. ASSUME NEW j \in 0 .. 3, j < n + 1 PROVE z[j] <= Left(A, p + j)
    <3>1. j = n \/ (j < n /\ j # n)
      BY <2>3
    <3> QED BY <1>5, <1>6, <2>2, <3>1 DEF InOrderOf
  <2>4. ASSUME NEW h \in 0 .. 3, NEW j \in 0 .. 3, h < j, z[j] > 0 PROVE z[h] = Left(A, p + h)
    <3>1. CASE j = n
      <4>1. h < n /\ h # n
        BY <2>4, <3>1
      <4>2. s < T
        BY <1>5, <1>7, <2>4, <3>1
      <4> QED BY <1>5, <2>1, <2>2, <4>1, <4>2
    <3>2. CASE j # n
      <4>1. x[j] > 0
        BY <1>5, <2>4, <3>2
      <4>2. ~(j >= n)
        BY <2>2, <4>1
      <4>3. h # n
        BY <2>4, <4>2
      <4> QED BY <1>5, <2>2, <2>4, <4>1, <4>3 DEF InOrderOf
    <3> QED BY <3>1, <3>2
  <2> QED BY <2>3, <2>4 DEF InOrderOf
<1>10. /\ \A j \in 0 .. 3 : d2[j] = z[j] /\ c2[j] = 0
       /\ d2[4] = 0 /\ d2[5] = Target /\ d2[6] = 0
       /\ c2[4] = 0 /\ c2[5] = AddUp(z) /\ c2[6] = Target
  <2>1. ASSUME NEW j \in 0 .. 3 PROVE d2[j] = z[j] /\ c2[j] = 0
    <3>1. j \in 0 .. 6 \ {5} /\ (j # n => j \in 0 .. 6 \ {n})
      OBVIOUS
    <3> QED BY <1>1, <1>4, <1>5, <3>1
  <2>2. /\ 4 \in 0 .. 6 \ {n} /\ 5 \in 0 .. 6 \ {n} /\ 6 \in 0 .. 6 \ {n}
        /\ 4 \in 0 .. 6 \ {5} /\ 6 \in 0 .. 6 \ {5}
    OBVIOUS
  <2> QED BY <1>1, <1>3, <1>4, <1>5, <2>1, <2>2
<1>11. Sourced(AfterNext(b, t), b0, A, p, n + 1, z)
  BY ONLY <1>4, <1>5, <1>8, <1>9, <1>10 DEF Sourced
<1> QED BY <1>11

(* A draw of g, 0 or the target, as its chain's accounts show it. *)
Moved(A, B, p, g) ==
    /\ \E x \in FromSources :
          /\ AddUp(x) = g /\ InOrderOf(A, p, x, 4)
          /\ \A j \in 0 .. 3 : /\ B[p + j].debits_posted = A[p + j].debits_posted + x[j]
                               /\ B[p + j].credits_posted = A[p + j].credits_posted
    /\ B[p + 4].credits_posted = A[p + 4].credits_posted + g
    /\ \A r \in 5 .. 6 : A[p + r].debits_posted = A[p + r].credits_posted
                         => B[p + r].debits_posted = B[p + r].credits_posted

IsChain(q, p) ==
    /\ q[1] = Transfer(p + 5, p + 6, Target, {"linked"})
    /\ \A j \in 0 .. 3 : q[j + 2] = Transfer(p + j, p + 5, Target, balancing)
    /\ q[6] = Transfer(p + 5, p + 4, Target, {"linked"})
    /\ q[7] = Transfer(p + 6, p + 5, AmountMax, {"balancing_credit"})

LEMMA ShiftNothing ==
    ASSUME NEW A, SoundAccounts(A), NEW p \in Nat, p .. p + 6 \subseteq Waterfall
    PROVE  Shifted(A, A, p, [r \in 0 .. 6 |-> 0], [r \in 0 .. 6 |-> 0])
<1> DEFINE z == [r \in 0 .. 6 |-> 0]
<1>1. z \in Seven /\ \A r \in 0 .. 6 : z[r] = 0
  BY DEF Seven
<1>2. ASSUME NEW r \in 0 .. 6
      PROVE  /\ A[p + r].debits_posted = A[p + r].debits_posted + 0
             /\ A[p + r].credits_posted = A[p + r].credits_posted + 0
  <2>1. p + r \in Waterfall
    BY p + r \in p .. p + 6
  <2>2. A[p + r].debits_posted \in Nat /\ A[p + r].credits_posted \in Nat
    BY <2>1, RowNumbers
  <2> QED BY ONLY <2>2
<1> HIDE DEF z
<1>3. Shifted(A, A, p, z, z)
  BY <1>1, <1>2 DEF Shifted
<1> QED BY <1>3 DEF z

LEMMA MovedNothing ==
    ASSUME NEW A, SoundAccounts(A), NEW p \in Nat, p .. p + 6 \subseteq Waterfall, Settled(A, p)
    PROVE  Moved(A, A, p, 0)
<1> DEFINE z == [j \in 0 .. 3 |-> 0]
<1>1. z \in FromSources /\ AddUp(z) = 0 /\ \A j \in 0 .. 3 : z[j] = 0
  BY DEF FromSources, AddUp
<1>2. \A j \in 0 .. 4 : /\ p + j \in Waterfall
                        /\ A[p + j].debits_posted \in Nat /\ A[p + j].credits_posted \in Nat
  <2>1. \A j \in 0 .. 4 : p + j \in p .. p + 6
    OBVIOUS
  <2> QED BY <2>1, RowNumbers
<1>3. \A j \in 0 .. 3 : A[p + j].debits_posted <= A[p + j].credits_posted
  BY DEF Settled
<1> HIDE DEF z
<1>4. InOrderOf(A, p, z, 4)
  <2>1. ASSUME NEW j \in 0 .. 3 PROVE z[j] <= Left(A, p + j)
    <3>1. j \in 0 .. 4
      OBVIOUS
    <3>2. PICK d \in Nat, c \in Nat : d = A[p + j].debits_posted /\ c = A[p + j].credits_posted
      BY <1>2, <3>1
    <3>3. d <= c
      BY <1>3, <3>2
    <3> QED BY <1>1, <3>2, <3>3 DEF Left
  <2>2. \A h, j \in 0 .. 3 : ~(z[j] > 0)
    BY <1>1
  <2> QED BY <2>1, <2>2 DEF InOrderOf
<1>5. \A j \in 0 .. 3 : /\ A[p + j].debits_posted = A[p + j].debits_posted + z[j]
                        /\ A[p + j].credits_posted = A[p + j].credits_posted
  <2> SUFFICES ASSUME NEW j \in 0 .. 3
               PROVE  A[p + j].debits_posted = A[p + j].debits_posted + z[j]
    OBVIOUS
  <2>1. j \in 0 .. 4
    OBVIOUS
  <2> QED BY <1>1, <1>2, <2>1
<1>6. A[p + 4].credits_posted = A[p + 4].credits_posted + 0
  BY <1>2
<1> QED BY <1>1, <1>4, <1>5, <1>6 DEF Moved

(* The chain is executed as a whole or not at all. *)
LEMMA ChainRun ==
    ASSUME NEW p \in Nat, p .. p + 6 \subseteq Waterfall,
           p + 5 \notin Constrained, p + 6 \in Constrained,
           NEW q, IsChain(q, p), NEW b, Boundary(b[0]), Settled(b[0].cluster.accounts, p),
           \A k \in 1 .. 7 : b[k] = AfterNext(b[k - 1], q[k])
    PROVE  /\ Boundary(b[7])
           /\ \E g \in {0, Target} :
                 /\ Moved(b[0].cluster.accounts, b[7].cluster.accounts, p, g)
                 /\ b[7].failures >= b[0].failures
                 /\ b[7].failures = b[0].failures => g = Target
           /\ \A a \in Waterfall \ (p .. p + 6) :
                 b[7].cluster.accounts[a] = b[0].cluster.accounts[a]
<1>1. PICK b0, A : b0 = b[0] /\ A = b0.cluster.accounts
  OBVIOUS
<1>2. Boundary(b0) /\ Settled(A, p) /\ SoundAccounts(A) /\ b0.failures \in Nat
  BY <1>1 DEF Boundary, Sound
<1>3. PICK z : InDraw(b0, b0, A, p, 0, z, z) /\ \A r \in 0 .. 6 : z[r] = 0
  <2>1. Shifted(A, A, p, [r \in 0 .. 6 |-> 0], [r \in 0 .. 6 |-> 0])
    BY <1>2, ShiftNothing
  <2>2. InDraw(b0, b0, A, p, 0, [r \in 0 .. 6 |-> 0], [r \in 0 .. 6 |-> 0])
    BY <1>1, <1>2, <2>1 DEF InDraw, Boundary
  <2> QED BY <2>2
<1>4. /\ b[1] = AfterNext(b0, q[1]) /\ b[2] = AfterNext(b[1], q[2])
      /\ b[3] = AfterNext(b[2], q[3]) /\ b[4] = AfterNext(b[3], q[4])
      /\ b[5] = AfterNext(b[4], q[5]) /\ b[6] = AfterNext(b[5], q[6])
      /\ b[7] = AfterNext(b[6], q[7])
  BY <1>1
<1>5. /\ q[1] = Transfer(p + 5, p + 6, Target, {"linked"})
      /\ q[2] = Transfer(p + 0, p + 5, Target, balancing)
      /\ q[3] = Transfer(p + 1, p + 5, Target, balancing)
      /\ q[4] = Transfer(p + 2, p + 5, Target, balancing)
      /\ q[5] = Transfer(p + 3, p + 5, Target, balancing)
      /\ q[6] = Transfer(p + 5, p + 4, Target, {"linked"})
      /\ q[7] = Transfer(p + 6, p + 5, AmountMax, {"balancing_credit"})
  <2>1. \A j \in 0 .. 3 : q[j + 2] = Transfer(p + j, p + 5, Target, balancing)
    BY DEF IsChain
  <2>2. /\ q[0 + 2] = Transfer(p + 0, p + 5, Target, balancing)
        /\ q[1 + 2] = Transfer(p + 1, p + 5, Target, balancing)
        /\ q[2 + 2] = Transfer(p + 2, p + 5, Target, balancing)
        /\ q[3 + 2] = Transfer(p + 3, p + 5, Target, balancing)
    BY <2>1
  <2> QED BY <2>2 DEF IsChain
<1>6. \E x : Sourced(b[1], b0, A, p, 0, x)
  <2>1. PICK d1, c1 :
              /\ InDraw(b[1], b0, A, p, 0 + 1, d1, c1)
              /\ d1[5] = z[5] + Target /\ \A r \in 0 .. 6 \ {5} : d1[r] = z[r]
              /\ c1[6] = z[6] + Target /\ \A r \in 0 .. 6 \ {6} : c1[r] = z[r]
    <3>1. p \in Nat /\ p .. p + 6 \subseteq Waterfall /\ p + 5 \notin Constrained
      OBVIOUS
    <3>2. 5 \in 0 .. 6 /\ 6 \in 0 .. 6 /\ 5 # 6 /\ 0 \in Nat
      OBVIOUS
    <3>3. /\ InDraw(b0, b0, A, p, 0, z, z) /\ b0.failures \in Nat
          /\ q[1] = Transfer(p + 5, p + 6, Target, {"linked"}) /\ b[1] = AfterNext(b0, q[1])
      BY ONLY <1>2, <1>3, <1>4, <1>5
    <3>4. Passes(b[1], b0, A, p, 0 + 1, z, z, 5, 6)
      BY ONLY <3>1, <3>2, <3>3, DrawPlain
    <3> QED BY ONLY <3>4 DEF Passes
  <2>2. Target \in Nat /\ Target > 0
    BY BenchNumbers
  <2>3. /\ \A j \in 0 .. 3 : d1[j] = 0 /\ c1[j] = 0
        /\ d1[4] = 0 /\ d1[5] = Target /\ d1[6] = 0
        /\ c1[4] = 0 /\ c1[5] = 0 /\ c1[6] = Target
    BY ONLY <1>3, <2>1, <2>2
  <2> DEFINE x == [j \in 0 .. 3 |-> 0]
  <2>4. x \in FromSources /\ AddUp(x) = 0 /\ \A j \in 0 .. 3 : x[j] = 0
    BY DEF FromSources, AddUp
  <2> HIDE DEF x
  <2>5. InOrderOf(A, p, x, 0)
    BY <2>4 DEF InOrderOf
  <2>6. Sourced(b[1], b0, A, p, 0, x)
    BY ONLY <2>1, <2>2, <2>3, <2>4, <2>5 DEF Sourced
  <2> QED BY <2>6
<1>7. PICK x : Sourced(b[5], b0, A, p, 4, x)
  <2>1. p \in Nat /\ p .. p + 6 \subseteq Waterfall /\ b0.failures \in Nat /\ Settled(A, p)
    BY <1>2
  <2>2. ASSUME NEW n \in 0 .. 3, NEW c, NEW t, t = Transfer(p + n, p + 5, Target, balancing),
               \E x : Sourced(c, b0, A, p, n, x)
        PROVE  \E x : Sourced(AfterNext(c, t), b0, A, p, n + 1, x)
    BY ONLY <2>1, <2>2, DrawNext, n \in 0 .. 3
  <2>3. \E x : Sourced(b[2], b0, A, p, 0 + 1, x)
    <3>1. b[2] = AfterNext(b[1], q[2]) /\ q[2] = Transfer(p + 0, p + 5, Target, balancing)
      BY ONLY <1>4, <1>5
    <3> QED BY ONLY <1>6, <2>2, <3>1, 0 \in 0 .. 3
  <2>4. \E x : Sourced(b[3], b0, A, p, 1 + 1, x)
    <3>1. b[3] = AfterNext(b[2], q[3]) /\ q[3] = Transfer(p + 1, p + 5, Target, balancing)
      BY ONLY <1>4, <1>5
    <3> QED BY ONLY <2>2, <2>3, <3>1, 1 \in 0 .. 3, 0 + 1 = 1
  <2>5. \E x : Sourced(b[4], b0, A, p, 2 + 1, x)
    <3>1. b[4] = AfterNext(b[3], q[4]) /\ q[4] = Transfer(p + 2, p + 5, Target, balancing)
      BY ONLY <1>4, <1>5
    <3> QED BY ONLY <2>2, <2>4, <3>1, 2 \in 0 .. 3, 1 + 1 = 2
  <2>6. \E x : Sourced(b[5], b0, A, p, 3 + 1, x)
    <3>1. b[5] = AfterNext(b[4], q[5]) /\ q[5] = Transfer(p + 3, p + 5, Target, balancing)
      BY ONLY <1>4, <1>5
    <3> QED BY ONLY <2>2, <2>5, <3>1, 3 \in 0 .. 3, 2 + 1 = 3
  <2> QED BY ONLY <2>6, 3 + 1 = 4
<1>8. PICK dd, cc :
          /\ InDraw(b[5], b0, A, p, 5, dd, cc)
          /\ \A j \in 0 .. 3 : dd[j] = x[j] /\ cc[j] = 0
          /\ dd[4] = 0 /\ dd[5] = Target /\ dd[6] = 0
          /\ cc[4] = 0 /\ cc[5] = AddUp(x) /\ cc[6] = Target
  BY ONLY <1>7, 4 + 1 = 5 DEF Sourced
<1>9. x \in FromSources /\ AddUp(x) <= Target /\ InOrderOf(A, p, x, 4)
  BY ONLY <1>7 DEF Sourced
<1>10. Target \in Nat
  BY BenchNumbers
<1>11. PICK d6, c6 :
          /\ InDraw(b[6], b0, A, p, 6, d6, c6)
          /\ \A j \in 0 .. 3 : d6[j] = x[j] /\ c6[j] = 0
          /\ d6[5] = Target + Target /\ d6[6] = 0
          /\ c6[4] = Target /\ c6[5] = AddUp(x) /\ c6[6] = Target
  <2>1. PICK d6, c6 :
          /\ InDraw(b[6], b0, A, p, 5 + 1, d6, c6)
          /\ d6[5] = dd[5] + Target /\ \A r \in 0 .. 6 \ {5} : d6[r] = dd[r]
          /\ c6[4] = cc[4] + Target /\ \A r \in 0 .. 6 \ {4} : c6[r] = cc[r]
    <3>1. p \in Nat /\ p .. p + 6 \subseteq Waterfall /\ p + 5 \notin Constrained
      OBVIOUS
    <3>2. 5 \in 0 .. 6 /\ 4 \in 0 .. 6 /\ 5 # 4 /\ 5 \in Nat
      OBVIOUS
    <3>3. /\ InDraw(b[5], b0, A, p, 5, dd, cc) /\ b0.failures \in Nat
          /\ q[6] = Transfer(p + 5, p + 4, Target, {"linked"}) /\ b[6] = AfterNext(b[5], q[6])
      BY ONLY <1>2, <1>4, <1>5, <1>8
    <3>4. Passes(b[6], b0, A, p, 5 + 1, dd, cc, 5, 4)
      BY ONLY <3>1, <3>2, <3>3, DrawPlain
    <3> QED BY ONLY <3>4 DEF Passes
  <2>2. \A j \in 0 .. 3 : j \in 0 .. 6 \ {5} /\ j \in 0 .. 6 \ {4}
    OBVIOUS
  <2>3. \A j \in 0 .. 3 : d6[j] = x[j] /\ c6[j] = 0
    BY ONLY <1>8, <2>1, <2>2
  <2>4. /\ d6[5] = Target + Target /\ d6[6] = 0
        /\ c6[4] = Target /\ c6[5] = AddUp(x) /\ c6[6] = Target
    BY ONLY <1>8, <1>10, <2>1
  <2>5. InDraw(b[6], b0, A, p, 6, d6, c6)
    BY ONLY <2>1, 5 + 1 = 6
  <2> QED BY ONLY <2>3, <2>4, <2>5
<1>12. /\ Boundary(b[7])
       /\ \/ /\ c6[5] = Target /\ b[7].failures = b0.failures
             /\ \E d7, c7 :
                   /\ Shifted(A, b[7].cluster.accounts, p, d7, c7)
                   /\ d7[6] = Target /\ \A r \in 0 .. 5 : d7[r] = d6[r]
                   /\ c7[5] = Target + Target /\ \A r \in 0 .. 6 \ {5} : c7[r] = c6[r]
          \/ b[7].cluster = b0.cluster /\ b[7].failures > b0.failures
  <2>1. p \in Nat /\ p .. p + 6 \subseteq Waterfall /\ p + 6 \in Constrained
    OBVIOUS
  <2>2. c6[5] <= Target
    BY ONLY <1>9, <1>11
  <2>3. A = b0.cluster.accounts
    BY <1>1
  <2> QED BY ONLY <1>2, <1>4, <1>5, <1>11, <2>1, <2>2, <2>3, DrawLast
<1>13. CASE b[7].cluster = b0.cluster /\ b[7].failures > b0.failures
  <2>1. Moved(A, A, p, 0)
    BY <1>2, MovedNothing
  <2>2. b[7].cluster.accounts = A
    BY <1>1, <1>13
  <2>3. b[7].failures >= b0.failures /\ b[7].failures # b0.failures
    BY <1>2, <1>12, <1>13 DEF Boundary
  <2> QED BY ONLY <1>1, <1>12, <2>1, <2>2, <2>3
<1>14. ASSUME NEW d7, NEW c7, NEW B, B = b[7].cluster.accounts,
              AddUp(x) = Target, Shifted(A, B, p, d7, c7),
              d7[6] = Target /\ \A r \in 0 .. 5 : d7[r] = d6[r],
              c7[5] = Target + Target /\ \A r \in 0 .. 6 \ {5} : c7[r] = c6[r]
       PROVE  /\ Moved(A, B, p, Target)
              /\ \A a \in Waterfall \ (p .. p + 6) : B[a] = A[a]
  <2>1. /\ \A a \in Waterfall \ (p .. p + 6) : B[a] = A[a]
        /\ \A r \in 0 .. 6 :
              /\ B[p + r].debits_posted = A[p + r].debits_posted + d7[r]
              /\ B[p + r].credits_posted = A[p + r].credits_posted + c7[r]
    BY ONLY <1>14 DEF Shifted
  <2>2. ASSUME NEW j \in 0 .. 3
        PROVE  /\ B[p + j].debits_posted = A[p + j].debits_posted + x[j]
               /\ B[p + j].credits_posted = A[p + j].credits_posted
    <3>1. j \in 0 .. 6 /\ j \in 0 .. 5 /\ j \in 0 .. 6 \ {5}
      OBVIOUS
    <3>2. d7[j] = x[j] /\ c7[j] = 0
      BY ONLY <1>11, <1>14, <3>1, j \in 0 .. 3
    <3>3. A[p + j].credits_posted \in Nat
      <4>1. p + j \in p .. p + 6
        OBVIOUS
      <4>2. p + j \in Waterfall
        BY <4>1
      <4> QED BY <1>2, <4>2, RowNumbers
    <3> QED BY ONLY <2>1, <3>1, <3>2, <3>3
  <2>3. B[p + 4].credits_posted = A[p + 4].credits_posted + Target
    <3>1. c7[4] = Target
      BY ONLY <1>11, <1>14
    <3> QED BY ONLY <2>1, <3>1
  <2>4. \A r \in 5 .. 6 : A[p + r].debits_posted = A[p + r].credits_posted
                         => B[p + r].debits_posted = B[p + r].credits_posted
    <3>1. d7[5] = Target + Target /\ c7[5] = Target + Target /\ d7[6] = Target /\ c7[6] = Target
      BY ONLY <1>11, <1>14
    <3>2. \A r \in 5 .. 6 : d7[r] = c7[r] /\ r \in 0 .. 6
      BY ONLY <3>1
    <3> QED BY ONLY <2>1, <3>2
  <2> QED BY ONLY <1>9, <1>14, <2>1, <2>2, <2>3, <2>4 DEF Moved
<1>15. CASE /\ c6[5] = Target /\ b[7].failures = b0.failures
            /\ \E d7, c7 :
                   /\ Shifted(A, b[7].cluster.accounts, p, d7, c7)
                   /\ d7[6] = Target /\ \A r \in 0 .. 5 : d7[r] = d6[r]
                   /\ c7[5] = Target + Target /\ \A r \in 0 .. 6 \ {5} : c7[r] = c6[r]
  <2>1. AddUp(x) = Target
    BY <1>11, <1>15
  <2>2. PICK B : B = b[7].cluster.accounts
    OBVIOUS
  <2>3. /\ Moved(A, B, p, Target)
        /\ \A a \in Waterfall \ (p .. p + 6) : B[a] = A[a]
    BY <1>14, <1>15, <2>1, <2>2
  <2>4. b[7].failures >= b0.failures
    BY <1>2, <1>15
  <2> QED BY ONLY <1>1, <1>12, <2>2, <2>3, <2>4
<1> QED BY ONLY <1>12, <1>13, <1>15

-----------------------------------------------------------------------------
(* The chains of a call, one after the other. *)

Flags == {"linked", "balancing_debit", "balancing_credit"}

Transfers ==
    [debit : Int, credit : Int, amount : Nat, flags : SUBSET Flags, pending_id : {0}]

LEMMA ChainShape ==
    ASSUME NEW i \in Workers, NEW c \in Chains, NEW resolved \in BOOLEAN
    PROVE  /\ Chain(i, c, resolved) \in Seq(Transfers) /\ Len(Chain(i, c, resolved)) = 7
           /\ IsChain(Chain(i, c, resolved), chainBase(i, c))
<1>1. PICK p \in Nat : p = chainBase(i, c)
  BY ChainIDs
<1>2. PICK src : src = SourceIDs(i, c, resolved) /\ \A k \in 1 .. 4 : src[k] = p + k - 1
  BY <1>1, LookUp
<1>3. PICK q : q = Chain(i, c, resolved)
  OBVIOUS
<1> DEFINE one == <<Transfer(p + 5, p + 6, Target, {"linked"})>>
           four == [j \in 1 .. 4 |-> Transfer(src[j], p + 5, Target, balancing)]
           two == <<Transfer(p + 5, p + 4, Target, {"linked"}),
                    Transfer(p + 6, p + 5, AmountMax, {"balancing_credit"})>>
<1>4. q = one \o four \o two
  BY <1>1, <1>2, <1>3 DEF Chain, appendChain, setup, limit, destX
<1>5. Target \in Nat /\ AmountMax \in Nat
  BY BenchNumbers
<1>6. \A d, e \in Int : \A n \in Nat : \A f \in SUBSET Flags : Transfer(d, e, n, f) \in Transfers
  BY DEF Transfer, Transfers
<1>7. one \in Seq(Transfers) /\ Len(one) = 1
  <2>1. {"linked"} \in SUBSET Flags /\ p + 5 \in Int /\ p + 6 \in Int
    BY DEF Flags
  <2>2. Transfer(p + 5, p + 6, Target, {"linked"}) \in Transfers
    BY <1>5, <1>6, <2>1
  <2> QED BY <2>2
<1>8. two \in Seq(Transfers) /\ Len(two) = 2
  <2>1. {"linked"} \in SUBSET Flags /\ {"balancing_credit"} \in SUBSET Flags
    BY DEF Flags
  <2>2. p + 4 \in Int /\ p + 5 \in Int /\ p + 6 \in Int
    OBVIOUS
  <2>3. Transfer(p + 5, p + 4, Target, {"linked"}) \in Transfers
    BY <1>5, <1>6, <2>1, <2>2
  <2>4. Transfer(p + 6, p + 5, AmountMax, {"balancing_credit"}) \in Transfers
    BY <1>5, <1>6, <2>1, <2>2
  <2> QED BY <2>3, <2>4
<1>9. four \in Seq(Transfers) /\ Len(four) = 4
  <2>1. balancing \in SUBSET Flags
    BY DEF balancing, Flags
  <2>2. \A j \in 1 .. 4 : Transfer(src[j], p + 5, Target, balancing) \in Transfers
    <3>1. \A j \in 1 .. 4 : src[j] \in Int /\ p + 5 \in Int
      BY <1>2
    <3> QED BY <1>5, <1>6, <2>1, <3>1
  <2> QED BY <2>2
<1> DEFINE five == one \o four
<1>10. \A a, b \in Seq(Transfers) :
          /\ a \o b \in Seq(Transfers) /\ Len(a \o b) = Len(a) + Len(b)
          /\ \A k \in 1 .. Len(a) + Len(b) :
                (a \o b)[k] = IF k <= Len(a) THEN a[k] ELSE b[k - Len(a)]
  OBVIOUS
<1>11. one[1] = Transfer(p + 5, p + 6, Target, {"linked"})
  OBVIOUS
<1>12. /\ two[1] = Transfer(p + 5, p + 4, Target, {"linked"})
       /\ two[2] = Transfer(p + 6, p + 5, AmountMax, {"balancing_credit"})
  OBVIOUS
<1>13. \A j \in 0 .. 3 : four[j + 1] = Transfer(p + j, p + 5, Target, balancing)
  <2> SUFFICES ASSUME NEW j \in 0 .. 3
               PROVE  four[j + 1] = Transfer(p + j, p + 5, Target, balancing)
    OBVIOUS
  <2>1. j + 1 \in 1 .. 4
    OBVIOUS
  <2>2. src[j + 1] = p + j
    BY <1>2, <2>1
  <2> QED BY <2>1, <2>2
<1> HIDE DEF one, four, two
<1>14. /\ five \in Seq(Transfers) /\ Len(five) = 5
       /\ \A k \in 1 .. 5 : five[k] = IF k <= 1 THEN one[k] ELSE four[k - 1]
  <2>1. /\ one \o four \in Seq(Transfers) /\ Len(one \o four) = Len(one) + Len(four)
        /\ \A k \in 1 .. Len(one) + Len(four) :
              (one \o four)[k] = IF k <= Len(one) THEN one[k] ELSE four[k - Len(one)]
    BY ONLY <1>7, <1>9, <1>10
  <2>2. five = one \o four
    OBVIOUS
  <2> HIDE DEF five
  <2>3. Len(one) = 1 /\ Len(four) = 4 /\ 1 + 4 = 5
    BY ONLY <1>7, <1>9
  <2> QED BY ONLY <2>1, <2>2, <2>3
<1>15. /\ q \in Seq(Transfers) /\ Len(q) = 7
       /\ \A k \in 1 .. 7 : q[k] = IF k <= 5 THEN five[k] ELSE two[k - 5]
  <2> HIDE DEF five
  <2>1. q = five \o two
    BY <1>4 DEF five
  <2>2. /\ five \o two \in Seq(Transfers) /\ Len(five \o two) = Len(five) + Len(two)
        /\ \A k \in 1 .. Len(five) + Len(two) :
              (five \o two)[k] = IF k <= Len(five) THEN five[k] ELSE two[k - Len(five)]
    BY ONLY <1>8, <1>10, <1>14
  <2>3. Len(five) = 5 /\ Len(two) = 2 /\ 5 + 2 = 7
    BY ONLY <1>8, <1>14
  <2> QED BY ONLY <2>1, <2>2, <2>3
<1> HIDE DEF five
<1>16. q[1] = one[1] /\ q[6] = two[1] /\ q[7] = two[2] /\ \A j \in 0 .. 3 : q[j + 2] = four[j + 1]
  <2>1. q[1] = five[1] /\ five[1] = one[1]
    BY <1>14, <1>15
  <2>2. q[6] = two[6 - 5] /\ q[7] = two[7 - 5]
    BY <1>15
  <2>3. ASSUME NEW j \in 0 .. 3 PROVE q[j + 2] = four[j + 1]
    <3>1. j + 2 \in 1 .. 7 /\ j + 2 \in 1 .. 5 /\ ~(j + 2 <= 1) /\ j + 2 <= 5 /\ (j + 2) - 1 = j + 1
      OBVIOUS
    <3> QED BY ONLY <1>14, <1>15, <3>1
  <2> QED BY <2>1, <2>2, <2>3
<1>17. IsChain(q, p)
  BY ONLY <1>11, <1>12, <1>13, <1>16 DEF IsChain
<1> QED BY <1>1, <1>3, <1>15, <1>17

(* The accounts of the chain at p are the same. *)
Same(A, B, p) == \A r \in 0 .. 6 : B[p + r] = A[p + r]

LEMMA MovedAfter ==
    ASSUME NEW A, NEW B, NEW C, NEW p \in Nat, NEW g, Same(A, B, p), Moved(B, C, p, g)
    PROVE  Moved(A, C, p, g)
<1>1. B[p + 4] = A[p + 4] /\ B[p + 5] = A[p + 5] /\ B[p + 6] = A[p + 6]
      /\ \A j \in 0 .. 3 : B[p + j] = A[p + j]
  BY DEF Same
<1>2. PICK x \in FromSources :
          /\ AddUp(x) = g /\ InOrderOf(B, p, x, 4)
          /\ \A j \in 0 .. 3 : /\ C[p + j].debits_posted = B[p + j].debits_posted + x[j]
                               /\ C[p + j].credits_posted = B[p + j].credits_posted
  BY DEF Moved
<1>3. InOrderOf(A, p, x, 4)
  BY ONLY <1>1, <1>2 DEF InOrderOf, Left
<1>4. \A j \in 0 .. 3 : /\ C[p + j].debits_posted = A[p + j].debits_posted + x[j]
                        /\ C[p + j].credits_posted = A[p + j].credits_posted
  BY ONLY <1>1, <1>2
<1>5. C[p + 4].credits_posted = A[p + 4].credits_posted + g
  BY <1>1 DEF Moved
<1>6. ASSUME NEW r \in 5 .. 6, A[p + r].debits_posted = A[p + r].credits_posted
      PROVE  C[p + r].debits_posted = C[p + r].credits_posted
  <2>1. B[p + r] = A[p + r]
    BY DEF Same
  <2> QED BY <1>6, <2>1 DEF Moved
<1> QED BY ONLY <1>2, <1>3, <1>4, <1>5, <1>6 DEF Moved

LEMMA MovedBefore ==
    ASSUME NEW A, NEW B, NEW C, NEW p \in Nat, NEW g, Moved(A, B, p, g), Same(B, C, p)
    PROVE  Moved(A, C, p, g)
<1>1. C[p + 4] = B[p + 4] /\ C[p + 5] = B[p + 5] /\ C[p + 6] = B[p + 6]
      /\ \A j \in 0 .. 3 : C[p + j] = B[p + j]
  BY DEF Same
<1>2. \A r \in 5 .. 6 : C[p + r] = B[p + r]
  BY DEF Same
<1>3. PICK x \in FromSources :
          /\ AddUp(x) = g /\ InOrderOf(A, p, x, 4)
          /\ \A j \in 0 .. 3 : /\ B[p + j].debits_posted = A[p + j].debits_posted + x[j]
                               /\ B[p + j].credits_posted = A[p + j].credits_posted
  BY DEF Moved
<1>4. \A j \in 0 .. 3 : /\ C[p + j].debits_posted = A[p + j].debits_posted + x[j]
                        /\ C[p + j].credits_posted = A[p + j].credits_posted
  BY ONLY <1>1, <1>3
<1>5. /\ C[p + 4].credits_posted = A[p + 4].credits_posted + g
      /\ \A r \in 5 .. 6 : A[p + r].debits_posted = A[p + r].credits_posted
                           => C[p + r].debits_posted = C[p + r].credits_posted
  BY <1>1, <1>2 DEF Moved
<1> QED BY ONLY <1>3, <1>4, <1>5 DEF Moved

LEMMA MovedSame ==
    ASSUME NEW A, NEW B, SoundAccounts(A), NEW p \in Nat, p .. p + 6 \subseteq Waterfall,
           Settled(A, p), Same(A, B, p)
    PROVE  Moved(A, B, p, 0)
<1>1. Moved(A, A, p, 0)
  BY MovedNothing
<1> QED BY <1>1, MovedBefore

LEMMA SettledSame ==
    ASSUME NEW A, NEW B, NEW p \in Nat, Settled(A, p), Same(A, B, p)
    PROVE  Settled(B, p)
<1>1. /\ B[p + 5] = A[p + 5] /\ B[p + 6] = A[p + 6]
      /\ \A j \in 0 .. 3 : B[p + j] = A[p + j]
  BY DEF Same
<1> QED BY <1>1 DEF Settled

LEMMA SameElsewhere ==
    ASSUME NEW i \in Workers, NEW c \in Chains, NEW v \in Workers, NEW d \in Chains,
           ~(v = i /\ d = c), NEW A, NEW B, NEW p, p = chainBase(i, c),
           \A a \in Waterfall \ (p .. p + 6) : B[a] = A[a]
    PROVE  Same(A, B, chainBase(v, d))
<1>1. PICK q \in Nat : q = chainBase(v, d) /\ q .. q + 6 \subseteq Waterfall
  BY ChainIDs
<1>2. p \in Nat /\ (p + 7 <= q \/ q + 7 <= p)
  BY <1>1, ChainsApart
<1>3. ASSUME NEW r \in 0 .. 6 PROVE B[q + r] = A[q + r]
  <2>1. q + r \in q .. q + 6 /\ q + r \notin p .. p + 6
    BY ONLY <1>1, <1>2, r \in 0 .. 6
  <2> QED BY <1>1, <2>1
<1> QED BY <1>1, <1>3 DEF Same

AllSettled(A) == \A v \in Workers, d \in Chains : Settled(A, chainBase(v, d))

(* After the first n chains of worker i. *)
ChainDone(A, b, p) ==
    \E g \in {0, Target} : Moved(A, b.cluster.accounts, p, g) /\ (b.failures = 0 => g = Target)

Track(A, i, n, b) ==
    /\ Boundary(b)
    /\ \A v \in Workers, d \in Chains :
          IF v = i /\ d < n THEN ChainDone(A, b, chainBase(v, d))
          ELSE Same(A, b.cluster.accounts, chainBase(v, d))

LEMMA TrackStep ==
    ASSUME NEW A, AllSettled(A), NEW i \in Workers, NEW c \in Chains,
           NEW q, IsChain(q, chainBase(i, c)), NEW b, Track(A, i, c, b[0]),
           \A k \in 1 .. 7 : b[k] = AfterNext(b[k - 1], q[k])
    PROVE  Track(A, i, c + 1, b[7])
<1>1. PICK p \in Nat : p = chainBase(i, c)
  BY ChainIDs
<1>2. PICK B, C : B = b[0].cluster.accounts /\ C = b[7].cluster.accounts
  OBVIOUS
<1>3. c \in Nat
  BY BenchNumbers DEF Chains
<1>4. Boundary(b[0]) /\ Same(A, B, p)
  BY <1>1, <1>2, <1>3 DEF Track
<1>5. Settled(B, p)
  BY <1>1, <1>4, SettledSame DEF AllSettled
<1>6. /\ p .. p + 6 \subseteq Waterfall
      /\ p + 5 \notin Constrained /\ p + 6 \in Constrained /\ IsChain(q, p)
  BY <1>1, ChainIDs
<1>7. /\ Boundary(b[7])
      /\ \E g \in {0, Target} :
            /\ Moved(B, C, p, g)
            /\ b[7].failures >= b[0].failures
            /\ b[7].failures = b[0].failures => g = Target
      /\ \A a \in Waterfall \ (p .. p + 6) : C[a] = B[a]
  <2>1. \A k \in 1 .. 7 : b[k] = AfterNext(b[k - 1], q[k])
    OBVIOUS
  <2>2. Settled(b[0].cluster.accounts, p)
    BY <1>2, <1>5
  <2>3. /\ Boundary(b[7])
        /\ \E g \in {0, Target} :
              /\ Moved(b[0].cluster.accounts, b[7].cluster.accounts, p, g)
              /\ b[7].failures >= b[0].failures
              /\ b[7].failures = b[0].failures => g = Target
        /\ \A a \in Waterfall \ (p .. p + 6) :
              b[7].cluster.accounts[a] = b[0].cluster.accounts[a]
    BY ONLY <1>1, <1>4, <1>6, <2>1, <2>2, ChainRun
  <2> QED BY ONLY <1>2, <2>3
<1>8. b[0].failures \in Nat /\ b[7].failures \in Nat
  BY <1>4, <1>7 DEF Boundary
<1>9. b[7].failures = 0 => b[0].failures = 0
  BY ONLY <1>7, <1>8
<1>10. ChainDone(A, b[7], p)
  <2>1. PICK g \in {0, Target} : /\ Moved(B, C, p, g) /\ b[7].failures >= b[0].failures
                                 /\ b[7].failures = b[0].failures => g = Target
    BY <1>7
  <2>2. Moved(A, C, p, g)
    BY ONLY <1>1, <1>4, <2>1, MovedAfter
  <2>3. b[7].failures = 0 => g = Target
    BY <1>9, <2>1
  <2> QED BY <1>2, <2>2, <2>3 DEF ChainDone
<1>11. ASSUME NEW v \in Workers, NEW d \in Chains, v = i /\ d < c + 1
       PROVE  ChainDone(A, b[7], chainBase(v, d))
  <2>1. d \in Nat /\ (d = c \/ d < c)
    BY <1>3, <1>11, BenchNumbers DEF Chains
  <2>2. CASE d = c
    BY <1>1, <1>10, <1>11, <2>2
  <2>3. CASE d < c
    <3>1. ChainDone(A, b[0], chainBase(v, d))
      BY <1>11, <2>3 DEF Track
    <3>2. Same(B, C, chainBase(v, d))
      <4>1. d # c
        BY <1>3, <2>1, <2>3
      <4> QED BY <1>1, <1>7, <4>1, SameElsewhere
    <3>3. PICK g \in {0, Target} : Moved(A, B, chainBase(v, d), g) /\ (b[0].failures = 0 => g = Target)
      BY <1>2, <3>1 DEF ChainDone
    <3>4. Moved(A, C, chainBase(v, d), g)
      <4>1. PICK w \in Nat : w = chainBase(v, d)
        BY ChainIDs
      <4> QED BY ONLY <3>2, <3>3, <4>1, MovedBefore
    <3> QED BY <1>2, <1>9, <3>3, <3>4 DEF ChainDone
  <2> QED BY <2>1, <2>2, <2>3
<1>12. ASSUME NEW v \in Workers, NEW d \in Chains, ~(v = i /\ d < c + 1)
       PROVE  Same(A, C, chainBase(v, d))
  <2>1. d \in Nat
    BY BenchNumbers DEF Chains
  <2>2. ~(v = i /\ d < c) /\ ~(v = i /\ d = c)
    BY <1>3, <1>12, <2>1
  <2>3. Same(A, B, chainBase(v, d))
    BY <1>2, <2>2 DEF Track
  <2>4. Same(B, C, chainBase(v, d))
    BY <1>1, <1>7, <2>2, SameElsewhere
  <2> QED BY <2>3, <2>4 DEF Same
<1> QED BY <1>2, <1>7, <1>11, <1>12 DEF Track

(* What a call with the chains W did, if it was answered without failures      *)
(* (all) and if not.                                                         *)
Drew(A, B, W, all) ==
    /\ SoundAccounts(B)
    /\ \A v \in Workers, d \in Chains : \E g \in {0, Target} :
          /\ Moved(A, B, chainBase(v, d), g)
          /\ <<v, d>> \in W /\ all => g = Target

LEMMA DrewTracked ==
    ASSUME NEW A, SoundAccounts(A), AllSettled(A), NEW i \in Workers, NEW n \in Nat, NEW b,
           Track(A, i, n, b), NEW W,
           \A v \in Workers, d \in Chains : <<v, d>> \in W => v = i /\ d < n
    PROVE  Drew(A, b.cluster.accounts, W, b.failures = 0)
<1>1. SoundAccounts(b.cluster.accounts)
  BY DEF Track, Boundary, Sound
<1>2. ASSUME NEW v \in Workers, NEW d \in Chains
      PROVE  \E g \in {0, Target} :
                /\ Moved(A, b.cluster.accounts, chainBase(v, d), g)
                /\ <<v, d>> \in W /\ b.failures = 0 => g = Target
  <2>1. CASE v = i /\ d < n
    BY <2>1 DEF Track, ChainDone
  <2>2. CASE ~(v = i /\ d < n)
    <3>1. Same(A, b.cluster.accounts, chainBase(v, d)) /\ <<v, d>> \notin W
      BY <2>2 DEF Track
    <3>2. PICK p \in Nat : p = chainBase(v, d) /\ p .. p + 6 \subseteq Waterfall
      BY ChainIDs
    <3>3. Moved(A, b.cluster.accounts, p, 0)
      BY <3>1, <3>2, MovedSame DEF AllSettled
    <3> QED BY <3>1, <3>2, <3>3
  <2> QED BY <2>1, <2>2
<1> QED BY <1>1, <1>2 DEF Drew


LEMMA TrackStart ==
    ASSUME NEW k, Sound(k), NEW i
    PROVE  Track(k.accounts, i, 0, InBatch(k))
<1>1. Boundary(InBatch(k)) /\ InBatch(k).cluster = k
  BY DEF Boundary, InBatch
<1>2. \A d \in Chains : ~(d < 0)
  BY BenchNumbers DEF Chains
<1> QED BY <1>1, <1>2 DEF Track, Same

LEMMA ChainsCall ==
    ASSUME NEW k, Sound(k), AllSettled(k.accounts), NEW i \in Workers, NEW resolved \in BOOLEAN
    PROVE  LET r == CreateTransfers(k, ForChains(LAMBDA c : Chain(i, c, resolved))) IN
           /\ Sound(r.cluster)
           /\ Drew(k.accounts, r.cluster.accounts, {i} \X Chains, r.failures = 0)
<1>1. PICK n \in Nat : n = nChains /\ n > 0
  BY BenchNumbers
<1> DEFINE s == [m \in 1 .. nChains |-> Chain(i, m - 1, resolved)]
           batch == FlattenSeq(s)
           N == Len(batch)
           r == CreateTransfers(k, batch)
<1>2. ASSUME NEW m \in 1 .. n
      PROVE  /\ m - 1 \in Chains /\ s[m] = Chain(i, m - 1, resolved)
             /\ s[m] \in Seq(Transfers) /\ Len(s[m]) = 7
  <2>1. m - 1 \in Chains /\ m \in 1 .. nChains
    BY <1>1 DEF Chains
  <2> QED BY <2>1, ChainShape
<1>3. s \in Seq(Seq(Transfers)) /\ Len(s) = n
  BY <1>1, <1>2
<1> HIDE DEF s
<1>4. /\ batch \in Seq(Transfers) /\ N = 7 * n
      /\ \A m \in 1 .. n : \A j \in 1 .. 7 : batch[7 * (m - 1) + j] = s[m][j]
  <2>1. \A m \in 1 .. Len(s) : Len(s[m]) = 7
    BY <1>2, <1>3
  <2>2. FlattenSeq(s) \in Seq(Transfers)
    BY ONLY <1>3, FlatType
  <2>3. /\ Len(FlattenSeq(s)) = 7 * Len(s)
        /\ \A m \in 1 .. Len(s) : \A j \in 1 .. 7 : FlattenSeq(s)[7 * (m - 1) + j] = s[m][j]
    <3>1. Len(s) > 0
      BY <1>1, <1>3
    <3> QED BY ONLY <1>3, <2>1, <3>1, FlatPieces
  <2> QED BY ONLY <1>3, <2>2, <2>3
<1> HIDE DEF batch
<1>5. PICK st : IsRun(st, k, batch) /\ r.cluster = st[N].cluster /\ r.failures = st[N].failures
  BY <1>4, BatchRun
<1> HIDE DEF r
<1> DEFINE W == {m \in 0 .. n : Track(k.accounts, i, m, st[7 * m])}
<1>6. 0 \in W
  <2>1. st[7 * 0] = InBatch(k)
    BY <1>5 DEF IsRun
  <2> QED BY <1>1, <2>1, TrackStart
<1>7. ASSUME NEW m \in 0 .. n - 1, m \in W PROVE m + 1 \in W
  <2>1. m + 1 \in 1 .. n /\ m \in Nat /\ (m + 1) - 1 = m
    BY <1>1
  <2>2. m \in Chains /\ IsChain(s[m + 1], chainBase(i, m))
    BY <1>2, <2>1, ChainShape
  <2> DEFINE b == [j \in 0 .. 7 |-> st[7 * m + j]]
  <2>3. ASSUME NEW j \in 1 .. 7 PROVE b[j] = AfterNext(b[j - 1], s[m + 1][j])
    <3>1. 7 * m + j \in 1 .. 7 * n /\ (7 * m + j) - 1 = 7 * m + (j - 1) /\ j - 1 \in 0 .. 7
      BY ONLY <1>1, <2>1, m \in 0 .. n - 1, j \in 1 .. 7
    <3>2. st[7 * m + j] = AfterNext(st[7 * m + (j - 1)], batch[7 * m + j])
      BY <1>4, <1>5, <3>1 DEF IsRun
    <3>3. batch[7 * m + j] = s[m + 1][j]
      BY <1>4, <2>1
    <3> QED BY <3>1, <3>2, <3>3
  <2>4. b[0] = st[7 * m] /\ b[7] = st[7 * (m + 1)]
    <3>1. 7 * m + 0 = 7 * m /\ 7 * m + 7 = 7 * (m + 1)
      BY <2>1
    <3> QED BY <3>1
  <2> HIDE DEF b
  <2>5. Track(k.accounts, i, m, b[0])
    BY <1>7, <2>4
  <2>6. Track(k.accounts, i, m + 1, b[7])
    BY <2>2, <2>3, <2>5, TrackStep
  <2> QED BY <2>1, <2>4, <2>6
<1> HIDE DEF W
<1>8. \A m \in 0 .. n : m \in W
  BY <1>1, <1>6, <1>7, Climb
<1>9. n \in W
  BY <1>1, <1>8
<1>10. Track(k.accounts, i, n, st[N])
  BY <1>4, <1>9 DEF W
<1>11. SoundAccounts(k.accounts)
  BY DEF Sound
<1>12. \A v \in Workers, d \in Chains : <<v, d>> \in {i} \X Chains => v = i /\ d < n
  BY <1>1 DEF Chains
<1>13. Drew(k.accounts, st[N].cluster.accounts, {i} \X Chains, st[N].failures = 0)
  BY <1>10, <1>11, <1>12, DrewTracked
<1>14. Sound(st[N].cluster)
  BY <1>10 DEF Track, Boundary
<1>15. Sound(r.cluster) /\ Drew(k.accounts, r.cluster.accounts, {i} \X Chains, r.failures = 0)
  BY <1>5, <1>13, <1>14
<1> QED BY <1>15 DEF r, batch, s, ForChains

LEMMA ChainCall ==
    ASSUME NEW k, Sound(k), AllSettled(k.accounts), NEW i \in Workers, NEW resolved \in BOOLEAN
    PROVE  LET r == CreateTransfers(k, Chain(i, 0, resolved)) IN
           /\ Sound(r.cluster)
           /\ Drew(k.accounts, r.cluster.accounts, {<<i, 0>>}, r.failures = 0)
<1>1. 0 \in Chains
  BY BenchNumbers DEF Chains
<1>2. PICK q : q = Chain(i, 0, resolved)
  OBVIOUS
<1>3. q \in Seq(Transfers) /\ Len(q) = 7 /\ IsChain(q, chainBase(i, 0))
  BY <1>1, <1>2, ChainShape
<1>4. PICK r : r = CreateTransfers(k, q)
  OBVIOUS
<1>5. PICK st : IsRun(st, k, q) /\ r.cluster = st[7].cluster /\ r.failures = st[7].failures
  <2>1. \E st : IsRun(st, k, q) /\ r.cluster = st[Len(q)].cluster /\ r.failures = st[Len(q)].failures
    BY ONLY <1>3, <1>4, BatchRun
  <2> QED BY ONLY <1>3, <2>1
<1>6. st[0] = InBatch(k) /\ \A j \in 1 .. 7 : st[j] = AfterNext(st[j - 1], q[j])
  BY <1>3, <1>5 DEF IsRun
<1>7. Track(k.accounts, i, 0, st[0])
  BY <1>6, TrackStart
<1>8. Track(k.accounts, i, 0 + 1, st[7])
  BY <1>1, <1>3, <1>6, <1>7, TrackStep
<1>9. Sound(st[7].cluster)
  BY <1>8 DEF Track, Boundary
<1>10. Drew(k.accounts, st[7].cluster.accounts, {<<i, 0>>}, st[7].failures = 0)
  <2>1. \A v \in Workers, d \in Chains : <<v, d>> \in {<<i, 0>>} => v = i /\ d < 0 + 1
    OBVIOUS
  <2>2. SoundAccounts(k.accounts) /\ 0 + 1 \in Nat
    BY DEF Sound
  <2> QED BY <1>8, <2>1, <2>2, DrewTracked
<1> QED BY <1>2, <1>4, <1>5, <1>9, <1>10

(* The fast path: one transfer from the first source, which is constrained.   *)
LEMMA FastCall ==
    ASSUME NEW k, Sound(k), AllSettled(k.accounts), NEW i \in Workers, NEW resolved \in BOOLEAN
    PROVE  LET r == CreateTransfers(k, <<Transfer(SourceIDs(i, 0, resolved)[1], destX(i, 0),
                                                  Target, {})>>) IN
           /\ Sound(r.cluster)
           /\ Drew(k.accounts, r.cluster.accounts, {<<i, 0>>}, r.failures = 0)
<1>1. 0 \in Chains
  BY BenchNumbers DEF Chains
<1>2. PICK p \in Nat : /\ p = chainBase(i, 0) /\ p .. p + 6 \subseteq Waterfall
                       /\ p .. p + 3 \subseteq Constrained /\ Waterfall \subseteq Account
  BY <1>1, ChainIDs
<1>3. PICK t : t = Transfer(p + 0, p + 4, Target, {})
  OBVIOUS
<1>4. t = Transfer(SourceIDs(i, 0, resolved)[1], destX(i, 0), Target, {})
  <2>1. SourceIDs(i, 0, resolved)[1] = chainBase(i, 0) + 1 - 1
    BY <1>1, LookUp
  <2>2. SourceIDs(i, 0, resolved)[1] = p + 0
    BY <1>2, <2>1
  <2> QED BY <1>2, <1>3, <2>2 DEF destX
<1>5. /\ t.debit = p + 0 /\ t.credit = p + 4 /\ t.amount = Target /\ t.flags = {}
  BY <1>3 DEF Transfer
<1>6. PICK A : A = k.accounts
  OBVIOUS
<1>7. SoundAccounts(A) /\ AllSettled(A)
  BY <1>6 DEF Sound
<1>8. PICK r : r = CreateTransfers(k, <<t>>)
  OBVIOUS
<1>9. PICK n : n = AfterNext(InBatch(k), t)
  OBVIOUS
<1>10. r.cluster = n.cluster /\ r.failures = n.failures
  <2>1. <<t>> \in Seq({t}) /\ Len(<<t>>) = 1
    OBVIOUS
  <2>2. \E st : IsRun(st, k, <<t>>) /\ r.cluster = st[Len(<<t>>)].cluster
                                    /\ r.failures = st[Len(<<t>>)].failures
    BY ONLY <1>8, <2>1, BatchRun
  <2>3. PICK st : IsRun(st, k, <<t>>) /\ r.cluster = st[1].cluster /\ r.failures = st[1].failures
    BY ONLY <2>1, <2>2
  <2>4. st[1] = AfterNext(st[1 - 1], <<t>>[1]) /\ st[0] = InBatch(k)
    BY ONLY <2>1, <2>3 DEF IsRun
  <2>5. st[1] = n
    BY ONLY <1>9, <2>4
  <2> QED BY ONLY <2>3, <2>5
<1>11. PICK b : b = InBatch(k)
  OBVIOUS
<1>12. /\ b.broken = FALSE /\ b.cluster = k /\ b.before = k /\ b.failures = 0 /\ b.open = 0
  BY <1>11 DEF InBatch
<1>13. NotTwoPhase(t) /\ "linked" \notin t.flags
  BY <1>5 DEF NotTwoPhase
<1>14. PICK T \in Nat : T = Target
  BY BenchNumbers
<1>15. Amount(A, t) = T
  BY <1>5, <1>14 DEF Amount
<1>16. /\ p + 0 \in Waterfall /\ p + 4 \in Waterfall /\ p + 0 # p + 4 /\ p + 0 \in Constrained
  <2>1. p + 0 \in p .. p + 6 /\ p + 4 \in p .. p + 6 /\ p + 0 \in p .. p + 3 /\ p + 0 # p + 4
    BY ONLY <1>2
  <2> QED BY ONLY <1>2, <2>1
<1>17. CASE ~ExceedsCredits(A, t)
  <2>1. PICK B : B = Post(A, t, T)
    OBVIOUS
  <2>2. n.cluster = [accounts |-> B, pending |-> k.pending] /\ n.failures = 0
    <3>1. /\ b.broken = FALSE /\ Sound(b.cluster) /\ NotTwoPhase(t) /\ b.failures \in Nat
          /\ ~ExceedsCredits(b.cluster.accounts, t)
      BY <1>6, <1>12, <1>13, <1>17
    <3>2. LET c == AfterNext(b, t) IN
          /\ c.cluster = [accounts |-> Post(b.cluster.accounts, t, Amount(b.cluster.accounts, t)),
                          pending |-> b.cluster.pending]
          /\ c.before = IF "linked" \in t.flags THEN b.before ELSE c.cluster
          /\ c.open = IF "linked" \in t.flags THEN b.open + 1 ELSE 0
          /\ c.broken = FALSE /\ c.failures = b.failures
      BY ONLY <3>1, AfterOK
    <3> QED BY ONLY <1>6, <1>9, <1>11, <1>12, <1>15, <2>1, <3>2
  <2>3. /\ SoundAccounts(B)
        /\ \A a \in Account \ {p + 0, p + 4} : B[a] = A[a]
        /\ B[p + 0].debits_posted = A[p + 0].debits_posted + T
        /\ B[p + 0].credits_posted = A[p + 0].credits_posted
        /\ B[p + 4].credits_posted = A[p + 4].credits_posted + T
    BY <1>2, <1>5, <1>7, <1>14, <1>16, <2>1, PostEffect
  <2>4. Sound(n.cluster) /\ n.cluster.accounts = B
    BY <2>2, <2>3 DEF Sound
  <2>5. T <= Left(A, p + 0)
    <3>1. PICK d \in Nat, c \in Nat : d = A[p + 0].debits_posted /\ c = A[p + 0].credits_posted
      BY <1>7, <1>16, RowNumbers
    <3>2. ~(d + 0 + T > c)
      <4>1. A[p + 0].debits_pending = 0
        BY <1>7, <1>16, RowNumbers
      <4> QED BY <1>5, <1>15, <1>16, <1>17, <3>1, <4>1 DEF ExceedsCredits
    <3> QED BY ONLY <1>14, <3>1, <3>2 DEF Left
  <2> DEFINE x == [j \in 0 .. 3 |-> IF j = 0 THEN T ELSE 0]
  <2>6. /\ x \in FromSources /\ AddUp(x) = T /\ x[0] = T
        /\ \A j \in 0 .. 3 : j # 0 => x[j] = 0
    BY DEF FromSources, AddUp
  <2> HIDE DEF x
  <2>7. \A j \in 0 .. 3 : /\ p + j \in Waterfall /\ p + j \in Account
                          /\ A[p + j].debits_posted \in Nat /\ A[p + j].credits_posted \in Nat
                          /\ A[p + j].debits_posted <= A[p + j].credits_posted
    <3>1. \A j \in 0 .. 3 : p + j \in p .. p + 6
      BY ONLY <1>2
    <3>2. Settled(A, p)
      BY <1>1, <1>2, <1>7 DEF AllSettled
    <3> QED BY <1>2, <1>7, <3>1, <3>2, RowNumbers DEF Settled
  <2>8. InOrderOf(A, p, x, 4)
    <3>1. ASSUME NEW j \in 0 .. 3 PROVE x[j] <= Left(A, p + j)
      <4>1. CASE j = 0
        BY <2>5, <2>6, <4>1
      <4>2. CASE j # 0
        <5>1. PICK d \in Nat, c \in Nat : d = A[p + j].debits_posted /\ c = A[p + j].credits_posted
          BY <2>7
        <5>2. d <= c
          BY <2>7, <5>1
        <5>3. 0 <= Left(A, p + j)
          BY ONLY <5>1, <5>2 DEF Left
        <5> QED BY <2>6, <4>2, <5>3
      <4> QED BY <4>1, <4>2
    <3>2. \A h, j \in 0 .. 3 : h < j => ~(x[j] > 0)
      BY ONLY <2>6
    <3> QED BY ONLY <3>1, <3>2 DEF InOrderOf
  <2>9. ASSUME NEW j \in 0 .. 3
        PROVE  /\ B[p + j].debits_posted = A[p + j].debits_posted + x[j]
               /\ B[p + j].credits_posted = A[p + j].credits_posted
    <3>1. CASE j = 0
      BY <2>3, <2>6, <3>1
    <3>2. CASE j # 0
      <4>1. p + j \in Account \ {p + 0, p + 4}
        BY <2>7, <3>2
      <4>2. B[p + j] = A[p + j] /\ x[j] = 0
        BY <2>3, <2>6, <3>2, <4>1
      <4> QED BY <2>7, <4>2
    <3> QED BY <3>1, <3>2
  <2>10. \A e \in 5 .. 6 : B[p + e] = A[p + e]
    <3>1. \A e \in 5 .. 6 : p + e \in p .. p + 6 /\ p + e # p + 0 /\ p + e # p + 4
      BY ONLY <1>2
    <3> QED BY <1>2, <2>3, <3>1
  <2>11. Moved(A, B, p, Target)
    BY ONLY <1>14, <2>3, <2>6, <2>8, <2>9, <2>10 DEF Moved
  <2>12. ASSUME NEW v \in Workers, NEW d \in Chains
         PROVE  \E g \in {0, Target} :
                   /\ Moved(A, B, chainBase(v, d), g)
                   /\ <<v, d>> \in {<<i, 0>>} /\ n.failures = 0 => g = Target
    <3>1. CASE v = i /\ d = 0
      BY <1>2, <2>11, <3>1
    <3>2. CASE ~(v = i /\ d = 0)
      <4>1. \A a \in Waterfall \ (p .. p + 6) : B[a] = A[a]
        <5>1. p + 0 \in p .. p + 6 /\ p + 4 \in p .. p + 6
          BY ONLY <1>2
        <5> QED BY <1>2, <2>3, <5>1
      <4>2. Same(A, B, chainBase(v, d))
        BY <1>1, <1>2, <3>2, <4>1, SameElsewhere
      <4>3. PICK q \in Nat : q = chainBase(v, d) /\ q .. q + 6 \subseteq Waterfall
        BY ChainIDs
      <4>4. Moved(A, B, q, 0)
        BY <1>7, <4>2, <4>3, MovedSame DEF AllSettled
      <4> QED BY <3>2, <4>3, <4>4
    <3> QED BY <3>1, <3>2
  <2>13. Drew(A, B, {<<i, 0>>}, n.failures = 0)
    BY ONLY <2>3, <2>12 DEF Drew
  <2> QED BY <1>4, <1>6, <1>8, <1>10, <2>4, <2>13
<1>18. CASE ExceedsCredits(A, t)
  <2>1. n.cluster = k /\ n.failures = 1
    <3>1. /\ b.broken = FALSE /\ Sound(b.cluster) /\ NotTwoPhase(t) /\ b.failures \in Nat
          /\ b.open \in Nat /\ ExceedsCredits(b.cluster.accounts, t) /\ "linked" \notin t.flags
      BY <1>6, <1>12, <1>13, <1>18
    <3>2. LET c == AfterNext(b, t) IN
          /\ c.cluster = b.before /\ c.before = b.before
          /\ c.open = 0 /\ c.broken = FALSE /\ c.failures = b.failures + b.open + 1
      BY ONLY <3>1, AfterRefused
    <3> QED BY ONLY <1>9, <1>11, <1>12, <3>2
  <2>2. ASSUME NEW v \in Workers, NEW d \in Chains PROVE Moved(A, A, chainBase(v, d), 0)
    <3>1. PICK q \in Nat : q = chainBase(v, d) /\ q .. q + 6 \subseteq Waterfall
      BY ChainIDs
    <3> QED BY <1>7, <3>1, MovedNothing DEF AllSettled
  <2>3. Drew(A, A, {<<i, 0>>}, n.failures = 0)
    BY <1>7, <2>1, <2>2 DEF Drew
  <2> QED BY <1>4, <1>6, <1>8, <1>10, <2>1, <2>3
<1> QED BY <1>17, <1>18

-----------------------------------------------------------------------------
(* The calls without chains. *)

LEMMA OutsideWaterfall ==
    ASSUME NEW a \in BenchAccounts, a \notin Waterfall
    PROVE  a \in Account \ (Constrained \cup Waterfall)
<1>1. a \in Account
  BY WaterfallAccounts
<1>2. a \notin BenchConstrained
  <2> SUFFICES ASSUME a \in BenchConstrained PROVE a \in Waterfall
    OBVIOUS
  <2>1. PICK v \in Workers, d \in Chains :
           a \in {sources(v, d)[j] : j \in 1 .. 4} \cup {limit(v, d)}
    BY DEF BenchConstrained
  <2>2. PICK q \in Nat : q = chainBase(v, d) /\ q .. q + 6 \subseteq Waterfall
    BY ChainIDs
  <2>3. a \in {q, q + 1, q + 2, q + 3, q + 6}
    BY <2>1, <2>2 DEF sources, limit
  <2>4. a \in q .. q + 6
    BY ONLY <2>2, <2>3
  <2> QED BY <2>2, <2>4
<1>3. a \notin Constrained
  BY <1>2, ClusterAssumption DEF ClusterAssumption
<1> QED BY <1>1, <1>3

LEMMA OtherIDs ==
    /\ {tbGlobalBank, hot, hotBank} \subseteq Account \ (Constrained \cup Waterfall)
    /\ \A i \in Workers : /\ hotDest(i) \in Account \ (Constrained \cup Waterfall)
                          /\ hotDest(i) # hot
                          /\ fanoutSource(i) \in Account \ (Constrained \cup Waterfall)
                          /\ fanoutSource(i) # tbGlobalBank
                          /\ \A j \in 0 .. nDests - 1 :
                                /\ fanoutDest(i, j) \in Account \ (Constrained \cup Waterfall)
                                /\ fanoutDest(i, j) # fanoutSource(i)
    /\ hot # hotBank
<1>0. /\ {tbGlobalBank, hot, hotBank} \subseteq BenchAccounts
      /\ UNION {{hotDest(v), fanoutSource(v)} : v \in Workers} \subseteq BenchAccounts
      /\ {fanoutDest(v, d) : v \in Workers, d \in 0 .. nDests - 1} \subseteq BenchAccounts
  <2> DEFINE U == UNION {{hotDest(v), fanoutSource(v)} : v \in Workers}
             F == {fanoutDest(v, d) : v \in Workers, d \in 0 .. nDests - 1}
             E == {tbGlobalBank, hot, hotBank}
             X == waterfallBase .. waterfallBase + nWorkers * nChains * 7 - 1
  <2>1. BenchAccounts = E \cup X \cup U \cup F
    BY DEF BenchAccounts
  <2> HIDE DEF U, F, E, X
  <2>2. E \subseteq BenchAccounts /\ U \subseteq BenchAccounts /\ F \subseteq BenchAccounts
    BY <2>1
  <2> QED BY <2>2 DEF E, U, F
<1>1. \A a \in Waterfall : a \in Nat /\ a >= 10000000 /\ a < 11000000
  <2>1. PICK n \in Nat : n = nWorkers * nChains /\ n * 7 <= 1000000
    BY BenchNumbers
  <2>2. Waterfall = 10000000 .. 10000000 + n * 7 - 1
    BY <2>1 DEF Waterfall, waterfallBase
  <2>3. \A a \in 10000000 .. 10000000 + n * 7 - 1 : a \in Nat /\ a >= 10000000 /\ a < 11000000
    BY ONLY <2>1
  <2> QED BY <2>2, <2>3
<1>2. {tbGlobalBank, hot, hotBank} \subseteq Account \ (Constrained \cup Waterfall)
  <2>1. \A a \in {tbGlobalBank, hot, hotBank} : a \notin Waterfall
    BY <1>1 DEF tbGlobalBank, hot, hotBank
  <2> QED BY <1>0, <2>1, OutsideWaterfall
<1>3. ASSUME NEW i \in Workers
      PROVE  /\ hotDest(i) \in Account \ (Constrained \cup Waterfall)
             /\ hotDest(i) # hot
             /\ fanoutSource(i) \in Account \ (Constrained \cup Waterfall)
             /\ fanoutSource(i) # tbGlobalBank
             /\ \A j \in 0 .. nDests - 1 :
                   /\ fanoutDest(i, j) \in Account \ (Constrained \cup Waterfall)
                   /\ fanoutDest(i, j) # fanoutSource(i)
  <2>1. i \in Nat /\ i < 1000000
    BY FewWorkers, BenchNumbers DEF Workers
  <2>2. /\ hotDest(i) = 20001000 + i /\ fanoutSource(i) = 30000000 + i
        /\ hot = 20000000 /\ tbGlobalBank = 50000000
    BY DEF hotDest, fanoutSource, hot, tbGlobalBank
  <2>3. hotDest(i) \in BenchAccounts /\ fanoutSource(i) \in BenchAccounts
    <3>1. {hotDest(i), fanoutSource(i)} \in {{hotDest(v), fanoutSource(v)} : v \in Workers}
      OBVIOUS
    <3> QED BY ONLY <1>0, <3>1
  <2>4. hotDest(i) \notin Waterfall /\ fanoutSource(i) \notin Waterfall
    BY <1>1, <2>1, <2>2
  <2>5. ASSUME NEW j \in 0 .. nDests - 1
        PROVE  /\ fanoutDest(i, j) \in Account \ (Constrained \cup Waterfall)
               /\ fanoutDest(i, j) # fanoutSource(i)
    <3>1. PICK n \in Nat : n = nDests
      BY BenchNumbers
    <3>2. PICK m \in Nat : m = i * n
      <4>1. i * n \in Nat
        BY ONLY <2>1, <3>1
      <4> QED BY ONLY <4>1
    <3>3. j \in Nat
      BY <3>1
    <3>4. fanoutDest(i, j) = 31000000 + m + j
      BY <3>1, <3>2 DEF fanoutDest
    <3>5. fanoutDest(i, j) \in BenchAccounts
      <4>1. fanoutDest(i, j) \in {fanoutDest(v, d) : v \in Workers, d \in 0 .. nDests - 1}
        OBVIOUS
      <4> QED BY ONLY <1>0, <4>1
    <3>6. fanoutDest(i, j) \notin Waterfall /\ fanoutDest(i, j) # fanoutSource(i)
      BY ONLY <1>1, <2>1, <2>2, <3>2, <3>3, <3>4
    <3> QED BY <3>5, <3>6, OutsideWaterfall
  <2> QED BY ONLY <2>1, <2>2, <2>3, <2>4, <2>5, OutsideWaterfall
<1> QED BY <1>2, <1>3 DEF hot, hotBank

LEMMA PlainTransfer ==
    ASSUME NEW d \in Account \ (Constrained \cup Waterfall),
           NEW c \in (Account \ Waterfall) \cup Sources, d # c, NEW n \in Nat
    PROVE  Transfer(d, c, n, {}) \in Plain
BY DEF Transfer, Plain, PlainTransfers

LEMMA FundPlain ==
    ASSUME NEW i \in Workers, NEW c \in Chains, NEW n \in {3, 4}
    PROVE  Fund(i, c, n) \in Seq(Plain)
<1>1. ASSUME NEW j \in 1 .. n
      PROVE  Transfer(tbGlobalBank, sources(i, c)[j], Funding[j], {}) \in Plain
  <2>1. j - 1 \in 0 .. 3 /\ j \in 1 .. 4
    OBVIOUS
  <2>2. PICK p \in Nat : p = chainBase(i, c)
    BY ChainIDs
  <2>3. sources(i, c)[j] = chainBase(i, c) + (j - 1)
    BY <2>1, <2>2 DEF sources
  <2>4. sources(i, c)[j] \in Sources
    <3>1. PICK w \in Workers \X Chains \X (0 .. 3) : w = <<i, c, j - 1>>
      BY <2>1
    <3>2. sources(i, c)[j] = chainBase(w[1], w[2]) + w[3]
      BY <2>3, <3>1
    <3> QED BY <3>2 DEF Sources
  <2>5. Funding[j] \in Nat
    BY <2>1, BenchNumbers DEF Funding
  <2>6. /\ tbGlobalBank \in Account \ (Constrained \cup Waterfall)
        /\ tbGlobalBank # sources(i, c)[j]
    BY <2>4, OtherIDs, SourcesAreAccounts
  <2> QED BY <2>4, <2>5, <2>6, PlainTransfer
<1> QED BY <1>1 DEF Fund

LEMMA ChainsPlain ==
    ASSUME NEW i \in Workers, NEW n \in {3, 4}
    PROVE  ForChains(LAMBDA c : Fund(i, c, n)) \in Seq(Plain)
<1> DEFINE s == [k \in 1 .. nChains |-> Fund(i, k - 1, n)]
<1>1. ASSUME NEW k \in 1 .. nChains PROVE Fund(i, k - 1, n) \in Seq(Plain)
  <2>1. k - 1 \in Chains
    BY BenchNumbers DEF Chains
  <2> QED BY <2>1, FundPlain
<1>2. s \in Seq(Seq(Plain))
  BY <1>1, BenchNumbers
<1>3. FlattenSeq(s) \in Seq(Plain)
  BY <1>2, FlatType
<1> QED BY <1>3 DEF ForChains

LEMMA SetupPlain ==
    ASSUME NEW v \in Nat
    PROVE  SetupTransfers(v) \in Seq(Plain)
<1> DEFINE Chained(k) == ForChains(LAMBDA c : Fund(k - 1, c, 4))
           Fanned(k) == <<Transfer(tbGlobalBank, fanoutSource(k - 1), 1000, {})>>
           s1 == [k \in 1 .. nWorkers |-> Chained(k)]
           s7 == [k \in 1 .. nWorkers |-> Fanned(k)]
           b1 == FlattenSeq(s1)
           b5 == <<Transfer(hotBank, hot, 1000, {})>>
           b7 == FlattenSeq(s7)
<1>1. SetupTransfers(v) = CASE v = 1 -> b1 [] v = 5 -> b5 [] v = 7 -> b7 [] OTHER -> << >>
  BY DEF SetupTransfers, ForWorkers
<1>2. ASSUME NEW k \in 1 .. nWorkers PROVE Chained(k) \in Seq(Plain) /\ Fanned(k) \in Seq(Plain)
  <2>1. k - 1 \in Workers
    BY BenchNumbers DEF Workers
  <2>2. Chained(k) \in Seq(Plain)
    BY <2>1, ChainsPlain
  <2>3. Transfer(tbGlobalBank, fanoutSource(k - 1), 1000, {}) \in Plain
    BY <2>1, OtherIDs, PlainTransfer
  <2> QED BY <2>2, <2>3
<1>3. b1 \in Seq(Plain) /\ b7 \in Seq(Plain)
  <2> HIDE DEF Chained, Fanned
  <2>1. s1 \in Seq(Seq(Plain)) /\ s7 \in Seq(Seq(Plain))
    BY <1>2, BenchNumbers
  <2> HIDE DEF s1, s7
  <2> QED BY <2>1, FlatType
<1>4. b5 \in Seq(Plain)
  <2>1. Transfer(hotBank, hot, 1000, {}) \in Plain
    BY OtherIDs, PlainTransfer
  <2> QED BY <2>1
<1> HIDE DEF b1, b5, b7
<1> QED BY ONLY <1>1, <1>3, <1>4, v \in Nat

LEMMA HotPlain ==
    ASSUME NEW i \in Workers
    PROVE  /\ <<Transfer(hot, hotDest(i), 1, {})>> \in Seq(Plain)
           /\ [j \in 1 .. nDests |-> Transfer(fanoutSource(i), fanoutDest(i, j - 1), 1, {})]
                \in Seq(Plain)
<1>1. Transfer(hot, hotDest(i), 1, {}) \in Plain
  BY OtherIDs, PlainTransfer
<1>2. ASSUME NEW j \in 1 .. nDests
      PROVE  Transfer(fanoutSource(i), fanoutDest(i, j - 1), 1, {}) \in Plain
  <2>1. j - 1 \in 0 .. nDests - 1
    BY BenchNumbers
  <2>2. /\ fanoutSource(i) \in Account \ (Constrained \cup Waterfall)
        /\ fanoutDest(i, j - 1) \in Account \ (Constrained \cup Waterfall)
        /\ fanoutDest(i, j - 1) # fanoutSource(i)
    BY <2>1, OtherIDs
  <2> QED BY <2>2, PlainTransfer
<1> QED BY <1>1, <1>2, BenchNumbers

-----------------------------------------------------------------------------
(* What every chain's accounts show between two operations: n draws have been *)
(* answered with success.                                                    *)
PaidBySources(A, p) ==
    A[p + 0].debits_posted + A[p + 1].debits_posted
        + A[p + 2].debits_posted + A[p + 3].debits_posted

ChainBooks(A, p, n) ==
    /\ Settled(A, p)
    /\ PaidBySources(A, p) = A[p + 4].credits_posted
    /\ A[p + 4].credits_posted % Target = 0
    /\ A[p + 4].credits_posted >= Target * n

LEMMA ControlsAreNotSources ==
    ASSUME NEW v \in Workers, NEW d \in Chains, NEW r \in 4 .. 6
    PROVE  chainBase(v, d) + r \notin Sources
<1> SUFFICES ASSUME NEW w \in Workers \X Chains \X (0 .. 3),
                    chainBase(v, d) + r = chainBase(w[1], w[2]) + w[3]
             PROVE  FALSE
  BY DEF Sources
<1>1. w[1] \in Workers /\ w[2] \in Chains /\ w[3] \in 0 .. 3
  OBVIOUS
<1>2. PICK p \in Nat, q \in Nat, e \in 0 .. 3 :
         /\ p = chainBase(v, d) /\ q = chainBase(w[1], w[2]) /\ e = w[3]
         /\ p = q \/ p + 7 <= q \/ q + 7 <= p
  <2>1. /\ chainBase(v, d) \in Nat /\ chainBase(w[1], w[2]) \in Nat
        /\ \/ v = w[1] /\ d = w[2]
           \/ chainBase(v, d) + 7 <= chainBase(w[1], w[2])
           \/ chainBase(w[1], w[2]) + 7 <= chainBase(v, d)
    BY <1>1, ChainsApart
  <2> QED BY <1>1, <2>1
<1> QED BY ONLY <1>2, r \in 4 .. 6, chainBase(v, d) + r = chainBase(w[1], w[2]) + w[3]

LEMMA RefilledBooks ==
    ASSUME NEW A, NEW B, Refilled(A, B), NEW v \in Workers, NEW d \in Chains,
           NEW p, p = chainBase(v, d)
    PROVE  /\ Settled(A, p) => Settled(B, p)
           /\ \A n : ChainBooks(A, p, n) => ChainBooks(B, p, n)
<1>1. p \in Nat /\ p .. p + 6 \subseteq Waterfall
  BY ChainIDs
<1>2. \A r \in 0 .. 6 : p + r \in Waterfall
  <2>1. \A r \in 0 .. 6 : p + r \in p .. p + 6
    BY ONLY <1>1
  <2> QED BY ONLY <1>1, <2>1
<1>3. \A r \in 0 .. 6 : /\ B[p + r].debits_posted = A[p + r].debits_posted
                        /\ B[p + r].credits_posted >= A[p + r].credits_posted
                        /\ A[p + r].debits_posted \in Nat /\ A[p + r].credits_posted \in Nat
                        /\ B[p + r].credits_posted \in Nat
  BY <1>2, RowNumbers DEF Refilled
<1>4. \A r \in 4 .. 6 : B[p + r].credits_posted = A[p + r].credits_posted
  <2> SUFFICES ASSUME NEW r \in 4 .. 6 PROVE B[p + r].credits_posted = A[p + r].credits_posted
    OBVIOUS
  <2>1. p + r \notin Sources /\ r \in 0 .. 6
    BY ControlsAreNotSources
  <2> QED BY <1>2, <2>1 DEF Refilled
<1>5. Settled(A, p) => Settled(B, p)
  <2> SUFFICES ASSUME Settled(A, p) PROVE Settled(B, p)
    OBVIOUS
  <2>1. ASSUME NEW r \in 0 .. 3 PROVE B[p + r].debits_posted <= B[p + r].credits_posted
    <3>1. r \in 0 .. 6 /\ A[p + r].debits_posted <= A[p + r].credits_posted
      BY DEF Settled
    <3> QED BY ONLY <1>3, <3>1
  <2>2. /\ B[p + 5].debits_posted = B[p + 5].credits_posted
        /\ B[p + 6].debits_posted = B[p + 6].credits_posted
    <3>1. /\ A[p + 5].debits_posted = A[p + 5].credits_posted
          /\ A[p + 6].debits_posted = A[p + 6].credits_posted
      BY DEF Settled
    <3> QED BY ONLY <1>3, <1>4, <3>1
  <2> QED BY <2>1, <2>2 DEF Settled
<1>6. ASSUME NEW n, ChainBooks(A, p, n) PROVE ChainBooks(B, p, n)
  <2>1. PaidBySources(B, p) = PaidBySources(A, p)
    <3>1. \A r \in 0 .. 6 : B[p + r].debits_posted = A[p + r].debits_posted
      BY ONLY <1>3
    <3>2. /\ B[p + 0].debits_posted = A[p + 0].debits_posted
          /\ B[p + 1].debits_posted = A[p + 1].debits_posted
          /\ B[p + 2].debits_posted = A[p + 2].debits_posted
          /\ B[p + 3].debits_posted = A[p + 3].debits_posted
      BY ONLY <3>1
    <3> QED BY ONLY <3>2 DEF PaidBySources
  <2>2. B[p + 4].credits_posted = A[p + 4].credits_posted
    BY <1>4
  <2> QED BY ONLY <1>5, <1>6, <2>1, <2>2 DEF ChainBooks
<1> QED BY <1>5, <1>6

LEMMA MovedBooks ==
    ASSUME NEW A, NEW B, SoundAccounts(A), SoundAccounts(B),
           NEW v \in Workers, NEW d \in Chains, NEW p, p = chainBase(v, d),
           NEW g \in {0, Target}, Moved(A, B, p, g), NEW n \in Nat, ChainBooks(A, p, n),
           NEW m, m = n \/ (m = n + 1 /\ g = Target)
    PROVE  ChainBooks(B, p, m)
<1>1. p \in Nat /\ p .. p + 6 \subseteq Waterfall
  BY ChainIDs
<1>2. \A r \in 0 .. 6 : p + r \in Waterfall
  <2>1. \A r \in 0 .. 6 : p + r \in p .. p + 6
    BY ONLY <1>1
  <2> QED BY ONLY <1>1, <2>1
<1>3. \A r \in 0 .. 6 : A[p + r].debits_posted \in Nat /\ A[p + r].credits_posted \in Nat
  BY <1>2, RowNumbers
<1>4. PICK x \in FromSources :
          /\ AddUp(x) = g /\ InOrderOf(A, p, x, 4)
          /\ \A j \in 0 .. 3 : /\ B[p + j].debits_posted = A[p + j].debits_posted + x[j]
                               /\ B[p + j].credits_posted = A[p + j].credits_posted
  BY DEF Moved
<1>5. \A j \in 0 .. 3 : x[j] \in Nat /\ x[j] <= Left(A, p + j)
  BY <1>4 DEF InOrderOf, FromSources
<1>6. Settled(A, p)
  BY DEF ChainBooks
<1>7. Settled(B, p)
  <2>1. ASSUME NEW j \in 0 .. 3 PROVE B[p + j].debits_posted <= B[p + j].credits_posted
    <3>1. PICK e \in Nat, c \in Nat, y \in Nat :
             e = A[p + j].debits_posted /\ c = A[p + j].credits_posted /\ y = x[j]
      <4>1. j \in 0 .. 6
        OBVIOUS
      <4> QED BY <1>3, <1>5, <4>1
    <3>2. y <= c - e
      BY <1>5, <3>1 DEF Left
    <3>3. e + y <= c
      BY ONLY <3>1, <3>2
    <3> QED BY <1>4, <3>1, <3>3
  <2>2. /\ B[p + 5].debits_posted = B[p + 5].credits_posted
        /\ B[p + 6].debits_posted = B[p + 6].credits_posted
    <3>1. \A r \in 5 .. 6 : A[p + r].debits_posted = A[p + r].credits_posted
                            => B[p + r].debits_posted = B[p + r].credits_posted
      BY DEF Moved
    <3> QED BY ONLY <1>6, <3>1 DEF Settled
  <2> QED BY <2>1, <2>2 DEF Settled
<1>8. PICK C \in Nat, T \in Nat \ {0} : C = A[p + 4].credits_posted /\ T = Target
  <2>1. 4 \in 0 .. 6 /\ Target \in Nat \ {0}
    BY BenchNumbers
  <2> QED BY <1>3, <2>1
<1>9. B[p + 4].credits_posted = C + g /\ g \in {0, T}
  BY <1>8 DEF Moved
<1>10. PaidBySources(B, p) = C + g
  <2>1. PICK e0 \in Nat, e1 \in Nat, e2 \in Nat, e3 \in Nat :
           /\ e0 = A[p + 0].debits_posted /\ e1 = A[p + 1].debits_posted
           /\ e2 = A[p + 2].debits_posted /\ e3 = A[p + 3].debits_posted
    BY ONLY <1>3
  <2>2. PICK x0 \in Nat, x1 \in Nat, x2 \in Nat, x3 \in Nat :
           x0 = x[0] /\ x1 = x[1] /\ x2 = x[2] /\ x3 = x[3]
    BY ONLY <1>5
  <2>3. /\ B[p + 0].debits_posted = e0 + x0 /\ B[p + 1].debits_posted = e1 + x1
        /\ B[p + 2].debits_posted = e2 + x2 /\ B[p + 3].debits_posted = e3 + x3
    BY ONLY <1>4, <2>1, <2>2
  <2>4. e0 + e1 + e2 + e3 = C
    BY <1>8, <2>1 DEF ChainBooks, PaidBySources
  <2>5. x0 + x1 + x2 + x3 = g
    BY ONLY <1>4, <2>2 DEF AddUp
  <2>6. (e0 + x0) + (e1 + x1) + (e2 + x2) + (e3 + x3)
        = (e0 + e1 + e2 + e3) + (x0 + x1 + x2 + x3)
    BY ONLY <2>1, <2>2
  <2>7. (e0 + x0) + (e1 + x1) + (e2 + x2) + (e3 + x3) = C + g
    BY ONLY <2>4, <2>5, <2>6
  <2> QED BY ONLY <2>3, <2>7 DEF PaidBySources
<1>11. (C + g) % T = 0
  <2>1. C % T = 0
    BY <1>8 DEF ChainBooks
  <2>2. CASE g = 0
    BY ONLY <1>8, <2>1, <2>2
  <2>3. CASE g = T
    <3>1. PICK k \in Int : k = C + T
      BY ONLY <1>8
    <3>2. (k - T) % T = k % T
      BY ONLY <1>8, <3>1, ModLess
    <3>3. k - T = C
      BY ONLY <1>8, <3>1
    <3> QED BY ONLY <2>1, <2>3, <3>1, <3>2, <3>3
  <2> QED BY <1>9, <2>2, <2>3
<1>12. C + g >= T * m
  <2>1. C >= T * n
    BY <1>8 DEF ChainBooks
  <2>2. CASE m = n
    <3>1. g >= 0 /\ g \in Int /\ T * n \in Int
      BY ONLY <1>8, <1>9, n \in Nat
    <3> QED BY ONLY <1>8, <2>1, <2>2, <3>1
  <2>3. CASE m = n + 1 /\ g = Target
    <3>1. T * (n + 1) = T * n + T /\ T * n \in Int
      BY ONLY <1>8, n \in Nat
    <3> QED BY ONLY <1>8, <2>1, <2>3, <3>1
  <2> QED BY <2>2, <2>3
<1>13. /\ PaidBySources(B, p) = B[p + 4].credits_posted
       /\ B[p + 4].credits_posted % Target = 0
       /\ B[p + 4].credits_posted >= Target * m
  BY ONLY <1>8, <1>9, <1>10, <1>11, <1>12
<1> QED BY ONLY <1>7, <1>13 DEF ChainBooks

-----------------------------------------------------------------------------
(* The steps of the benchmark. *)
Pairs == Workers \X Chains

DrawCounts == [Pairs -> Nat]

BenchInv ==
    /\ Sound(cluster)
    /\ drawn \in DrawCounts
    /\ \A v \in Workers, d \in Chains :
          ChainBooks(cluster.accounts, chainBase(v, d), drawn[<<v, d>>])

(* What a step does to the books: sources may be refilled, then chains in W   *)
(* are drawn from, and if all of them succeeded they are counted.            *)
Booked(A, B, before, after) ==
    /\ after \in DrawCounts
    /\ \E C, W, all :
          /\ Refilled(A, C) /\ Drew(C, B, W, all)
          /\ \A w \in Pairs : after[w] = before[w] \/ (after[w] = before[w] + 1 /\ w \in W /\ all)

LEMMA InvSettled ==
    ASSUME BenchInv
    PROVE  AllSettled(cluster.accounts) /\ SoundAccounts(cluster.accounts)
BY DEF BenchInv, AllSettled, ChainBooks, Sound

LEMMA RefilledSettled ==
    ASSUME NEW A, NEW C, Refilled(A, C), AllSettled(A)
    PROVE  AllSettled(C)
<1>1. ASSUME NEW v \in Workers, NEW d \in Chains PROVE Settled(C, chainBase(v, d))
  <2>1. Settled(A, chainBase(v, d))
    BY DEF AllSettled
  <2> QED BY <2>1, RefilledBooks
<1> QED BY <1>1 DEF AllSettled

(* A call that draws nothing. *)
LEMMA DrewNothing ==
    ASSUME NEW A, SoundAccounts(A), AllSettled(A)
    PROVE  Drew(A, A, {}, FALSE)
<1>1. ASSUME NEW v \in Workers, NEW d \in Chains
      PROVE  Moved(A, A, chainBase(v, d), 0)
  <2>1. PICK p \in Nat : p = chainBase(v, d) /\ p .. p + 6 \subseteq Waterfall
    BY ChainIDs
  <2>2. Settled(A, p)
    BY <2>1 DEF AllSettled
  <2> QED BY <2>1, <2>2, MovedNothing
<1> QED BY <1>1 DEF Drew

LEMMA BookedInv ==
    ASSUME BenchInv, Sound(cluster'),
           Booked(cluster.accounts, cluster'.accounts, drawn, drawn')
    PROVE  BenchInv'
<1> DEFINE A == cluster.accounts
           B == cluster'.accounts
<1>1. PICK C, W, all :
         /\ Refilled(A, C) /\ Drew(C, B, W, all)
         /\ \A w \in Pairs :
               drawn'[w] = drawn[w] \/ (drawn'[w] = drawn[w] + 1 /\ w \in W /\ all)
  BY DEF Booked
<1>2. drawn \in DrawCounts /\ drawn' \in DrawCounts
  BY DEF BenchInv, Booked
<1>3. SoundAccounts(C) /\ SoundAccounts(B)
  BY <1>1 DEF Refilled, Drew
<1>4. ASSUME NEW v \in Workers, NEW d \in Chains
      PROVE  ChainBooks(B, chainBase(v, d), drawn'[<<v, d>>])
  <2>1. PICK p : p = chainBase(v, d)
    OBVIOUS
  <2>2. PICK n \in Nat, m \in Nat : n = drawn[<<v, d>>] /\ m = drawn'[<<v, d>>]
    BY <1>2 DEF DrawCounts, Pairs
  <2>3. PICK g \in {0, Target} : Moved(C, B, p, g) /\ (<<v, d>> \in W /\ all => g = Target)
    BY <1>1, <2>1 DEF Drew
  <2>4. ChainBooks(A, p, n)
    BY <2>1, <2>2 DEF BenchInv
  <2>5. ChainBooks(C, p, n)
    BY <1>1, <2>1, <2>4, RefilledBooks
  <2>6. m = n \/ (m = n + 1 /\ g = Target)
    BY <1>1, <2>2, <2>3 DEF Pairs
  <2>7. ChainBooks(B, p, m)
    BY <1>3, <2>1, <2>3, <2>5, <2>6, MovedBooks
  <2> QED BY <2>1, <2>2, <2>7
<1> QED BY <1>2, <1>4 DEF BenchInv

LEMMA BookedOrder ==
    ASSUME Booked(cluster.accounts, cluster'.accounts, drawn, drawn'),
           SoundAccounts(cluster.accounts)
    PROVE  InPriorityOrder
<1> DEFINE A == cluster.accounts
           B == cluster'.accounts
<1>1. PICK C, W, all : Refilled(A, C) /\ Drew(C, B, W, all)
  BY DEF Booked
<1>2. SUFFICES ASSUME NEW i \in Workers, NEW c \in Chains, NEW j \in 1 .. 4, NEW h \in 1 .. 4,
                      h < j, B[sources(i, c)[j]].debits_posted > A[sources(i, c)[j]].debits_posted
               PROVE  B[sources(i, c)[h]].credits_posted = B[sources(i, c)[h]].debits_posted
  BY DEF InPriorityOrder, Paid
<1>3. PICK p \in Nat : p = chainBase(i, c) /\ p .. p + 6 \subseteq Waterfall
  BY ChainIDs
<1>4. PICK k \in 0 .. 3, l \in 0 .. 3 : /\ k = j - 1 /\ l = h - 1 /\ l < k
                                        /\ sources(i, c)[j] = p + k /\ sources(i, c)[h] = p + l
  <2>1. sources(i, c)[j] = p + (j - 1) /\ sources(i, c)[h] = p + (h - 1)
    BY <1>3 DEF sources
  <2> QED BY <1>2, <2>1
<1>5. \A r \in 0 .. 6 : p + r \in Waterfall
  <2>1. \A r \in 0 .. 6 : p + r \in p .. p + 6
    BY ONLY <1>3
  <2> QED BY ONLY <1>3, <2>1
<1>6. PICK x \in FromSources :
         /\ InOrderOf(C, p, x, 4)
         /\ \A y \in 0 .. 3 : /\ B[p + y].debits_posted = C[p + y].debits_posted + x[y]
                              /\ B[p + y].credits_posted = C[p + y].credits_posted
  <2>1. PICK g : Moved(C, B, p, g)
    BY <1>1, <1>3 DEF Drew
  <2>2. \E x \in FromSources :
         /\ InOrderOf(C, p, x, 4)
         /\ \A y \in 0 .. 3 : /\ B[p + y].debits_posted = C[p + y].debits_posted + x[y]
                              /\ B[p + y].credits_posted = C[p + y].credits_posted
    BY ONLY <2>1 DEF Moved
  <2> QED BY ONLY <2>2
<1>7. C[p + k].debits_posted = A[p + k].debits_posted
  <2>1. p + k \in Waterfall
    BY <1>5
  <2> QED BY <1>1, <2>1 DEF Refilled
<1>8. /\ x[k] \in Nat /\ A[p + k].debits_posted \in Nat
      /\ C[p + l].debits_posted \in Nat /\ C[p + l].credits_posted \in Nat
  <2>1. p + k \in Waterfall /\ p + l \in Waterfall
    BY <1>5
  <2> QED BY <1>1, <2>1, RowNumbers DEF Refilled, FromSources
<1>9. x[k] > 0
  <2>1. B[p + k].debits_posted > A[p + k].debits_posted
    BY <1>2, <1>4
  <2>2. B[p + k].debits_posted = A[p + k].debits_posted + x[k]
    BY <1>6, <1>7
  <2> QED BY ONLY <1>8, <2>1, <2>2
<1>10. x[l] = C[p + l].credits_posted - C[p + l].debits_posted
  BY <1>4, <1>6, <1>9 DEF InOrderOf, Left
<1>11. B[p + l].credits_posted = B[p + l].debits_posted
  <2>1. /\ B[p + l].debits_posted = C[p + l].debits_posted + x[l]
        /\ B[p + l].credits_posted = C[p + l].credits_posted
    BY ONLY <1>6
  <2> QED BY ONLY <1>8, <1>10, <2>1
<1> QED BY <1>4, <1>11

LEMMA InitInv ==
    ASSUME cluster = EmptyCluster, BenchInit
    PROVE  BenchInv
<1> DEFINE A == cluster.accounts
<1>1. \A a \in Account : A[a] = Empty
  BY DEF EmptyCluster
<1>2. Sound(cluster)
  <2>1. Empty \in ChainRow
    BY DEF Empty, ChainRow
  <2>2. SoundAccounts(A)
    BY <1>1, <2>1, WaterfallAccounts DEF SoundAccounts, EmptyCluster
  <2> QED BY <2>2 DEF Sound, EmptyCluster
<1>3. drawn \in DrawCounts /\ \A w \in Pairs : drawn[w] = 0
  BY DEF BenchInit, DrawCounts, Pairs
<1>4. 0 % Target = 0
  <2>1. PICK T \in Nat \ {0} : T = Target
    BY BenchNumbers
  <2>2. 0 % T = 0
    <3>1. 0 \div T \in Int /\ 0 % T \in 0 .. T - 1 /\ 0 = T * (0 \div T) + (0 % T)
      BY DivMod
    <3>2. T * 0 + 0 = T * (0 \div T) + (0 % T) /\ 0 \in 0 .. T - 1
      BY ONLY <3>1, T \in Nat \ {0}
    <3> QED BY <3>1, <3>2, Unique
  <2> QED BY <2>1, <2>2
<1>5. ASSUME NEW v \in Workers, NEW d \in Chains
      PROVE  ChainBooks(A, chainBase(v, d), drawn[<<v, d>>])
  <2>1. PICK p \in Nat : p = chainBase(v, d) /\ p .. p + 6 \subseteq Waterfall
    BY ChainIDs
  <2>2. \A r \in 0 .. 6 : A[p + r] = Empty
    <3>1. \A r \in 0 .. 6 : p + r \in p .. p + 6
      BY ONLY <2>1
    <3> QED BY <1>1, <2>1, <3>1, WaterfallAccounts
  <2>3. \A r \in 0 .. 6 : A[p + r].debits_posted = 0 /\ A[p + r].credits_posted = 0
    BY <2>2 DEF Empty
  <2>4. Settled(A, p)
    <3>1. \A r \in 0 .. 3 : A[p + r].debits_posted <= A[p + r].credits_posted
      BY ONLY <2>3
    <3>2. /\ A[p + 5].debits_posted = A[p + 5].credits_posted
          /\ A[p + 6].debits_posted = A[p + 6].credits_posted
      BY ONLY <2>3
    <3> QED BY ONLY <3>1, <3>2 DEF Settled
  <2>5. /\ A[p + 4].credits_posted = 0
        /\ A[p + 0].debits_posted = 0 /\ A[p + 1].debits_posted = 0
        /\ A[p + 2].debits_posted = 0 /\ A[p + 3].debits_posted = 0
    BY ONLY <2>3
  <2>6. drawn[<<v, d>>] = 0
    BY <1>3 DEF Pairs
  <2>7. Target * 0 = 0
    BY BenchNumbers
  <2>8. PaidBySources(A, p) = 0
    BY ONLY <2>5 DEF PaidBySources
  <2> QED BY ONLY <1>4, <2>1, <2>4, <2>5, <2>6, <2>7, <2>8 DEF ChainBooks
<1> QED BY <1>2, <1>3, <1>5 DEF BenchInv

LEMMA PlainBooked ==
    ASSUME BenchInv, NEW batch \in Seq(Plain),
           cluster' = CreateTransfers(cluster, batch).cluster, drawn' = drawn
    PROVE  Sound(cluster') /\ Booked(cluster.accounts, cluster'.accounts, drawn, drawn')
<1>1. Sound(cluster') /\ Refilled(cluster.accounts, cluster'.accounts)
  BY PlainCall DEF BenchInv
<1>2. Drew(cluster'.accounts, cluster'.accounts, {}, FALSE)
  BY <1>1, InvSettled, RefilledSettled, DrewNothing DEF Refilled
<1>3. drawn' \in DrawCounts
  BY DEF BenchInv
<1> QED BY <1>1, <1>2, <1>3 DEF Booked

LEMMA NothingBooked ==
    ASSUME BenchInv, cluster' = cluster, drawn' = drawn
    PROVE  Sound(cluster') /\ Booked(cluster.accounts, cluster'.accounts, drawn, drawn')
<1>1. SoundAccounts(cluster.accounts) /\ AllSettled(cluster.accounts)
  BY InvSettled
<1>2. Refilled(cluster.accounts, cluster.accounts)
      /\ Drew(cluster.accounts, cluster.accounts, {}, FALSE)
  BY <1>1, RefilledSame, DrewNothing
<1>3. drawn \in DrawCounts /\ Sound(cluster)
  BY DEF BenchInv
<1> QED BY <1>2, <1>3 DEF Booked

(* A call with an error, executed or not, counts nothing.                     *)
LEMMA LostPlain ==
    ASSUME BenchInv, NEW batch \in Seq(Plain), Lost(batch), drawn' = drawn
    PROVE  Sound(cluster') /\ Booked(cluster.accounts, cluster'.accounts, drawn, drawn')
BY PlainBooked, NothingBooked DEF Lost

LEMMA TopUpBooked ==
    ASSUME BenchInv, NEW i \in Workers, maybeTopUp(i)
    PROVE  Sound(cluster') /\ Booked(cluster.accounts, cluster'.accounts, drawn, drawn')
<1>1. PICK tops \in Seq(Plain) : tops = ForChains(LAMBDA c : Fund(i, c, 3))
  BY ChainsPlain
<1>2. /\ drawn' = drawn
      /\ cluster' = CreateTransfers(cluster, tops).cluster \/ Lost(tops)
  BY <1>1 DEF maybeTopUp
<1> QED BY <1>2, PlainBooked, LostPlain

(* A call that draws from the chains of W, counted when all succeeded.         *)
LEMMA DrawBooked ==
    ASSUME BenchInv, NEW batch, NEW W, NEW r, r = CreateTransfers(cluster, batch),
           Sound(r.cluster), Drew(cluster.accounts, r.cluster.accounts, W, r.failures = 0),
           \/ /\ cluster' = r.cluster /\ drawn' \in DrawCounts
              /\ \A w \in Pairs : drawn'[w] = drawn[w]
                   \/ (drawn'[w] = drawn[w] + 1 /\ w \in W /\ r.failures = 0)
           \/ Lost(batch) /\ drawn' = drawn
    PROVE  Sound(cluster') /\ Booked(cluster.accounts, cluster'.accounts, drawn, drawn')
<1>1. Refilled(cluster.accounts, cluster.accounts)
  BY InvSettled, RefilledSame
<1>2. CASE cluster' = r.cluster
  <2>1. /\ drawn' \in DrawCounts
        /\ \A w \in Pairs : drawn'[w] = drawn[w]
             \/ (drawn'[w] = drawn[w] + 1 /\ w \in W /\ r.failures = 0)
    BY DEF BenchInv
  <2>2. Drew(cluster.accounts, cluster'.accounts, W, r.failures = 0) /\ Sound(cluster')
    BY <1>2
  <2>3. Booked(cluster.accounts, cluster'.accounts, drawn, drawn')
    BY <1>1, <2>1, <2>2 DEF Booked
  <2> QED BY <2>2, <2>3
<1>3. CASE cluster' = cluster /\ drawn' = drawn
  BY <1>3, NothingBooked
<1> QED BY <1>2, <1>3 DEF Lost

LEMMA DoChainsBooked ==
    ASSUME BenchInv, NEW i \in Workers, NEW variant, NEW resolved \in BOOLEAN,
           DoChains(i, variant, resolved)
    PROVE  Sound(cluster') /\ Booked(cluster.accounts, cluster'.accounts, drawn, drawn')
<1> DEFINE batch == ForChains(LAMBDA c : Chain(i, c, resolved))
           r == CreateTransfers(cluster, batch)
<1>1. \/ /\ cluster' = r.cluster
         /\ drawn' = [w \in Workers \X Chains |->
                        drawn[w] + IF w[1] = i /\ Succeeded(r) THEN 1 ELSE 0]
      \/ Lost(batch) /\ drawn' = drawn
  BY DEF DoChains
<1>2. /\ Sound(r.cluster)
      /\ Drew(cluster.accounts, r.cluster.accounts, {i} \X Chains, r.failures = 0)
  BY InvSettled, ChainsCall DEF BenchInv
<1> HIDE DEF r, batch
<1>3. drawn \in DrawCounts
  BY DEF BenchInv
<1>4. CASE /\ cluster' = r.cluster
           /\ drawn' = [w \in Workers \X Chains |->
                          drawn[w] + IF w[1] = i /\ Succeeded(r) THEN 1 ELSE 0]
  <2>1. drawn' \in DrawCounts
    BY <1>3, <1>4 DEF DrawCounts, Pairs
  <2>2. ASSUME NEW w \in Pairs
        PROVE  drawn'[w] = drawn[w]
               \/ (drawn'[w] = drawn[w] + 1 /\ w \in {i} \X Chains /\ r.failures = 0)
    <3>1. drawn'[w] = drawn[w] + IF w[1] = i /\ r.failures = 0 THEN 1 ELSE 0
      BY <1>4 DEF Pairs, Succeeded
    <3>2. drawn[w] \in Nat
      BY <1>3 DEF DrawCounts
    <3>3. w[1] = i => w \in {i} \X Chains
      BY DEF Pairs
    <3> QED BY <3>1, <3>2, <3>3
  <2>3. r = CreateTransfers(cluster, batch)
    BY DEF r
  <2> QED BY <1>2, <1>4, <2>1, <2>2, <2>3, DrawBooked
<1>5. CASE Lost(batch) /\ drawn' = drawn
  <2>1. r = CreateTransfers(cluster, batch)
    BY DEF r
  <2> QED BY <1>2, <1>5, <2>1, DrawBooked
<1> QED BY <1>1, <1>4, <1>5

(* One chain is counted when its call succeeded. *)
LEMMA OneCounted ==
    ASSUME BenchInv, NEW i \in Workers, NEW ok \in BOOLEAN,
           drawn' = [drawn EXCEPT ![<<i, 0>>] = @ + IF ok THEN 1 ELSE 0]
    PROVE  /\ drawn' \in DrawCounts
           /\ \A w \in Pairs : drawn'[w] = drawn[w]
                \/ (drawn'[w] = drawn[w] + 1 /\ w \in {<<i, 0>>} /\ ok)
<1>1. drawn \in [Pairs -> Nat]
  BY DEF BenchInv, DrawCounts
<1>2. ASSUME NEW w \in Pairs
      PROVE  /\ drawn'[w] \in Nat
             /\ drawn'[w] = drawn[w] \/ (drawn'[w] = drawn[w] + 1 /\ w \in {<<i, 0>>} /\ ok)
  BY <1>1
<1>3. drawn' \in [Pairs -> Nat]
  BY <1>1, <1>2
<1> QED BY <1>2, <1>3 DEF DrawCounts

LEMMA FastPathBooked ==
    ASSUME BenchInv, NEW i \in Workers, NEW variant, NEW resolved \in BOOLEAN,
           FastPath(i, variant, resolved)
    PROVE  Sound(cluster') /\ Booked(cluster.accounts, cluster'.accounts, drawn, drawn')
<1> DEFINE batch == <<Transfer(SourceIDs(i, 0, resolved)[1], destX(i, 0), Target, {})>>
           r == CreateTransfers(cluster, batch)
<1>1. \/ /\ cluster' = r.cluster
         /\ drawn' = [drawn EXCEPT ![<<i, 0>>] = @ + IF r.failures = 0 THEN 1 ELSE 0]
      \/ Lost(batch) /\ drawn' = drawn
  BY DEF FastPath, Succeeded
<1>2. /\ Sound(r.cluster)
      /\ Drew(cluster.accounts, r.cluster.accounts, {<<i, 0>>}, r.failures = 0)
  BY InvSettled, FastCall DEF BenchInv
<1>3. r = CreateTransfers(cluster, batch)
  OBVIOUS
<1> HIDE DEF r, batch
<1>4. CASE /\ cluster' = r.cluster
           /\ drawn' = [drawn EXCEPT ![<<i, 0>>] = @ + IF r.failures = 0 THEN 1 ELSE 0]
  <2>1. (r.failures = 0) \in BOOLEAN
    OBVIOUS
  <2>2. /\ drawn' \in DrawCounts
        /\ \A w \in Pairs : drawn'[w] = drawn[w]
             \/ (drawn'[w] = drawn[w] + 1 /\ w \in {<<i, 0>>} /\ r.failures = 0)
    BY <1>4, <2>1, OneCounted
  <2> QED BY <1>2, <1>3, <1>4, <2>2, DrawBooked
<1>5. CASE Lost(batch) /\ drawn' = drawn
  BY <1>2, <1>3, <1>5, DrawBooked
<1> QED BY <1>1, <1>4, <1>5

LEMMA FallbackBooked ==
    ASSUME BenchInv, NEW i \in Workers, NEW variant, NEW resolved \in BOOLEAN,
           Fallback(i, variant, resolved)
    PROVE  Sound(cluster') /\ Booked(cluster.accounts, cluster'.accounts, drawn, drawn')
<1> DEFINE batch == Chain(i, 0, resolved)
           r == CreateTransfers(cluster, batch)
<1>1. \/ /\ cluster' = r.cluster
         /\ drawn' = [drawn EXCEPT ![<<i, 0>>] = @ + IF r.failures = 0 THEN 1 ELSE 0]
      \/ Lost(batch) /\ drawn' = drawn
  BY DEF Fallback, Succeeded
<1>2. /\ Sound(r.cluster)
      /\ Drew(cluster.accounts, r.cluster.accounts, {<<i, 0>>}, r.failures = 0)
  BY InvSettled, ChainCall DEF BenchInv
<1>3. r = CreateTransfers(cluster, batch)
  OBVIOUS
<1> HIDE DEF r, batch
<1>4. CASE /\ cluster' = r.cluster
           /\ drawn' = [drawn EXCEPT ![<<i, 0>>] = @ + IF r.failures = 0 THEN 1 ELSE 0]
  <2>1. (r.failures = 0) \in BOOLEAN
    OBVIOUS
  <2>2. /\ drawn' \in DrawCounts
        /\ \A w \in Pairs : drawn'[w] = drawn[w]
             \/ (drawn'[w] = drawn[w] + 1 /\ w \in {<<i, 0>>} /\ r.failures = 0)
    BY <1>4, <2>1, OneCounted
  <2> QED BY <1>2, <1>3, <1>4, <2>2, DrawBooked
<1>5. CASE Lost(batch) /\ drawn' = drawn
  BY <1>2, <1>3, <1>5, DrawBooked
<1> QED BY <1>1, <1>4, <1>5

LEMMA NextVariantBooked ==
    ASSUME BenchInv, phase \in Nat, NextVariant
    PROVE  Sound(cluster') /\ Booked(cluster.accounts, cluster'.accounts, drawn, drawn')
<1>1. phase + 1 \in Nat
  OBVIOUS
<1>2. PICK batch \in Seq(Plain) : batch = SetupTransfers(phase + 1)
  BY <1>1, SetupPlain
<1>3. cluster' = CreateTransfers(cluster, batch).cluster /\ drawn' = drawn
  BY <1>2 DEF NextVariant
<1> QED BY <1>3, PlainBooked

LEMMA SingleBooked ==
    ASSUME BenchInv, NEW i \in Workers, NEW variant,
           DoHot(i, variant) \/ DoFanout(i, variant)
    PROVE  Sound(cluster') /\ Booked(cluster.accounts, cluster'.accounts, drawn, drawn')
<1>1. PICK batch \in Seq(Plain) :
         /\ cluster' = CreateTransfers(cluster, batch).cluster \/ Lost(batch)
         /\ drawn' = drawn
  <2>1. CASE DoHot(i, variant)
    BY <2>1, HotPlain DEF DoHot, Single
  <2>2. CASE DoFanout(i, variant)
    BY <2>2, HotPlain DEF DoFanout, Single
  <2> QED BY <2>1, <2>2
<1> QED BY <1>1, PlainBooked, LostPlain

LEMMA BenchStep ==
    ASSUME BenchInv, phase \in Nat, BenchNext
    PROVE  /\ Sound(cluster') /\ Booked(cluster.accounts, cluster'.accounts, drawn, drawn')
           /\ phase' \in Nat
<1>1. phase' \in Nat
  <2>1. CASE NextVariant
    BY <2>1 DEF NextVariant
  <2>2. ASSUME NEW i \in Workers, NEW variant, NEW resolved,
               \/ DoChains(i, variant, resolved) \/ FastPath(i, variant, resolved)
               \/ Fallback(i, variant, resolved) \/ DoHot(i, variant) \/ DoFanout(i, variant)
        PROVE  phase' = phase
    BY <2>2 DEF DoChains, FastPath, Fallback, DoHot, DoFanout, Single, AtDraw, Begin
  <2>3. ASSUME NEW i \in Workers, maybeTopUp(i) PROVE phase' = phase
    BY <2>3 DEF maybeTopUp, Begin
  <2> QED BY <2>1, <2>2, <2>3 DEF BenchNext
<1>2. CASE NextVariant
  BY <1>1, <1>2, NextVariantBooked
<1>3. ASSUME NEW i \in Workers, NEW variant, NEW resolved \in BOOLEAN,
             \/ DoChains(i, variant, resolved) \/ FastPath(i, variant, resolved)
             \/ Fallback(i, variant, resolved)
      PROVE  Sound(cluster') /\ Booked(cluster.accounts, cluster'.accounts, drawn, drawn')
  BY <1>3, DoChainsBooked, FastPathBooked, FallbackBooked
<1>4. ASSUME NEW i \in Workers, NEW variant, DoHot(i, variant) \/ DoFanout(i, variant)
      PROVE  Sound(cluster') /\ Booked(cluster.accounts, cluster'.accounts, drawn, drawn')
  BY <1>4, SingleBooked
<1>5. ASSUME NEW i \in Workers, maybeTopUp(i)
      PROVE  Sound(cluster') /\ Booked(cluster.accounts, cluster'.accounts, drawn, drawn')
  BY <1>5, TopUpBooked
<1>6. Sound(cluster') /\ Booked(cluster.accounts, cluster'.accounts, drawn, drawn')
  BY <1>2, <1>3, <1>4, <1>5 DEF BenchNext
<1> QED BY <1>1, <1>6

LEMMA BenchStutter ==
    ASSUME BenchInv, UNCHANGED <<cluster, benchVars>>
    PROVE  BenchInv' /\ InPriorityOrder
<1>1. cluster' = cluster /\ drawn' = drawn
  BY DEF benchVars
<1>2. BenchInv'
  BY <1>1 DEF BenchInv
<1>3. Booked(cluster.accounts, cluster'.accounts, drawn, drawn')
  BY <1>1, NothingBooked
<1> QED BY <1>2, <1>3, InvSettled, BookedOrder

LEMMA FourSum ==
    ASSUME NEW f, \A j \in 1 .. 4 : f[j] \in Int
    PROVE  IsFiniteSet(1 .. 4) /\ Total(f, 1 .. 4) = f[1] + f[2] + f[3] + f[4]
<1>1. \A n \in Nat : IsFiniteSet(1 .. n)
  BY FS_Interval
<1>2. /\ IsFiniteSet(1 .. 4) /\ IsFiniteSet(1 .. 3) /\ IsFiniteSet(1 .. 2) /\ IsFiniteSet(1 .. 1)
  BY <1>1
<1>3. /\ (1 .. 4) \ {4} = 1 .. 3 /\ (1 .. 3) \ {3} = 1 .. 2
      /\ (1 .. 2) \ {2} = 1 .. 1 /\ (1 .. 1) \ {1} = {}
      /\ 4 \in 1 .. 4 /\ 3 \in 1 .. 3 /\ 2 \in 1 .. 2 /\ 1 \in 1 .. 1
  OBVIOUS
<1>4. /\ \A j \in 1 .. 3 : f[j] \in Int
      /\ \A j \in 1 .. 2 : f[j] \in Int
      /\ \A j \in 1 .. 1 : f[j] \in Int
  OBVIOUS
<1>5. Total(f, 1 .. 4) = Total(f, (1 .. 4) \ {4}) + f[4]
  BY <1>2, <1>3, TotalRemove
<1>6. Total(f, 1 .. 3) = Total(f, (1 .. 3) \ {3}) + f[3]
  BY <1>2, <1>3, <1>4, TotalRemove
<1>7. Total(f, 1 .. 2) = Total(f, (1 .. 2) \ {2}) + f[2]
  BY <1>2, <1>3, <1>4, TotalRemove
<1>8. Total(f, 1 .. 1) = Total(f, (1 .. 1) \ {1}) + f[1]
  BY <1>2, <1>3, <1>4, TotalRemove
<1>9. f[1] \in Int /\ f[2] \in Int /\ f[3] \in Int /\ f[4] \in Int
  OBVIOUS
<1>10. Total(f, {}) = 0
  BY TotalEmpty
<1>11. PICK a \in Int, b \in Int, c \in Int, d \in Int :
          a = f[1] /\ b = f[2] /\ c = f[3] /\ d = f[4]
  BY <1>9
<1>12. Total(f, 1 .. 1) = a
  BY ONLY <1>3, <1>8, <1>10, <1>11
<1>13. Total(f, 1 .. 2) = a + b
  BY ONLY <1>3, <1>7, <1>11, <1>12
<1>14. Total(f, 1 .. 3) = a + b + c
  BY ONLY <1>3, <1>6, <1>11, <1>13
<1>15. Total(f, 1 .. 4) = a + b + c + d
  BY ONLY <1>3, <1>5, <1>11, <1>14
<1> QED BY ONLY <1>2, <1>11, <1>15

LEMMA InvChainsSettled ==
    ASSUME BenchInv
    PROVE  ChainsSettled
<1> DEFINE A == cluster.accounts
<1>1. SUFFICES ASSUME NEW i \in Workers, NEW c \in Chains
               PROVE  /\ MapThenSumSet(LAMBDA j : Paid(sources(i, c)[j]), 1 .. 4)
                           = Received(destX(i, c))
                      /\ Received(destX(i, c)) % Target = 0
                      /\ Balance(setup(i, c)) = 0 /\ Balance(limit(i, c)) = 0
                      /\ \A j \in 1 .. 4 : Balance(sources(i, c)[j]) >= 0
  BY DEF ChainsSettled
<1>2. PICK p \in Nat : p = chainBase(i, c) /\ p .. p + 6 \subseteq Waterfall
  BY ChainIDs
<1>3. \A r \in 0 .. 6 : A[p + r].debits_posted \in Nat /\ A[p + r].credits_posted \in Nat
  <2>1. \A r \in 0 .. 6 : p + r \in p .. p + 6
    BY ONLY <1>2
  <2>2. SoundAccounts(A)
    BY InvSettled
  <2> QED BY <1>2, <2>1, <2>2, RowNumbers
<1>4. ChainBooks(A, p, drawn[<<i, c>>])
  BY <1>2 DEF BenchInv
<1>5. \A j \in 1 .. 4 : sources(i, c)[j] = p + (j - 1)
  BY <1>2 DEF sources
<1>6. destX(i, c) = p + 4 /\ setup(i, c) = p + 5 /\ limit(i, c) = p + 6
  BY <1>2 DEF destX, setup, limit
<1> DEFINE f == [j \in 1 .. 4 |-> Paid(sources(i, c)[j])]
<1>7. \A j \in 1 .. 4 : f[j] = A[p + (j - 1)].debits_posted
  BY <1>5 DEF Paid
<1>8. f[1] + f[2] + f[3] + f[4] = PaidBySources(A, p)
  <2>1. /\ f[1] = A[p + 0].debits_posted /\ f[2] = A[p + 1].debits_posted
        /\ f[3] = A[p + 2].debits_posted /\ f[4] = A[p + 3].debits_posted
    BY ONLY <1>7
  <2> HIDE DEF f
  <2> QED BY ONLY <2>1 DEF PaidBySources
<1>9. IsFiniteSet(1 .. 4) /\ (\A j \in 1 .. 4 : f[j] \in Int)
      /\ Total(f, 1 .. 4) = f[1] + f[2] + f[3] + f[4]
  <2>1. \A j \in 1 .. 4 : f[j] \in Int
    <3>1. \A j \in 1 .. 4 : j - 1 \in 0 .. 6
      OBVIOUS
    <3> HIDE DEF f
    <3> QED BY <1>3, <1>7, <3>1
  <2> HIDE DEF f
  <2> QED BY <2>1, FourSum
<1>10. MapThenSumSet(LAMBDA j : Paid(sources(i, c)[j]), 1 .. 4) = Total(f, 1 .. 4)
  <2> DEFINE Paying(G) ==
               G = [T \in SUBSET (1 .. 4) |->
                      IF T = {} THEN 0
                      ELSE Paid(sources(i, c)[CHOOSE x \in T : TRUE])
                           + G[T \ {CHOOSE x \in T : TRUE}]]
  <2>1. MapThenSumSet(LAMBDA j : Paid(sources(i, c)[j]), 1 .. 4)
        = (CHOOSE G : Paying(G))[1 .. 4]
    BY DEF MapThenSumSet, MapThenFoldSet
  <2>2. \A T \in SUBSET (1 .. 4) : T # {} =>
           f[CHOOSE x \in T : TRUE] = Paid(sources(i, c)[CHOOSE x \in T : TRUE])
    OBVIOUS
  <2> HIDE DEF f
  <2>3. \A G : Paying(G) <=> Folded(G, f, 1 .. 4)
    BY <2>2 DEF Folded
  <2>4. \E G : Folded(G, f, 1 .. 4)
    BY <1>9, FoldedSum
  <2> HIDE DEF Paying
  <2>5. Paying(CHOOSE G : Paying(G))
    BY <2>3, <2>4
  <2>6. Folded(CHOOSE G : Paying(G), f, 1 .. 4)
    BY <2>3, <2>5
  <2> QED BY <1>9, <2>1, <2>6, FoldedSum
<1>11. Received(destX(i, c)) = A[p + 4].credits_posted
  BY <1>6 DEF Received
<1>12. Balance(setup(i, c)) = 0 /\ Balance(limit(i, c)) = 0
  <2>1. /\ A[p + 5].debits_posted = A[p + 5].credits_posted
        /\ A[p + 6].debits_posted = A[p + 6].credits_posted
    BY <1>4 DEF ChainBooks, Settled
  <2>2. A[p + 5].credits_posted \in Nat /\ A[p + 6].credits_posted \in Nat
    BY ONLY <1>3
  <2> QED BY <1>6, <2>1, <2>2 DEF Balance, Received, Paid
<1>13. ASSUME NEW j \in 1 .. 4 PROVE Balance(sources(i, c)[j]) >= 0
  <2>1. PICK r \in 0 .. 3 : r = j - 1
    OBVIOUS
  <2>2. A[p + r].debits_posted <= A[p + r].credits_posted
    BY <1>4, <2>1 DEF ChainBooks, Settled
  <2>3. r \in 0 .. 6
    OBVIOUS
  <2>4. A[p + r].debits_posted \in Nat /\ A[p + r].credits_posted \in Nat
    BY <1>3, <2>3
  <2>5. A[p + r].credits_posted - A[p + r].debits_posted >= 0
    BY ONLY <2>2, <2>4
  <2>6. sources(i, c)[j] = p + r
    BY <1>5, <2>1
  <2> QED BY <2>5, <2>6 DEF Balance, Received, Paid
<1>14. A[p + 4].credits_posted % Target = 0 /\ PaidBySources(A, p) = A[p + 4].credits_posted
  BY <1>4 DEF ChainBooks
<1> QED BY ONLY <1>8, <1>9, <1>10, <1>11, <1>12, <1>13, <1>14

LEMMA InvAnswered ==
    ASSUME BenchInv
    PROVE  AnsweredDrawsHappened
<1>1. ASSUME NEW i \in Workers, NEW c \in Chains
      PROVE  Received(destX(i, c)) >= Target * drawn[<<i, c>>]
  <2>1. PICK p \in Nat : p = chainBase(i, c)
    BY ChainIDs
  <2>2. ChainBooks(cluster.accounts, p, drawn[<<i, c>>])
    BY <2>1 DEF BenchInv
  <2>3. destX(i, c) = p + 4
    BY <2>1 DEF destX
  <2> QED BY <2>2, <2>3 DEF ChainBooks, Received
<1> QED BY <1>1 DEF AnsweredDrawsHappened

-----------------------------------------------------------------------------
LEMMA BenchInductive == BenchSpec => [](BenchInv /\ phase \in Nat)
<1>1. cluster = EmptyCluster /\ BenchInit => BenchInv /\ phase \in Nat
  BY InitInv DEF BenchInit
<1>2. BenchInv /\ phase \in Nat /\ [BenchNext]_<<cluster, benchVars>>
      => (BenchInv /\ phase \in Nat)'
  <2> SUFFICES ASSUME BenchInv, phase \in Nat, [BenchNext]_<<cluster, benchVars>>
               PROVE  BenchInv' /\ phase' \in Nat
    OBVIOUS
  <2>1. CASE BenchNext
    BY <2>1, BenchStep, BookedInv
  <2>2. CASE UNCHANGED <<cluster, benchVars>>
    BY <2>2, BenchStutter DEF benchVars
  <2> QED BY <2>1, <2>2
<1> QED BY <1>1, <1>2, PTL DEF BenchSpec

(* After every operation, of however many workers, what the sources of a      *)
(* chain have paid is what its destination received, a multiple of the        *)
(* target, the control accounts are level and no source is overdrawn: a chain *)
(* of TigerBeetle happens as a whole or not at all, whatever else is in its   *)
(* batch, and so does the draw of the fast path.                              *)
THEOREM BenchKeepsChainsSettled == BenchSpec => []ChainsSettled
<1>1. BenchInv /\ phase \in Nat => ChainsSettled
  BY InvChainsSettled
<1> QED BY <1>1, BenchInductive, PTL

(* What was counted as drawn has reached the destination. *)
THEOREM BenchAnswersTruly == BenchSpec => []AnsweredDrawsHappened
<1>1. BenchInv /\ phase \in Nat => AnsweredDrawsHappened
  BY InvAnswered
<1> QED BY <1>1, BenchInductive, PTL

(* Every operation of the benchmark takes from a source only when those       *)
(* before it are empty: credits before cash, the top-up included.             *)
THEOREM BenchDrawsInOrder == BenchSpec => DrawsInPriorityOrder
<1>1. BenchInv /\ phase \in Nat /\ [BenchNext]_<<cluster, benchVars>> => [InPriorityOrder]_cluster
  <2> SUFFICES ASSUME BenchInv, phase \in Nat, [BenchNext]_<<cluster, benchVars>>
               PROVE  InPriorityOrder
    OBVIOUS
  <2>1. CASE BenchNext
    BY <2>1, BenchStep, InvSettled, BookedOrder
  <2>2. CASE UNCHANGED <<cluster, benchVars>>
    BY <2>2, BenchStutter
  <2> QED BY <2>1, <2>2
<1> QED BY <1>1, BenchInductive, PTL DEF BenchSpec, DrawsInPriorityOrder

(* A behaviour of the two tools that runs the benchmark is one of BenchSpec,  *)
(* so the theorems hold of the specification that is model-checked.           *)
THEOREM ToolsRunBench ==
    Spec /\ tool = "bench" => [](ChainsSettled /\ AnsweredDrawsHappened) /\ DrawsInPriorityOrder
<1>1. Init => cluster = EmptyCluster /\ BenchInit
  BY DEF Init
<1>2. tool = "bench" /\ [Next]_vars => (tool = "bench")' /\ [BenchNext]_<<cluster, benchVars>>
  BY DEF Next, vars
<1>3. Spec /\ tool = "bench" => BenchSpec
  BY <1>1, <1>2, PTL DEF Spec, BenchSpec
<1> QED BY <1>3, BenchKeepsChainsSettled, BenchAnswersTruly, BenchDrawsInOrder, PTL

-----------------------------------------------------------------------------
(* The demo.  Its other folds are over values of a known type X: F applied to *)
(* the position and the value before.                                        *)
Folding(G, X, base, F, n) ==
    /\ G \in [SUBSET (1 .. n) -> X]
    /\ \A S \in SUBSET (1 .. n) :
          G[S] = IF S = {} THEN base ELSE F[<<Max(S), G[S \ {Max(S)}]>>]

LEMMA FoldingMore ==
    ASSUME NEW X, NEW base \in X, NEW N \in Nat, NEW F \in [(1 .. N) \X X -> X],
           NEW n \in Nat, n + 1 <= N, NEW G, Folding(G, X, base, F, n)
    PROVE  \E H : Folding(H, X, base, F, n + 1)
<1> DEFINE m == n + 1
           H == [S \in SUBSET (1 .. m) |-> IF m \in S THEN F[<<m, G[S \ {m}]>>] ELSE G[S]]
<1>0. m \in Nat /\ m \in 1 .. N
  OBVIOUS
<1>1. ASSUME NEW S \in SUBSET (1 .. m)
      PROVE  /\ H[S] \in X
             /\ H[S] = IF S = {} THEN base ELSE F[<<Max(S), H[S \ {Max(S)}]>>]
  <2>1. CASE m \in S
    <3>1. Max(S) \in S /\ Max(S) >= m
      <4> HIDE DEF m, H
      <4> QED BY <1>0, <2>1, GreatestOf
    <3>2. Max(S) = m
      <4>1. Max(S) \in 1 .. m
        BY <3>1
      <4> HIDE DEF m, H
      <4> QED BY <1>0, <3>1, <4>1
    <3>3. /\ S \ {m} \in SUBSET (1 .. m) /\ m \notin S \ {m} /\ S # {}
          /\ S \ {m} \in SUBSET (1 .. n)
      BY <2>1
    <3>4. H[S \ {m}] = G[S \ {m}] /\ G[S \ {m}] \in X
      BY <3>3 DEF Folding
    <3>5. H[S] = F[<<m, G[S \ {m}]>>]
      BY <2>1
    <3> HIDE DEF H, m
    <3>6. H[S] \in X
      BY <1>0, <3>4, <3>5
    <3> QED BY <3>2, <3>3, <3>4, <3>5, <3>6
  <2>2. CASE m \notin S /\ S # {}
    <3>1. S \in SUBSET (1 .. n)
      BY <2>2
    <3>2. Max(S) \in S
      <4> HIDE DEF m, H
      <4> QED BY <1>0, <2>2, GreatestOf
    <3>3. S \ {Max(S)} \in SUBSET (1 .. m) /\ m \notin S \ {Max(S)}
      BY <2>2
    <3>4. H[S \ {Max(S)}] = G[S \ {Max(S)}] /\ H[S] = G[S]
      BY <2>2, <3>3
    <3>5. G[S] = F[<<Max(S), G[S \ {Max(S)}]>>] /\ G[S] \in X
      BY <2>2, <3>1 DEF Folding
    <3> HIDE DEF H, m
    <3> QED BY <2>2, <3>4, <3>5
  <2>3. CASE S = {}
    <3>1. H[{}] = G[{}] /\ G[{}] = base
      BY DEF Folding
    <3> HIDE DEF H
    <3> QED BY <2>3, <3>1
  <2> QED BY <2>1, <2>2, <2>3
<1>2. H = [S \in SUBSET (1 .. m) |-> H[S]]
  OBVIOUS
<1>3. H \in [SUBSET (1 .. m) -> X]
  <2> HIDE DEF H
  <2> QED BY <1>1, <1>2
<1>4. Folding(H, X, base, F, m)
  <2> HIDE DEF H
  <2> QED BY <1>1, <1>3 DEF Folding
<1> QED BY <1>4

LEMMA FoldingExists ==
    ASSUME NEW X, NEW base \in X, NEW N \in Nat, NEW F \in [(1 .. N) \X X -> X]
    PROVE  \E G : Folding(G, X, base, F, N)
<1> DEFINE W == {n \in Nat : \E G : Folding(G, X, base, F, n)}
<1>1. 0 \in W
  <2> DEFINE G == [S \in SUBSET (1 .. 0) |-> base]
  <2>1. \A S \in SUBSET (1 .. 0) : S = {}
    OBVIOUS
  <2>2. Folding(G, X, base, F, 0)
    BY <2>1 DEF Folding
  <2> QED BY <2>2
<1>2. ASSUME NEW n \in 0 .. N - 1, n \in W PROVE n + 1 \in W
  <2>1. n \in Nat /\ n + 1 <= N /\ n + 1 \in Nat
    OBVIOUS
  <2>2. PICK G : Folding(G, X, base, F, n)
    BY <1>2
  <2>3. \E H : Folding(H, X, base, F, n + 1)
    BY <2>1, <2>2, FoldingMore
  <2> QED BY <2>1, <2>3
<1> HIDE DEF W
<1>3. \A n \in 0 .. N : n \in W
  BY <1>1, <1>2, Climb
<1>4. N \in W
  BY <1>3
<1> QED BY <1>4 DEF W

(* The last of the first n positions. *)
LEMMA LastOf ==
    ASSUME NEW N \in Nat, NEW n \in 1 .. N
    PROVE  /\ 1 .. n \in SUBSET (1 .. N) /\ 1 .. n # {}
           /\ Max(1 .. n) = n /\ (1 .. n) \ {n} = 1 .. (n - 1)
<1>1. n \in Nat /\ n <= N /\ n >= 1 /\ n \in 1 .. n
  OBVIOUS
<1>2. 1 .. n \in SUBSET (1 .. N) /\ 1 .. n # {} /\ (1 .. n) \ {n} = 1 .. (n - 1)
  BY <1>1
<1>3. Max(1 .. n) \in 1 .. n /\ Max(1 .. n) >= n
  <2>1. \A S : S \subseteq 1 .. n /\ S # {} => Max(S) \in S /\ \A y \in S : Max(S) >= y
    BY <1>1, GreatestOf
  <2> QED BY <1>1, <1>2, <2>1
<1>4. Max(1 .. n) = n
  BY <1>1, <1>3
<1> QED BY <1>2, <1>4

Draws == [debit : 14 .. 16, credit : {13}, amount : Nat, flags : {{}}, pending_id : {0}]

IsSum(ds, p) ==
    /\ ds \in [0 .. Len(p) -> Nat] /\ ds[0] = 0
    /\ \A n \in 1 .. Len(p) : ds[n] = ds[n - 1] + p[n].amount

LEMMA DrawnRun ==
    ASSUME NEW p \in Seq(Draws)
    PROVE  \E ds : IsSum(ds, p) /\ Drawn(p) = ds[Len(p)]
<1> DEFINE N == Len(p)
           F == [w \in (1 .. N) \X Nat |-> w[2] + p[w[1]].amount]
           Adding(G) == G = [S \in SUBSET (1 .. N) |->
                               IF S = {} THEN 0 ELSE G[S \ {Max(S)}] + p[Max(S)].amount]
<1>1. N \in Nat /\ DOMAIN p = 1 .. N /\ 0 \in Nat /\ \A n \in 1 .. N : p[n].amount \in Nat
  <2>1. \A t \in Draws : t.amount \in Nat
    BY DEF Draws
  <2>2. N \in Nat /\ DOMAIN p = 1 .. N /\ \A n \in 1 .. N : p[n] \in Draws
    OBVIOUS
  <2> QED BY <2>1, <2>2
<1>2. F \in [(1 .. N) \X Nat -> Nat]
  BY <1>1
<1>3. Drawn(p) = (CHOOSE G : Adding(G))[1 .. N]
  BY <1>1 DEF Drawn, FoldLeft, MapThenFoldSet
<1> HIDE DEF N
<1>4. \A S \in SUBSET (1 .. N) : S # {} => Max(S) \in 1 .. N
  BY <1>1, GreatestOf
<1>5. \A n \in 1 .. N : \A x \in Nat : F[<<n, x>>] = x + p[n].amount
  OBVIOUS
<1> HIDE DEF F
<1>6. ASSUME NEW G, Folding(G, Nat, 0, F, N) PROVE Adding(G)
  <2>1. \A S \in SUBSET (1 .. N) :
           G[S] = IF S = {} THEN 0 ELSE G[S \ {Max(S)}] + p[Max(S)].amount
    <3>1. \A S \in SUBSET (1 .. N) : S \ {Max(S)} \in SUBSET (1 .. N) /\ G[S \ {Max(S)}] \in Nat
      BY <1>6 DEF Folding
    <3> QED BY <1>4, <1>5, <1>6, <3>1 DEF Folding
  <2>2. G = [S \in SUBSET (1 .. N) |-> G[S]]
    BY <1>6 DEF Folding
  <2> QED BY <2>1, <2>2
<1>7. \E G : Adding(G)
  BY <1>1, <1>2, <1>6, FoldingExists
<1> DEFINE H == CHOOSE G : Adding(G)
           ds == [n \in 0 .. N |-> H[1 .. n]]
<1>8. Adding(H)
  BY <1>7
<1> HIDE DEF H
<1>9. H[{}] = 0 /\ \A n \in 1 .. N : H[1 .. n] = H[1 .. (n - 1)] + p[n].amount
  <2>1. {} \in SUBSET (1 .. N)
    OBVIOUS
  <2>2. ASSUME NEW n \in 1 .. N PROVE H[1 .. n] = H[1 .. (n - 1)] + p[n].amount
    <3>1. /\ 1 .. n \in SUBSET (1 .. N) /\ 1 .. n # {}
          /\ Max(1 .. n) = n /\ (1 .. n) \ {n} = 1 .. (n - 1)
      BY <1>1, LastOf
    <3> QED BY <1>8, <3>1
  <2> QED BY <1>8, <2>1, <2>2
<1>10. 1 .. 0 = {}
  OBVIOUS
<1>11. \A n \in 0 .. N : n \in {m \in 0 .. N : H[1 .. m] \in Nat}
  <2> DEFINE T == {m \in 0 .. N : H[1 .. m] \in Nat}
  <2>1. 0 \in T
    BY <1>1, <1>9, <1>10
  <2>2. ASSUME NEW m \in 0 .. N - 1, m \in T PROVE m + 1 \in T
    <3>1. m + 1 \in 1 .. N /\ (m + 1) - 1 = m
      BY <1>1
    <3>2. H[1 .. (m + 1)] = H[1 .. m] + p[m + 1].amount
      BY <1>9, <3>1
    <3> QED BY <1>1, <2>2, <3>1, <3>2
  <2> HIDE DEF T
  <2>3. \A n \in 0 .. N : n \in T
    BY <1>1, <2>1, <2>2, Climb
  <2> QED BY <2>3 DEF T
<1>12. IsSum(ds, p)
  <2>1. ds[0] = 0
    BY <1>1, <1>9, <1>10
  <2>2. \A n \in 1 .. N : ds[n] = ds[n - 1] + p[n].amount
    <3>1. \A n \in 1 .. N : n \in 0 .. N /\ n - 1 \in 0 .. N
      BY <1>1
    <3> QED BY <1>9, <3>1
  <2>3. ds \in [0 .. N -> Nat]
    BY <1>11
  <2> QED BY <2>1, <2>2, <2>3 DEF IsSum, N
<1>13. Drawn(p) = ds[Len(p)]
  <2>1. N \in 0 .. N
    BY <1>1
  <2> QED BY <1>3, <2>1 DEF N, H
<1> QED BY <1>12, <1>13

LEMMA SumsAgree ==
    ASSUME NEW p \in Seq(Draws), NEW q \in Seq(Draws), Len(p) <= Len(q),
           \A n \in 1 .. Len(p) : q[n].amount = p[n].amount,
           NEW ds, IsSum(ds, p), NEW es, IsSum(es, q)
    PROVE  \A n \in 0 .. Len(p) : es[n] = ds[n]
<1> DEFINE N == Len(p)
           T == {n \in 0 .. N : es[n] = ds[n]}
<1>1. N \in Nat /\ Len(q) \in Nat
  OBVIOUS
<1>2. 0 \in T
  BY <1>1 DEF IsSum
<1>3. ASSUME NEW m \in 0 .. N - 1, m \in T PROVE m + 1 \in T
  <2>1. m + 1 \in 1 .. N /\ (m + 1) - 1 = m /\ m + 1 \in 1 .. Len(q)
    BY <1>1
  <2>2. ds[m + 1] = ds[m] + p[m + 1].amount /\ es[m + 1] = es[m] + q[m + 1].amount
    BY <2>1 DEF IsSum
  <2> QED BY <1>3, <2>1, <2>2
<1> HIDE DEF T
<1>4. \A n \in 0 .. N : n \in T
  BY <1>1, <1>2, <1>3, Climb
<1> QED BY <1>4 DEF T

LEMMA DrawnAppend ==
    ASSUME NEW p \in Seq(Draws), NEW t \in Draws
    PROVE  /\ Drawn(<< >>) = 0
           /\ Drawn(p) \in Nat /\ Drawn(Append(p, t)) = Drawn(p) + t.amount
<1>1. Drawn(<< >>) = 0
  <2>1. << >> \in Seq(Draws) /\ Len(<< >>) = 0
    OBVIOUS
  <2>2. PICK ds : IsSum(ds, << >>) /\ Drawn(<< >>) = ds[Len(<< >>)]
    BY <2>1, DrawnRun
  <2> QED BY <2>1, <2>2 DEF IsSum
<1>2. PICK q \in Seq(Draws) : q = Append(p, t)
  BY AppendProperties
<1>3. PICK N \in Nat : N = Len(p) /\ Len(q) = N + 1 /\ q[N + 1] = t
                       /\ \A n \in 1 .. N : q[n] = p[n]
  BY <1>2, AppendProperties, LenProperties
<1>4. PICK ds : IsSum(ds, p) /\ Drawn(p) = ds[N]
  BY <1>3, DrawnRun
<1>5. PICK es : IsSum(es, q) /\ Drawn(q) = es[N + 1]
  BY <1>3, DrawnRun
<1>6. es[N] = ds[N]
  <2>1. Len(p) <= Len(q) /\ \A n \in 1 .. Len(p) : q[n].amount = p[n].amount
    BY ONLY <1>3
  <2>2. \A n \in 0 .. Len(p) : es[n] = ds[n]
    BY <1>4, <1>5, <2>1, SumsAgree
  <2> QED BY <1>3, <2>2
<1>7. es[N + 1] = es[N] + t.amount
  <2>1. N + 1 \in 1 .. Len(q) /\ (N + 1) - 1 = N
    BY <1>3
  <2> QED BY <1>3, <1>5, <2>1 DEF IsSum
<1>8. ds[N] \in Nat
  BY <1>3, <1>4 DEF IsSum
<1> QED BY <1>1, <1>2, <1>4, <1>5, <1>6, <1>7, <1>8

(* The plan of a waterfall. *)
Planned(A, target, plan, src) ==
    IF target = Drawn(plan) \/ available(A[src]) = 0 THEN plan
    ELSE Append(plan, Transfer(src, 13, Draw(A, src, Sub(target, Drawn(plan))), {}))

Linked(plan) ==
    [i \in DOMAIN plan |->
       IF i < Len(plan) THEN [plan[i] EXCEPT !.flags = {"linked"}] ELSE plan[i]]

LEMMA Sources3 ==
    /\ DOMAIN srcs = 1 .. 3 /\ srcs[1] = 14 /\ srcs[2] = 15 /\ srcs[3] = 16
    /\ \A n \in 1 .. 3 : srcs[n] = 13 + n /\ 13 + n \in 14 .. 16
BY DEF srcs

Availables(A) == \A s \in 14 .. 16 : available(A[s]) \in Nat

LEMMA PlannedType ==
    ASSUME NEW A, Availables(A), NEW target \in Nat, NEW plan \in Seq(Draws), NEW s \in 14 .. 16
    PROVE  /\ Drawn(plan) \in Nat
           /\ Draw(A, s, Sub(target, Drawn(plan))) \in Nat
           /\ Transfer(s, 13, Draw(A, s, Sub(target, Drawn(plan))), {}) \in Draws
           /\ Planned(A, target, plan, s) \in Seq(Draws)
<1>1. Drawn(plan) \in Nat
  BY DrawnRun, LenProperties DEF IsSum
<1>2. PICK d \in Nat, u \in Nat : d = Drawn(plan) /\ u = available(A[s])
  BY <1>1 DEF Availables
<1>3. Draw(A, s, Sub(target, d)) \in Nat
  BY <1>2 DEF Draw, Least, Sub
<1>4. \A x \in Nat : Transfer(s, 13, x, {}) \in Draws
  BY DEF Transfer, Draws
<1>5. Planned(A, target, plan, s) \in Seq(Draws)
  BY <1>2, <1>3, <1>4, AppendProperties DEF Planned
<1> QED BY <1>1, <1>2, <1>3, <1>4, <1>5

IsPlan(ps, A, target) ==
    /\ ps \in [0 .. 3 -> Seq(Draws)] /\ ps[0] = << >>
    /\ \A n \in 1 .. 3 : ps[n] = Planned(A, target, ps[n - 1], 13 + n)

LEMMA PlanRun ==
    ASSUME NEW A, Availables(A), NEW target \in Nat
    PROVE  \E ps : /\ IsPlan(ps, A, target)
                   /\ buildWaterfallTransfers(A, srcs, 13, target) = Linked(ps[3])
<1> DEFINE X == Seq(Draws)
           F == [w \in (1 .. 3) \X X |-> Planned(A, target, w[2], 13 + w[1])]
           Planning(G) == G = [S \in SUBSET (DOMAIN srcs) |->
                                 IF S = {} THEN << >>
                                 ELSE Planned(A, target, G[S \ {Max(S)}], srcs[Max(S)])]
           H == CHOOSE G : Planning(G)
<1>1. << >> \in X
  OBVIOUS
<1>2. F \in [(1 .. 3) \X X -> X]
  <2>1. \A n \in 1 .. 3 : \A p \in X : Planned(A, target, p, 13 + n) \in X
    BY Sources3, PlannedType
  <2> HIDE DEF X
  <2> QED BY <2>1
<1>3. buildWaterfallTransfers(A, srcs, 13, target) = Linked(H[DOMAIN srcs])
  BY DEF buildWaterfallTransfers, Linked, FoldLeft, MapThenFoldSet, Planned
<1> HIDE DEF X
<1>4. \A n \in 1 .. 3 : \A p \in X : F[<<n, p>>] = Planned(A, target, p, 13 + n)
  OBVIOUS
<1> HIDE DEF F
<1>5. \A S \in SUBSET (1 .. 3) : S # {} => Max(S) \in 1 .. 3
  BY GreatestOf
<1>6. ASSUME NEW G, Folding(G, X, << >>, F, 3) PROVE Planning(G)
  <2>1. \A S \in SUBSET (1 .. 3) :
           G[S] = IF S = {} THEN << >> ELSE Planned(A, target, G[S \ {Max(S)}], srcs[Max(S)])
    <3>1. ASSUME NEW S \in SUBSET (1 .. 3), S # {}
          PROVE  G[S] = Planned(A, target, G[S \ {Max(S)}], srcs[Max(S)])
      <4>1. PICK m \in 1 .. 3 : m = Max(S)
        BY <1>5, <3>1
      <4>2. PICK p \in X : p = G[S \ {m}]
        <5>1. S \ {m} \in SUBSET (1 .. 3)
          OBVIOUS
        <5> QED BY <1>6, <5>1 DEF Folding
      <4>3. G[S] = F[<<m, p>>]
        BY <1>6, <3>1, <4>1, <4>2 DEF Folding
      <4>4. F[<<m, p>>] = Planned(A, target, p, 13 + m) /\ srcs[m] = 13 + m
        BY <1>4, Sources3
      <4> QED BY ONLY <4>1, <4>2, <4>3, <4>4
    <3>2. G[{}] = << >>
      <4>1. {} \in SUBSET (1 .. 3)
        OBVIOUS
      <4> QED BY <1>6, <4>1 DEF Folding
    <3> QED BY ONLY <3>1, <3>2
  <2>2. G = [S \in SUBSET (1 .. 3) |-> G[S]]
    BY <1>6 DEF Folding
  <2> QED BY <2>1, <2>2, Sources3
<1>7. \E G : Planning(G)
  BY <1>1, <1>2, <1>6, FoldingExists
<1>8. Planning(H)
  BY <1>7
<1> HIDE DEF H
<1>9. H[{}] = << >> /\ \A n \in 1 .. 3 : H[1 .. n] = Planned(A, target, H[1 .. (n - 1)], 13 + n)
  <2>1. {} \in SUBSET (1 .. 3) /\ DOMAIN srcs = 1 .. 3
    BY Sources3
  <2>2. ASSUME NEW n \in 1 .. 3 PROVE H[1 .. n] = Planned(A, target, H[1 .. (n - 1)], 13 + n)
    <3>1. /\ 1 .. n \in SUBSET (1 .. 3) /\ 1 .. n # {}
          /\ Max(1 .. n) = n /\ (1 .. n) \ {n} = 1 .. (n - 1)
      BY LastOf
    <3>2. srcs[n] = 13 + n
      BY Sources3
    <3> QED BY <1>8, <2>1, <3>1, <3>2
  <2> QED BY <1>8, <2>1, <2>2
<1> DEFINE ps == [n \in 0 .. 3 |-> H[1 .. n]]
<1>10. ps[0] = << >> /\ \A n \in 1 .. 3 : ps[n] = Planned(A, target, ps[n - 1], 13 + n)
  <2>1. 1 .. 0 = {} /\ 0 \in 0 .. 3 /\ \A n \in 1 .. 3 : n \in 0 .. 3 /\ n - 1 \in 0 .. 3
    OBVIOUS
  <2> QED BY <1>9, <2>1
<1>11. ps = [n \in 0 .. 3 |-> ps[n]] /\ ps[3] = H[1 .. 3]
  OBVIOUS
<1> HIDE DEF ps
<1>12. ps \in [0 .. 3 -> X]
  <2>1. \A n \in 1 .. 3 : ps[n - 1] \in X => ps[n] \in X
    <3>1. \A n \in 1 .. 3 : \A q \in X : Planned(A, target, q, 13 + n) \in X
      BY Sources3, PlannedType DEF X
    <3> QED BY <1>10, <3>1
  <2>2. ps[0] \in X
    BY <1>1, <1>10
  <2>3. ps[1] \in X
    <3>1. 1 \in 1 .. 3 /\ 1 - 1 = 0
      OBVIOUS
    <3> QED BY <2>1, <2>2, <3>1
  <2>4. ps[2] \in X
    <3>1. 2 \in 1 .. 3 /\ 2 - 1 = 1
      OBVIOUS
    <3> QED BY <2>1, <2>3, <3>1
  <2>5. ps[3] \in X
    <3>1. 3 \in 1 .. 3 /\ 3 - 1 = 2
      OBVIOUS
    <3> QED BY <2>1, <2>4, <3>1
  <2>6. \A n \in 0 .. 3 : n = 0 \/ n = 1 \/ n = 2 \/ n = 3
    OBVIOUS
  <2>7. \A n \in 0 .. 3 : ps[n] \in X
    BY <2>2, <2>3, <2>4, <2>5, <2>6
  <2> QED BY <1>11, <2>7
<1> QED BY <1>3, <1>10, <1>11, <1>12, Sources3 DEF IsPlan, X

(* The transfers of a plan: x[s] from the s-th source, where it is not 0.     *)
Shape(p, n, x) ==
    /\ \A i \in 1 .. Len(p) : \E s \in 1 .. n : p[i] = Transfer(13 + s, 13, x[s], {})
    /\ \A i, j \in 1 .. Len(p) : i # j => p[i].debit # p[j].debit
    /\ \A s \in 1 .. n : x[s] > 0 => \E i \in 1 .. Len(p) : p[i].debit = 13 + s

LEMMA OneDraw ==
    ASSUME NEW s \in 14 .. 16, NEW x \in Nat
    PROVE  /\ Transfer(s, 13, x, {}) \in Draws
           /\ Transfer(s, 13, x, {}).debit = s /\ Transfer(s, 13, x, {}).amount = x
BY DEF Transfer, Draws

(* The plan goes from p to q: the n-th source gives y. *)
PlanNext(A, target, p, n, q, y) ==
    /\ p \in Seq(Draws) /\ n \in 1 .. 3 /\ Drawn(p) <= target
    /\ q = Planned(A, target, p, 13 + n) /\ y = Least(available(A[13 + n]), target - Drawn(p))

PlanGrown(target, p, n, q, y) ==
    /\ y \in Nat /\ q \in Seq(Draws) /\ Drawn(q) = Drawn(p) + y /\ Drawn(q) <= target
    /\ IF y = 0 THEN q = p ELSE q = Append(p, Transfer(13 + n, 13, y, {}))

LEMMA PlanStep ==
    ASSUME NEW A, Availables(A), NEW target \in Nat, NEW p, NEW n, NEW q, NEW y,
           PlanNext(A, target, p, n, q, y)
    PROVE  PlanGrown(target, p, n, q, y)
<1>0. /\ p \in Seq(Draws) /\ n \in 1 .. 3 /\ Drawn(p) <= target
      /\ q = Planned(A, target, p, 13 + n) /\ y = Least(available(A[13 + n]), target - Drawn(p))
  BY DEF PlanNext
<1>1. 13 + n \in 14 .. 16
  BY <1>0
<1>2. PICK s \in 14 .. 16 : s = 13 + n
  BY <1>1
<1>3. PICK e \in Nat, u \in Nat : e = Drawn(p) /\ u = available(A[s])
  BY <1>0, <1>2, PlannedType DEF Availables
<1>4. y \in Nat /\ y <= target - e /\ y <= u
      /\ (y = 0 <=> target = e \/ u = 0)
  BY <1>0, <1>2, <1>3 DEF Least
<1>5. CASE y = 0
  <2>1. q = p
    <3>1. target = Drawn(p) \/ available(A[s]) = 0
      BY ONLY <1>3, <1>4, <1>5
    <3>2. q = Planned(A, target, p, s)
      BY <1>0, <1>2
    <3> QED BY ONLY <3>1, <3>2 DEF Planned
  <2>2. Drawn(q) = Drawn(p) + y /\ Drawn(q) <= target /\ q \in Seq(Draws) /\ y \in Nat
    BY ONLY <1>0, <1>3, <1>5, <2>1
  <2> QED BY ONLY <1>5, <2>1, <2>2 DEF PlanGrown
<1>6. CASE y # 0
  <2>1. Draw(A, s, Sub(target, e)) = y
    <3>1. target # e /\ u # 0 /\ e <= target
      BY ONLY <1>0, <1>3, <1>4, <1>6
    <3>2. Sub(target, e) = target - e
      BY ONLY <1>3, <3>1, target \in Nat DEF Sub
    <3> QED BY ONLY <1>0, <1>2, <1>3, <3>2 DEF Draw
  <2>2. q = Append(p, Transfer(s, 13, y, {}))
    <3>1. ~(target = Drawn(p) \/ available(A[s]) = 0)
      BY ONLY <1>3, <1>4, <1>6
    <3>2. q = Planned(A, target, p, s)
      BY <1>0, <1>2
    <3>3. Draw(A, s, Sub(target, Drawn(p))) = y
      BY ONLY <1>3, <2>1
    <3> QED BY ONLY <3>1, <3>2, <3>3 DEF Planned
  <2>3. PICK t \in Draws : t = Transfer(s, 13, y, {}) /\ t.amount = y
    BY <1>4, OneDraw
  <2>4. Drawn(q) = e + y /\ q \in Seq(Draws)
    <3>1. Drawn(Append(p, t)) = Drawn(p) + t.amount
      BY ONLY <1>0, t \in Draws, DrawnAppend
    <3>2. Append(p, t) \in Seq(Draws)
      BY ONLY <1>0, t \in Draws, AppendProperties
    <3> QED BY ONLY <1>3, <2>2, <2>3, <3>1, <3>2
  <2>5. e + y <= target
    BY <1>0, <1>3, <1>4
  <2>6. Drawn(q) = Drawn(p) + y /\ Drawn(q) <= target /\ q \in Seq(Draws) /\ y \in Nat
    BY ONLY <1>3, <1>4, <2>4, <2>5
  <2>7. q = Append(p, Transfer(13 + n, 13, y, {}))
    BY ONLY <1>2, <2>2
  <2> QED BY ONLY <1>6, <2>6, <2>7 DEF PlanGrown
<1> QED BY <1>5, <1>6

LEMMA ShapeStep ==
    ASSUME NEW p \in Seq(Draws), NEW n \in 1 .. 3, NEW x, Shape(p, n - 1, x), x[n] \in Nat,
           NEW q, IF x[n] = 0 THEN q = p ELSE q = Append(p, Transfer(13 + n, 13, x[n], {}))
    PROVE  Shape(q, n, x)
<1>0. \A s \in 1 .. n : s \in 1 .. (n - 1) \/ s = n
  OBVIOUS
<1>1. CASE x[n] = 0
  <2>1. \A s \in 1 .. (n - 1) : s \in 1 .. n
    OBVIOUS
  <2>2. q = p
    BY <1>1
  <2>3. \A i \in 1 .. Len(p) : \E s \in 1 .. (n - 1) : p[i] = Transfer(13 + s, 13, x[s], {})
    BY DEF Shape
  <2>4. \A i \in 1 .. Len(p) : \E s \in 1 .. n : p[i] = Transfer(13 + s, 13, x[s], {})
    BY ONLY <2>1, <2>3
  <2>5. \A i, j \in 1 .. Len(p) : i # j => p[i].debit # p[j].debit
    BY DEF Shape
  <2>6. \A s \in 1 .. (n - 1) : x[s] > 0 => \E i \in 1 .. Len(p) : p[i].debit = 13 + s
    BY DEF Shape
  <2>7. \A s \in 1 .. n : x[s] > 0 => \E i \in 1 .. Len(p) : p[i].debit = 13 + s
    BY ONLY <1>0, <1>1, <2>6
  <2> QED BY ONLY <2>2, <2>4, <2>5, <2>7 DEF Shape
<1>2. CASE x[n] # 0
  <2> DEFINE L == Len(p)
  <2>1. PICK t \in Draws : t = Transfer(13 + n, 13, x[n], {}) /\ t.debit = 13 + n
    <3>1. 13 + n \in 14 .. 16
      OBVIOUS
    <3> QED BY <3>1, OneDraw
  <2>2. L \in Nat /\ Len(q) = L + 1 /\ q[L + 1] = t /\ \A i \in 1 .. L : q[i] = p[i]
    <3>1. q = Append(p, t)
      BY ONLY <1>2, <2>1, IF x[n] = 0 THEN q = p ELSE q = Append(p, Transfer(13 + n, 13, x[n], {}))
    <3>2. L \in Nat
      BY ONLY p \in Seq(Draws), LenProperties
    <3> QED BY ONLY p \in Seq(Draws), t \in Draws, <3>1, <3>2, AppendProperties
  <2>3. \A i \in 1 .. L + 1 : i \in 1 .. L \/ i = L + 1
    BY <2>2
  <2>4. \A i \in 1 .. L : \E s \in 1 .. (n - 1) : p[i] = Transfer(13 + s, 13, x[s], {})
    BY DEF Shape
  <2>5. \A i \in 1 .. L : p[i].debit # 13 + n
    <3>1. \A s \in 1 .. (n - 1) : Transfer(13 + s, 13, x[s], {}).debit = 13 + s /\ 13 + s # 13 + n
      BY DEF Transfer
    <3> QED BY <2>4, <3>1
  <2>6. \A i, j \in 1 .. L : i # j => p[i].debit # p[j].debit
    BY DEF Shape
  <2>7. \A s \in 1 .. (n - 1) : x[s] > 0 => \E i \in 1 .. L : p[i].debit = 13 + s
    BY DEF Shape
  <2> HIDE DEF L
  <2>8. \A i \in 1 .. L + 1 : \E s \in 1 .. n : q[i] = Transfer(13 + s, 13, x[s], {})
    <3>1. \A s \in 1 .. (n - 1) : s \in 1 .. n
      OBVIOUS
    <3>2. n \in 1 .. n
      OBVIOUS
    <3> QED BY <2>1, <2>2, <2>3, <2>4, <3>1, <3>2
  <2>9. \A i, j \in 1 .. L + 1 : i # j => q[i].debit # q[j].debit
    BY <2>1, <2>2, <2>3, <2>5, <2>6
  <2>10. \A s \in 1 .. n : x[s] > 0 => \E i \in 1 .. L + 1 : q[i].debit = 13 + s
    <3>1. L + 1 \in 1 .. L + 1 /\ \A i \in 1 .. L : i \in 1 .. L + 1
      BY <2>2
    <3>2. q[L + 1].debit = 13 + n
      BY ONLY <2>1, <2>2
    <3> QED BY ONLY <1>0, <2>2, <2>7, <3>1, <3>2
  <2> QED BY ONLY <2>2, <2>8, <2>9, <2>10 DEF Shape
<1> QED BY <1>1, <1>2

(* What is drawn from three sources that hold u1, u2 and u3.                  *)
PlanOf(A, target, p, x) ==
    /\ p \in Seq(Draws) /\ x \in [1 .. 3 -> Nat] /\ Shape(p, 3, x)
    /\ Drawn(p) = x[1] + x[2] + x[3]
    /\ x[1] = Least(available(A[14]), target)
    /\ x[2] = Least(available(A[15]), target - x[1])
    /\ x[3] = Least(available(A[16]), target - (x[1] + x[2]))
    /\ buildWaterfallTransfers(A, srcs, 13, target) = Linked(p)

LEMMA PlanExists ==
    ASSUME NEW A, Availables(A), NEW target \in Nat
    PROVE  \E p, x : PlanOf(A, target, p, x)
<1>1. PICK ps : IsPlan(ps, A, target) /\ buildWaterfallTransfers(A, srcs, 13, target) = Linked(ps[3])
  BY PlanRun
<1>2. PICK p0, p1, p2, p3 : p0 = ps[0] /\ p1 = ps[1] /\ p2 = ps[2] /\ p3 = ps[3]
  OBVIOUS
<1>3. /\ p0 = << >> /\ p0 \in Seq(Draws)
      /\ p1 = Planned(A, target, p0, 13 + 1) /\ p2 = Planned(A, target, p1, 13 + 2)
      /\ p3 = Planned(A, target, p2, 13 + 3)
  <2>1. /\ 1 \in 1 .. 3 /\ 2 \in 1 .. 3 /\ 3 \in 1 .. 3
        /\ 1 - 1 = 0 /\ 2 - 1 = 1 /\ 3 - 1 = 2
    OBVIOUS
  <2> QED BY <1>1, <1>2, <2>1 DEF IsPlan
<1>4. Drawn(p0) = 0
  <2>1. PICK t \in Draws : t = Transfer(14, 13, 0, {})
    BY OneDraw
  <2> QED BY ONLY <1>3, <2>1, DrawnAppend
<1>5. PICK y1, y2, y3 :
         /\ y1 = Least(available(A[13 + 1]), target - Drawn(p0))
         /\ y2 = Least(available(A[13 + 2]), target - Drawn(p1))
         /\ y3 = Least(available(A[13 + 3]), target - Drawn(p2))
  OBVIOUS
<1>6. PlanGrown(target, p0, 1, p1, y1)
  <2>1. PlanNext(A, target, p0, 1, p1, y1)
    BY <1>3, <1>4, <1>5 DEF PlanNext
  <2> QED BY <2>1, PlanStep
<1>7. PlanGrown(target, p1, 2, p2, y2)
  <2>1. PlanNext(A, target, p1, 2, p2, y2)
    BY <1>3, <1>5, <1>6 DEF PlanNext, PlanGrown
  <2> QED BY <2>1, PlanStep
<1>8. PlanGrown(target, p2, 3, p3, y3)
  <2>1. PlanNext(A, target, p2, 3, p3, y3)
    BY <1>3, <1>5, <1>7 DEF PlanNext, PlanGrown
  <2> QED BY <2>1, PlanStep
<1>9. PICK x \in [1 .. 3 -> Nat] : x[1] = y1 /\ x[2] = y2 /\ x[3] = y3
  <2> DEFINE z == [s \in 1 .. 3 |-> IF s = 1 THEN y1 ELSE IF s = 2 THEN y2 ELSE y3]
  <2>1. z \in [1 .. 3 -> Nat] /\ z[1] = y1 /\ z[2] = y2 /\ z[3] = y3
    BY <1>6, <1>7, <1>8 DEF PlanGrown
  <2> QED BY <2>1
<1>10. Shape(p0, 1 - 1, x)
  <2>1. Len(p0) = 0 /\ 1 .. (1 - 1) = {} /\ 1 .. 0 = {}
    BY <1>3
  <2> QED BY ONLY <2>1 DEF Shape
<1>11. Shape(p1, 1, x)
  <2>1. 1 \in 1 .. 3 /\ x[1] \in Nat
    OBVIOUS
  <2>2. IF x[1] = 0 THEN p1 = p0 ELSE p1 = Append(p0, Transfer(13 + 1, 13, x[1], {}))
    BY ONLY <1>6, <1>9 DEF PlanGrown
  <2> QED BY ONLY <1>3, <1>10, <2>1, <2>2, ShapeStep
<1>12. Shape(p2, 2, x)
  <2>1. 2 \in 1 .. 3 /\ x[2] \in Nat /\ 2 - 1 = 1
    OBVIOUS
  <2>2. IF x[2] = 0 THEN p2 = p1 ELSE p2 = Append(p1, Transfer(13 + 2, 13, x[2], {}))
    BY ONLY <1>7, <1>9 DEF PlanGrown
  <2>3. p1 \in Seq(Draws) /\ Shape(p1, 2 - 1, x)
    BY <1>6, <1>11, <2>1 DEF PlanGrown
  <2> QED BY ONLY <2>1, <2>2, <2>3, ShapeStep
<1>13. Shape(p3, 3, x)
  <2>1. 3 \in 1 .. 3 /\ x[3] \in Nat /\ 3 - 1 = 2
    OBVIOUS
  <2>2. IF x[3] = 0 THEN p3 = p2 ELSE p3 = Append(p2, Transfer(13 + 3, 13, x[3], {}))
    BY ONLY <1>8, <1>9 DEF PlanGrown
  <2>3. p2 \in Seq(Draws) /\ Shape(p2, 3 - 1, x)
    BY <1>7, <1>12, <2>1 DEF PlanGrown
  <2> QED BY ONLY <2>1, <2>2, <2>3, ShapeStep
<1>14. Drawn(p1) = y1 /\ Drawn(p2) = y1 + y2 /\ Drawn(p3) = y1 + y2 + y3
  BY ONLY <1>4, <1>6, <1>7, <1>8 DEF PlanGrown
<1>15. /\ y1 = Least(available(A[14]), target)
       /\ y2 = Least(available(A[15]), target - y1)
       /\ y3 = Least(available(A[16]), target - (y1 + y2))
  <2>1. 13 + 1 = 14 /\ 13 + 2 = 15 /\ 13 + 3 = 16 /\ target - 0 = target
    OBVIOUS
  <2> QED BY ONLY <1>4, <1>5, <1>14, <2>1
<1>16. PlanOf(A, target, p3, x)
  BY <1>1, <1>2, <1>8, <1>9, <1>13, <1>14, <1>15 DEF PlanOf, PlanGrown
<1> QED BY <1>16

(* When the sources hold the target, it is drawn, and in order. *)
LEMMA PlanCovers ==
    ASSUME NEW A, Availables(A), NEW target \in Nat, NEW p, NEW x, PlanOf(A, target, p, x),
           target <= available(A[14]) + available(A[15]) + available(A[16])
    PROVE  /\ Drawn(p) = target
           /\ \A s \in 1 .. 3 : x[s] <= available(A[13 + s])
           /\ \A s \in 1 .. 3 : x[s] > 0 => \A i \in 1 .. s - 1 : x[i] = available(A[13 + i])
<1>1. PICK u1 \in Nat, u2 \in Nat, u3 \in Nat :
         u1 = available(A[14]) /\ u2 = available(A[15]) /\ u3 = available(A[16])
  BY DEF Availables
<1>2. PICK x1 \in Nat, x2 \in Nat, x3 \in Nat : x1 = x[1] /\ x2 = x[2] /\ x3 = x[3]
  BY DEF PlanOf
<1>3. /\ Drawn(p) = x1 + x2 + x3 /\ x1 = Least(u1, target) /\ x2 = Least(u2, target - x1)
      /\ x3 = Least(u3, target - (x1 + x2)) /\ target <= u1 + u2 + u3
  BY <1>1, <1>2 DEF PlanOf
<1>4. /\ x1 + x2 + x3 = target /\ x1 <= u1 /\ x2 <= u2 /\ x3 <= u3
      /\ x2 > 0 => x1 = u1
      /\ x3 > 0 => x1 = u1 /\ x2 = u2
  BY ONLY <1>3, x1 \in Nat, x2 \in Nat, x3 \in Nat, u1 \in Nat, u2 \in Nat, u3 \in Nat,
          target \in Nat DEF Least
<1>5. \A s \in 1 .. 3 : s = 1 \/ s = 2 \/ s = 3
  OBVIOUS
<1>6. 13 + 1 = 14 /\ 13 + 2 = 15 /\ 13 + 3 = 16
  OBVIOUS
<1>7. \A s \in 1 .. 3 : x[s] <= available(A[13 + s])
  BY ONLY <1>1, <1>2, <1>4, <1>5, <1>6
<1>8. \A s \in 1 .. 3 : x[s] > 0 => \A i \in 1 .. s - 1 : x[i] = available(A[13 + i])
  <2>1. \A i \in 1 .. 1 - 1 : FALSE
    OBVIOUS
  <2>2. \A i \in 1 .. 2 - 1 : i = 1
    OBVIOUS
  <2>3. \A i \in 1 .. 3 - 1 : i = 1 \/ i = 2
    OBVIOUS
  <2> QED BY ONLY <1>1, <1>2, <1>4, <1>5, <1>6, <2>1, <2>2, <2>3
<1> QED BY <1>3, <1>4, <1>7, <1>8

(* What a transfer does to the accounts. *)
Row == [debits_posted : Nat, debits_pending : Nat, credits_posted : Nat, credits_pending : Nat]

Books == [Account -> Row]

Whole(k) == k = [accounts |-> k.accounts, pending |-> k.pending] /\ k.accounts \in Books

LEMMA MakeWhole ==
    ASSUME NEW A \in Books, NEW P
    PROVE  /\ Whole([accounts |-> A, pending |-> P])
           /\ [accounts |-> A, pending |-> P].accounts = A
           /\ [accounts |-> A, pending |-> P].pending = P
BY DEF Whole

Transferred(A, B, d, c, x) ==
    /\ B \in Books
    /\ B[d] = [A[d] EXCEPT !.debits_posted = A[d].debits_posted + x]
    /\ B[c] = [A[c] EXCEPT !.credits_posted = A[c].credits_posted + x]
    /\ \A a \in Account \ {d, c} : B[a] = A[a]

LEMMA PostTransfers ==
    ASSUME NEW A \in Books, NEW t, NEW x \in Nat,
           t.debit \in Account, t.credit \in Account, t.debit # t.credit
    PROVE  Transferred(A, Post(A, t, x), t.debit, t.credit, x)
<1> DEFINE B == Post(A, t, x)
           d == t.debit
           c == t.credit
<1>1. /\ DOMAIN B = Account /\ B = [a \in Account |-> B[a]]
      /\ B[d] = [A[d] EXCEPT !.debits_posted = A[d].debits_posted + x]
      /\ B[c] = [A[c] EXCEPT !.credits_posted = A[c].credits_posted + x]
      /\ \A a \in Account \ {d, c} : B[a] = A[a]
  <2> HIDE DEF Row
  <2> QED BY DEF Post, Books
<1> HIDE DEF B
<1>2. A[d] \in Row /\ A[c] \in Row /\ \A a \in Account : A[a] \in Row
  BY DEF Books
<1>3. B[d] \in Row /\ B[c] \in Row
  BY <1>1, <1>2 DEF Row
<1>4. \A a \in Account : B[a] \in Row
  BY <1>1, <1>2, <1>3
<1>5. B \in Books
  BY <1>1, <1>4 DEF Books
<1> QED BY <1>1, <1>5 DEF Transferred, B

Reserved(A, B, d, c, x) ==
    /\ B \in Books
    /\ B[d] = [A[d] EXCEPT !.debits_pending = A[d].debits_pending + x]
    /\ B[c] = [A[c] EXCEPT !.credits_pending = A[c].credits_pending + x]
    /\ \A a \in Account \ {d, c} : B[a] = A[a]

LEMMA ReserveHolds ==
    ASSUME NEW A \in Books, NEW t, NEW x \in Int,
           t.debit \in Account, t.credit \in Account, t.debit # t.credit,
           A[t.debit].debits_pending + x \in Nat, A[t.credit].credits_pending + x \in Nat
    PROVE  Reserved(A, Reserve(A, t, x), t.debit, t.credit, x)
<1> DEFINE B == Reserve(A, t, x)
           d == t.debit
           c == t.credit
<1>1. /\ DOMAIN B = Account /\ B = [a \in Account |-> B[a]]
      /\ B[d] = [A[d] EXCEPT !.debits_pending = A[d].debits_pending + x]
      /\ B[c] = [A[c] EXCEPT !.credits_pending = A[c].credits_pending + x]
      /\ \A a \in Account \ {d, c} : B[a] = A[a]
  <2> HIDE DEF Row
  <2> QED BY DEF Reserve, Books
<1> HIDE DEF B
<1>2. A[d] \in Row /\ A[c] \in Row /\ \A a \in Account : A[a] \in Row
  BY DEF Books
<1>3. B[d] \in Row /\ B[c] \in Row
  BY <1>1, <1>2 DEF Row
<1>4. \A a \in Account : B[a] \in Row
  BY <1>1, <1>2, <1>3
<1>5. B \in Books
  BY <1>1, <1>4 DEF Books
<1> QED BY <1>1, <1>5 DEF Reserved, B

(* Payments that no constraint stops: the batch is executed one after another. *)
Payments ==
    {t \in [debit : Account \ Constrained, credit : Account, amount : Nat,
            flags : {{}, {"linked"}}, pending_id : {0}] : t.debit # t.credit}

LEMMA PaymentStep ==
    ASSUME NEW b, NEW t \in Payments, Whole(b.cluster), b.broken = FALSE, b.failures = 0
    PROVE  LET n == AfterNext(b, t) IN
           /\ n.cluster = [accounts |-> Post(b.cluster.accounts, t, t.amount),
                           pending |-> b.cluster.pending]
           /\ Whole(n.cluster) /\ n.broken = FALSE /\ n.failures = 0
           /\ n.open = IF "linked" \in t.flags THEN b.open + 1 ELSE 0
           /\ n.before = IF "linked" \in t.flags THEN b.before ELSE n.cluster
<1>1. /\ t.debit \in Account /\ t.debit \notin Constrained /\ t.credit \in Account
      /\ t.debit # t.credit /\ t.amount \in Nat /\ (t.flags = {} \/ t.flags = {"linked"})
  BY DEF Payments
<1>2. PICK k : k = b.cluster /\ Whole(k)
  OBVIOUS
<1>3. ~ExceedsCredits(k.accounts, t)
  BY <1>1 DEF ExceedsCredits
<1>4. /\ Amount(k.accounts, t) = t.amount
      /\ "post_pending" \notin t.flags /\ "void_pending" \notin t.flags /\ "pending" \notin t.flags
  <2>1. /\ "balancing_debit" \notin t.flags /\ "balancing_credit" \notin t.flags
        /\ "post_pending" \notin t.flags /\ "void_pending" \notin t.flags
        /\ "pending" \notin t.flags
    BY <1>1
  <2> QED BY ONLY <2>1 DEF Amount
<1>5. PICK B : B = Post(k.accounts, t, t.amount) /\ B \in Books
  <2>1. k.accounts \in Books
    BY <1>2 DEF Whole
  <2> QED BY <1>1, <2>1, PostTransfers DEF Transferred
<1>6. [k EXCEPT !.accounts = Post(@, t, Amount(k.accounts, t))]
      = [accounts |-> B, pending |-> k.pending]
  <2>1. PICK X : X = Post(k.accounts, t, Amount(k.accounts, t))
    OBVIOUS
  <2>2. [k EXCEPT !.accounts = Post(@, t, Amount(k.accounts, t))]
        = [accounts |-> X, pending |-> k.pending]
    BY <1>2, <2>1 DEF Whole
  <2>3. X = B
    BY ONLY <1>4, <1>5, <2>1
  <2> QED BY ONLY <2>2, <2>3
<1>7. Execute(k, t) = [result |-> "ok", cluster |-> [accounts |-> B, pending |-> k.pending]]
  <2>1. PICK X : X = [k EXCEPT !.accounts = Post(@, t, Amount(k.accounts, t))]
    OBVIOUS
  <2>2. Execute(k, t) = [result |-> "ok", cluster |-> X]
    BY ONLY <1>3, <1>4, <2>1 DEF Execute
  <2> QED BY ONLY <1>6, <2>1, <2>2
<1>8. PICK r : r = [accounts |-> B, pending |-> k.pending] /\ Whole(r)
  BY <1>5, MakeWhole
<1>9. AfterNext(b, t) =
         [cluster |-> r, before |-> IF "linked" \in t.flags THEN b.before ELSE r,
          open |-> IF "linked" \in t.flags THEN b.open + 1 ELSE 0,
          broken |-> FALSE, failures |-> 0]
  <2> DEFINE fails == b.broken \/ Execute(b.cluster, t).result # "ok"
             linked == "linked" \in t.flags
             e == Execute(b.cluster, t)
  <2>1. AfterNext(b, t) =
           [cluster |-> IF fails THEN b.before ELSE e.cluster,
            before |-> IF linked THEN b.before ELSE IF fails THEN b.before ELSE e.cluster,
            open |-> IF linked THEN b.open + 1 ELSE 0,
            broken |-> linked /\ fails,
            failures |-> b.failures + (IF b.broken THEN 1 ELSE IF fails THEN b.open + 1 ELSE 0)]
    BY DEF AfterNext
  <2>2. e.result = "ok" /\ e.cluster = r
    BY ONLY <1>2, <1>7, <1>8
  <2>3. ~fails /\ (linked /\ fails) = FALSE
    BY <2>2
  <2>4. b.failures + (IF b.broken THEN 1 ELSE IF fails THEN b.open + 1 ELSE 0) = 0
    BY <2>3
  <2> HIDE DEF fails, e, linked
  <2>5. AfterNext(b, t) =
           [cluster |-> r, before |-> IF linked THEN b.before ELSE r,
            open |-> IF linked THEN b.open + 1 ELSE 0, broken |-> FALSE, failures |-> 0]
    BY ONLY <2>1, <2>2, <2>3, <2>4
  <2> QED BY <2>5 DEF linked
<1> QED BY <1>2, <1>5, <1>8, <1>9

(* acc: the accounts after the first transfers of a batch of payments. *)
IsPaying(acc, A, batch) ==
    /\ acc[0] = A /\ A \in Books
    /\ \A n \in 1 .. Len(batch) :
          Transferred(acc[n - 1], acc[n], batch[n].debit, batch[n].credit, batch[n].amount)

LEMMA PaymentsRun ==
    ASSUME NEW k, Whole(k), NEW batch \in Seq(Payments)
    PROVE  \E acc : /\ IsPaying(acc, k.accounts, batch)
                    /\ CreateTransfers(k, batch).cluster =
                          [accounts |-> acc[Len(batch)], pending |-> k.pending]
                    /\ CreateTransfers(k, batch).failures = 0
<1> DEFINE N == Len(batch)
<1>1. N \in Nat /\ \A n \in 1 .. N : batch[n] \in Payments
  OBVIOUS
<1>2. PICK st : /\ IsRun(st, k, batch)
                /\ CreateTransfers(k, batch).cluster = st[N].cluster
                /\ CreateTransfers(k, batch).failures = st[N].failures
  BY BatchRun
<1>3. st[0] = InBatch(k) /\ \A n \in 1 .. N : st[n] = AfterNext(st[n - 1], batch[n])
  BY <1>2 DEF IsRun
<1> HIDE DEF N
<1> DEFINE Fine(n) == /\ Whole(st[n].cluster) /\ st[n].broken = FALSE /\ st[n].failures = 0
                      /\ st[n].cluster.pending = k.pending
           T == {n \in 0 .. N : Fine(n)}
<1>4. 0 \in T
  BY <1>1, <1>3 DEF InBatch
<1>5. ASSUME NEW m \in 0 .. N - 1, Fine(m)
      PROVE  /\ Fine(m + 1)
             /\ st[m + 1].cluster.accounts =
                   Post(st[m].cluster.accounts, batch[m + 1], batch[m + 1].amount)
  <2>1. m + 1 \in 1 .. N /\ (m + 1) - 1 = m
    BY <1>1
  <2>2. PICK t \in Payments : t = batch[m + 1]
    BY <1>1, <2>1
  <2>3. PICK b : b = st[m]
    OBVIOUS
  <2>4. st[m + 1] = AfterNext(b, t)
    BY <1>3, <2>1, <2>2, <2>3
  <2>5. Whole(b.cluster) /\ b.broken = FALSE /\ b.failures = 0 /\ b.cluster.pending = k.pending
    BY <1>5, <2>3
  <2>6. /\ AfterNext(b, t).cluster = [accounts |-> Post(b.cluster.accounts, t, t.amount),
                                      pending |-> b.cluster.pending]
        /\ Whole(AfterNext(b, t).cluster) /\ AfterNext(b, t).broken = FALSE
        /\ AfterNext(b, t).failures = 0
    BY <2>5, PaymentStep
  <2> QED BY <2>2, <2>3, <2>4, <2>5, <2>6
<1>6. \A n \in 0 .. N : n \in T
  <2>1. ASSUME NEW m \in 0 .. N - 1, m \in T PROVE m + 1 \in T
    <3>1. m + 1 \in 0 .. N
      BY <1>1
    <3> HIDE DEF Fine
    <3> QED BY <1>5, <2>1, <3>1
  <2> HIDE DEF T
  <2> QED BY <1>1, <1>4, <2>1, Climb
<1> DEFINE acc == [n \in 0 .. N |-> st[n].cluster.accounts]
<1>7. acc[0] = k.accounts /\ k.accounts \in Books
  BY <1>1, <1>3 DEF Whole, InBatch
<1>8. ASSUME NEW n \in 1 .. N
      PROVE  Transferred(acc[n - 1], acc[n], batch[n].debit, batch[n].credit, batch[n].amount)
  <2>1. PICK m \in 0 .. N - 1 : n = m + 1 /\ n - 1 = m /\ m \in 0 .. N /\ n \in 0 .. N
    BY <1>1
  <2>2. Fine(m)
    BY <1>6, <2>1
  <2>3. acc[n] = Post(acc[m], batch[n], batch[n].amount) /\ acc[m] \in Books
    <3>1. acc[n] = st[n].cluster.accounts /\ acc[m] = st[m].cluster.accounts
      BY <2>1
    <3>2. st[m].cluster.accounts \in Books
      BY <2>2 DEF Whole
    <3>3. st[n].cluster.accounts = Post(st[m].cluster.accounts, batch[n], batch[n].amount)
      <4> HIDE DEF Fine
      <4> QED BY <1>5, <2>1, <2>2
    <3> QED BY ONLY <3>1, <3>2, <3>3
  <2>4. PICK t \in Payments : t = batch[n]
    BY <1>1
  <2>5. /\ t.debit \in Account /\ t.credit \in Account /\ t.debit # t.credit /\ t.amount \in Nat
    BY DEF Payments
  <2>6. PICK A \in Books : A = acc[m]
    BY <2>3
  <2>7. Transferred(A, Post(A, t, t.amount), t.debit, t.credit, t.amount)
    BY ONLY <2>5, A \in Books, PostTransfers
  <2> QED BY ONLY <2>1, <2>3, <2>4, <2>6, <2>7
<1>9. IsPaying(acc, k.accounts, batch)
  <2> HIDE DEF acc
  <2> QED BY <1>7, <1>8 DEF IsPaying, N
<1>10. N \in 0 .. N
  BY <1>1
<1>11. st[N].cluster = [accounts |-> acc[N], pending |-> k.pending] /\ st[N].failures = 0
  BY <1>6, <1>10 DEF Whole
<1> QED BY <1>2, <1>9, <1>11 DEF N

(* A call with one transfer, and one with a chain of two of which the second   *)
(* is refused.                                                               *)
LEMMA OneTransfer ==
    ASSUME NEW k, NEW t
    PROVE  CreateTransfers(k, <<t>>) =
              IF Execute(k, t).result = "ok"
                THEN [cluster |-> Execute(k, t).cluster, failures |-> 0]
                ELSE [cluster |-> k, failures |-> 1]
<1>1. PICK batch \in Seq({t}) : batch = <<t>> /\ Len(batch) = 1 /\ batch[1] = t
  <2>1. <<t>> \in Seq({t}) /\ Len(<<t>>) = 1 /\ <<t>>[1] = t
    OBVIOUS
  <2> QED BY ONLY <2>1
<1>2. PICK st : /\ IsRun(st, k, batch)
                /\ CreateTransfers(k, batch).cluster = st[Len(batch)].cluster
                /\ CreateTransfers(k, batch).failures = st[Len(batch)].failures
  BY BatchRun
<1>3. st[1] = AfterNext(InBatch(k), t)
  <2>1. 1 \in 1 .. Len(batch) /\ 1 - 1 = 0
    BY <1>1
  <2> QED BY <1>1, <1>2, <2>1 DEF IsRun
<1>4. PICK e : e = Execute(k, t)
  OBVIOUS
<1>5. /\ st[1].cluster = (IF e.result = "ok" THEN e.cluster ELSE k)
      /\ st[1].failures = (IF e.result = "ok" THEN 0 ELSE 1)
  BY ONLY <1>3, <1>4 DEF AfterNext, InBatch
<1>6. PICK c, f : CreateTransfers(k, batch) = [cluster |-> c, failures |-> f]
  BY DEF CreateTransfers
<1> QED BY ONLY <1>1, <1>2, <1>4, <1>5, <1>6

LEMMA BrokenPair ==
    ASSUME NEW k, NEW s, NEW t, "linked" \in s.flags, "linked" \notin t.flags,
           Execute(k, s).result = "ok", Execute(Execute(k, s).cluster, t).result # "ok"
    PROVE  CreateTransfers(k, <<s, t>>) = [cluster |-> k, failures |-> 2]
<1>1. PICK batch \in Seq({s, t}) : /\ batch = <<s, t>> /\ Len(batch) = 2
                                   /\ batch[1] = s /\ batch[2] = t
  <2>1. /\ <<s, t>> \in Seq({s, t}) /\ Len(<<s, t>>) = 2
        /\ <<s, t>>[1] = s /\ <<s, t>>[2] = t
    OBVIOUS
  <2> QED BY ONLY <2>1
<1>2. PICK st : /\ IsRun(st, k, batch)
                /\ CreateTransfers(k, batch).cluster = st[Len(batch)].cluster
                /\ CreateTransfers(k, batch).failures = st[Len(batch)].failures
  BY BatchRun
<1>3. st[1] = AfterNext(InBatch(k), s) /\ st[2] = AfterNext(st[1], t)
  <2>1. 1 \in 1 .. Len(batch) /\ 1 - 1 = 0 /\ 2 \in 1 .. Len(batch) /\ 2 - 1 = 1
    BY <1>1
  <2> QED BY <1>1, <1>2, <2>1 DEF IsRun
<1>4. PICK e : e = Execute(k, s) /\ e.result = "ok"
  OBVIOUS
<1>5. /\ st[1].cluster = e.cluster /\ st[1].before = k /\ st[1].open = 1
      /\ st[1].broken = FALSE /\ st[1].failures = 0
  <2>1. PICK b : b = InBatch(k)
    OBVIOUS
  <2>2. b.cluster = k /\ b.before = k /\ b.open = 0 /\ b.broken = FALSE /\ b.failures = 0
    BY <2>1 DEF InBatch
  <2>3. Execute(b.cluster, s) = e /\ st[1] = AfterNext(b, s)
    BY ONLY <1>3, <1>4, <2>1, <2>2
  <2>4. AfterNext(b, s) =
           [cluster |-> e.cluster, before |-> k, open |-> 1, broken |-> FALSE, failures |-> 0]
    <3> DEFINE fails == b.broken \/ e.result # "ok"
               linked == "linked" \in s.flags
    <3>1. AfterNext(b, s) =
             [cluster |-> IF fails THEN b.before ELSE e.cluster,
              before |-> IF linked THEN b.before ELSE IF fails THEN b.before ELSE e.cluster,
              open |-> IF linked THEN b.open + 1 ELSE 0,
              broken |-> linked /\ fails,
              failures |-> b.failures
                 + (IF b.broken THEN 1 ELSE IF fails THEN b.open + 1 ELSE 0)]
      BY <2>3 DEF AfterNext
    <3>2. linked /\ ~fails /\ (linked /\ fails) = FALSE
      BY <1>4, <2>2
    <3>3. b.failures + (IF b.broken THEN 1 ELSE IF fails THEN b.open + 1 ELSE 0) = 0
      BY <2>2, <3>2
    <3>4. b.open + 1 = 1
      BY <2>2
    <3> HIDE DEF fails, linked
    <3> QED BY ONLY <2>2, <3>1, <3>2, <3>3, <3>4
  <2> QED BY ONLY <2>3, <2>4
<1>6. PICK b : b = st[1]
  OBVIOUS
<1>7. st[2].cluster = k /\ st[2].failures = 2
  <2>1. Execute(b.cluster, t).result # "ok"
    BY <1>4, <1>5, <1>6
  <2> QED BY ONLY <1>3, <1>5, <1>6, <2>1 DEF AfterNext
<1>8. PICK c, f : CreateTransfers(k, batch) = [cluster |-> c, failures |-> f]
  BY DEF CreateTransfers
<1> QED BY ONLY <1>1, <1>2, <1>7, <1>8

(* A transfer of a constrained account that has received nothing. *)
LEMMA ExecuteStrict ==
    ASSUME NEW k, NEW t, t.flags = {}, t.debit \in Constrained, t.amount \in Nat \ {0},
           k.accounts[t.debit] = Empty
    PROVE  Execute(k, t).result # "ok"
<1>1. Amount(k.accounts, t) = t.amount
  BY DEF Amount
<1>2. ExceedsCredits(k.accounts, t)
  BY <1>1 DEF ExceedsCredits, Empty
<1> QED BY <1>2 DEF Execute

LEMMA ExecutePending ==
    ASSUME NEW A, NEW P, NEW t, t.flags = {"pending"}, t.debit \notin Constrained
    PROVE  Execute([accounts |-> A, pending |-> P], t) =
              [result |-> "ok", cluster |-> [accounts |-> Reserve(A, t, t.amount),
                                             pending |-> P \cup {t}]]
<1>1. PICK k : k = [accounts |-> A, pending |-> P] /\ k.accounts = A /\ k.pending = P
  <2>1. [accounts |-> A, pending |-> P].accounts = A /\ [accounts |-> A, pending |-> P].pending = P
    OBVIOUS
  <2> QED BY ONLY <2>1
<1>2. ~ExceedsCredits(k.accounts, t)
  BY DEF ExceedsCredits
<1>3. "post_pending" \notin t.flags /\ "void_pending" \notin t.flags /\ "pending" \in t.flags
  OBVIOUS
<1>4. Execute(k, t) =
         [result |-> "ok", cluster |-> [accounts |-> Reserve(k.accounts, t, t.amount),
                                        pending |-> k.pending \cup {t}]]
  BY ONLY <1>2, <1>3 DEF Execute
<1> QED BY ONLY <1>1, <1>4

LEMMA ExecuteSettle ==
    ASSUME NEW A, NEW r, NEW t, r.pending_id = t.pending_id,
           t.flags = {"post_pending"} \/ t.flags = {"void_pending"}
    PROVE  Execute([accounts |-> A, pending |-> {r}], t) =
              [result |-> "ok",
               cluster |->
                  [accounts |-> IF t.flags = {"void_pending"} THEN Reserve(A, r, -r.amount)
                                ELSE Post(Reserve(A, r, -r.amount), t, t.amount),
                   pending |-> {}]]
<1>1. PICK k : k = [accounts |-> A, pending |-> {r}] /\ k.accounts = A /\ k.pending = {r}
  <2>1. /\ [accounts |-> A, pending |-> {r}].accounts = A
        /\ [accounts |-> A, pending |-> {r}].pending = {r}
    OBVIOUS
  <2> QED BY ONLY <2>1
<1>2. (CHOOSE q \in k.pending : q.pending_id = t.pending_id) = r
  BY <1>1
<1>3. \E q \in k.pending : q.pending_id = t.pending_id
  BY <1>1
<1>4. PICK R : R = Reserve(A, r, -r.amount)
  OBVIOUS
<1>5. PICK w : w = [accounts |-> R, pending |-> {}]
  OBVIOUS
<1>6. [accounts |-> Reserve(k.accounts, r, -r.amount), pending |-> k.pending \ {r}] = w
  BY ONLY <1>1, <1>4, <1>5
<1>7. CASE t.flags = {"void_pending"}
  <2>1. Execute(k, t) = [result |-> "ok", cluster |-> w]
    BY ONLY <1>2, <1>3, <1>6, <1>7 DEF Execute
  <2> QED BY ONLY <1>1, <1>4, <1>5, <1>7, <2>1
<1>8. CASE t.flags = {"post_pending"}
  <2>1. Execute(k, t) =
           [result |-> "ok", cluster |-> [w EXCEPT !.accounts = Post(@, t, t.amount)]]
    <3>1. "post_pending" \in t.flags /\ "void_pending" \notin t.flags
      BY <1>8
    <3> QED BY ONLY <1>2, <1>3, <1>6, <3>1 DEF Execute
  <2>2. [w EXCEPT !.accounts = Post(@, t, t.amount)]
        = [accounts |-> Post(R, t, t.amount), pending |-> {}]
    BY ONLY <1>5
  <2>3. t.flags # {"void_pending"}
    BY ONLY <1>8
  <2> QED BY ONLY <1>1, <1>4, <1>8, <2>1, <2>2, <2>3
<1> QED BY <1>7, <1>8

LEMMA OnePayment ==
    ASSUME NEW A \in Books, NEW P, NEW t \in Payments
    PROVE  \E B : /\ CreateTransfers([accounts |-> A, pending |-> P], <<t>>) =
                        [cluster |-> [accounts |-> B, pending |-> P], failures |-> 0]
                  /\ Transferred(A, B, t.debit, t.credit, t.amount)
<1>1. PICK k : /\ k = [accounts |-> A, pending |-> P] /\ Whole(k)
               /\ k.accounts = A /\ k.pending = P
  <2>1. /\ Whole([accounts |-> A, pending |-> P])
        /\ [accounts |-> A, pending |-> P].accounts = A
        /\ [accounts |-> A, pending |-> P].pending = P
    BY MakeWhole
  <2> QED BY ONLY <2>1
<1>2. PICK batch \in Seq(Payments) : batch = <<t>> /\ Len(batch) = 1 /\ batch[1] = t
  <2>1. <<t>> \in Seq(Payments) /\ Len(<<t>>) = 1 /\ <<t>>[1] = t
    OBVIOUS
  <2> QED BY ONLY <2>1
<1>3. PICK acc : /\ IsPaying(acc, k.accounts, batch)
                 /\ CreateTransfers(k, batch).cluster =
                       [accounts |-> acc[Len(batch)], pending |-> k.pending]
                 /\ CreateTransfers(k, batch).failures = 0
  BY <1>1, PaymentsRun
<1>4. Transferred(A, acc[1], t.debit, t.credit, t.amount)
  <2>1. 1 \in 1 .. Len(batch) /\ 1 - 1 = 0
    BY <1>2
  <2>2. Transferred(acc[1 - 1], acc[1], batch[1].debit, batch[1].credit, batch[1].amount)
        /\ acc[0] = A
    BY ONLY <1>1, <1>3, <2>1 DEF IsPaying
  <2> QED BY ONLY <1>2, <2>1, <2>2
<1>5. PICK c, f : CreateTransfers(k, batch) = [cluster |-> c, failures |-> f]
  BY DEF CreateTransfers
<1> QED BY ONLY <1>1, <1>2, <1>3, <1>4, <1>5

-----------------------------------------------------------------------------
(* The scenarios of the demo, one after the other. *)
LEMMA DemoIDs ==
    /\ ID.alice = 1 /\ ID.bob = 2 /\ ID.payer = 3 /\ ID.payee = 4
    /\ ID.voidPayer = 5 /\ ID.voidPayee = 6 /\ ID.bank = 7
    /\ ID.goodSrc = 8 /\ ID.badSrc = 9 /\ ID.dest = 10
    /\ ID.strictID = 11 /\ ID.strictDest = 12 /\ ID.destID = 13
BY DEF ID

LEMMA DemoAccounts ==
    /\ \A a \in 1 .. 16 : a \in Account /\ (a \in Constrained <=> a = 9 \/ a = 11)
    /\ \A g \in Goroutines :
          /\ debitOf(g) \in Account \ Constrained /\ creditOf(g) \in Account
          /\ debitOf(g) \notin 1 .. 16 /\ creditOf(g) \notin 1 .. 16
          /\ \A h \in Goroutines : /\ creditOf(g) # debitOf(h)
                                   /\ g # h => creditOf(g) # creditOf(h)
<1>1. /\ Goroutines \subseteq Nat /\ VerifyAccounts \subseteq Account
      /\ Constrained \cap VerifyAccounts = VerifyConstrained
  BY DemoAssumption
<1>2. VerifyConstrained = {9, 11}
  BY DemoIDs DEF VerifyConstrained
<1>3. \A a \in 1 .. 16 : a \in VerifyAccounts
  BY DEF VerifyAccounts
<1>4. \A g \in Goroutines : debitOf(g) \in VerifyAccounts /\ creditOf(g) \in VerifyAccounts
  BY DEF VerifyAccounts
<1>5. \A g \in Goroutines : \A h \in Goroutines :
         /\ debitOf(g) > 16 /\ creditOf(g) > 16
         /\ creditOf(g) # debitOf(h) /\ (g # h => creditOf(g) # creditOf(h))
  BY <1>1 DEF debitOf, creditOf
<1>6. \A g \in Goroutines : debitOf(g) \in Nat /\ creditOf(g) \in Nat
  BY <1>1 DEF debitOf, creditOf
<1>7. \A a \in Nat : a > 16 => a \notin 1 .. 16 /\ a # 9 /\ a # 11
  OBVIOUS
<1>8. \A a \in VerifyAccounts : a \in Account /\ (a \in Constrained <=> a = 9 \/ a = 11)
  BY <1>1, <1>2
<1> HIDE DEF VerifyAccounts
<1>9. \A g \in Goroutines : /\ debitOf(g) \notin 1 .. 16 /\ creditOf(g) \notin 1 .. 16
                            /\ debitOf(g) # 9 /\ debitOf(g) # 11
  BY ONLY <1>5, <1>6, <1>7
<1> QED BY ONLY <1>3, <1>4, <1>5, <1>8, <1>9

Order == <<"basic", "pending", "post", "voidPending", "void", "fund", "draw", "linkedFund",
           "linked", "constraint", "throughput", "stopping", "done">>

Fresh(A, S) == \A a \in S : A[a] = Empty

Reservation(A, d, c, x) ==
    /\ A[d].debits_pending = x /\ A[d].debits_posted = 0
    /\ A[c].credits_pending = x /\ A[c].credits_posted = 0

(* What the accounts and the pending transfers are when the n-th call comes:   *)
(* the accounts of the later scenarios have not been used.                    *)
DemoAccountsAt(n, A, P) ==
    /\ A \in Books
    /\ P = IF n = 3 THEN {Pending(3, 4, 2, 1)} ELSE IF n = 5 THEN {Pending(5, 6, 3, 2)} ELSE {}
    /\ n <= 1 => Fresh(A, 1 .. 2)
    /\ n <= 2 => Fresh(A, 3 .. 4)
    /\ n = 3 => Reservation(A, 3, 4, 2)
    /\ n <= 4 => Fresh(A, 5 .. 6)
    /\ n = 5 => Reservation(A, 5, 6, 3)
    /\ n <= 6 => Fresh(A, 13 .. 16)
    /\ n = 7 => /\ A[13] = Empty
                /\ \A s \in 14 .. 16 : A[s].debits_posted = 0 /\ A[s].debits_pending = 0
    /\ n <= 8 => Fresh(A, 8 .. 10)
    /\ n = 9 => A[8].debits_posted = 0 /\ A[9] = Empty /\ A[10] = Empty
    /\ n <= 10 => Fresh(A, 11 .. 12)

(* The call succeeds and the next one comes; the accounts of the throughput    *)
(* test are as before.                                                       *)
Goes(A, n) ==
    /\ \E B, Q : /\ cluster' = [accounts |-> B, pending |-> Q] /\ DemoAccountsAt(n, B, Q)
                 /\ \A g \in Goroutines : B[creditOf(g)] = A[creditOf(g)]
    /\ step' = Order[n]
    /\ UNCHANGED <<loop, rejected, totalTransfers, unanswered>>

(* Only accounts of the scenario change. *)
LEMMA OthersKept ==
    ASSUME NEW A, NEW B, NEW S, \A a \in Account \ S : B[a] = A[a], \A a \in S : a \in 1 .. 16
    PROVE  /\ \A g \in Goroutines : B[creditOf(g)] = A[creditOf(g)]
           /\ \A l, h \in 1 .. 16 :
                 (\A a \in l .. h : a \notin S) /\ Fresh(A, l .. h) => Fresh(B, l .. h)
<1>1. \A g \in Goroutines : creditOf(g) \in Account \ S
  BY DemoAccounts
<1>2. ASSUME NEW l \in 1 .. 16, NEW h \in 1 .. 16, \A a \in l .. h : a \notin S, Fresh(A, l .. h)
      PROVE  Fresh(B, l .. h)
  <2>1. \A a \in l .. h : a \in 1 .. 16
    OBVIOUS
  <2>2. \A a \in l .. h : a \in Account \ S
    BY <1>2, <2>1, DemoAccounts
  <2> QED BY <1>2, <2>2 DEF Fresh
<1> QED BY <1>1, <1>2

LEMMA BasicGoes ==
    ASSUME NEW A, NEW P, cluster = [accounts |-> A, pending |-> P], DemoAccountsAt(1, A, P),
           checkBasic
    PROVE  Goes(A, 2)
<1>1. /\ A \in Books /\ P = {} /\ Fresh(A, 1 .. 2) /\ Fresh(A, 3 .. 4) /\ Fresh(A, 5 .. 6)
      /\ Fresh(A, 13 .. 16) /\ Fresh(A, 8 .. 10) /\ Fresh(A, 11 .. 12)
  BY DEF DemoAccountsAt
<1>2. PICK t : t = Transfer(1, 2, 5, {})
  OBVIOUS
<1>3. t.debit = 1 /\ t.credit = 2 /\ t.amount = 5 /\ t \in Payments
  <2>1. 1 \in Account \ Constrained /\ 2 \in Account
    BY DemoAccounts
  <2> QED BY <1>2, <2>1 DEF Transfer, Payments
<1>4. PICK B : /\ CreateTransfers([accounts |-> A, pending |-> P], <<t>>) =
                     [cluster |-> [accounts |-> B, pending |-> P], failures |-> 0]
               /\ Transferred(A, B, 1, 2, 5)
  BY <1>1, <1>3, OnePayment
<1>5. B[1].debits_posted = 5 /\ B[2].credits_posted = 5
  <2>1. A[1] = Empty /\ A[2] = Empty
    BY <1>1 DEF Fresh
  <2> QED BY <1>4, <2>1 DEF Transferred, Empty
<1>6. /\ cluster' = [accounts |-> B, pending |-> P] /\ step' = "pending"
      /\ UNCHANGED <<loop, rejected, totalTransfers, unanswered>>
  <2>1. PICK r : r = CreateTransfers(cluster, <<t>>)
    OBVIOUS
  <2>2. /\ cluster' = r.cluster
        /\ step' = IF r.failures = 0 /\ r.cluster.accounts[1].debits_posted = 5
                      /\ r.cluster.accounts[2].credits_posted = 5
                     THEN "pending" ELSE "failed"
        /\ UNCHANGED <<loop, rejected, totalTransfers, unanswered>>
    BY <1>2, <2>1, DemoIDs DEF checkBasic, Check
  <2> QED BY ONLY <1>4, <1>5, <2>1, <2>2, cluster = [accounts |-> A, pending |-> P]
<1>7. \A a \in Account \ (1 .. 2) : B[a] = A[a]
  BY <1>4 DEF Transferred
<1>8. /\ \A g \in Goroutines : B[creditOf(g)] = A[creditOf(g)]
      /\ Fresh(B, 3 .. 4) /\ Fresh(B, 5 .. 6) /\ Fresh(B, 13 .. 16) /\ Fresh(B, 8 .. 10)
      /\ Fresh(B, 11 .. 12)
  <2>1. \A a \in 1 .. 2 : a \in 1 .. 16
    OBVIOUS
  <2>2. /\ \A g \in Goroutines : B[creditOf(g)] = A[creditOf(g)]
        /\ \A l, h \in 1 .. 16 :
              (\A a \in l .. h : a \notin 1 .. 2) /\ Fresh(A, l .. h) => Fresh(B, l .. h)
    BY <1>7, <2>1, OthersKept
  <2> QED BY <1>1, <2>2
<1>9. DemoAccountsAt(2, B, P)
  BY <1>1, <1>4, <1>8 DEF DemoAccountsAt, Transferred
<1>10. Order[2] = "pending"
  BY DEF Order
<1> QED BY <1>6, <1>8, <1>9, <1>10 DEF Goes

(* All transfers of a call are executed. *)
Succeeds(A, P, batch, B, Q) ==
    CreateTransfers([accounts |-> A, pending |-> P], batch) =
       [cluster |-> [accounts |-> B, pending |-> Q], failures |-> 0]

LEMMA SucceedsWith ==
    ASSUME NEW A, NEW P, NEW batch, NEW B, NEW Q, Succeeds(A, P, batch, B, Q),
           cluster = [accounts |-> A, pending |-> P]
    PROVE  \E r : /\ r = CreateTransfers(cluster, batch) /\ r.failures = 0
                  /\ r.cluster = [accounts |-> B, pending |-> Q] /\ r.cluster.accounts = B
<1>1. PICK r : r = CreateTransfers(cluster, batch)
  OBVIOUS
<1>2. r = [cluster |-> [accounts |-> B, pending |-> Q], failures |-> 0]
  BY <1>1 DEF Succeeds
<1> QED BY <1>1, <1>2

(* A two-phase transfer, for accounts that have not been used. *)
Reserves(A, B, d, c, x, t) ==
    /\ Succeeds(A, {}, <<t>>, B, {t})
    /\ B \in Books /\ Reservation(B, d, c, x)
    /\ \A a \in Account \ {d, c} : B[a] = A[a]

Settles(A, B, d, c, y, r, t) ==
    /\ Succeeds(A, {r}, <<t>>, B, {})
    /\ B \in Books /\ B[d].debits_pending = 0 /\ B[d].debits_posted = y
    /\ \A a \in Account \ {d, c} : B[a] = A[a]

LEMMA ReservesTwo ==
    ASSUME NEW A \in Books, NEW d \in 1 .. 16, NEW c \in 1 .. 16, d # c, d # 9, d # 11,
           A[d] = Empty, A[c] = Empty, NEW x \in Nat, NEW i
    PROVE  \E B : Reserves(A, B, d, c, x, Pending(d, c, x, i))
<1>1. PICK t : t = Pending(d, c, x, i)
  OBVIOUS
<1>2. t.debit = d /\ t.credit = c /\ t.amount = x /\ t.flags = {"pending"}
  BY <1>1 DEF Pending, Transfer
<1>3. d \in Account /\ d \notin Constrained /\ c \in Account
  BY DemoAccounts
<1>4. PICK B : B = Reserve(A, t, x)
  OBVIOUS
<1>5. PICK k : k = [accounts |-> A, pending |-> {}]
  OBVIOUS
<1>6. Execute(k, t) = [result |-> "ok", cluster |-> [accounts |-> B, pending |-> {t}]]
  <2>1. Execute(k, t) = [result |-> "ok", cluster |-> [accounts |-> Reserve(A, t, t.amount),
                                                       pending |-> {} \cup {t}]]
    BY ONLY <1>2, <1>3, <1>5, ExecutePending
  <2> QED BY <1>2, <1>4, <2>1
<1>7. CreateTransfers(k, <<t>>) =
         [cluster |-> [accounts |-> B, pending |-> {t}], failures |-> 0]
  <2>1. PICK e : e = Execute(k, t)
    OBVIOUS
  <2>2. e.result = "ok" /\ e.cluster = [accounts |-> B, pending |-> {t}]
    BY ONLY <1>6, <2>1
  <2>3. CreateTransfers(k, <<t>>) = IF e.result = "ok" THEN [cluster |-> e.cluster, failures |-> 0]
                                    ELSE [cluster |-> k, failures |-> 1]
    BY ONLY <2>1, OneTransfer
  <2> QED BY ONLY <2>2, <2>3
<1>8. Reserved(A, B, d, c, x)
  <2>1. /\ t.debit \in Account /\ t.credit \in Account /\ t.debit # t.credit /\ x \in Int
        /\ A[t.debit].debits_pending + x \in Nat /\ A[t.credit].credits_pending + x \in Nat
    BY <1>2, <1>3 DEF Empty
  <2>2. Reserved(A, Reserve(A, t, x), t.debit, t.credit, x)
    BY ONLY A \in Books, <2>1, ReserveHolds
  <2> QED BY ONLY <1>2, <1>4, <2>2
<1>9. Reservation(B, d, c, x)
  BY <1>8 DEF Reserved, Reservation, Empty
<1> QED BY <1>1, <1>5, <1>7, <1>8, <1>9 DEF Reserved, Reserves, Succeeds

LEMMA SettlesTwo ==
    ASSUME NEW A \in Books, NEW d \in 1 .. 16, NEW c \in 1 .. 16, d # c, NEW x \in Nat, NEW i,
           Reservation(A, d, c, x), NEW flag \in {"post_pending", "void_pending"}
    PROVE  \E B : Settles(A, B, d, c, IF flag = "post_pending" THEN x ELSE 0,
                          Pending(d, c, x, i), Settle(d, c, x, i, flag))
<1>1. PICK r, t : r = Pending(d, c, x, i) /\ t = Settle(d, c, x, i, flag)
  OBVIOUS
<1>2. /\ r.debit = d /\ r.credit = c /\ r.amount = x /\ r.pending_id = i
      /\ t.debit = d /\ t.credit = c /\ t.amount = x /\ t.pending_id = i /\ t.flags = {flag}
  BY <1>1 DEF Pending, Settle, Transfer
<1>3. d \in Account /\ c \in Account
  BY DemoAccounts
<1>4. PICK R : R = Reserve(A, r, -x)
  OBVIOUS
<1>5. Reserved(A, R, d, c, -x)
  <2>1. /\ r.debit \in Account /\ r.credit \in Account /\ r.debit # r.credit /\ -x \in Int
        /\ A[r.debit].debits_pending + (-x) \in Nat /\ A[r.credit].credits_pending + (-x) \in Nat
    BY <1>2, <1>3 DEF Reservation
  <2>2. Reserved(A, Reserve(A, r, -x), r.debit, r.credit, -x)
    BY ONLY A \in Books, <2>1, ReserveHolds
  <2> QED BY ONLY <1>2, <1>4, <2>2
<1>6. R \in Books /\ R[d].debits_pending = 0 /\ R[d].debits_posted = 0
      /\ \A a \in Account \ {d, c} : R[a] = A[a]
  <2>1. A[d] \in Row
    BY <1>3 DEF Books
  <2> QED BY <1>5, <2>1 DEF Reserved, Reservation, Row
<1>7. PICK B : B = IF flag = "void_pending" THEN R ELSE Post(R, t, x)
  OBVIOUS
<1>8. PICK k : k = [accounts |-> A, pending |-> {r}]
  OBVIOUS
<1>9. Execute(k, t) = [result |-> "ok", cluster |-> [accounts |-> B, pending |-> {}]]
  <2>1. Execute([accounts |-> A, pending |-> {r}], t) =
           [result |-> "ok",
            cluster |-> [accounts |-> IF t.flags = {"void_pending"} THEN Reserve(A, r, -r.amount)
                                      ELSE Post(Reserve(A, r, -r.amount), t, t.amount),
                         pending |-> {}]]
    <3>1. r.pending_id = t.pending_id /\ (t.flags = {"post_pending"} \/ t.flags = {"void_pending"})
      BY <1>2
    <3> QED BY ONLY <3>1, ExecuteSettle
  <2>2. t.flags = {"void_pending"} <=> flag = "void_pending"
    BY <1>2
  <2> QED BY ONLY <1>2, <1>4, <1>7, <1>8, <2>1, <2>2
<1>10. CreateTransfers(k, <<t>>) =
         [cluster |-> [accounts |-> B, pending |-> {}], failures |-> 0]
  <2>1. PICK e : e = Execute(k, t)
    OBVIOUS
  <2>2. e.result = "ok" /\ e.cluster = [accounts |-> B, pending |-> {}]
    BY ONLY <1>9, <2>1
  <2>3. CreateTransfers(k, <<t>>) = IF e.result = "ok" THEN [cluster |-> e.cluster, failures |-> 0]
                                    ELSE [cluster |-> k, failures |-> 1]
    BY ONLY <2>1, OneTransfer
  <2> QED BY ONLY <2>2, <2>3
<1>11. /\ B \in Books /\ B[d].debits_pending = 0
       /\ B[d].debits_posted = IF flag = "post_pending" THEN x ELSE 0
       /\ \A a \in Account \ {d, c} : B[a] = A[a]
  <2>1. CASE flag = "void_pending"
    BY <1>6, <1>7, <2>1
  <2>2. CASE flag = "post_pending"
    <3>1. Transferred(R, Post(R, t, x), t.debit, t.credit, x)
      BY ONLY <1>2, <1>3, <1>6, x \in Nat, d # c, PostTransfers
    <3>2. Transferred(R, B, d, c, x)
      BY <1>2, <1>7, <2>2, <3>1
    <3>3. R[d] \in Row
      BY <1>3, <1>6 DEF Books
    <3> QED BY <1>6, <2>2, <3>2, <3>3 DEF Transferred, Row
  <2> QED BY <2>1, <2>2
<1> QED BY <1>1, <1>8, <1>10, <1>11 DEF Settles, Succeeds

LEMMA PendingGoes ==
    ASSUME NEW A, NEW P, cluster = [accounts |-> A, pending |-> P], DemoAccountsAt(2, A, P),
           step = "pending", checkTwoPhasePost
    PROVE  Goes(A, 3)
<1>1. /\ A \in Books /\ P = {} /\ Fresh(A, 3 .. 4)
      /\ Fresh(A, 5 .. 6) /\ Fresh(A, 13 .. 16) /\ Fresh(A, 8 .. 10) /\ Fresh(A, 11 .. 12)
  BY DEF DemoAccountsAt
<1>2. PICK t : t = Pending(3, 4, 2, 1)
  OBVIOUS
<1>3. PICK B : Reserves(A, B, 3, 4, 2, t)
  <2>1. A[3] = Empty /\ A[4] = Empty
    BY <1>1 DEF Fresh
  <2>2. /\ 3 \in 1 .. 16 /\ 4 \in 1 .. 16 /\ 3 # 4 /\ 3 # 9 /\ 3 # 11
        /\ 2 \in Nat
    OBVIOUS
  <2>3. \E B : Reserves(A, B, 3, 4, 2, Pending(3, 4, 2, 1))
    BY ONLY <1>1, <2>1, <2>2, ReservesTwo
  <2> QED BY ONLY <1>2, <2>3
<1>4. PICK r : /\ r = CreateTransfers(cluster, <<t>>) /\ r.failures = 0
               /\ r.cluster = [accounts |-> B, pending |-> {t}] /\ r.cluster.accounts = B
  <2>1. Succeeds(A, P, <<t>>, B, {t})
    BY ONLY <1>1, <1>3 DEF Reserves
  <2> QED BY ONLY <2>1, cluster = [accounts |-> A, pending |-> P], SucceedsWith
<1>5. B \in Books /\ Reservation(B, 3, 4, 2)
      /\ \A a \in Account \ {3, 4} : B[a] = A[a]
  BY <1>3 DEF Reserves
<1>6. /\ cluster' = [accounts |-> B, pending |-> {t}] /\ step' = "post"
      /\ UNCHANGED <<loop, rejected, totalTransfers, unanswered>>
  <2>1. /\ cluster' = r.cluster
        /\ step' = IF r.failures = 0 /\ r.cluster.accounts[3].debits_pending = 2 /\ r.cluster.accounts[3].debits_posted = 0
                     THEN "post" ELSE "failed"
        /\ UNCHANGED <<loop, rejected, totalTransfers, unanswered>>
    BY <1>2, <1>4, step = "pending", DemoIDs DEF checkTwoPhasePost, Check
  <2> QED BY ONLY <1>4, <1>5, <2>1 DEF Reservation
<1>7. /\ \A g \in Goroutines : B[creditOf(g)] = A[creditOf(g)]
      /\ Fresh(B, 5 .. 6) /\ Fresh(B, 13 .. 16) /\ Fresh(B, 8 .. 10) /\ Fresh(B, 11 .. 12)
  <2>1. PICK S : S = {3, 4}
    OBVIOUS
  <2>2. (\A a \in Account \ S : B[a] = A[a]) /\ \A a \in S : a \in 1 .. 16
    BY <1>5, <2>1
  <2>3. /\ \A g \in Goroutines : B[creditOf(g)] = A[creditOf(g)]
        /\ \A l, h \in 1 .. 16 :
              (\A a \in l .. h : a \notin S) /\ Fresh(A, l .. h) => Fresh(B, l .. h)
    BY ONLY <2>2, OthersKept
  <2> QED BY <1>1, <2>1, <2>3
<1>8. DemoAccountsAt(3, B, {t})
  BY ONLY <1>2, <1>5, <1>7 DEF DemoAccountsAt
<1>9. Order[3] = "post"
  BY DEF Order
<1> QED BY <1>6, <1>7, <1>8, <1>9 DEF Goes

LEMMA PostGoes ==
    ASSUME NEW A, NEW P, cluster = [accounts |-> A, pending |-> P], DemoAccountsAt(3, A, P),
           step = "post", checkTwoPhasePost
    PROVE  Goes(A, 4)
<1>1. /\ A \in Books /\ P = {Pending(3, 4, 2, 1)} /\ Reservation(A, 3, 4, 2)
      /\ Fresh(A, 5 .. 6) /\ Fresh(A, 13 .. 16) /\ Fresh(A, 8 .. 10) /\ Fresh(A, 11 .. 12)
  BY DEF DemoAccountsAt
<1>2. PICK p, t : p = Pending(3, 4, 2, 1) /\ t = Settle(3, 4, 2, 1, "post_pending")
  OBVIOUS
<1>3. PICK B : Settles(A, B, 3, 4, 2, p, t)
  <2>1. PICK flag \in {"post_pending", "void_pending"} : flag = "post_pending"
    OBVIOUS
  <2>2. /\ 3 \in 1 .. 16 /\ 4 \in 1 .. 16 /\ 3 # 4 /\ 2 \in Nat
        /\ (IF flag = "post_pending" THEN 2 ELSE 0) = 2
    BY <2>1
  <2>3. \E B : Settles(A, B, 3, 4, IF flag = "post_pending" THEN 2 ELSE 0,
                      Pending(3, 4, 2, 1), Settle(3, 4, 2, 1, flag))
    BY ONLY <1>1, <2>2, flag \in {"post_pending", "void_pending"}, SettlesTwo
  <2> QED BY ONLY <1>2, <2>1, <2>2, <2>3
<1>4. PICK r : /\ r = CreateTransfers(cluster, <<t>>) /\ r.failures = 0
               /\ r.cluster = [accounts |-> B, pending |-> {}] /\ r.cluster.accounts = B
  <2>1. P = {p}
    BY ONLY <1>1, <1>2
  <2>2. Succeeds(A, P, <<t>>, B, {})
    BY ONLY <1>3, <2>1 DEF Settles
  <2> QED BY ONLY <2>2, cluster = [accounts |-> A, pending |-> P], SucceedsWith
<1>5. B \in Books /\ B[3].debits_pending = 0 /\ B[3].debits_posted = 2
      /\ \A a \in Account \ {3, 4} : B[a] = A[a]
  BY <1>3 DEF Settles
<1>6. /\ cluster' = [accounts |-> B, pending |-> {}] /\ step' = "voidPending"
      /\ UNCHANGED <<loop, rejected, totalTransfers, unanswered>>
  <2>1. /\ cluster' = r.cluster
        /\ step' = IF r.failures = 0 /\ r.cluster.accounts[3].debits_pending = 0 /\ r.cluster.accounts[3].debits_posted = 2
                     THEN "voidPending" ELSE "failed"
        /\ UNCHANGED <<loop, rejected, totalTransfers, unanswered>>
    BY <1>2, <1>4, step = "post", DemoIDs DEF checkTwoPhasePost, Check
  <2> QED BY ONLY <1>4, <1>5, <2>1
<1>7. /\ \A g \in Goroutines : B[creditOf(g)] = A[creditOf(g)]
      /\ Fresh(B, 5 .. 6) /\ Fresh(B, 13 .. 16) /\ Fresh(B, 8 .. 10) /\ Fresh(B, 11 .. 12)
  <2>1. PICK S : S = {3, 4}
    OBVIOUS
  <2>2. (\A a \in Account \ S : B[a] = A[a]) /\ \A a \in S : a \in 1 .. 16
    BY <1>5, <2>1
  <2>3. /\ \A g \in Goroutines : B[creditOf(g)] = A[creditOf(g)]
        /\ \A l, h \in 1 .. 16 :
              (\A a \in l .. h : a \notin S) /\ Fresh(A, l .. h) => Fresh(B, l .. h)
    BY ONLY <2>2, OthersKept
  <2> QED BY <1>1, <2>1, <2>3
<1>8. DemoAccountsAt(4, B, {})
  BY ONLY <1>2, <1>5, <1>7 DEF DemoAccountsAt
<1>9. Order[4] = "voidPending"
  BY DEF Order
<1> QED BY <1>6, <1>7, <1>8, <1>9 DEF Goes

LEMMA VoidPendingGoes ==
    ASSUME NEW A, NEW P, cluster = [accounts |-> A, pending |-> P], DemoAccountsAt(4, A, P),
           step = "voidPending", checkTwoPhaseVoid
    PROVE  Goes(A, 5)
<1>1. /\ A \in Books /\ P = {} /\ Fresh(A, 5 .. 6)
      /\ Fresh(A, 13 .. 16) /\ Fresh(A, 8 .. 10) /\ Fresh(A, 11 .. 12)
  BY DEF DemoAccountsAt
<1>2. PICK t : t = Pending(5, 6, 3, 2)
  OBVIOUS
<1>3. PICK B : Reserves(A, B, 5, 6, 3, t)
  <2>1. A[5] = Empty /\ A[6] = Empty
    BY <1>1 DEF Fresh
  <2>2. /\ 5 \in 1 .. 16 /\ 6 \in 1 .. 16 /\ 5 # 6 /\ 5 # 9 /\ 5 # 11
        /\ 3 \in Nat
    OBVIOUS
  <2>3. \E B : Reserves(A, B, 5, 6, 3, Pending(5, 6, 3, 2))
    BY ONLY <1>1, <2>1, <2>2, ReservesTwo
  <2> QED BY ONLY <1>2, <2>3
<1>4. PICK r : /\ r = CreateTransfers(cluster, <<t>>) /\ r.failures = 0
               /\ r.cluster = [accounts |-> B, pending |-> {t}] /\ r.cluster.accounts = B
  <2>1. Succeeds(A, P, <<t>>, B, {t})
    BY ONLY <1>1, <1>3 DEF Reserves
  <2> QED BY ONLY <2>1, cluster = [accounts |-> A, pending |-> P], SucceedsWith
<1>5. B \in Books /\ Reservation(B, 5, 6, 3)
      /\ \A a \in Account \ {5, 6} : B[a] = A[a]
  BY <1>3 DEF Reserves
<1>6. /\ cluster' = [accounts |-> B, pending |-> {t}] /\ step' = "void"
      /\ UNCHANGED <<loop, rejected, totalTransfers, unanswered>>
  <2>1. /\ cluster' = r.cluster
        /\ step' = IF r.failures = 0 /\ r.cluster.accounts[5].debits_pending = 3
                     THEN "void" ELSE "failed"
        /\ UNCHANGED <<loop, rejected, totalTransfers, unanswered>>
    BY <1>2, <1>4, step = "voidPending", DemoIDs DEF checkTwoPhaseVoid, Check
  <2> QED BY ONLY <1>4, <1>5, <2>1 DEF Reservation
<1>7. /\ \A g \in Goroutines : B[creditOf(g)] = A[creditOf(g)]
      /\ Fresh(B, 13 .. 16) /\ Fresh(B, 8 .. 10) /\ Fresh(B, 11 .. 12)
  <2>1. PICK S : S = {5, 6}
    OBVIOUS
  <2>2. (\A a \in Account \ S : B[a] = A[a]) /\ \A a \in S : a \in 1 .. 16
    BY <1>5, <2>1
  <2>3. /\ \A g \in Goroutines : B[creditOf(g)] = A[creditOf(g)]
        /\ \A l, h \in 1 .. 16 :
              (\A a \in l .. h : a \notin S) /\ Fresh(A, l .. h) => Fresh(B, l .. h)
    BY ONLY <2>2, OthersKept
  <2> QED BY <1>1, <2>1, <2>3
<1>8. DemoAccountsAt(5, B, {t})
  BY ONLY <1>2, <1>5, <1>7 DEF DemoAccountsAt
<1>9. Order[5] = "void"
  BY DEF Order
<1> QED BY <1>6, <1>7, <1>8, <1>9 DEF Goes

LEMMA VoidGoes ==
    ASSUME NEW A, NEW P, cluster = [accounts |-> A, pending |-> P], DemoAccountsAt(5, A, P),
           step = "void", checkTwoPhaseVoid
    PROVE  Goes(A, 6)
<1>1. /\ A \in Books /\ P = {Pending(5, 6, 3, 2)} /\ Reservation(A, 5, 6, 3)
      /\ Fresh(A, 13 .. 16) /\ Fresh(A, 8 .. 10) /\ Fresh(A, 11 .. 12)
  BY DEF DemoAccountsAt
<1>2. PICK p, t : p = Pending(5, 6, 3, 2) /\ t = Settle(5, 6, 3, 2, "void_pending")
  OBVIOUS
<1>3. PICK B : Settles(A, B, 5, 6, 0, p, t)
  <2>1. PICK flag \in {"post_pending", "void_pending"} : flag = "void_pending"
    OBVIOUS
  <2>2. /\ 5 \in 1 .. 16 /\ 6 \in 1 .. 16 /\ 5 # 6 /\ 3 \in Nat
        /\ (IF flag = "post_pending" THEN 3 ELSE 0) = 0
    BY <2>1
  <2>3. \E B : Settles(A, B, 5, 6, IF flag = "post_pending" THEN 3 ELSE 0,
                      Pending(5, 6, 3, 2), Settle(5, 6, 3, 2, flag))
    BY ONLY <1>1, <2>2, flag \in {"post_pending", "void_pending"}, SettlesTwo
  <2> QED BY ONLY <1>2, <2>1, <2>2, <2>3
<1>4. PICK r : /\ r = CreateTransfers(cluster, <<t>>) /\ r.failures = 0
               /\ r.cluster = [accounts |-> B, pending |-> {}] /\ r.cluster.accounts = B
  <2>1. P = {p}
    BY ONLY <1>1, <1>2
  <2>2. Succeeds(A, P, <<t>>, B, {})
    BY ONLY <1>3, <2>1 DEF Settles
  <2> QED BY ONLY <2>2, cluster = [accounts |-> A, pending |-> P], SucceedsWith
<1>5. B \in Books /\ B[5].debits_pending = 0 /\ B[5].debits_posted = 0
      /\ \A a \in Account \ {5, 6} : B[a] = A[a]
  BY <1>3 DEF Settles
<1>6. /\ cluster' = [accounts |-> B, pending |-> {}] /\ step' = "fund"
      /\ UNCHANGED <<loop, rejected, totalTransfers, unanswered>>
  <2>1. /\ cluster' = r.cluster
        /\ step' = IF r.failures = 0 /\ r.cluster.accounts[5].debits_pending = 0 /\ r.cluster.accounts[5].debits_posted = 0
                     THEN "fund" ELSE "failed"
        /\ UNCHANGED <<loop, rejected, totalTransfers, unanswered>>
    BY <1>2, <1>4, step = "void", DemoIDs DEF checkTwoPhaseVoid, Check
  <2> QED BY ONLY <1>4, <1>5, <2>1
<1>7. /\ \A g \in Goroutines : B[creditOf(g)] = A[creditOf(g)]
      /\ Fresh(B, 13 .. 16) /\ Fresh(B, 8 .. 10) /\ Fresh(B, 11 .. 12)
  <2>1. PICK S : S = {5, 6}
    OBVIOUS
  <2>2. (\A a \in Account \ S : B[a] = A[a]) /\ \A a \in S : a \in 1 .. 16
    BY <1>5, <2>1
  <2>3. /\ \A g \in Goroutines : B[creditOf(g)] = A[creditOf(g)]
        /\ \A l, h \in 1 .. 16 :
              (\A a \in l .. h : a \notin S) /\ Fresh(A, l .. h) => Fresh(B, l .. h)
    BY ONLY <2>2, OthersKept
  <2> QED BY <1>1, <2>1, <2>3
<1>8. DemoAccountsAt(6, B, {})
  BY ONLY <1>2, <1>5, <1>7 DEF DemoAccountsAt
<1>9. Order[6] = "fund"
  BY DEF Order
<1> QED BY <1>6, <1>7, <1>8, <1>9 DEF Goes

(* Row by row. *)
LEMMA TransferredRows ==
    ASSUME NEW A \in Books, NEW B, NEW d \in Account, NEW c \in Account, d # c, NEW x \in Nat,
           Transferred(A, B, d, c, x), NEW a \in Account
    PROVE  /\ A[a] \in Row /\ B[a] \in Row
           /\ B[a].debits_posted = A[a].debits_posted + (IF a = d THEN x ELSE 0)
           /\ B[a].credits_posted = A[a].credits_posted + (IF a = c THEN x ELSE 0)
           /\ B[a].debits_pending = A[a].debits_pending
<1>1. A[a] \in Row /\ B[a] \in Row
  BY DEF Transferred, Books
<1>2. CASE a = d
  <2>1. B[a] = [A[a] EXCEPT !.debits_posted = A[a].debits_posted + x]
    BY <1>2 DEF Transferred
  <2> QED BY <1>1, <1>2, <2>1 DEF Row
<1>3. CASE a = c
  <2>1. B[a] = [A[a] EXCEPT !.credits_posted = A[a].credits_posted + x]
    BY <1>3 DEF Transferred
  <2> QED BY <1>1, <1>3, <2>1 DEF Row
<1>4. CASE a # d /\ a # c
  <2>1. B[a] = A[a]
    BY <1>4 DEF Transferred
  <2> QED BY <1>1, <1>4, <2>1 DEF Row
<1> QED BY <1>2, <1>3, <1>4

LEMMA FundGoes ==
    ASSUME NEW A, NEW P, cluster = [accounts |-> A, pending |-> P], DemoAccountsAt(6, A, P),
           step = "fund", checkWaterfall
    PROVE  Goes(A, 7)
<1>1. /\ A \in Books /\ P = {}
      /\ Fresh(A, 13 .. 16) /\ Fresh(A, 8 .. 10) /\ Fresh(A, 11 .. 12)
  BY DEF DemoAccountsAt
<1>2. PICK f, r :
         /\ f \in Fundings
         /\ r = CreateTransfers(cluster, [i \in DOMAIN f |-> Transfer(ID.bank, srcs[i], f[i], {})])
         /\ cluster' = r.cluster
         /\ step' = IF r.failures = 0 THEN "draw" ELSE "failed"
         /\ UNCHANGED <<loop, rejected, totalTransfers, unanswered>>
  <2>1. \E f \in Fundings :
           Check("fund", [i \in DOMAIN f |-> Transfer(ID.bank, srcs[i], f[i], {})], 0,
                 Nothing, "draw")
    <3>1. \/ \E f \in Fundings :
                Check("fund", [i \in DOMAIN f |-> Transfer(ID.bank, srcs[i], f[i], {})], 0,
                      Nothing, "draw")
          \/ step = "draw"
      BY ONLY checkWaterfall, Zenon DEF checkWaterfall, Check
    <3> QED BY ONLY <3>1, step = "fund"
  <2>2. PICK f \in Fundings :
           Check("fund", [i \in DOMAIN f |-> Transfer(ID.bank, srcs[i], f[i], {})], 0,
                 Nothing, "draw")
    BY <2>1
  <2> QED BY <2>2 DEF Check, Nothing
<1>3. DOMAIN f = 1 .. 3 /\ f[1] \in Nat /\ f[2] \in Nat /\ f[3] \in Nat
  <2>1. f \in Fundings
    BY <1>2
  <2>2. f \in [1 .. 3 -> Nat]
    BY ONLY <2>1, DemoAssumption
  <2> QED BY ONLY <2>2
<1>4. 7 \in Account \ Constrained /\ \A n \in 1 .. 16 : n \in Account
  BY DemoAccounts
<1>5. \A n \in 1 .. 3 : /\ Transfer(7, 13 + n, f[n], {}) \in Payments
                        /\ Transfer(7, 13 + n, f[n], {}).debit = 7
                        /\ Transfer(7, 13 + n, f[n], {}).credit = 13 + n
                        /\ Transfer(7, 13 + n, f[n], {}).amount = f[n]
  <2>1. \A n \in 1 .. 3 : f[n] \in Nat /\ 13 + n \in 1 .. 16 /\ 13 + n # 7
    <3>1. \A n \in 1 .. 3 : n = 1 \/ n = 2 \/ n = 3
      OBVIOUS
    <3> QED BY ONLY <1>3, <3>1
  <2>2. \A c \in Account : \A x \in Nat : c # 7 =>
           /\ Transfer(7, c, x, {}) \in Payments
           /\ Transfer(7, c, x, {}).debit = 7 /\ Transfer(7, c, x, {}).credit = c
           /\ Transfer(7, c, x, {}).amount = x
    BY <1>4 DEF Transfer, Payments
  <2> QED BY <1>4, <2>1, <2>2
<1>6. PICK batch \in Seq(Payments) :
         /\ batch = [i \in DOMAIN f |-> Transfer(ID.bank, srcs[i], f[i], {})] /\ Len(batch) = 3
         /\ \A n \in 1 .. 3 : /\ batch[n].debit = 7 /\ batch[n].credit = 13 + n
                              /\ batch[n].amount = f[n]
  <2> DEFINE q == [i \in 1 .. 3 |-> Transfer(7, 13 + i, f[i], {})]
  <2>1. [i \in DOMAIN f |-> Transfer(ID.bank, srcs[i], f[i], {})] = q
    BY <1>3, Sources3, DemoIDs
  <2>2. q \in [1 .. 3 -> Payments]
    BY <1>5
  <2>3. \A n \in 1 .. 3 : q[n].debit = 7 /\ q[n].credit = 13 + n /\ q[n].amount = f[n]
    BY <1>5
  <2> HIDE DEF q
  <2>4. q \in Seq(Payments) /\ Len(q) = 3
    <3>1. q \in UNION {[1 .. n -> Payments] : n \in Nat}
      BY ONLY <2>2
    <3>2. q \in Seq(Payments)
      BY ONLY <3>1, SeqDef
    <3>3. DOMAIN q = 1 .. 3 /\ DOMAIN q = 1 .. Len(q) /\ Len(q) \in Nat
      BY ONLY <2>2, <3>2, LenProperties
    <3> QED BY ONLY <3>2, <3>3
  <2> QED BY <2>1, <2>3, <2>4
<1>7. PICK k : /\ k = cluster /\ Whole(k) /\ k.accounts = A /\ k.pending = P
  <2>1. /\ Whole([accounts |-> A, pending |-> P])
        /\ [accounts |-> A, pending |-> P].accounts = A
        /\ [accounts |-> A, pending |-> P].pending = P
    BY <1>1, MakeWhole
  <2> QED BY ONLY <2>1, cluster = [accounts |-> A, pending |-> P]
<1>8. PICK acc : /\ IsPaying(acc, A, batch)
                 /\ r.cluster = [accounts |-> acc[3], pending |-> P] /\ r.failures = 0
  <2>1. PICK acc : /\ IsPaying(acc, k.accounts, batch)
                   /\ CreateTransfers(k, batch).cluster =
                         [accounts |-> acc[Len(batch)], pending |-> k.pending]
                   /\ CreateTransfers(k, batch).failures = 0
    BY <1>7, PaymentsRun
  <2> QED BY ONLY <1>2, <1>6, <1>7, <2>1
<1>9. PICK A0, A1, A2, B : A0 = acc[0] /\ A1 = acc[1] /\ A2 = acc[2] /\ B = acc[3]
  OBVIOUS
<1>10. /\ Transferred(A, A1, 7, 14, f[1]) /\ Transferred(A1, A2, 7, 15, f[2])
       /\ Transferred(A2, B, 7, 16, f[3])
  <2>1. \A n \in 1 .. 3 :
           Transferred(acc[n - 1], acc[n], batch[n].debit, batch[n].credit, batch[n].amount)
    BY <1>6, <1>8 DEF IsPaying
  <2>2. \A n \in 1 .. 3 : Transferred(acc[n - 1], acc[n], 7, 13 + n, f[n])
    BY ONLY <1>6, <2>1
  <2>3. /\ 1 \in 1 .. 3 /\ 2 \in 1 .. 3 /\ 3 \in 1 .. 3 /\ 1 - 1 = 0 /\ 2 - 1 = 1 /\ 3 - 1 = 2
        /\ 13 + 1 = 14 /\ 13 + 2 = 15 /\ 13 + 3 = 16
    OBVIOUS
  <2>4. acc[0] = A
    BY <1>8 DEF IsPaying
  <2> QED BY ONLY <1>9, <2>2, <2>3, <2>4
<1>11. A1 \in Books /\ A2 \in Books /\ B \in Books
  BY <1>10 DEF Transferred
<1>12. \A a \in Account \ {7, 14, 15, 16} : B[a] = A[a]
  BY <1>10 DEF Transferred
<1>13. \A s \in 14 .. 16 : B[s].debits_posted = 0 /\ B[s].debits_pending = 0
  <2>1. ASSUME NEW s \in 14 .. 16 PROVE B[s].debits_posted = 0 /\ B[s].debits_pending = 0
    <3>1. s \in Account /\ s # 7 /\ A[s] = Empty
      BY <1>1, <1>4 DEF Fresh
    <3>2. 7 \in Account /\ 14 \in Account /\ 15 \in Account /\ 16 \in Account
      BY <1>4
    <3>3. A1[s].debits_posted = A[s].debits_posted + 0 /\ A1[s].debits_pending = A[s].debits_pending
      BY ONLY <1>1, <1>3, <1>10, <3>1, <3>2, TransferredRows
    <3>4. /\ A2[s].debits_posted = A1[s].debits_posted + 0
          /\ A2[s].debits_pending = A1[s].debits_pending
      BY ONLY <1>3, <1>10, <1>11, <3>1, <3>2, TransferredRows
    <3>5. B[s].debits_posted = A2[s].debits_posted + 0 /\ B[s].debits_pending = A2[s].debits_pending
      BY ONLY <1>3, <1>10, <1>11, <3>1, <3>2, TransferredRows
    <3> QED BY ONLY <3>1, <3>3, <3>4, <3>5 DEF Empty
  <2> QED BY <2>1
<1>14. /\ \A g \in Goroutines : B[creditOf(g)] = A[creditOf(g)]
       /\ Fresh(B, 8 .. 10) /\ Fresh(B, 11 .. 12) /\ B[13] = Empty
  <2>1. PICK S : S = {7, 14, 15, 16}
    OBVIOUS
  <2>2. (\A a \in Account \ S : B[a] = A[a]) /\ \A a \in S : a \in 1 .. 16
    BY <1>12, <2>1
  <2>3. /\ \A g \in Goroutines : B[creditOf(g)] = A[creditOf(g)]
        /\ \A l, h \in 1 .. 16 :
              (\A a \in l .. h : a \notin S) /\ Fresh(A, l .. h) => Fresh(B, l .. h)
    BY ONLY <2>2, OthersKept
  <2>4. B[13] = Empty
    <3>1. 13 \in Account \ {7, 14, 15, 16} /\ 13 \in 13 .. 16
      BY <1>4
    <3> QED BY <1>1, <1>12, <3>1 DEF Fresh
  <2> QED BY <1>1, <2>1, <2>3, <2>4
<1>15. cluster' = [accounts |-> B, pending |-> {}] /\ step' = "draw"
       /\ UNCHANGED <<loop, rejected, totalTransfers, unanswered>>
  BY ONLY <1>1, <1>2, <1>8, <1>9
<1>16. DemoAccountsAt(7, B, {})
  BY ONLY <1>11, <1>13, <1>14 DEF DemoAccountsAt
<1>17. Order[7] = "draw"
  BY DEF Order
<1> QED BY <1>14, <1>15, <1>16, <1>17 DEF Goes

LEMMA LinkedFundGoes ==
    ASSUME NEW A, NEW P, cluster = [accounts |-> A, pending |-> P], DemoAccountsAt(8, A, P),
           step = "linkedFund", checkLinkedBatch
    PROVE  Goes(A, 9)
<1>1. A \in Books /\ P = {} /\ Fresh(A, 8 .. 10) /\ Fresh(A, 11 .. 12)
  BY DEF DemoAccountsAt
<1>2. PICK t : t = Transfer(7, 8, 2, {})
  OBVIOUS
<1>3. t.debit = 7 /\ t.credit = 8 /\ t.amount = 2 /\ t \in Payments
  <2>1. 7 \in Account \ Constrained /\ 8 \in Account
    BY DemoAccounts
  <2> QED BY <1>2, <2>1 DEF Transfer, Payments
<1>4. PICK B : Succeeds(A, P, <<t>>, B, P) /\ Transferred(A, B, 7, 8, 2)
  BY <1>1, <1>3, OnePayment DEF Succeeds
<1>5. PICK r : /\ r = CreateTransfers(cluster, <<t>>) /\ r.failures = 0
               /\ r.cluster = [accounts |-> B, pending |-> P] /\ r.cluster.accounts = B
  BY ONLY <1>4, cluster = [accounts |-> A, pending |-> P], SucceedsWith
<1>6. /\ cluster' = [accounts |-> B, pending |-> {}] /\ step' = "linked"
      /\ UNCHANGED <<loop, rejected, totalTransfers, unanswered>>
  <2>1. /\ cluster' = r.cluster
        /\ step' = IF r.failures = 0 THEN "linked" ELSE "failed"
        /\ UNCHANGED <<loop, rejected, totalTransfers, unanswered>>
    BY <1>2, <1>5, step = "linkedFund", DemoIDs DEF checkLinkedBatch, Check, Nothing
  <2> QED BY ONLY <1>1, <1>5, <2>1
<1>7. B \in Books /\ \A a \in Account \ {7, 8} : B[a] = A[a]
  BY <1>4 DEF Transferred
<1>8. /\ \A g \in Goroutines : B[creditOf(g)] = A[creditOf(g)]
      /\ Fresh(B, 9 .. 10) /\ Fresh(B, 11 .. 12)
  <2>1. PICK S : S = {7, 8}
    OBVIOUS
  <2>2. (\A a \in Account \ S : B[a] = A[a]) /\ \A a \in S : a \in 1 .. 16
    BY <1>7, <2>1
  <2>3. /\ \A g \in Goroutines : B[creditOf(g)] = A[creditOf(g)]
        /\ \A l, h \in 1 .. 16 :
              (\A a \in l .. h : a \notin S) /\ Fresh(A, l .. h) => Fresh(B, l .. h)
    BY ONLY <2>2, OthersKept
  <2>4. Fresh(A, 9 .. 10)
    BY <1>1 DEF Fresh
  <2> QED BY <1>1, <2>1, <2>3, <2>4
<1>9. B[8].debits_posted = 0 /\ B[9] = Empty /\ B[10] = Empty
  <2>1. A[8] = Empty /\ 8 \in Account /\ 7 \in Account
    BY <1>1, DemoAccounts DEF Fresh
  <2>2. PICK d \in Account, c \in Account, x \in Nat : d = 7 /\ c = 8 /\ x = 2
    BY <2>1
  <2>3. B[c].debits_posted = A[c].debits_posted + (IF c = d THEN x ELSE 0)
    <3>1. Transferred(A, B, d, c, x) /\ d # c
      BY ONLY <1>4, <2>2
    <3> QED BY ONLY <1>1, <3>1, d \in Account, c \in Account, x \in Nat, TransferredRows
  <2>4. B[8].debits_posted = 0
    BY ONLY <2>1, <2>2, <2>3 DEF Empty
  <2> QED BY <1>8, <2>4 DEF Fresh
<1>10. DemoAccountsAt(9, B, {})
  BY ONLY <1>7, <1>8, <1>9 DEF DemoAccountsAt
<1>11. Order[9] = "linked"
  BY DEF Order
<1> QED BY <1>6, <1>8, <1>10, <1>11 DEF Goes

LEMMA LinkedGoes ==
    ASSUME NEW A, NEW P, cluster = [accounts |-> A, pending |-> P], DemoAccountsAt(9, A, P),
           step = "linked", checkLinkedBatch
    PROVE  Goes(A, 10)
<1>1. /\ A \in Books /\ P = {} /\ Fresh(A, 11 .. 12)
      /\ A[8].debits_posted = 0 /\ A[9] = Empty /\ A[10] = Empty
  BY DEF DemoAccountsAt
<1>2. PICK s, t : s = Transfer(8, 10, 1, {"linked"}) /\ t = Transfer(9, 10, 1, {})
  OBVIOUS
<1>3. /\ s.debit = 8 /\ s.credit = 10 /\ s.amount = 1 /\ s.flags = {"linked"} /\ s \in Payments
      /\ t.debit = 9 /\ t.credit = 10 /\ t.amount = 1 /\ t.flags = {}
  <2>1. 8 \in Account \ Constrained /\ 10 \in Account
    BY DemoAccounts
  <2> QED BY <1>2, <2>1 DEF Transfer, Payments
<1>4. PICK k : /\ k = cluster /\ Whole(k) /\ k.accounts = A /\ k.pending = P
  <2>1. /\ Whole([accounts |-> A, pending |-> P])
        /\ [accounts |-> A, pending |-> P].accounts = A
        /\ [accounts |-> A, pending |-> P].pending = P
    BY <1>1, MakeWhole
  <2> QED BY ONLY <2>1, cluster = [accounts |-> A, pending |-> P]
<1>5. Execute(k, s).result = "ok" /\ Execute(k, s).cluster.accounts[9] = Empty
  <2>1. PICK B : Succeeds(A, P, <<s>>, B, P) /\ Transferred(A, B, 8, 10, 1)
    BY <1>1, <1>3, OnePayment DEF Succeeds
  <2>2. PICK e : e = Execute(k, s)
    OBVIOUS
  <2>3. CreateTransfers(k, <<s>>) = IF e.result = "ok" THEN [cluster |-> e.cluster, failures |-> 0]
                                    ELSE [cluster |-> k, failures |-> 1]
    BY ONLY <2>2, OneTransfer
  <2>4. PICK r : r = CreateTransfers(k, <<s>>) /\ r.failures = 0 /\ r.cluster.accounts = B
    <3>1. PICK r : /\ r = CreateTransfers(cluster, <<s>>) /\ r.failures = 0
                   /\ r.cluster = [accounts |-> B, pending |-> P] /\ r.cluster.accounts = B
      BY ONLY <2>1, cluster = [accounts |-> A, pending |-> P], SucceedsWith
    <3> QED BY ONLY <1>4, <3>1
  <2>5. e.result = "ok" /\ e.cluster = r.cluster
    BY ONLY <2>3, <2>4
  <2>6. B[9] = Empty
    <3>1. 9 \in Account
      BY DemoAccounts
    <3> QED BY <1>1, <2>1, <3>1 DEF Transferred
  <2> QED BY ONLY <2>2, <2>4, <2>5, <2>6
<1>6. Execute(Execute(k, s).cluster, t).result # "ok"
  <2>1. 9 \in Constrained
    BY DemoAccounts
  <2>2. PICK w : w = Execute(k, s).cluster /\ w.accounts[t.debit] = Empty
    BY <1>3, <1>5
  <2>3. t.flags = {} /\ t.debit \in Constrained /\ t.amount \in Nat \ {0}
    BY <1>3, <2>1
  <2> QED BY ONLY <2>2, <2>3, ExecuteStrict
<1>7. PICK r : /\ r = CreateTransfers(cluster, <<s, t>>) /\ r.failures = 2 /\ r.cluster = k
  <2>1. "linked" \in s.flags /\ "linked" \notin t.flags
    BY <1>3
  <2>2. CreateTransfers(k, <<s, t>>) = [cluster |-> k, failures |-> 2]
    BY ONLY <1>5, <1>6, <2>1, BrokenPair
  <2> QED BY ONLY <1>4, <2>2
<1>8. /\ cluster' = [accounts |-> A, pending |-> {}] /\ step' = "constraint"
      /\ UNCHANGED <<loop, rejected, totalTransfers, unanswered>>
  <2>1. /\ cluster' = r.cluster
        /\ step' = IF r.failures = 2 /\ r.cluster.accounts[8].debits_posted = 0
                      /\ r.cluster.accounts[10].credits_posted = 0
                     THEN "constraint" ELSE "failed"
        /\ UNCHANGED <<loop, rejected, totalTransfers, unanswered>>
    BY <1>2, <1>7, step = "linked", DemoIDs DEF checkLinkedBatch, Check
  <2>2. A[8].debits_posted = 0 /\ A[10].credits_posted = 0
    BY <1>1 DEF Empty
  <2> QED BY ONLY <1>1, <1>4, <1>7, <2>1, <2>2, cluster = [accounts |-> A, pending |-> P]
<1>9. DemoAccountsAt(10, A, {})
  BY ONLY <1>1 DEF DemoAccountsAt
<1>10. Order[10] = "constraint"
  BY DEF Order
<1> QED BY <1>8, <1>9, <1>10 DEF Goes

LEMMA ConstraintGoes ==
    ASSUME NEW A, NEW P, cluster = [accounts |-> A, pending |-> P], DemoAccountsAt(10, A, P),
           checkBalanceConstraint
    PROVE  Goes(A, 11)
<1>1. A \in Books /\ P = {} /\ Fresh(A, 11 .. 12)
  BY DEF DemoAccountsAt
<1>2. PICK t : t = Transfer(11, 12, 1, {})
  OBVIOUS
<1>3. t.debit = 11 /\ t.amount = 1 /\ t.flags = {}
  BY <1>2 DEF Transfer
<1>4. A[11] = Empty /\ A[12] = Empty
  BY <1>1 DEF Fresh
<1>5. Execute(cluster, t).result # "ok"
  <2>1. 11 \in Constrained
    BY DemoAccounts
  <2>2. t.flags = {} /\ t.debit \in Constrained /\ t.amount \in Nat \ {0}
    BY <1>3, <2>1
  <2>3. cluster.accounts[t.debit] = Empty
    BY <1>3, <1>4
  <2> QED BY ONLY <2>2, <2>3, ExecuteStrict
<1>6. PICK r : /\ r = CreateTransfers(cluster, <<t>>) /\ r.failures = 1 /\ r.cluster = cluster
  <2>1. PICK k, e : k = cluster /\ e = Execute(k, t)
    OBVIOUS
  <2>2. CreateTransfers(k, <<t>>) = IF e.result = "ok" THEN [cluster |-> e.cluster, failures |-> 0]
                                    ELSE [cluster |-> k, failures |-> 1]
    BY ONLY <2>1, OneTransfer
  <2>3. e.result # "ok"
    BY ONLY <1>5, <2>1
  <2> QED BY ONLY <2>1, <2>2, <2>3
<1>7. /\ cluster' = [accounts |-> A, pending |-> {}] /\ step' = "throughput"
      /\ UNCHANGED <<loop, rejected, totalTransfers, unanswered>>
  <2>1. /\ cluster' = r.cluster
        /\ step' = IF r.failures = 1 /\ r.cluster.accounts[12].credits_posted = 0
                     THEN "throughput" ELSE "failed"
        /\ UNCHANGED <<loop, rejected, totalTransfers, unanswered>>
    BY <1>2, <1>6, DemoIDs DEF checkBalanceConstraint, Check
  <2>2. r.cluster.accounts[12].credits_posted = 0
    BY <1>4, <1>6 DEF Empty
  <2> QED BY ONLY <1>1, <1>6, <2>1, <2>2, cluster = [accounts |-> A, pending |-> P]
<1>8. DemoAccountsAt(11, A, {})
  BY ONLY <1>1 DEF DemoAccountsAt
<1>9. Order[11] = "throughput"
  BY DEF Order
<1> QED BY <1>7, <1>8, <1>9 DEF Goes

(* What the three sources hold together. *)
Held(A) == FoldLeft(LAMBDA sum, s : sum + available(A[s]), 0, srcs)

LEMMA AvailableSum ==
    ASSUME NEW A, Availables(A)
    PROVE  Held(A) = available(A[14]) + available(A[15]) + available(A[16])
<1> DEFINE u == [n \in 1 .. 3 |-> available(A[13 + n])]
           F == [w \in (1 .. 3) \X Nat |-> w[2] + u[w[1]]]
           Adding(G) == G = [S \in SUBSET (DOMAIN srcs) |->
                               IF S = {} THEN 0
                               ELSE G[S \ {Max(S)}] + available(A[srcs[Max(S)]])]
           H == CHOOSE G : Adding(G)
<1>1. Held(A) = H[DOMAIN srcs]
  BY DEF Held, FoldLeft, MapThenFoldSet
<1>2. \A n \in 1 .. 3 : u[n] = available(A[srcs[n]]) /\ u[n] \in Nat
  BY Sources3 DEF Availables
<1> HIDE DEF u
<1>3. F \in [(1 .. 3) \X Nat -> Nat]
  BY <1>2
<1>4. \A n \in 1 .. 3 : \A v \in Nat : F[<<n, v>>] = v + u[n]
  OBVIOUS
<1> HIDE DEF F
<1>5. \A S \in SUBSET (1 .. 3) : S # {} => Max(S) \in 1 .. 3
  BY GreatestOf
<1>6. ASSUME NEW G, Folding(G, Nat, 0, F, 3) PROVE Adding(G)
  <2>1. ASSUME NEW S \in SUBSET (1 .. 3)
        PROVE  G[S] = IF S = {} THEN 0 ELSE G[S \ {Max(S)}] + available(A[srcs[Max(S)]])
    <3>1. CASE S = {}
      BY <1>6, <3>1 DEF Folding
    <3>2. CASE S # {}
      <4>1. PICK m \in 1 .. 3 : m = Max(S)
        BY <1>5, <3>2
      <4>2. PICK v \in Nat : v = G[S \ {m}]
        <5>1. S \ {m} \in SUBSET (1 .. 3)
          OBVIOUS
        <5> QED BY <1>6, <5>1 DEF Folding
      <4>3. G[S] = F[<<m, v>>]
        BY <1>6, <3>2, <4>1, <4>2 DEF Folding
      <4>4. F[<<m, v>>] = v + u[m] /\ u[m] = available(A[srcs[m]])
        BY <1>2, <1>4
      <4> QED BY ONLY <3>2, <4>1, <4>2, <4>3, <4>4
    <3> QED BY <3>1, <3>2
  <2>2. G = [S \in SUBSET (1 .. 3) |-> G[S]]
    BY <1>6 DEF Folding
  <2> QED BY <2>1, <2>2, Sources3
<1>7. \E G : Adding(G)
  <2>1. 0 \in Nat /\ 3 \in Nat
    OBVIOUS
  <2>2. \E G : Folding(G, Nat, 0, F, 3)
    BY ONLY <1>3, <2>1, FoldingExists
  <2> QED BY <1>6, <2>2
<1>8. Adding(H)
  BY <1>7
<1> HIDE DEF H
<1>9. H[{}] = 0 /\ \A n \in 1 .. 3 : H[1 .. n] = H[1 .. (n - 1)] + u[n]
  <2>1. {} \in SUBSET (1 .. 3) /\ DOMAIN srcs = 1 .. 3
    BY Sources3
  <2>2. ASSUME NEW n \in 1 .. 3 PROVE H[1 .. n] = H[1 .. (n - 1)] + u[n]
    <3>1. /\ 1 .. n \in SUBSET (1 .. 3) /\ 1 .. n # {}
          /\ Max(1 .. n) = n /\ (1 .. n) \ {n} = 1 .. (n - 1)
      BY LastOf
    <3> QED BY <1>2, <1>8, <2>1, <3>1
  <2> QED BY <1>8, <2>1, <2>2
<1>10. H[1 .. 3] = u[1] + u[2] + u[3]
  <2>1. /\ 1 \in 1 .. 3 /\ 2 \in 1 .. 3 /\ 3 \in 1 .. 3
        /\ 1 - 1 = 0 /\ 2 - 1 = 1 /\ 3 - 1 = 2 /\ 1 .. 0 = {}
    OBVIOUS
  <2>2. /\ H[1 .. 1] = H[{}] + u[1] /\ H[1 .. 2] = H[1 .. 1] + u[2]
        /\ H[1 .. 3] = H[1 .. 2] + u[3]
    BY ONLY <1>9, <2>1
  <2>3. u[1] \in Nat /\ u[2] \in Nat /\ u[3] \in Nat
    BY ONLY <1>2, <2>1
  <2> QED BY ONLY <1>9, <2>2, <2>3
<1>11. u[1] = available(A[14]) /\ u[2] = available(A[15]) /\ u[3] = available(A[16])
  <2>1. 1 \in 1 .. 3 /\ 2 \in 1 .. 3 /\ 3 \in 1 .. 3
    OBVIOUS
  <2>2. /\ u[1] = available(A[srcs[1]]) /\ u[2] = available(A[srcs[2]])
        /\ u[3] = available(A[srcs[3]])
    BY ONLY <1>2, <2>1
  <2>3. srcs[1] = 14 /\ srcs[2] = 15 /\ srcs[3] = 16
    BY Sources3
  <2> QED BY ONLY <2>2, <2>3
<1> QED BY <1>1, <1>10, <1>11, Sources3

(* The sources have paid x in all, and the destination has received it. *)
Paying3(A, B, p, x, n, w) ==
    /\ B \in Books
    /\ \A a \in Account \ (13 .. 16) : B[a] = A[a]
    /\ B[13].credits_posted = w
    /\ \A s \in 1 .. 3 :
          /\ B[13 + s].debits_posted = IF \E i \in 1 .. n : p[i].debit = 13 + s THEN x[s] ELSE 0
          /\ B[13 + s].debits_pending = 0 /\ B[13 + s].credits_posted = A[13 + s].credits_posted

LEMMA Paying3Step ==
    ASSUME NEW A, NEW B, NEW C, NEW p \in Seq(Draws), NEW x \in [1 .. 3 -> Nat], Shape(p, 3, x),
           NEW n \in 0 .. Len(p) - 1, NEW w \in Nat, Paying3(A, B, p, x, n, w),
           Transferred(B, C, p[n + 1].debit, 13, p[n + 1].amount)
    PROVE  Paying3(A, C, p, x, n + 1, w + p[n + 1].amount)
<1>1. PICK L \in Nat : L = Len(p)
  BY LenProperties
<1>2. n + 1 \in 1 .. L /\ n \in Nat /\ \A i \in 1 .. n : i \in 1 .. L /\ i # n + 1
  BY ONLY <1>1, n \in 0 .. Len(p) - 1
<1>3. PICK s0 \in 1 .. 3 : p[n + 1] = Transfer(13 + s0, 13, x[s0], {})
  BY <1>1, <1>2 DEF Shape
<1>4. PICK d \in 14 .. 16, v \in Nat :
         d = 13 + s0 /\ v = x[s0] /\ p[n + 1].debit = d /\ p[n + 1].amount = v
  <2>1. 13 + s0 \in 14 .. 16 /\ x[s0] \in Nat
    BY ONLY x \in [1 .. 3 -> Nat], s0 \in 1 .. 3
  <2> QED BY ONLY <1>3, <2>1 DEF Transfer
<1>5. \A s \in 1 .. 3 : 13 + s \in Account /\ 13 + s # 13 /\ (13 + s = d <=> s = s0)
  <2>1. \A s \in 1 .. 3 : 13 + s \in 1 .. 16 /\ 13 + s # 13 /\ (13 + s = 13 + s0 <=> s = s0)
    OBVIOUS
  <2> QED BY <1>4, <2>1, DemoAccounts
<1>6. B \in Books /\ d \in Account /\ 13 \in Account /\ d # 13 /\ Transferred(B, C, d, 13, v)
  <2>1. 13 \in 1 .. 16 /\ d \in 1 .. 16 /\ d # 13
    OBVIOUS
  <2>2. 13 \in Account /\ d \in Account
    BY <2>1, DemoAccounts
  <2> QED BY <1>4, <2>1, <2>2 DEF Paying3
<1>7. \A a \in Account :
         /\ B[a] \in Row
         /\ C[a].debits_posted = B[a].debits_posted + (IF a = d THEN v ELSE 0)
         /\ C[a].credits_posted = B[a].credits_posted + (IF a = 13 THEN v ELSE 0)
         /\ C[a].debits_pending = B[a].debits_pending
  <2> SUFFICES ASSUME NEW a \in Account
               PROVE  /\ B[a] \in Row
                      /\ C[a].debits_posted = B[a].debits_posted + (IF a = d THEN v ELSE 0)
                      /\ C[a].credits_posted = B[a].credits_posted + (IF a = 13 THEN v ELSE 0)
                      /\ C[a].debits_pending = B[a].debits_pending
    OBVIOUS
  <2> QED BY ONLY <1>6, v \in Nat, a \in Account, TransferredRows
<1>8. C \in Books /\ \A a \in Account \ (13 .. 16) : C[a] = A[a]
  <2>1. \A a \in Account \ (13 .. 16) : a # d /\ a # 13
    OBVIOUS
  <2> QED BY <1>6, <2>1 DEF Transferred, Paying3
<1>9. C[13].credits_posted = w + v
  BY <1>6, <1>7 DEF Paying3
<1>10. ~ \E i \in 1 .. n : p[i].debit = 13 + s0
  BY <1>1, <1>2, <1>4 DEF Shape
<1>11. ASSUME NEW s \in 1 .. 3
       PROVE  /\ C[13 + s].debits_posted =
                    IF \E i \in 1 .. n + 1 : p[i].debit = 13 + s THEN x[s] ELSE 0
              /\ C[13 + s].debits_pending = 0
              /\ C[13 + s].credits_posted = A[13 + s].credits_posted
  <2>1. PICK a \in Account : a = 13 + s /\ a # 13 /\ (a = d <=> s = s0)
    BY <1>5
  <2>2. /\ B[a].debits_posted = IF \E i \in 1 .. n : p[i].debit = 13 + s THEN x[s] ELSE 0
        /\ B[a].debits_pending = 0 /\ B[a].credits_posted = A[a].credits_posted
    BY <2>1 DEF Paying3
  <2>3. /\ C[a].debits_posted = B[a].debits_posted + (IF a = d THEN v ELSE 0)
        /\ C[a].credits_posted = B[a].credits_posted + 0
        /\ C[a].debits_pending = B[a].debits_pending /\ B[a] \in Row
    BY ONLY <1>7, <2>1
  <2>4. C[a].credits_posted = A[a].credits_posted /\ C[a].debits_pending = 0
    <3>1. B[a].credits_posted \in Nat
      BY ONLY <2>3 DEF Row
    <3> QED BY ONLY <2>2, <2>3, <3>1
  <2>5. (\E i \in 1 .. n + 1 : p[i].debit = 13 + s)
        <=> (\E i \in 1 .. n : p[i].debit = 13 + s) \/ p[n + 1].debit = 13 + s
    <3>1. \A i \in 1 .. n + 1 : i \in 1 .. n \/ i = n + 1
      BY <1>2
    <3>2. n + 1 \in 1 .. n + 1 /\ \A i \in 1 .. n : i \in 1 .. n + 1
      BY <1>2
    <3> QED BY ONLY <3>1, <3>2
  <2>6. CASE s = s0
    BY ONLY <1>4, <1>10, <2>1, <2>2, <2>3, <2>4, <2>5, <2>6
  <2>7. CASE s # s0
    <3>1. p[n + 1].debit # 13 + s
      BY ONLY <1>4, <2>1, <2>7
    <3>2. C[a].debits_posted = B[a].debits_posted
      <4>1. B[a].debits_posted \in Nat /\ a # d
        BY ONLY <2>1, <2>3, <2>7 DEF Row
      <4> QED BY ONLY <2>3, <4>1
    <3> QED BY ONLY <2>1, <2>2, <2>4, <2>5, <3>1, <3>2
  <2> QED BY <2>6, <2>7
<1> QED BY <1>4, <1>8, <1>9, <1>11 DEF Paying3

(* Linking the transfers of a plan leaves what they move.                     *)
Links(q, p) ==
    /\ q \in Seq(Payments) /\ q = Linked(p) /\ Len(q) = Len(p)
    /\ \A i \in 1 .. Len(p) :
          q[i].debit = p[i].debit /\ q[i].credit = 13 /\ q[i].amount = p[i].amount

LEMMA LinkedPayments ==
    ASSUME NEW p \in Seq(Draws)
    PROVE  \E q : Links(q, p)
<1> DEFINE q == [i \in 1 .. Len(p) |->
                   IF i < Len(p) THEN [p[i] EXCEPT !.flags = {"linked"}] ELSE p[i]]
<1>1. PICK L \in Nat : L = Len(p) /\ DOMAIN p = 1 .. L /\ \A i \in 1 .. L : p[i] \in Draws
  BY LenProperties
<1>2. \A s \in 14 .. 16 : s \in Account /\ s \notin Constrained /\ s # 13
  <2>1. \A s \in 14 .. 16 : s \in 1 .. 16 /\ s # 9 /\ s # 11 /\ s # 13
    OBVIOUS
  <2> QED BY <2>1, DemoAccounts
<1>3. 13 \in Account
  BY DemoAccounts
<1>4. \A t \in Draws : t \in Payments /\ t.credit = 13 /\ [t EXCEPT !.flags = {"linked"}] \in Payments
  BY <1>2, <1>3 DEF Draws, Payments
<1>5. \A t \in Draws : /\ [t EXCEPT !.flags = {"linked"}].debit = t.debit
                       /\ [t EXCEPT !.flags = {"linked"}].credit = t.credit
                       /\ [t EXCEPT !.flags = {"linked"}].amount = t.amount
  BY DEF Draws
<1>6. q = Linked(p)
  BY <1>1 DEF Linked
<1>7. \A i \in 1 .. L : q[i] = IF i < L THEN [p[i] EXCEPT !.flags = {"linked"}] ELSE p[i]
  BY <1>1
<1>8. q \in [1 .. L -> Payments]
  BY <1>1, <1>4
<1> HIDE DEF q
<1>9. \A i \in 1 .. L : /\ q[i].debit = p[i].debit /\ q[i].credit = 13
                        /\ q[i].amount = p[i].amount
  <2>1. ASSUME NEW i \in 1 .. L
        PROVE  q[i].debit = p[i].debit /\ q[i].credit = 13 /\ q[i].amount = p[i].amount
    <3>1. PICK t \in Draws : t = p[i] /\ t.credit = 13
      BY <1>1, <1>4
    <3>2. q[i] = t \/ q[i] = [t EXCEPT !.flags = {"linked"}]
      BY <1>7, <3>1
    <3> QED BY ONLY <1>5, <3>1, <3>2
  <2> QED BY <2>1
<1>10. q \in Seq(Payments) /\ Len(q) = L
  <2>1. q \in UNION {[1 .. n -> Payments] : n \in Nat}
    BY ONLY <1>8
  <2>2. q \in Seq(Payments)
    BY ONLY <2>1, SeqDef
  <2>3. DOMAIN q = 1 .. L /\ DOMAIN q = 1 .. Len(q) /\ Len(q) \in Nat
    BY ONLY <1>8, <2>2, LenProperties
  <2> QED BY ONLY <2>2, <2>3
<1> QED BY ONLY <1>1, <1>6, <1>9, <1>10 DEF Links

Unpaid(A) ==
    /\ A \in Books /\ A[13] = Empty
    /\ \A s \in 14 .. 16 : A[s].debits_posted = 0 /\ A[s].debits_pending = 0

LEMMA PlanPays ==
    ASSUME NEW A, Unpaid(A), NEW p \in Seq(Draws), NEW x \in [1 .. 3 -> Nat], Shape(p, 3, x),
           NEW q, Links(q, p), NEW acc, IsPaying(acc, A, q)
    PROVE  Paying3(A, acc[Len(p)], p, x, Len(p), Drawn(p))
<1>1. PICK ds : IsSum(ds, p) /\ Drawn(p) = ds[Len(p)]
  BY DrawnRun
<1>2. PICK L \in Nat : L = Len(p)
  BY LenProperties
<1> DEFINE T == {m \in 0 .. L : Paying3(A, acc[m], p, x, m, ds[m])}
<1>3. 0 \in T
  <2>1. acc[0] = A /\ ds[0] = 0 /\ 0 \in 0 .. L
    BY <1>1, <1>2 DEF IsPaying, IsSum
  <2>2. \A i \in 1 .. 0 : FALSE
    OBVIOUS
  <2>3. \A s \in 1 .. 3 : 13 + s \in 14 .. 16
    OBVIOUS
  <2>4. A[13].credits_posted = 0
    BY DEF Unpaid, Empty
  <2>5. Paying3(A, A, p, x, 0, 0)
    BY <2>2, <2>3, <2>4 DEF Paying3, Unpaid
  <2> QED BY <2>1, <2>5
<1>4. ASSUME NEW m \in 0 .. L - 1, m \in T PROVE m + 1 \in T
  <2>1. /\ m + 1 \in 1 .. L /\ m + 1 \in 0 .. L /\ (m + 1) - 1 = m /\ m \in 0 .. L
        /\ m \in 0 .. Len(p) - 1
    BY <1>2
  <2>2. PICK w, B, C : w \in Nat /\ w = ds[m] /\ B = acc[m] /\ C = acc[m + 1]
    BY <1>1, <1>2, <2>1 DEF IsSum
  <2>3. Paying3(A, B, p, x, m, w)
    BY <1>4, <2>2
  <2>4. Transferred(B, C, p[m + 1].debit, 13, p[m + 1].amount)
    <3>1. Transferred(acc[(m + 1) - 1], acc[m + 1], q[m + 1].debit, q[m + 1].credit,
                      q[m + 1].amount)
      BY <1>2, <2>1 DEF IsPaying, Links
    <3>2. q[m + 1].debit = p[m + 1].debit /\ q[m + 1].credit = 13 /\ q[m + 1].amount = p[m + 1].amount
      BY <1>2, <2>1 DEF Links
    <3> QED BY ONLY <2>1, <2>2, <3>1, <3>2
  <2>5. Paying3(A, C, p, x, m + 1, w + p[m + 1].amount)
    BY <1>2, <2>1, <2>2, <2>3, <2>4, Paying3Step
  <2>6. ds[m + 1] = w + p[m + 1].amount
    <3>1. ds[m + 1] = ds[(m + 1) - 1] + p[m + 1].amount
      BY <1>1, <1>2, <2>1 DEF IsSum
    <3> QED BY ONLY <2>1, <2>2, <3>1
  <2> QED BY ONLY <2>1, <2>2, <2>5, <2>6
<1>5. \A m \in 0 .. L : m \in T
  <2> HIDE DEF T
  <2> QED BY <1>3, <1>4, Climb
<1>6. L \in 0 .. L
  OBVIOUS
<1> QED BY ONLY <1>1, <1>2, <1>5, <1>6

(* The assertions of the waterfall hold of the accounts B that it leaves.      *)
LEMMA UnpaidAvailable ==
    ASSUME NEW A, Unpaid(A)
    PROVE  /\ Availables(A)
           /\ \A s \in 14 .. 16 : available(A[s]) = A[s].credits_posted
<1>1. ASSUME NEW s \in 14 .. 16
      PROVE  available(A[s]) = A[s].credits_posted /\ available(A[s]) \in Nat
  <2>1. s \in Account
    <3>1. s \in 1 .. 16
      OBVIOUS
    <3> QED BY <3>1, DemoAccounts
  <2>2. A[s] \in Row /\ A[s].debits_posted = 0 /\ A[s].debits_pending = 0
    BY <2>1 DEF Unpaid, Books
  <2>3. PICK c \in Nat : c = A[s].credits_posted
    BY ONLY <2>2 DEF Row
  <2>4. available(A[s]) = Sub(c, 0 + 0)
    BY ONLY <2>2, <2>3 DEF available
  <2> QED BY ONLY <2>3, <2>4 DEF Sub
<1> QED BY <1>1 DEF Availables

LEMMA DrawAsserts ==
    ASSUME NEW A, Unpaid(A), NEW target \in Nat, NEW p, NEW x, PlanOf(A, target, p, x),
           target <= available(A[14]) + available(A[15]) + available(A[16]),
           NEW B, Paying3(A, B, p, x, Len(p), Drawn(p))
    PROVE  B[13].credits_posted = target /\ InOrder(B, srcs)
<1>1. Availables(A) /\ \A s \in 14 .. 16 : available(A[s]) = A[s].credits_posted
  BY UnpaidAvailable
<1>2. /\ Drawn(p) = target
      /\ \A s \in 1 .. 3 : x[s] > 0 => \A i \in 1 .. s - 1 : x[i] = available(A[13 + i])
  BY <1>1, PlanCovers
<1>3. B[13].credits_posted = target
  BY <1>2 DEF Paying3
<1>4. x \in [1 .. 3 -> Nat] /\ Shape(p, 3, x)
  BY DEF PlanOf
<1>5. ASSUME NEW s \in 1 .. 3
      PROVE  /\ B[13 + s].debits_posted = x[s]
             /\ available(B[13 + s]) = Sub(available(A[13 + s]), x[s] + 0)
  <2>1. x[s] \in Nat /\ 13 + s \in 14 .. 16
    BY <1>4
  <2>2. B[13 + s].debits_posted = x[s]
    <3>1. x[s] > 0 => \E i \in 1 .. Len(p) : p[i].debit = 13 + s
      BY <1>4 DEF Shape
    <3>2. B[13 + s].debits_posted =
             IF \E i \in 1 .. Len(p) : p[i].debit = 13 + s THEN x[s] ELSE 0
      BY DEF Paying3
    <3> QED BY ONLY <2>1, <3>1, <3>2
  <2>3. B[13 + s].debits_pending = 0 /\ B[13 + s].credits_posted = A[13 + s].credits_posted
    BY DEF Paying3
  <2>4. PICK u : u = available(A[13 + s]) /\ u = A[13 + s].credits_posted
    BY ONLY <1>1, <2>1
  <2>5. available(B[13 + s]) = Sub(u, x[s] + 0)
    BY ONLY <2>2, <2>3, <2>4 DEF available
  <2> QED BY ONLY <2>2, <2>4, <2>5
<1>6. ASSUME NEW j \in 1 .. 3, B[13 + j].debits_posted > 0, NEW i \in 1 .. j - 1
      PROVE  available(B[13 + i]) = 0
  <2>1. i \in 1 .. 3
    OBVIOUS
  <2>2. x[j] > 0
    BY <1>5, <1>6
  <2>3. x[i] = available(A[13 + i])
    BY <1>2, <2>2
  <2>4. x[i] \in Nat
    BY <1>4, <2>1
  <2>5. available(B[13 + i]) = Sub(x[i], x[i] + 0)
    BY ONLY <1>5, <2>1, <2>3
  <2> QED BY ONLY <2>4, <2>5 DEF Sub
<1>7. InOrder(B, srcs)
  <2>1. ASSUME NEW j \in 1 .. 3, B[srcs[j]].debits_posted > 0, NEW i \in 1 .. j - 1
        PROVE  available(B[srcs[i]]) = 0
    <3>1. srcs[j] = 13 + j /\ srcs[i] = 13 + i
      <4>1. i \in 1 .. 3
        OBVIOUS
      <4> QED BY <4>1, Sources3
    <3> QED BY <1>6, <2>1, <3>1
  <2>2. DOMAIN srcs = 1 .. 3
    BY Sources3
  <2> QED BY <2>1, <2>2 DEF InOrder
<1> QED BY <1>3, <1>7

DrawCheck(A, to, target) ==
    Check("draw", buildWaterfallTransfers(A, srcs, to, target), 0,
          LAMBDA a : a[to].credits_posted = target /\ InOrder(a, srcs), "linkedFund")

LEMMA DrawCalls ==
    ASSUME NEW A, NEW P, cluster = [accounts |-> A, pending |-> P], step = "draw", checkWaterfall,
           Availables(A)
    PROVE  \E target \in Nat : \E r :
              /\ target <= available(A[14]) + available(A[15]) + available(A[16])
              /\ r = CreateTransfers(cluster, buildWaterfallTransfers(A, srcs, 13, target))
              /\ cluster' = r.cluster
              /\ step' = IF /\ r.failures = 0 /\ r.cluster.accounts[13].credits_posted = target
                            /\ InOrder(r.cluster.accounts, srcs)
                           THEN "linkedFund" ELSE "failed"
              /\ UNCHANGED <<loop, rejected, totalTransfers, unanswered>>
<1>1. \E target \in 1 .. Held(cluster.accounts) : DrawCheck(cluster.accounts, ID.destID, target)
  <2>1. \/ step = "fund"
        \/ \E target \in 1 .. Held(cluster.accounts) :
              DrawCheck(cluster.accounts, ID.destID, target)
    BY ONLY checkWaterfall, Zenon DEF checkWaterfall, Check, Held, DrawCheck
  <2> QED BY ONLY <2>1, step = "draw"
<1>2. cluster.accounts = A /\ ID.destID = 13
  BY DemoIDs
<1>3. PICK u \in Nat : u = available(A[14]) + available(A[15]) + available(A[16])
  BY DEF Availables
<1>4. Held(A) = u
  BY ONLY <1>3, Availables(A), AvailableSum
<1>5. PICK target \in 1 .. u : DrawCheck(A, 13, target)
  BY ONLY <1>1, <1>2, <1>4
<1>6. PICK r : r = CreateTransfers(cluster, buildWaterfallTransfers(A, srcs, 13, target))
  OBVIOUS
<1>7. /\ cluster' = r.cluster
      /\ step' = IF /\ r.failures = 0 /\ r.cluster.accounts[13].credits_posted = target
                    /\ InOrder(r.cluster.accounts, srcs)
                   THEN "linkedFund" ELSE "failed"
      /\ UNCHANGED <<loop, rejected, totalTransfers, unanswered>>
  BY ONLY <1>5, <1>6 DEF DrawCheck, Check
<1>8. target \in Nat /\ target <= u
  OBVIOUS
<1> QED BY ONLY <1>3, <1>6, <1>7, <1>8

LEMMA DrawGoes ==
    ASSUME NEW A, NEW P, cluster = [accounts |-> A, pending |-> P], DemoAccountsAt(7, A, P),
           step = "draw", checkWaterfall
    PROVE  Goes(A, 8)
<1>1. A \in Books /\ P = {} /\ Fresh(A, 8 .. 10) /\ Fresh(A, 11 .. 12) /\ Unpaid(A)
  BY DEF DemoAccountsAt, Unpaid
<1>2. Availables(A)
  BY <1>1, UnpaidAvailable
<1>3. PICK target \in Nat : \E r :
         /\ target <= available(A[14]) + available(A[15]) + available(A[16])
         /\ r = CreateTransfers(cluster, buildWaterfallTransfers(A, srcs, 13, target))
         /\ cluster' = r.cluster
         /\ step' = IF /\ r.failures = 0 /\ r.cluster.accounts[13].credits_posted = target
                       /\ InOrder(r.cluster.accounts, srcs)
                      THEN "linkedFund" ELSE "failed"
         /\ UNCHANGED <<loop, rejected, totalTransfers, unanswered>>
  BY <1>2, DrawCalls
<1>4. PICK r :
         /\ target <= available(A[14]) + available(A[15]) + available(A[16])
         /\ r = CreateTransfers(cluster, buildWaterfallTransfers(A, srcs, 13, target))
         /\ cluster' = r.cluster
         /\ step' = IF /\ r.failures = 0 /\ r.cluster.accounts[13].credits_posted = target
                       /\ InOrder(r.cluster.accounts, srcs)
                      THEN "linkedFund" ELSE "failed"
         /\ UNCHANGED <<loop, rejected, totalTransfers, unanswered>>
  BY <1>3
<1>5. PICK p, x : PlanOf(A, target, p, x)
  BY <1>2, PlanExists
<1>6. /\ p \in Seq(Draws) /\ x \in [1 .. 3 -> Nat] /\ Shape(p, 3, x)
      /\ buildWaterfallTransfers(A, srcs, 13, target) = Linked(p)
  BY ONLY <1>5 DEF PlanOf
<1>7. PICK q : Links(q, p)
  BY <1>6, LinkedPayments
<1>8. q \in Seq(Payments) /\ q = Linked(p) /\ Len(q) = Len(p)
  BY ONLY <1>7 DEF Links
<1>9. PICK k : k = cluster /\ Whole(k) /\ k.accounts = A /\ k.pending = P
  <2>1. /\ Whole([accounts |-> A, pending |-> P])
        /\ [accounts |-> A, pending |-> P].accounts = A
        /\ [accounts |-> A, pending |-> P].pending = P
    BY <1>1, MakeWhole
  <2> QED BY ONLY <2>1, cluster = [accounts |-> A, pending |-> P]
<1>10. PICK acc : /\ IsPaying(acc, A, q)
                  /\ r.cluster = [accounts |-> acc[Len(p)], pending |-> {}] /\ r.failures = 0
  <2>1. PICK acc : /\ IsPaying(acc, k.accounts, q)
                   /\ CreateTransfers(k, q).cluster =
                         [accounts |-> acc[Len(q)], pending |-> k.pending]
                   /\ CreateTransfers(k, q).failures = 0
    BY <1>8, <1>9, PaymentsRun
  <2>2. r = CreateTransfers(k, q)
    BY ONLY <1>4, <1>6, <1>8, <1>9
  <2> QED BY ONLY <1>1, <1>8, <1>9, <2>1, <2>2
<1>11. PICK B : B = acc[Len(p)]
  OBVIOUS
<1>12. Paying3(A, B, p, x, Len(p), Drawn(p))
  BY ONLY <1>1, <1>6, <1>7, <1>10, <1>11, PlanPays
<1>13. B[13].credits_posted = target /\ InOrder(B, srcs)
  BY ONLY <1>1, <1>4, <1>5, <1>12, target \in Nat, DrawAsserts
<1>14. /\ cluster' = [accounts |-> B, pending |-> {}] /\ step' = "linkedFund"
       /\ UNCHANGED <<loop, rejected, totalTransfers, unanswered>>
  <2>1. r.cluster.accounts = B /\ r.cluster = [accounts |-> B, pending |-> {}]
    BY ONLY <1>10, <1>11
  <2> QED BY ONLY <1>4, <1>10, <1>13, <2>1
<1>15. B \in Books /\ \A a \in Account \ (13 .. 16) : B[a] = A[a]
  BY <1>12 DEF Paying3
<1>16. /\ \A g \in Goroutines : B[creditOf(g)] = A[creditOf(g)]
       /\ Fresh(B, 8 .. 10) /\ Fresh(B, 11 .. 12)
  <2>1. PICK S : S = 13 .. 16
    OBVIOUS
  <2>2. (\A a \in Account \ S : B[a] = A[a]) /\ \A a \in S : a \in 1 .. 16
    BY <1>15, <2>1
  <2>3. /\ \A g \in Goroutines : B[creditOf(g)] = A[creditOf(g)]
        /\ \A l, h \in 1 .. 16 :
              (\A a \in l .. h : a \notin S) /\ Fresh(A, l .. h) => Fresh(B, l .. h)
    BY ONLY <2>2, OthersKept
  <2> QED BY ONLY <1>1, <2>1, <2>3
<1>17. DemoAccountsAt(8, B, {})
  BY ONLY <1>15, <1>16 DEF DemoAccountsAt
<1>18. Order[8] = "linkedFund"
  BY DEF Order
<1> QED BY <1>14, <1>16, <1>17, <1>18 DEF Goes

(* A goroutine's batch gives its account one for each of its transfers.        *)
Payment(g) == Transfer(debitOf(g), creditOf(g), 1, {})

Delivered(A, B, g, n) ==
    /\ B \in Books /\ B[creditOf(g)].credits_posted = A[creditOf(g)].credits_posted + n
    /\ \A h \in Goroutines \ {g} : B[creditOf(h)] = A[creditOf(h)]

LEMMA DeliveredStep ==
    ASSUME NEW A \in Books, NEW B, NEW g \in Goroutines, NEW n \in Nat, Delivered(A, B, g, n),
           NEW C, Transferred(B, C, debitOf(g), creditOf(g), 1)
    PROVE  Delivered(A, C, g, n + 1)
<1>1. PICK d, c : /\ d \in Account /\ c \in Account /\ d # c /\ d = debitOf(g) /\ c = creditOf(g)
                  /\ \A h \in Goroutines \ {g} : /\ creditOf(h) \in Account \ {d, c}
  BY DemoAccounts
<1>2. B \in Books /\ Transferred(B, C, d, c, 1) /\ B[c].credits_posted = A[c].credits_posted + n
  BY <1>1 DEF Delivered
<1>3. C \in Books
  BY <1>2 DEF Transferred
<1>4. C[c].credits_posted = B[c].credits_posted + 1
  <2>1. C[c].credits_posted = B[c].credits_posted + (IF c = c THEN 1 ELSE 0)
    BY ONLY <1>1, <1>2, 1 \in Nat, TransferredRows
  <2> QED BY <2>1
<1>5. A[c].credits_posted \in Nat
  <2>1. A[c] \in Row
    BY <1>1 DEF Books
  <2> QED BY <2>1 DEF Row
<1>6. C[c].credits_posted = A[c].credits_posted + (n + 1)
  BY ONLY <1>2, <1>4, <1>5, n \in Nat
<1>7. \A h \in Goroutines \ {g} : C[creditOf(h)] = A[creditOf(h)]
  <2>1. \A h \in Goroutines \ {g} : B[creditOf(h)] = A[creditOf(h)]
    BY DEF Delivered
  <2>2. \A a \in Account \ {d, c} : C[a] = B[a]
    BY <1>2 DEF Transferred
  <2> QED BY <1>1, <2>1, <2>2
<1> QED BY ONLY <1>1, <1>3, <1>6, <1>7 DEF Delivered

LEMMA SendRun ==
    ASSUME NEW A \in Books, NEW P, NEW g \in Goroutines
    PROVE  \E B : /\ Succeeds(A, P, [i \in 1 .. batchSize |-> Payment(g)], B, P)
                  /\ Delivered(A, B, g, batchSize)
<1> DEFINE N == batchSize
           q == [i \in 1 .. N |-> Payment(g)]
<1>1. N \in Nat
  BY DemoAssumption
<1>2. /\ Payment(g) \in Payments /\ Payment(g).debit = debitOf(g)
      /\ Payment(g).credit = creditOf(g) /\ Payment(g).amount = 1
  <2>1. PICK d, c : /\ d \in Account \ Constrained /\ c \in Account /\ d # c
                    /\ d = debitOf(g) /\ c = creditOf(g)
    BY DemoAccounts
  <2> QED BY <2>1 DEF Payment, Transfer, Payments
<1>3. q \in Seq(Payments) /\ Len(q) = N /\ \A n \in 1 .. N : q[n] = Payment(g)
  <2>1. q \in [1 .. N -> Payments] /\ \A n \in 1 .. N : q[n] = Payment(g)
    BY <1>2
  <2> HIDE DEF q, N
  <2>2. q \in UNION {[1 .. n -> Payments] : n \in Nat}
    BY ONLY <1>1, <2>1
  <2>3. q \in Seq(Payments)
    BY ONLY <2>2, SeqDef
  <2>4. DOMAIN q = 1 .. N /\ DOMAIN q = 1 .. Len(q) /\ Len(q) \in Nat
    BY ONLY <2>1, <2>3, LenProperties
  <2> QED BY ONLY <1>1, <2>1, <2>3, <2>4
<1> HIDE DEF q
<1>4. PICK k : k = [accounts |-> A, pending |-> P] /\ Whole(k) /\ k.accounts = A /\ k.pending = P
  <2>1. /\ Whole([accounts |-> A, pending |-> P])
        /\ [accounts |-> A, pending |-> P].accounts = A
        /\ [accounts |-> A, pending |-> P].pending = P
    BY MakeWhole
  <2> QED BY ONLY <2>1
<1>5. PICK acc : /\ IsPaying(acc, k.accounts, q)
                 /\ CreateTransfers(k, q).cluster =
                       [accounts |-> acc[Len(q)], pending |-> k.pending]
                 /\ CreateTransfers(k, q).failures = 0
  BY <1>3, <1>4, PaymentsRun
<1>6. acc[0] = A /\ \A n \in 1 .. N : Transferred(acc[n - 1], acc[n], debitOf(g), creditOf(g), 1)
  <2>1. \A n \in 1 .. N :
           Transferred(acc[n - 1], acc[n], q[n].debit, q[n].credit, q[n].amount)
    BY <1>3, <1>5 DEF IsPaying
  <2>2. ASSUME NEW n \in 1 .. N
        PROVE  Transferred(acc[n - 1], acc[n], debitOf(g), creditOf(g), 1)
    <3>1. q[n].debit = debitOf(g) /\ q[n].credit = creditOf(g) /\ q[n].amount = 1
      BY <1>2, <1>3
    <3>2. Transferred(acc[n - 1], acc[n], q[n].debit, q[n].credit, q[n].amount)
      BY <2>1
    <3> QED BY ONLY <3>1, <3>2
  <2> QED BY <1>4, <1>5, <2>2 DEF IsPaying
<1> DEFINE T == {m \in 0 .. N : Delivered(A, acc[m], g, m)}
<1>7. 0 \in T
  <2>1. A[creditOf(g)] \in Row
    BY DemoAccounts DEF Books
  <2>2. A[creditOf(g)].credits_posted + 0 = A[creditOf(g)].credits_posted
    BY ONLY <2>1 DEF Row
  <2>3. Delivered(A, A, g, 0)
    BY <2>2 DEF Delivered
  <2> QED BY <1>1, <1>6, <2>3
<1>8. ASSUME NEW m \in 0 .. N - 1, m \in T PROVE m + 1 \in T
  <2>1. m \in Nat /\ m + 1 \in 1 .. N /\ m + 1 \in 0 .. N /\ (m + 1) - 1 = m
    BY <1>1
  <2>2. PICK B, C : B = acc[m] /\ C = acc[m + 1]
    OBVIOUS
  <2>3. Transferred(B, C, debitOf(g), creditOf(g), 1)
    <3>1. Transferred(acc[(m + 1) - 1], acc[m + 1], debitOf(g), creditOf(g), 1)
      BY ONLY <1>6, <2>1
    <3> QED BY ONLY <2>1, <2>2, <3>1
  <2>4. Delivered(A, B, g, m)
    BY <1>8, <2>2
  <2>5. Delivered(A, C, g, m + 1)
    BY <2>1, <2>3, <2>4, DeliveredStep
  <2> QED BY <2>1, <2>2, <2>5
<1>9. \A m \in 0 .. N : m \in T
  <2> HIDE DEF T, N
  <2> QED BY <1>1, <1>7, <1>8, Climb
<1>10. PICK B : B = acc[N] /\ Delivered(A, B, g, N)
  BY <1>1, <1>9
<1>11. PICK c, f : CreateTransfers(k, q) = [cluster |-> c, failures |-> f]
  BY DEF CreateTransfers
<1>12. CreateTransfers(k, q) = [cluster |-> [accounts |-> B, pending |-> P], failures |-> 0]
  BY ONLY <1>3, <1>4, <1>5, <1>10, <1>11
<1>13. Succeeds(A, P, [i \in 1 .. batchSize |-> Payment(g)], B, P)
  BY <1>4, <1>12 DEF Succeeds, q
<1> QED BY <1>10, <1>13

-----------------------------------------------------------------------------
(* The demo as a whole.  What the goroutines have counted is what TigerBeetle   *)
(* has posted for them, but for the batches that are not counted yet.         *)
Loops == [Goroutines -> {"ready", "sent", "returned"}]

Posted(A, l) ==
    [g \in Goroutines |->
       A[creditOf(g)].credits_posted - (IF l[g] = "sent" THEN batchSize ELSE 0)]

DemoAt(n, A, P, l, total) ==
    /\ DemoAccountsAt(n, A, P) /\ l \in Loops /\ total = Total(Posted(A, l), Goroutines)
    /\ n = 13 => \A g \in Goroutines : l[g] = "returned"

(* No transfer of the throughput test is refused.                             *)
Counters ==
    /\ totalTransfers \in Nat /\ unanswered \in Nat
    /\ rejected = [g \in Goroutines |-> 0]

Posting == totalTransfers + unanswered

DemoAts(n, A, P) ==
    /\ cluster = [accounts |-> A, pending |-> P] /\ step = Order[n]
    /\ DemoAt(n, A, P, loop, Posting)

DemoInv == Counters /\ \E n \in 1 .. 13 : \E A, P : DemoAts(n, A, P)

LEMMA OrderNumbers ==
    ASSUME NEW n \in 1 .. 13
    PROVE  /\ Order[n] # "failed"
           /\ Order[n] = "basic" <=> n = 1
           /\ Order[n] = "pending" <=> n = 2
           /\ Order[n] = "post" <=> n = 3
           /\ Order[n] = "voidPending" <=> n = 4
           /\ Order[n] = "void" <=> n = 5
           /\ Order[n] = "fund" <=> n = 6
           /\ Order[n] = "draw" <=> n = 7
           /\ Order[n] = "linkedFund" <=> n = 8
           /\ Order[n] = "linked" <=> n = 9
           /\ Order[n] = "constraint" <=> n = 10
           /\ Order[n] = "throughput" <=> n = 11
           /\ Order[n] = "stopping" <=> n = 12
           /\ Order[n] = "done" <=> n = 13
<1>1. /\ Order[1] = "basic" /\ Order[2] = "pending" /\ Order[3] = "post"
      /\ Order[4] = "voidPending" /\ Order[5] = "void" /\ Order[6] = "fund"
      /\ Order[7] = "draw" /\ Order[8] = "linkedFund" /\ Order[9] = "linked"
      /\ Order[10] = "constraint" /\ Order[11] = "throughput" /\ Order[12] = "stopping"
      /\ Order[13] = "done"
  BY DEF Order
<1>2. \/ n = 1 \/ n = 2 \/ n = 3 \/ n = 4 \/ n = 5 \/ n = 6 \/ n = 7 \/ n = 8 \/ n = 9
      \/ n = 10 \/ n = 11 \/ n = 12 \/ n = 13
  OBVIOUS
<1> QED BY ONLY <1>1, <1>2

LEMMA PostedType ==
    ASSUME NEW A \in Books, NEW l \in Loops
    PROVE  /\ IsFiniteSet(Goroutines)
           /\ \A g \in Goroutines :
                 /\ A[creditOf(g)].credits_posted \in Nat
                 /\ Posted(A, l)[g] =
                       A[creditOf(g)].credits_posted - (IF l[g] = "sent" THEN batchSize ELSE 0)
                 /\ Posted(A, l)[g] \in Int
<1>1. IsFiniteSet(Goroutines) /\ batchSize \in Nat
  BY DemoAssumption
<1>2. ASSUME NEW g \in Goroutines PROVE A[creditOf(g)].credits_posted \in Nat
  <2>1. A[creditOf(g)] \in Row
    BY DemoAccounts DEF Books
  <2> QED BY ONLY <2>1 DEF Row
<1>3. ASSUME NEW g \in Goroutines
      PROVE  /\ Posted(A, l)[g] =
                   A[creditOf(g)].credits_posted - (IF l[g] = "sent" THEN batchSize ELSE 0)
             /\ Posted(A, l)[g] \in Int
  <2>1. PICK c \in Nat, y \in Nat : /\ c = A[creditOf(g)].credits_posted
                                    /\ y = (IF l[g] = "sent" THEN batchSize ELSE 0)
    BY <1>1, <1>2
  <2>2. Posted(A, l)[g] = c - y
    BY <2>1 DEF Posted
  <2> QED BY ONLY <2>1, <2>2
<1> QED BY <1>1, <1>2, <1>3

(* The same credits, and the same batches that are not counted yet.            *)
LEMMA PostedSame ==
    ASSUME NEW A \in Books, NEW B \in Books, NEW l \in Loops, NEW m \in Loops,
           \A g \in Goroutines : B[creditOf(g)] = A[creditOf(g)],
           \A g \in Goroutines : m[g] = "sent" <=> l[g] = "sent"
    PROVE  Total(Posted(B, m), Goroutines) = Total(Posted(A, l), Goroutines)
<1>1. \A g \in Goroutines : Posted(A, l)[g] \in Int /\ Posted(A, l)[g] = Posted(B, m)[g]
  <2>1. ASSUME NEW g \in Goroutines
        PROVE  Posted(A, l)[g] \in Int /\ Posted(A, l)[g] = Posted(B, m)[g]
    <3>1. /\ Posted(A, l)[g] =
                A[creditOf(g)].credits_posted - (IF l[g] = "sent" THEN batchSize ELSE 0)
          /\ Posted(A, l)[g] \in Int
      BY PostedType
    <3>2. Posted(B, m)[g] =
             B[creditOf(g)].credits_posted - (IF m[g] = "sent" THEN batchSize ELSE 0)
      BY PostedType
    <3> QED BY <3>1, <3>2
  <2> QED BY <2>1
<1>2. IsFiniteSet(Goroutines)
  BY PostedType
<1> QED BY ONLY <1>1, <1>2, TotalAgree

LEMMA PostedSent ==
    ASSUME NEW A \in Books, NEW l \in Loops, NEW g \in Goroutines, l[g] = "ready",
           NEW B, Delivered(A, B, g, batchSize)
    PROVE  /\ [l EXCEPT ![g] = "sent"] \in Loops
           /\ Total(Posted(B, [l EXCEPT ![g] = "sent"]), Goroutines)
              = Total(Posted(A, l), Goroutines)
<1>1. PICK m \in Loops : /\ m = [l EXCEPT ![g] = "sent"] /\ m[g] = "sent"
                         /\ \A h \in Goroutines \ {g} : m[h] = l[h]
  <2>1. /\ [l EXCEPT ![g] = "sent"] \in Loops /\ [l EXCEPT ![g] = "sent"][g] = "sent"
        /\ \A h \in Goroutines \ {g} : [l EXCEPT ![g] = "sent"][h] = l[h]
    BY DEF Loops
  <2> QED BY ONLY <2>1
<1>2. B \in Books /\ batchSize \in Nat
  BY DemoAssumption DEF Delivered
<1>3. ASSUME NEW h \in Goroutines
      PROVE  Posted(A, l)[h] \in Int /\ Posted(A, l)[h] = Posted(B, m)[h]
  <2>1. PICK a \in Nat : a = A[creditOf(h)].credits_posted
    BY PostedType
  <2>2. /\ Posted(A, l)[h] = a - (IF l[h] = "sent" THEN batchSize ELSE 0)
        /\ Posted(A, l)[h] \in Int
    BY <2>1, PostedType
  <2>3. Posted(B, m)[h] =
           B[creditOf(h)].credits_posted - (IF m[h] = "sent" THEN batchSize ELSE 0)
    BY <1>2, PostedType
  <2>4. CASE h = g
    <3>1. B[creditOf(h)].credits_posted = a + batchSize
      BY <2>1, <2>4 DEF Delivered
    <3>2. m[h] = "sent" /\ l[h] # "sent"
      BY ONLY <1>1, <2>4, l[g] = "ready"
    <3> QED BY ONLY <1>2, <2>2, <2>3, <3>1, <3>2, a \in Nat
  <2>5. CASE h # g
    <3>1. B[creditOf(h)] = A[creditOf(h)] /\ m[h] = l[h]
      BY <1>1, <2>5 DEF Delivered
    <3> QED BY ONLY <2>1, <2>2, <2>3, <3>1
  <2> QED BY <2>4, <2>5
<1>4. IsFiniteSet(Goroutines)
  BY PostedType
<1>5. Total(Posted(A, l), Goroutines) = Total(Posted(B, m), Goroutines)
  BY ONLY <1>3, <1>4, TotalAgree
<1> QED BY ONLY <1>1, <1>5

LEMMA PostedCounted ==
    ASSUME NEW A \in Books, NEW l \in Loops, NEW g \in Goroutines, l[g] = "sent"
    PROVE  /\ [l EXCEPT ![g] = "ready"] \in Loops
           /\ Total(Posted(A, [l EXCEPT ![g] = "ready"]), Goroutines)
              = Total(Posted(A, l), Goroutines) + batchSize
<1>1. PICK m \in Loops : /\ m = [l EXCEPT ![g] = "ready"] /\ m[g] = "ready"
                         /\ \A h \in Goroutines \ {g} : m[h] = l[h]
  <2>1. /\ [l EXCEPT ![g] = "ready"] \in Loops /\ [l EXCEPT ![g] = "ready"][g] = "ready"
        /\ \A h \in Goroutines \ {g} : [l EXCEPT ![g] = "ready"][h] = l[h]
    BY DEF Loops
  <2> QED BY ONLY <2>1
<1>2. PICK F, G : F = Posted(A, l) /\ G = Posted(A, m)
  OBVIOUS
<1>3. /\ IsFiniteSet(Goroutines)
      /\ \A h \in Goroutines :
            /\ A[creditOf(h)].credits_posted \in Nat /\ F[h] \in Int /\ G[h] \in Int
            /\ F[h] = A[creditOf(h)].credits_posted - (IF l[h] = "sent" THEN batchSize ELSE 0)
            /\ G[h] = A[creditOf(h)].credits_posted - (IF m[h] = "sent" THEN batchSize ELSE 0)
  BY <1>2, PostedType
<1>4. \A h \in Goroutines \ {g} : F[h] = G[h]
  BY ONLY <1>1, <1>3
<1>5. Total(G, Goroutines) = Total(F, Goroutines) + G[g] - F[g]
  BY ONLY <1>3, <1>4, g \in Goroutines, TotalPoint
<1>6. batchSize \in Nat
  BY DemoAssumption
<1>7. G[g] - F[g] = batchSize /\ G[g] \in Int /\ F[g] \in Int
  BY ONLY <1>1, <1>3, <1>6, g \in Goroutines, l[g] = "sent"
<1>8. Total(F, Goroutines) \in Int
  BY ONLY <1>3, TotalType
<1> QED BY ONLY <1>1, <1>2, <1>5, <1>6, <1>7, <1>8

LEMMA DemoStarts ==
    ASSUME cluster = EmptyCluster, VerifyInit
    PROVE  DemoInv
<1>1. PICK A : A = [a \in Account |-> Empty]
  OBVIOUS
<1>2. A \in Books /\ \A a \in Account : A[a] = Empty
  <2>1. Empty \in Row
    BY DEF Empty, Row
  <2>2. A \in [Account -> Row] /\ \A a \in Account : A[a] = Empty
    BY ONLY <1>1, <2>1
  <2> QED BY ONLY <2>2 DEF Books
<1>3. cluster = [accounts |-> A, pending |-> {}]
  BY ONLY <1>1, cluster = EmptyCluster DEF EmptyCluster
<1>4. /\ Fresh(A, 1 .. 2) /\ Fresh(A, 3 .. 4) /\ Fresh(A, 5 .. 6) /\ Fresh(A, 13 .. 16)
      /\ Fresh(A, 8 .. 10) /\ Fresh(A, 11 .. 12)
  <2>1. \A a \in 1 .. 16 : A[a] = Empty
    BY <1>2, DemoAccounts
  <2>2. \A l, h \in 1 .. 16 : \A a \in l .. h : a \in 1 .. 16
    OBVIOUS
  <2>3. \A l, h \in 1 .. 16 : Fresh(A, l .. h)
    BY ONLY <2>1, <2>2 DEF Fresh
  <2> QED BY <2>3
<1>5. DemoAccountsAt(1, A, {})
  BY ONLY <1>2, <1>4 DEF DemoAccountsAt
<1>6. /\ loop \in Loops /\ (\A g \in Goroutines : loop[g] = "ready") /\ step = "basic"
      /\ Counters /\ Posting = 0
  BY DEF VerifyInit, Loops, Counters, Posting
<1>7. Total(Posted(A, loop), Goroutines) = 0
  <2>1. ASSUME NEW g \in Goroutines PROVE Posted(A, loop)[g] = 0
    <3>1. Posted(A, loop)[g] =
             A[creditOf(g)].credits_posted - (IF loop[g] = "sent" THEN batchSize ELSE 0)
      BY <1>2, <1>6, PostedType
    <3>2. A[creditOf(g)] = Empty
      BY <1>2, DemoAccounts
    <3>3. loop[g] # "sent"
      BY <1>6
    <3> QED BY ONLY <3>1, <3>2, <3>3 DEF Empty
  <2>2. IsFiniteSet(Goroutines)
    BY <1>2, <1>6, PostedType
  <2> QED BY ONLY <2>1, <2>2, TotalZero
<1>8. DemoAt(1, A, {}, loop, Posting)
  BY ONLY <1>5, <1>6, <1>7 DEF DemoAt
<1>9. step = Order[1] /\ 1 \in 1 .. 13
  BY <1>6, OrderNumbers
<1> QED BY ONLY <1>3, <1>6, <1>8, <1>9 DEF DemoInv, DemoAts

(* A call of a scenario. *)
Scenario ==
    \/ checkBasic \/ checkTwoPhasePost \/ checkTwoPhaseVoid \/ checkWaterfall
    \/ checkLinkedBatch \/ checkBalanceConstraint

LEMMA ScenarioCalls ==
    ASSUME NEW n \in 1 .. 13, NEW A, NEW P, cluster = [accounts |-> A, pending |-> P],
           step = Order[n], DemoAccountsAt(n, A, P), Scenario
    PROVE  \E m \in 2 .. 11 : Goes(A, m)
<1>1. /\ checkBasic => step = "basic"
      /\ checkTwoPhasePost => step = "pending" \/ step = "post"
      /\ checkTwoPhaseVoid => step = "voidPending" \/ step = "void"
      /\ checkWaterfall => step = "fund" \/ step = "draw"
      /\ checkLinkedBatch => step = "linkedFund" \/ step = "linked"
      /\ checkBalanceConstraint => step = "constraint"
  BY ONLY Zenon DEF checkBasic, checkTwoPhasePost, checkTwoPhaseVoid, checkWaterfall,
     checkLinkedBatch, checkBalanceConstraint, Check
<1>2. CASE checkBasic
  <2>1. n = 1
    BY <1>1, <1>2, OrderNumbers
  <2>2. Goes(A, 2)
    BY <1>2, <2>1, BasicGoes
  <2> QED BY <2>2
<1>3. CASE checkTwoPhasePost
  <2>1. (n = 2 /\ step = "pending") \/ (n = 3 /\ step = "post")
    BY <1>1, <1>3, OrderNumbers
  <2>2. Goes(A, 3) \/ Goes(A, 4)
    BY <1>3, <2>1, PendingGoes, PostGoes
  <2> QED BY <2>2
<1>4. CASE checkTwoPhaseVoid
  <2>1. (n = 4 /\ step = "voidPending") \/ (n = 5 /\ step = "void")
    BY <1>1, <1>4, OrderNumbers
  <2>2. Goes(A, 5) \/ Goes(A, 6)
    BY <1>4, <2>1, VoidPendingGoes, VoidGoes
  <2> QED BY <2>2
<1>5. CASE checkWaterfall
  <2>1. (n = 6 /\ step = "fund") \/ (n = 7 /\ step = "draw")
    BY <1>1, <1>5, OrderNumbers
  <2>2. Goes(A, 7) \/ Goes(A, 8)
    BY <1>5, <2>1, FundGoes, DrawGoes
  <2> QED BY <2>2
<1>6. CASE checkLinkedBatch
  <2>1. (n = 8 /\ step = "linkedFund") \/ (n = 9 /\ step = "linked")
    BY <1>1, <1>6, OrderNumbers
  <2>2. Goes(A, 9) \/ Goes(A, 10)
    BY <1>6, <2>1, LinkedFundGoes, LinkedGoes
  <2> QED BY <2>2
<1>7. CASE checkBalanceConstraint
  <2>1. n = 10
    BY <1>1, <1>7, OrderNumbers
  <2>2. Goes(A, 11)
    BY <1>7, <2>1, ConstraintGoes
  <2> QED BY <2>2
<1> QED BY <1>2, <1>3, <1>4, <1>5, <1>6, <1>7 DEF Scenario

LEMMA ScenarioDemo ==
    ASSUME Counters, NEW n \in 1 .. 13, NEW A, NEW P, DemoAts(n, A, P), Scenario
    PROVE  DemoInv'
<1>1. /\ DemoAccountsAt(n, A, P) /\ loop \in Loops
      /\ Posting = Total(Posted(A, loop), Goroutines)
      /\ cluster = [accounts |-> A, pending |-> P] /\ step = Order[n]
  BY DEF DemoAt, DemoAts
<1>2. PICK m \in 2 .. 11 : Goes(A, m)
  BY <1>1, ScenarioCalls
<1>3. PICK B, Q : /\ cluster' = [accounts |-> B, pending |-> Q] /\ DemoAccountsAt(m, B, Q)
                  /\ \A g \in Goroutines : B[creditOf(g)] = A[creditOf(g)]
  BY ONLY <1>2 DEF Goes
<1>4. /\ step' = Order[m] /\ loop' = loop /\ Posting' = Posting /\ Counters'
  BY <1>2 DEF Goes, Posting, Counters
<1>5. A \in Books /\ B \in Books
  BY <1>1, <1>3 DEF DemoAccountsAt
<1>6. Total(Posted(B, loop), Goroutines) = Total(Posted(A, loop), Goroutines)
  BY ONLY <1>1, <1>3, <1>5, PostedSame
<1>7. m \in 1 .. 13 /\ m # 13
  OBVIOUS
<1>8. DemoAt(m, B, Q, loop', Posting')
  BY ONLY <1>1, <1>3, <1>4, <1>6, <1>7 DEF DemoAt
<1> QED BY ONLY <1>3, <1>4, <1>7, <1>8 DEF DemoInv, DemoAts

LEMMA LateAccounts ==
    ASSUME NEW A \in Books, NEW n \in 11 .. 13
    PROVE  DemoAccountsAt(n, A, {})
BY DEF DemoAccountsAt

(* A batch of the throughput test is posted as a whole.                       *)
LEMMA SentPosted ==
    ASSUME NEW n \in 1 .. 13, NEW A, NEW P, DemoAts(n, A, P), NEW g \in Goroutines,
           step \in {"throughput", "stopping"}
    PROVE  /\ n \in 11 .. 13 /\ n # 13 /\ A \in Books /\ P = {}
           /\ \E B : /\ Delivered(A, B, g, batchSize)
                     /\ Sent(g).cluster = [accounts |-> B, pending |-> {}]
                     /\ Sent(g).failures = 0
<1>1. /\ DemoAccountsAt(n, A, P)
      /\ cluster = [accounts |-> A, pending |-> P] /\ step = Order[n]
  BY DEF DemoAt, DemoAts
<1>2. n \in 11 .. 13 /\ n # 13
  <2>1. n = 11 \/ n = 12
    BY <1>1, OrderNumbers
  <2> QED BY <2>1
<1>3. A \in Books /\ P = {}
  BY ONLY <1>1, <1>2 DEF DemoAccountsAt
<1>4. PICK q : q = [i \in 1 .. batchSize |-> Payment(g)]
  OBVIOUS
<1>5. PICK B : Succeeds(A, P, q, B, P) /\ Delivered(A, B, g, batchSize)
  BY ONLY <1>3, <1>4, g \in Goroutines, SendRun
<1>6. PICK r : /\ r = CreateTransfers(cluster, q) /\ r.failures = 0
               /\ r.cluster = [accounts |-> B, pending |-> P]
  BY ONLY <1>1, <1>5, SucceedsWith
<1>7. Sent(g) = r
  BY <1>4, <1>6 DEF Sent, Payment
<1> QED BY ONLY <1>2, <1>3, <1>5, <1>6, <1>7

LEMMA SendDemo ==
    ASSUME Counters, NEW n \in 1 .. 13, NEW A, NEW P, DemoAts(n, A, P), NEW g \in Goroutines,
           Send(g)
    PROVE  DemoInv'
<1>1. /\ DemoAccountsAt(n, A, P) /\ loop \in Loops
      /\ Posting = Total(Posted(A, loop), Goroutines)
      /\ step = Order[n]
  BY DEF DemoAt, DemoAts
<1>2. step \in {"throughput", "stopping"} /\ loop[g] = "ready"
  BY DEF Send
<1>3. n \in 11 .. 13 /\ n # 13 /\ A \in Books
  BY <1>2, SentPosted
<1>4. PICK B : /\ Delivered(A, B, g, batchSize)
               /\ Sent(g).cluster = [accounts |-> B, pending |-> {}]
               /\ Sent(g).failures = 0
  BY <1>2, SentPosted
<1>5. /\ cluster' = [accounts |-> B, pending |-> {}] /\ loop' = [loop EXCEPT ![g] = "sent"]
      /\ step' = step /\ Posting' = Posting /\ Counters'
  <2>1. /\ cluster' = Sent(g).cluster /\ loop' = [loop EXCEPT ![g] = "sent"]
        /\ rejected' = [rejected EXCEPT ![g] = Sent(g).failures]
        /\ step' = step /\ totalTransfers' = totalTransfers /\ unanswered' = unanswered
    BY DEF Send
  <2>2. rejected' = [h \in Goroutines |-> 0]
    BY <1>4, <2>1 DEF Counters
  <2> QED BY <1>4, <2>1, <2>2 DEF Posting, Counters
<1>6. loop' \in Loops /\ Total(Posted(B, loop'), Goroutines) = Total(Posted(A, loop), Goroutines)
  <2>1. /\ [loop EXCEPT ![g] = "sent"] \in Loops
        /\ Total(Posted(B, [loop EXCEPT ![g] = "sent"]), Goroutines)
           = Total(Posted(A, loop), Goroutines)
    BY ONLY <1>1, <1>2, <1>3, <1>4, g \in Goroutines, PostedSent
  <2> QED BY ONLY <1>5, <2>1
<1>7. DemoAccountsAt(n, B, {})
  BY <1>3, <1>4, LateAccounts DEF Delivered
<1>8. DemoAt(n, B, {}, loop', Posting')
  BY ONLY <1>1, <1>3, <1>5, <1>6, <1>7 DEF DemoAt
<1> QED BY ONLY <1>1, <1>5, <1>8, n \in 1 .. 13 DEF DemoInv, DemoAts

LEMMA SendFailsDemo ==
    ASSUME Counters, NEW n \in 1 .. 13, NEW A, NEW P, DemoAts(n, A, P), NEW g \in Goroutines,
           SendFails(g)
    PROVE  DemoInv'
<1>1. /\ DemoAccountsAt(n, A, P) /\ loop \in Loops
      /\ Posting = Total(Posted(A, loop), Goroutines)
      /\ cluster = [accounts |-> A, pending |-> P] /\ step = Order[n]
  BY DEF DemoAt, DemoAts
<1>2. step \in {"throughput", "stopping"} /\ loop[g] = "ready"
  BY DEF SendFails
<1>3. n \in 11 .. 13 /\ n # 13 /\ A \in Books
  BY <1>2, SentPosted
<1>4. PICK B : /\ Delivered(A, B, g, batchSize)
               /\ Sent(g).cluster = [accounts |-> B, pending |-> {}]
               /\ Sent(g).failures = 0
  BY <1>2, SentPosted
<1>5. /\ step' = step /\ loop' = loop /\ rejected' = rejected
      /\ totalTransfers' = totalTransfers
      /\ \/ cluster' = cluster /\ unanswered' = unanswered
         \/ /\ cluster' = Sent(g).cluster
            /\ unanswered' = unanswered + batchSize - Sent(g).failures
  BY DEF SendFails
<1>6. CASE cluster' = cluster /\ unanswered' = unanswered
  <2>1. Posting' = Posting /\ Counters'
    BY <1>5, <1>6 DEF Posting, Counters
  <2>2. DemoAts(n, A, P)'
    BY <1>5, <1>6, <2>1 DEF DemoAts
  <2> QED BY ONLY <2>1, <2>2, n \in 1 .. 13 DEF DemoInv
<1>7. CASE /\ cluster' = Sent(g).cluster
           /\ unanswered' = unanswered + batchSize - Sent(g).failures
  <2>1. batchSize \in Nat
    BY DemoAssumption
  <2>2. Counters' /\ Posting' = Posting + batchSize
    BY <1>4, <1>5, <1>7, <2>1 DEF Posting, Counters
  <2>3. PICK l : l = [loop EXCEPT ![g] = "sent"]
    OBVIOUS
  <2>4. /\ l \in Loops /\ l[g] = "sent"
        /\ Total(Posted(B, l), Goroutines) = Total(Posted(A, loop), Goroutines)
    <3>1. /\ [loop EXCEPT ![g] = "sent"] \in Loops
          /\ Total(Posted(B, [loop EXCEPT ![g] = "sent"]), Goroutines)
             = Total(Posted(A, loop), Goroutines)
      BY ONLY <1>1, <1>2, <1>3, <1>4, g \in Goroutines, PostedSent
    <3>2. l[g] = "sent"
      BY <1>1, <2>3 DEF Loops
    <3> QED BY ONLY <2>3, <3>1, <3>2
  <2>5. [l EXCEPT ![g] = "ready"] = loop
    BY <1>1, <1>2, <2>3 DEF Loops
  <2>6. Total(Posted(B, loop), Goroutines) = Total(Posted(B, l), Goroutines) + batchSize
    <3>1. B \in Books
      BY <1>4 DEF Delivered
    <3>2. Total(Posted(B, [l EXCEPT ![g] = "ready"]), Goroutines)
          = Total(Posted(B, l), Goroutines) + batchSize
      BY ONLY <2>4, <3>1, g \in Goroutines, PostedCounted
    <3> QED BY ONLY <2>5, <3>2
  <2>7. DemoAccountsAt(n, B, {})
    BY <1>3, <1>4, LateAccounts DEF Delivered
  <2>8. DemoAt(n, B, {}, loop', Posting')
    BY ONLY <1>1, <1>3, <1>5, <2>2, <2>4, <2>6, <2>7 DEF DemoAt
  <2>9. cluster' = [accounts |-> B, pending |-> {}] /\ step' = Order[n]
    BY <1>1, <1>4, <1>5, <1>7
  <2> QED BY ONLY <2>2, <2>8, <2>9, n \in 1 .. 13 DEF DemoInv, DemoAts
<1> QED BY <1>5, <1>6, <1>7

LEMMA CountDemo ==
    ASSUME Counters, NEW n \in 1 .. 13, NEW A, NEW P, DemoAts(n, A, P), NEW g \in Goroutines,
           Count(g) \/ GoroutineReturns(g)
    PROVE  DemoInv'
<1>1. /\ DemoAccountsAt(n, A, P) /\ loop \in Loops
      /\ Posting = Total(Posted(A, loop), Goroutines)
      /\ n = 13 => loop[g] = "returned"
      /\ cluster = [accounts |-> A, pending |-> P] /\ step = Order[n]
  BY DEF DemoAt, DemoAts
<1>2. A \in Books
  BY <1>1 DEF DemoAccountsAt
<1>3. cluster' = [accounts |-> A, pending |-> P] /\ step' = Order[n]
  BY <1>1 DEF Count, GoroutineReturns
<1>4. CASE Count(g)
  <2>1. /\ loop[g] = "sent" /\ loop' = [loop EXCEPT ![g] = "ready"]
        /\ Counters' /\ Posting' = Posting + batchSize
    <3>1. batchSize \in Nat /\ rejected[g] = 0
      BY DemoAssumption DEF Counters
    <3> QED BY <1>4, <3>1 DEF Count, Counters, Posting
  <2>2. /\ loop' \in Loops
        /\ Posting' = Total(Posted(A, loop'), Goroutines)
    <3>1. /\ [loop EXCEPT ![g] = "ready"] \in Loops
          /\ Total(Posted(A, [loop EXCEPT ![g] = "ready"]), Goroutines)
             = Total(Posted(A, loop), Goroutines) + batchSize
      BY ONLY <1>1, <1>2, <2>1, g \in Goroutines, PostedCounted
    <3> QED BY ONLY <1>1, <2>1, <3>1
  <2>3. n # 13
    BY ONLY <1>1, <2>1
  <2>4. DemoAt(n, A, P, loop', Posting')
    BY ONLY <1>1, <2>2, <2>3 DEF DemoAt
  <2> QED BY ONLY <1>3, <2>1, <2>4, n \in 1 .. 13 DEF DemoInv, DemoAts
<1>5. CASE GoroutineReturns(g)
  <2>1. /\ loop[g] = "ready" /\ loop' = [loop EXCEPT ![g] = "returned"]
        /\ Posting' = Posting /\ Counters'
    BY <1>5 DEF GoroutineReturns, Posting, Counters
  <2>2. /\ loop' \in Loops
        /\ \A h \in Goroutines : loop'[h] = "sent" <=> loop[h] = "sent"
    BY <1>1, <2>1 DEF Loops
  <2>3. Total(Posted(A, loop'), Goroutines) = Total(Posted(A, loop), Goroutines)
    BY ONLY <1>1, <1>2, <2>2, PostedSame
  <2>4. n # 13
    BY ONLY <1>1, <2>1
  <2>5. DemoAt(n, A, P, loop', Posting')
    BY ONLY <1>1, <2>1, <2>2, <2>3, <2>4 DEF DemoAt
  <2> QED BY ONLY <1>3, <2>1, <2>5, n \in 1 .. 13 DEF DemoInv, DemoAts
<1> QED BY <1>4, <1>5

LEMMA StopDemo ==
    ASSUME Counters, NEW n \in 1 .. 13, NEW A, NEW P, DemoAts(n, A, P), CloseStop \/ Report
    PROVE  DemoInv'
<1>1. /\ DemoAccountsAt(n, A, P) /\ loop \in Loops
      /\ Posting = Total(Posted(A, loop), Goroutines)
      /\ cluster = [accounts |-> A, pending |-> P] /\ step = Order[n]
  BY DEF DemoAt, DemoAts
<1>0. /\ step = "throughput" => n = 11
      /\ step = "stopping" => n = 12
  <2>1. /\ Order[n] = "throughput" <=> n = 11
        /\ Order[n] = "stopping" <=> n = 12
    BY OrderNumbers
  <2> QED BY ONLY <1>1, <2>1
<1>2. /\ cluster' = [accounts |-> A, pending |-> P] /\ loop' = loop
      /\ Posting' = Posting /\ Counters'
  BY <1>1 DEF CloseStop, Report, Posting, Counters
<1>3. \E m \in 12 .. 13 : /\ step' = Order[m] /\ n \in 11 .. 13
                          /\ m = 13 => \A g \in Goroutines : loop[g] = "returned"
  <2>1. CASE CloseStop
    <3>1. step = "throughput" /\ step' = "stopping"
      BY <2>1 DEF CloseStop
    <3>2. n = 11
      BY ONLY <1>0, <3>1
    <3>3. Order[12] = "stopping"
      BY DEF Order
    <3> QED BY ONLY <3>1, <3>2, <3>3
  <2>2. CASE Report
    <3>1. step = "stopping" /\ step' = "done" /\ \A g \in Goroutines : loop[g] = "returned"
      BY <2>2 DEF Report, Wait
    <3>2. n = 12
      BY ONLY <1>0, <3>1
    <3>3. Order[13] = "done"
      BY DEF Order
    <3> QED BY ONLY <3>1, <3>2, <3>3
  <2> QED BY <2>1, <2>2
<1>4. PICK m \in 12 .. 13 : /\ step' = Order[m] /\ n \in 11 .. 13
                            /\ m = 13 => \A g \in Goroutines : loop[g] = "returned"
  BY <1>3
<1>5. A \in Books /\ P = {}
  BY ONLY <1>1, <1>4 DEF DemoAccountsAt
<1>6. m \in 1 .. 13 /\ m \in 11 .. 13
  OBVIOUS
<1>7. DemoAccountsAt(m, A, P)
  BY <1>5, <1>6, LateAccounts
<1>8. DemoAt(m, A, P, loop', Posting')
  BY ONLY <1>1, <1>2, <1>4, <1>7 DEF DemoAt
<1> QED BY ONLY <1>2, <1>4, <1>6, <1>8 DEF DemoInv, DemoAts

LEMMA DemoStep ==
    ASSUME DemoInv, VerifyNext
    PROVE  DemoInv'
<1>1. Counters /\ \E n \in 1 .. 13 : \E A, P : DemoAts(n, A, P)
  BY DEF DemoInv
<1>2. PICK n \in 1 .. 13 : \E A, P : DemoAts(n, A, P)
  BY <1>1
<1>3. PICK A, P : DemoAts(n, A, P)
  BY <1>2
<1>4. \/ Scenario
      \/ \E g \in Goroutines : Send(g) \/ SendFails(g) \/ Count(g) \/ GoroutineReturns(g)
      \/ CloseStop \/ Report
  BY ONLY VerifyNext, Zenon DEF VerifyNext, Scenario
<1>5. CASE Scenario
  BY <1>1, <1>3, <1>5, ScenarioDemo
<1>6. ASSUME NEW g \in Goroutines,
             Send(g) \/ SendFails(g) \/ Count(g) \/ GoroutineReturns(g)
      PROVE  DemoInv'
  BY <1>1, <1>3, <1>6, SendDemo, SendFailsDemo, CountDemo
<1>7. CASE CloseStop \/ Report
  BY <1>1, <1>3, <1>7, StopDemo
<1> QED BY <1>4, <1>5, <1>6, <1>7

LEMMA DemoStutter ==
    ASSUME DemoInv, UNCHANGED <<cluster, verifyVars>>
    PROVE  DemoInv'
<1>1. /\ cluster' = cluster /\ step' = step /\ loop' = loop /\ totalTransfers' = totalTransfers
      /\ rejected' = rejected /\ unanswered' = unanswered
  BY DEF verifyVars
<1> QED BY <1>1 DEF DemoInv, DemoAts, Counters, Posting

(* The sum over the goroutines, as TBVerify writes it. *)
PostedSum(k) == MapThenSumSet(LAMBDA g : k.accounts[creditOf(g)].credits_posted, Goroutines)

LEMMA PostedSumTotal ==
    ASSUME NEW k, NEW f, IsFiniteSet(Goroutines),
           \A g \in Goroutines : f[g] \in Int /\ f[g] = k.accounts[creditOf(g)].credits_posted
    PROVE  PostedSum(k) = Total(f, Goroutines)
<1> DEFINE S == Goroutines
           ch(T) == CHOOSE y \in T : TRUE
           Summing(G) == G = [T \in SUBSET S |->
                                IF T = {} THEN 0
                                ELSE k.accounts[creditOf(ch(T))].credits_posted + G[T \ {ch(T)}]]
           H == CHOOSE G : Summing(G)
<1>1. PostedSum(k) = H[S]
  BY DEF PostedSum, MapThenSumSet, MapThenFoldSet
<1>2. ASSUME NEW G PROVE Summing(G) <=> Folded(G, f, S)
  <2>1. \A T \in SUBSET S : T # {} => ch(T) \in S
    OBVIOUS
  <2> HIDE DEF ch
  <2>2. \A T \in SUBSET S : T # {} => f[ch(T)] = k.accounts[creditOf(ch(T))].credits_posted
    BY <2>1
  <2>3. [T \in SUBSET S |->
           IF T = {} THEN 0
           ELSE k.accounts[creditOf(ch(T))].credits_posted + G[T \ {ch(T)}]]
        = [T \in SUBSET S |-> IF T = {} THEN 0 ELSE f[ch(T)] + G[T \ {ch(T)}]]
    <3> DEFINE lhs(T) == IF T = {} THEN 0
                         ELSE k.accounts[creditOf(ch(T))].credits_posted + G[T \ {ch(T)}]
               rhs(T) == IF T = {} THEN 0 ELSE f[ch(T)] + G[T \ {ch(T)}]
    <3>1. \A T \in SUBSET S : lhs(T) = rhs(T)
      BY ONLY <2>2
    <3> HIDE DEF lhs, rhs
    <3>2. [T \in SUBSET S |-> lhs(T)] = [T \in SUBSET S |-> rhs(T)]
      BY ONLY <3>1
    <3> QED BY ONLY <3>2 DEF lhs, rhs
  <2> QED BY <2>3 DEF Folded, ch
<1>3. (\E G : Folded(G, f, S)) /\ \A G : Folded(G, f, S) => G[S] = Total(f, S)
  <2>1. \A g \in S : f[g] \in Int
    OBVIOUS
  <2> QED BY <2>1, FoldedSum
<1> HIDE DEF Summing
<1>4. Summing(H)
  BY <1>2, <1>3
<1> HIDE DEF H
<1> QED BY <1>1, <1>2, <1>3, <1>4

LEMMA DemoPasses ==
    ASSUME DemoInv
    PROVE  VerifyPasses
<1>1. PICK n \in 1 .. 13 : \E A, P : DemoAts(n, A, P)
  BY DEF DemoInv
<1>2. PICK A, P : DemoAts(n, A, P)
  BY <1>1
<1>3. /\ cluster = [accounts |-> A, pending |-> P] /\ step = Order[n]
      /\ DemoAt(n, A, P, loop, Posting)
  BY <1>2 DEF DemoAts
<1>4. step # "failed"
  BY <1>3, OrderNumbers
<1>5. ASSUME step = "done" PROVE Posting = PostedSum(cluster)
  <2>1. n = 13
    <3>1. Order[n] = "done"
      BY <1>3, <1>5
    <3>2. Order[n] = "done" <=> n = 13
      BY OrderNumbers
    <3> QED BY ONLY <3>1, <3>2
  <2>2. /\ A \in Books /\ loop \in Loops /\ Posting = Total(Posted(A, loop), Goroutines)
        /\ \A g \in Goroutines : loop[g] = "returned"
    BY ONLY <1>3, <2>1 DEF DemoAt, DemoAccountsAt
  <2>3. PICK f : f = Posted(A, loop)
    OBVIOUS
  <2>4. IsFiniteSet(Goroutines)
    BY <2>2, PostedType
  <2>5. ASSUME NEW g \in Goroutines
        PROVE  f[g] \in Int /\ f[g] = cluster.accounts[creditOf(g)].credits_posted
    <3>1. /\ f[g] = A[creditOf(g)].credits_posted - (IF loop[g] = "sent" THEN batchSize ELSE 0)
          /\ A[creditOf(g)].credits_posted \in Nat
      BY <2>2, <2>3, PostedType
    <3>2. loop[g] # "sent"
      BY <2>2
    <3>3. cluster.accounts = A
      BY <1>3
    <3> QED BY ONLY <3>1, <3>2, <3>3
  <2>6. PICK k : k = cluster
    OBVIOUS
  <2>7. PostedSum(k) = Total(f, Goroutines)
    BY ONLY <2>4, <2>5, <2>6, PostedSumTotal
  <2> QED BY ONLY <2>2, <2>3, <2>6, <2>7
<1>6. step = "done" => Posting = PostedSum(cluster)
  BY <1>5
<1> QED BY ONLY <1>4, <1>6, Zenon DEF VerifyPasses, PostedSum, Posting

(* No assertion of the demo fails, whatever its sources are funded with and   *)
(* whatever is drawn from them, and no transfer is refused but those that are  *)
(* meant to be; and the throughput that it reports, of however many           *)
(* goroutines and batches, is what TigerBeetle has posted, less what calls     *)
(* with an error have.                                                      *)
THEOREM DemoNeverFails == Spec => []VerifyPasses
<1> DEFINE Inv == IF tool = "verify" THEN DemoInv ELSE step = "basic"
<1>1. Init => Inv
  <2> SUFFICES ASSUME Init PROVE Inv
    OBVIOUS
  <2>1. cluster = EmptyCluster /\ VerifyInit /\ step = "basic"
    BY DEF Init, VerifyInit
  <2>2. DemoInv
    BY <2>1, DemoStarts
  <2> QED BY <2>1, <2>2
<1>2. Inv /\ [Next]_vars => Inv'
  <2> SUFFICES ASSUME Inv, [Next]_vars PROVE Inv'
    OBVIOUS
  <2>1. tool' = tool
    BY DEF Next, vars
  <2>2. CASE tool = "verify"
    <3>1. VerifyNext \/ UNCHANGED <<cluster, verifyVars>>
      BY <2>2 DEF Next, vars
    <3>2. DemoInv'
      BY <2>2, <3>1, DemoStep, DemoStutter
    <3> QED BY <2>1, <2>2, <3>2
  <2>3. CASE tool # "verify"
    <3>1. UNCHANGED verifyVars
      BY <2>3 DEF Next, vars
    <3> QED BY <2>1, <2>3, <3>1 DEF verifyVars
  <2> QED BY <2>2, <2>3
<1>3. Inv => VerifyPasses
  <2>1. CASE tool = "verify"
    BY <2>1, DemoPasses
  <2>2. CASE tool # "verify"
    <3>1. Inv => step = "basic"
      BY <2>2
    <3> QED BY <3>1 DEF VerifyPasses
  <2> QED BY <2>1, <2>2
<1> QED BY <1>1, <1>2, <1>3, PTL DEF Spec
=============================================================================
