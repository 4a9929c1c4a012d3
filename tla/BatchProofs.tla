----------------------------- MODULE BatchProofs -----------------------------
(***************************************************************************)
(* Theorems about ExecBatch: for any number of concurrent calls, batches of  *)
(* any length and any size of the sync groups.                              *)
(***************************************************************************)
EXTENDS Batch, LedgerBaseProofs, SequenceTheorems, TLAPS

Results == {"none", "row", "norow", "error"}
Messages == {"row", "norow", "error", "sync"}

(* No failure in the group of operation i, or before it. *)
Good(p, i) == \A f \in failed[p] : Separated(p, i, f)

(* What operation i answers when it runs. *)
Answer(p, i) == IF ops[p][i].account \in Accounts THEN "row" ELSE "norow"

(* A connection nothing was sent on. *)
Fresh(p) ==
    pc[p] = "idle" =>
       /\ p \notin lost /\ ops[p] = << >> /\ opIdx[p] = 1 /\ wire[p] = << >>
       /\ next[p] = 1 /\ synced[p] = 0 /\ written[p] = {} /\ aborted[p] = FALSE
       /\ committed[p] = {} /\ failed[p] = {}

(* The server is in the group that follows the last Sync, or at its end; what *)
(* it has written is what it has executed of the group, unless that failed.   *)
InGroup(p) ==
    /\ synced[p] < next[p]
    /\ ~Separated(p, synced[p] + 1, next[p] - 1)
    /\ \A f \in failed[p] : f < next[p]
    /\ aborted[p] => \E f \in failed[p] : synced[p] < f
    /\ ~aborted[p] =>
          \A i \in synced[p] + 1 .. next[p] - 1 : i \in written[p] <=> Answer(p, i) = "row"
    /\ \A i \in written[p] : synced[p] < i /\ i < next[p]

(* The groups up to the last Sync are committed as they were answered, and    *)
(* the results so far are those answers.                                     *)
Recorded(p) ==
    /\ \A i \in 1 .. synced[p] :
          Good(p, i) => (i \in committed[p] <=> Answer(p, i) = "row")
    /\ \A i \in committed[p] : i <= synced[p]
    /\ \A i \in 1 .. opIdx[p] - 1 : Good(p, i) => results[p][i] = Answer(p, i)

(* f[k] is the operation to which the read loop will attribute the message    *)
(* wire[p][k]: before the first failure it is the one that sent it.           *)
Attributes(p, f) ==
    LET n == Len(wire[p])
    IN  /\ f[1] = opIdx[p]
        /\ \A k \in 1 .. n :
              /\ f[k + 1] = IF wire[p][k] = "sync" THEN f[k] ELSE f[k] + 1
              /\ wire[p][k] # "sync" /\ Good(p, f[k]) => wire[p][k] = Answer(p, f[k])
        /\ \A i \in 1 .. next[p] - 1 : Good(p, i) => i < f[n + 1]
        /\ failed[p] = {} => f[n + 1] = next[p]

Attributed(p) == \E f \in [1 .. Len(wire[p]) + 1 -> Nat \ {0}] : Attributes(p, f)

(* What ExecBatch has returned. *)
Returned(p) ==
    /\ wire[p] = << >> /\ synced[p] = Len(ops[p])
    /\ \A i \in 1 .. Len(ops[p]) : Good(p, i) => Truthful(p, i)

Own(p) ==
    /\ Fresh(p)
    /\ p \notin lost =>
          /\ pc[p] \in {"read", "drain"} => InGroup(p) /\ Recorded(p)
          /\ pc[p] = "read" => Attributed(p)
          /\ pc[p] = "drain" => \A i \in opIdx[p] .. Len(ops[p]) : ~Good(p, i)
          /\ pc[p] = "done" => Returned(p)

(* A row is written by one open group at a time ... *)
OneWriter ==
    \A p, q \in Procs : \A a \in Accounts : Holds(p, a) /\ Holds(q, a) => p = q

(* ... whose entries continue the committed ones.                             *)
PendingChains ==
    \A p \in Procs : \A a \in Accounts :
       Chain(entries[a] \o pending[p][a], LastAfter(pending[p][a], balance[a]))

(* The inductive invariant. *)
BatchInv ==
    TypeOK /\ (\A p \in Procs : Own(p)) /\ OneWriter /\ PendingChains /\ AuditChain

-----------------------------------------------------------------------------
(* Types. *)

LEMMA Filled ==
    ASSUME NEW n \in Nat, NEW x \in Results
    PROVE  /\ [i \in 1 .. n |-> x] \in Seq(Results)
           /\ Len([i \in 1 .. n |-> x]) = n
<1> DEFINE f == [i \in 1 .. n |-> x]
<1>1. f \in Seq(Results)
  BY SeqDef
<1>2. DOMAIN f = 1 .. n /\ DOMAIN f = 1 .. Len(f) /\ Len(f) \in Nat
  BY <1>1, LenProperties
<1> QED BY <1>1, <1>2

LEMMA Operation ==
    ASSUME TypeOK, NEW p \in Procs, NEW i \in 1 .. Len(ops[p])
    PROVE  ops[p][i] \in BatchOp
BY ElementOfSeq DEF TypeOK

LEMMA LastAfterType ==
    ASSUME NEW e \in Seq(Entry), NEW b \in Int
    PROVE  LastAfter(e, b) \in Int
<1>1. CASE e = << >>
  BY <1>1 DEF LastAfter
<1>2. CASE e # << >>
  <2>1. e[Len(e)] \in Entry
    BY <1>2, EmptySeq, ElementOfSeq
  <2> QED BY <1>2, <2>1 DEF LastAfter, Entry
<1> QED BY <1>1, <1>2

(* The entry of an operation: it adds its signed amount to the last balance.   *)
LEMMA EntryType ==
    ASSUME TypeOK, NEW p \in Procs, NEW op \in BatchOp, op.account \in Accounts
    PROVE  LET x == AtomicEntry(p, op) IN
           /\ x \in Entry
           /\ x.after = Signed(x) + LastAfter(pending[p][op.account], balance[op.account])
<1> DEFINE b == LastAfter(pending[p][op.account], balance[op.account])
<1>1. b \in Int /\ op.amount \in Int
  BY LastAfterType, AmountsAssumption DEF TypeOK, BatchOp
<1> HIDE DEF b
<1>2. CASE op.type = "deposit"
  <2>1. AtomicEntry(p, op) = Credit(op.amount, b + op.amount, NoKey)
    BY <1>2 DEF AtomicEntry, b
  <2>2. Credit(op.amount, b + op.amount, NoKey) \in Entry
    BY <1>1 DEF Credit, Entry
  <2> QED BY <1>1, <2>1, <2>2 DEF Credit, Signed, b
<1>3. CASE op.type # "deposit"
  <2>1. AtomicEntry(p, op) = Debit(op.amount, b - op.amount, NoKey)
    BY <1>3 DEF AtomicEntry, b
  <2>2. Debit(op.amount, b - op.amount, NoKey) \in Entry
    BY <1>1 DEF Debit, Entry
  <2> QED BY <1>1, <2>1, <2>2 DEF Debit, Signed, b
<1> QED BY <1>2, <1>3

LEMMA SendType ==
    ASSUME TypeOK, NEW p \in Procs, NEW m \in Messages, Send(p, m)
    PROVE  /\ wire' \in [Procs -> Seq(Messages)]
           /\ p \notin lost => wire'[p] = Append(wire[p], m)
           /\ \A q \in Procs \ {p} : wire'[q] = wire[q]
<1>1. wire \in [Procs -> Seq(Messages)]
  BY DEF TypeOK, Messages
<1>2. Append(wire[p], m) \in Seq(Messages)
  BY <1>1, AppendProperties
<1> QED BY <1>1, <1>2 DEF Send

(* The last operation may be followed by no other before the Sync.            *)
LEMMA OpenMeansMore ==
    ASSUME TypeOK, NEW p \in Procs, GroupOpen(p)
    PROVE  next[p] \in 1 .. Len(ops[p])
<1>1. SyncAfter(p, Len(ops[p]))
  BY DEF SyncAfter
<1>2. Len(ops[p]) \in Nat
  BY LenProperties DEF TypeOK
<1>3. next[p] \in 1 .. Len(ops[p]) + 1 /\ synced[p] \in Nat /\ synced[p] < Len(ops[p])
  BY DEF TypeOK, GroupOpen
<1> QED BY <1>1, <1>2, <1>3 DEF GroupOpen, Separated

-----------------------------------------------------------------------------
(* Which answers are of which operations. *)

LEMMA SameOps ==
    ASSUME NEW p \in Procs, ops'[p] = ops[p]
    PROVE  /\ \A i : SyncAfter(p, i)' <=> SyncAfter(p, i)
           /\ \A i, k : Separated(p, i, k)' <=> Separated(p, i, k)
           /\ \A i : Answer(p, i)' = Answer(p, i)
<1>1. \A i : SyncAfter(p, i)' <=> SyncAfter(p, i)
  BY DEF SyncAfter
<1>2. \A i, k : Separated(p, i, k)' <=> Separated(p, i, k)
  BY <1>1 DEF Separated
<1> QED BY <1>1, <1>2 DEF Answer

(* Failures only take operations away from those whose result is right.       *)
LEMMA GoodBefore ==
    ASSUME NEW p \in Procs, ops'[p] = ops[p], failed[p] \subseteq failed'[p]
    PROVE  /\ \A i : Good(p, i)' => Good(p, i)
           /\ failed'[p] = failed[p] => \A i : Good(p, i)' <=> Good(p, i)
BY SameOps DEF Good

(* The server sends a message: the read loop will count it on.                *)
LEMMA SentIsAttributed ==
    ASSUME TypeOK, NEW p \in Procs, NEW m \in Messages,
           NEW f \in [1 .. Len(wire[p]) + 1 -> Nat \ {0}], Attributes(p, f),
           ops'[p] = ops[p], opIdx'[p] = opIdx[p], failed[p] \subseteq failed'[p],
           wire'[p] = Append(wire[p], m),
           NEW c \in Nat \ {0}, c = f[Len(wire[p]) + 1],
           NEW last \in Nat \ {0}, last = c + (IF m = "sync" THEN 0 ELSE 1),
           m # "sync" /\ Good(p, c)' => m = Answer(p, c),
           \A i \in 1 .. next'[p] - 1 : Good(p, i)' => i < last,
           failed'[p] = {} => last = next'[p]
    PROVE  Attributed(p)'
<1>0. PICK n : n = Len(wire[p])
  OBVIOUS
<1>1. wire[p] \in Seq(Messages) /\ n \in Nat
  BY <1>0, LenProperties DEF TypeOK, Messages
<1>g. PICK g : g = [k \in 1 .. n + 2 |-> IF k = n + 2 THEN last ELSE f[k]]
  OBVIOUS
<1>2. /\ Len(wire'[p]) = n + 1 /\ wire'[p][n + 1] = m
      /\ \A k \in 1 .. n : wire'[p][k] = wire[p][k]
  BY <1>0, <1>1, AppendProperties
<1>3. g \in [1 .. Len(wire'[p]) + 1 -> Nat \ {0}]
  BY <1>0, <1>1, <1>2, <1>g
<1>4. /\ g[1] = opIdx'[p] /\ g[n + 2] = last /\ g[n + 1] = c /\ f[n + 1] = c
      /\ \A k \in 1 .. n : g[k] = f[k] /\ g[k + 1] = f[k + 1]
  <2>1. g[n + 2] = last /\ \A k \in 1 .. n + 1 : g[k] = f[k]
    BY ONLY <1>1, <1>g
  <2>2. f[n + 1] = c /\ f[1] = opIdx'[p]
    BY <1>0 DEF Attributes
  <2>3. 1 \in 1 .. n + 1 /\ n + 1 \in 1 .. n + 1
    BY ONLY <1>1
  <2>4. \A k \in 1 .. n : k \in 1 .. n + 1 /\ k + 1 \in 1 .. n + 1
    BY ONLY <1>1
  <2> QED BY <2>1, <2>2, <2>3, <2>4
<1>5. ASSUME NEW k \in 1 .. n + 1
      PROVE  /\ g[k + 1] = IF wire'[p][k] = "sync" THEN g[k] ELSE g[k] + 1
             /\ wire'[p][k] # "sync" /\ Good(p, g[k])' => wire'[p][k] = Answer(p, g[k])'
  <2>1. CASE k = n + 1
    <3>1. g[k] = c /\ g[k + 1] = last /\ wire'[p][k] = m
      BY <1>1, <1>2, <1>4, <2>1
    <3>2. (Good(p, g[k])' <=> Good(p, c)') /\ Answer(p, g[k])' = Answer(p, c)
      BY <3>1, SameOps
    <3> QED BY <3>1, <3>2
  <2>2. CASE k # n + 1
    <3>1. k \in 1 .. n
      BY <1>1, <2>2
    <3>2. /\ f[k + 1] = IF wire[p][k] = "sync" THEN f[k] ELSE f[k] + 1
          /\ wire[p][k] # "sync" /\ Good(p, f[k]) => wire[p][k] = Answer(p, f[k])
      BY <1>0, <3>1 DEF Attributes
    <3>3. Good(p, g[k])' => Good(p, g[k])
      BY GoodBefore
    <3>4. g[k] = f[k] /\ g[k + 1] = f[k + 1] /\ wire'[p][k] = wire[p][k]
      BY <1>2, <1>4, <3>1
    <3>5. Answer(p, g[k])' = Answer(p, g[k])
      BY SameOps
    <3> QED BY <3>2, <3>3, <3>4, <3>5
  <2> QED BY <2>1, <2>2
<1>6. Attributes(p, g)'
  <2>1. Len(wire'[p]) = n + 1 /\ (n + 1) + 1 = n + 2
    BY <1>1, <1>2
  <2>2. g[1] = opIdx'[p] /\ g[n + 2] = last
    BY <1>4
  <2> QED BY <1>5, <2>1, <2>2 DEF Attributes
<1> QED BY <1>3, <1>6 DEF Attributed

(* The read loop takes a message: what follows is counted as before.          *)
LEMMA ReadIsAttributed ==
    ASSUME TypeOK, NEW p \in Procs,
           NEW f \in [1 .. Len(wire[p]) + 1 -> Nat \ {0}], Attributes(p, f),
           wire[p] # << >>, wire'[p] = Tail(wire[p]),
           opIdx'[p] = opIdx[p] + (IF wire[p][1] = "sync" THEN 0 ELSE 1),
           ops'[p] = ops[p], failed'[p] = failed[p], next'[p] = next[p]
    PROVE  Attributed(p)'
<1>0. PICK n : n = Len(wire[p])
  OBVIOUS
<1>1. wire[p] \in Seq(Messages) /\ n \in Nat \ {0} /\ opIdx[p] \in Nat
  BY <1>0, LenProperties, EmptySeq DEF TypeOK, Messages
<1>g. PICK g : g = [k \in 1 .. n |-> f[k + 1]]
  OBVIOUS
<1>2. Len(wire'[p]) = n - 1 /\ \A k \in 1 .. n - 1 : wire'[p][k] = wire[p][k + 1]
  BY <1>0, <1>1, HeadTailProperties
<1>3. g \in [1 .. Len(wire'[p]) + 1 -> Nat \ {0}]
  BY <1>0, <1>1, <1>2, <1>g
<1>4. g[1] = opIdx'[p] /\ g[n] = f[n + 1] /\ \A k \in 1 .. n - 1 : g[k] = f[k + 1] /\ g[k + 1] = f[k + 2]
  BY <1>0, <1>1, <1>g DEF Attributes
<1>5. ASSUME NEW k \in 1 .. n - 1
      PROVE  /\ g[k + 1] = IF wire'[p][k] = "sync" THEN g[k] ELSE g[k] + 1
             /\ wire'[p][k] # "sync" /\ Good(p, g[k])' => wire'[p][k] = Answer(p, g[k])'
  <2>1. k + 1 \in 1 .. n /\ (k + 1) + 1 = k + 2
    BY <1>1
  <2>2. /\ f[k + 2] = IF wire[p][k + 1] = "sync" THEN f[k + 1] ELSE f[k + 1] + 1
        /\ wire[p][k + 1] # "sync" /\ Good(p, f[k + 1]) => wire[p][k + 1] = Answer(p, f[k + 1])
    BY <1>0, <2>1 DEF Attributes
  <2>3. (Good(p, g[k])' => Good(p, g[k])) /\ Answer(p, g[k])' = Answer(p, g[k])
    BY GoodBefore, SameOps
  <2> QED BY <1>2, <1>4, <2>2, <2>3
<1>6. \A i \in 1 .. next'[p] - 1 : Good(p, i)' => i < g[n]
  BY <1>0, <1>4, GoodBefore DEF Attributes
<1>7. failed'[p] = {} => g[n] = next'[p]
  BY <1>0, <1>4 DEF Attributes
<1>8. Attributes(p, g)'
  <2>1. Len(wire'[p]) = n - 1 /\ (n - 1) + 1 = n
    BY <1>1, <1>2
  <2>2. g[1] = opIdx'[p]
    BY <1>4
  <2> QED BY <1>5, <1>6, <1>7, <2>1, <2>2 DEF Attributes
<1> QED BY <1>3, <1>8 DEF Attributed

-----------------------------------------------------------------------------
(* A step of one call leaves the others alone. *)
Untouched(q) ==
    /\ ops'[q] = ops[q] /\ pc'[q] = pc[q] /\ results'[q] = results[q]
    /\ opIdx'[q] = opIdx[q] /\ wire'[q] = wire[q] /\ next'[q] = next[q]
    /\ synced'[q] = synced[q] /\ written'[q] = written[q] /\ aborted'[q] = aborted[q]
    /\ committed'[q] = committed[q] /\ failed'[q] = failed[q]
    /\ q \in lost' <=> q \in lost

Elsewhere(p) == \A q \in Procs \ {p} : Untouched(q)

LEMMA UntouchedOwn ==
    ASSUME NEW q \in Procs, Untouched(q), Own(q)
    PROVE  Own(q)'
<1>1. /\ ops'[q] = ops[q] /\ pc'[q] = pc[q] /\ results'[q] = results[q]
      /\ opIdx'[q] = opIdx[q] /\ wire'[q] = wire[q] /\ next'[q] = next[q]
      /\ synced'[q] = synced[q] /\ written'[q] = written[q] /\ aborted'[q] = aborted[q]
      /\ committed'[q] = committed[q] /\ failed'[q] = failed[q]
      /\ q \in lost' <=> q \in lost
  BY DEF Untouched
<1>2. /\ \A i, k : Separated(q, i, k)' <=> Separated(q, i, k)
      /\ \A i : Answer(q, i)' = Answer(q, i)
      /\ \A i : Good(q, i)' <=> Good(q, i)
  BY <1>1, SameOps, GoodBefore
<1>3. Fresh(q)'
  BY <1>1 DEF Own, Fresh
<1>4. InGroup(q) => InGroup(q)'
  BY <1>1, <1>2 DEF InGroup
<1>5. Recorded(q) => Recorded(q)'
  BY <1>1, <1>2 DEF Recorded
<1>6. ASSUME NEW f, Attributes(q, f)
      PROVE  Attributes(q, f)'
  BY <1>1, <1>2, <1>6 DEF Attributes
<1>7. Attributed(q) => Attributed(q)'
  BY <1>1, <1>6 DEF Attributed
<1>8. Returned(q) => Returned(q)'
  BY <1>1, <1>2 DEF Returned, Truthful
<1> QED BY <1>1, <1>2, <1>3, <1>4, <1>5, <1>7, <1>8 DEF Own

LEMMA OthersOwn ==
    ASSUME NEW p \in Procs, Elsewhere(p), NEW q \in Procs \ {p}, Own(q)
    PROVE  Own(q)'
BY UntouchedOwn DEF Elsewhere

(* Steps that write no entry and commit none. *)
LEMMA RowsKept ==
    ASSUME OneWriter, PendingChains, AuditChain, UNCHANGED <<balance, entries, pending>>
    PROVE  OneWriter' /\ PendingChains' /\ AuditChain'
<1>1. OneWriter'
  BY DEF OneWriter, Holds
<1>2. PendingChains'
  BY DEF PendingChains, LastAfter
<1>3. AuditChain'
  BY DEF AuditChain
<1> QED BY <1>1, <1>2, <1>3

-----------------------------------------------------------------------------
(* The call *)

LEMMA StartInv ==
    ASSUME BatchInv, NEW p \in Procs, NEW b \in Batches, Start(p, b)
    PROVE  BatchInv'
<1> DEFINE n == Len(b)
<1>1. /\ b \in Seq(BatchOp) /\ n \in Nat /\ pc[p] = "idle"
      /\ ops' = [ops EXCEPT ![p] = b]
      /\ UNCHANGED <<balance, entries, opIdx, wire, pending, written, aborted, committed,
                     failed>>
  BY BatchAssumption, LenProperties DEF Start, BatchAssumption
<1>2. PICK l \in {"read", "done"}, x \in Results :
         /\ pc' = [pc EXCEPT ![p] = l] /\ results' = [results EXCEPT ![p] = [i \in 1 .. n |-> x]]
         /\ \/ l = "read" /\ UNCHANGED <<next, synced, lost>>
            \/ /\ l = "done" /\ x = "error"
               /\ next' = [next EXCEPT ![p] = n + 1] /\ synced' = [synced EXCEPT ![p] = n]
               /\ UNCHANGED lost
            \/ l = "done" /\ lost' = lost \cup {p} /\ UNCHANGED <<next, synced>>
  BY DEF Start, Results
<1>3. /\ p \notin lost /\ opIdx[p] = 1 /\ wire[p] = << >> /\ next[p] = 1 /\ synced[p] = 0
      /\ written[p] = {} /\ aborted[p] = FALSE /\ committed[p] = {} /\ failed[p] = {}
  BY <1>1 DEF BatchInv, Own, Fresh
<1>4. [i \in 1 .. n |-> x] \in Seq(Results) /\ Len([i \in 1 .. n |-> x]) = n
  BY <1>1, Filled
<1>5. TypeOK'
  <2>1. ops' \in [Procs -> Seq(BatchOp)] /\ pc' \in [Procs -> {"idle", "read", "drain", "done"}]
    BY <1>1, <1>2 DEF BatchInv, TypeOK
  <2>2. results' \in [Procs -> Seq(Results)]
    <3>1. results \in [Procs -> Seq(Results)]
      BY DEF BatchInv, TypeOK, Results
    <3> QED BY <1>2, <1>4, <3>1
  <2>3. {opIdx', next', synced'} \subseteq [Procs -> Nat] /\ lost' \subseteq Procs
    <3>1. /\ opIdx' \in [Procs -> Nat] /\ next \in [Procs -> Nat] /\ synced \in [Procs -> Nat]
          /\ lost \subseteq Procs
      BY <1>1 DEF BatchInv, TypeOK
    <3>2. next' \in [Procs -> Nat] /\ synced' \in [Procs -> Nat]
      <4>1. n \in Nat /\ n + 1 \in Nat
        BY <1>1
      <4> HIDE DEF n
      <4>2. CASE UNCHANGED <<next, synced>>
        BY <3>1, <4>2
      <4>3. CASE next' = [next EXCEPT ![p] = n + 1] /\ synced' = [synced EXCEPT ![p] = n]
        BY <3>1, <4>1, <4>3
      <4> QED BY <1>2, <4>2, <4>3
    <3>3. lost' \subseteq Procs
      BY <1>2, <3>1
    <3> QED BY <3>1, <3>2, <3>3
  <2>4. ASSUME NEW q \in Procs
        PROVE  /\ Len(results'[q]) = Len(ops'[q])
               /\ {opIdx'[q], next'[q]} \subseteq 1 .. Len(ops'[q]) + 1
               /\ synced'[q] \in 0 .. Len(ops'[q])
               /\ written'[q] \cup committed'[q] \cup failed'[q] \subseteq 1 .. Len(ops'[q])
    <3>1. CASE q = p
      <4>1. ops'[p] = b /\ results'[p] = [i \in 1 .. n |-> x] /\ Len(results'[p]) = n
        BY <1>1, <1>2, <1>4 DEF BatchInv, TypeOK
      <4>2. opIdx'[p] = 1 /\ next'[p] \in {1, n + 1} /\ synced'[p] \in {0, n}
        BY <1>1, <1>2, <1>3 DEF BatchInv, TypeOK
      <4> QED BY <1>1, <1>3, <3>1, <4>1, <4>2
    <3>2. CASE q # p
      <4>1. q \in Procs /\ DOMAIN ops = Procs /\ DOMAIN results = Procs
            /\ DOMAIN next = Procs /\ DOMAIN synced = Procs
        BY DEF BatchInv, TypeOK
      <4>2. /\ Len(results[q]) = Len(ops[q]) /\ {opIdx[q], next[q]} \subseteq 1 .. Len(ops[q]) + 1
            /\ synced[q] \in 0 .. Len(ops[q])
            /\ written[q] \cup committed[q] \cup failed[q] \subseteq 1 .. Len(ops[q])
        BY DEF BatchInv, TypeOK
      <4>3. ops'[q] = ops[q]
        BY ONLY <1>1, <3>2, <4>1
      <4>4. results'[q] = results[q]
        BY ONLY <1>2, <3>2, <4>1
      <4>5. next'[q] = next[q] /\ synced'[q] = synced[q]
        BY ONLY <1>2, <3>2, <4>1
      <4>6. UNCHANGED <<opIdx, written, committed, failed>>
        BY <1>1
      <4> QED BY ONLY <4>2, <4>3, <4>4, <4>5, <4>6
    <3> QED BY <3>1, <3>2
  <2> QED BY <1>1, <2>1, <2>2, <2>3, <2>4 DEF BatchInv, TypeOK, Results
<1>6. Elsewhere(p)
  BY <1>1, <1>2 DEF Elsewhere, Untouched, BatchInv, TypeOK
<1>7. Own(p)'
  <2>1. pc'[p] = l /\ ops'[p] = b /\ results'[p] = [i \in 1 .. n |-> x]
    BY <1>1, <1>2 DEF BatchInv, TypeOK
  <2>2. CASE l = "read"
    <3>1. next'[p] = 1 /\ synced'[p] = 0 /\ UNCHANGED lost
      BY <1>2, <1>3, <2>2
    <3>2. InGroup(p)' /\ Recorded(p)'
      BY <1>1, <1>3, <3>1 DEF InGroup, Recorded, Separated
    <3>3. Attributed(p)'
      <4> DEFINE f == [k \in 1 .. 1 |-> 1]
      <4>1. Len(wire'[p]) = 0
        BY <1>1, <1>3, EmptySeq
      <4>2. f \in [1 .. Len(wire'[p]) + 1 -> Nat \ {0}] /\ f[1] = 1
        BY <4>1
      <4>3. Attributes(p, f)'
        BY <1>1, <1>3, <3>1, <4>1, <4>2 DEF Attributes
      <4> QED BY <4>2, <4>3 DEF Attributed
    <3> QED BY <2>1, <2>2, <3>2, <3>3 DEF Own, Fresh
  <2>3. CASE l = "done" /\ UNCHANGED lost
    <3>1. synced'[p] = n /\ x = "error"
      BY <1>2, <1>3, <2>3 DEF BatchInv, TypeOK
    <3>2. Returned(p)'
      BY <1>1, <1>3, <2>1, <3>1 DEF Returned, Truthful
    <3> QED BY <2>1, <2>3, <3>2 DEF Own, Fresh
  <2>4. CASE l = "done" /\ lost' = lost \cup {p}
    BY <2>1, <2>4 DEF Own, Fresh
  <2> QED BY <1>2, <2>2, <2>3, <2>4
<1> QED BY <1>1, <1>5, <1>6, <1>7, OthersOwn, RowsKept DEF BatchInv

-----------------------------------------------------------------------------
(* The rows *)

LEMMA InitBatchInv == Init => BatchInv
<1> SUFFICES ASSUME Init PROVE BatchInv
  OBVIOUS
<1>1. TypeOK
  <2>1. << >> \in Seq(BatchOp) /\ << >> \in Seq(Results) /\ << >> \in Seq(Messages)
        /\ << >> \in Seq(Entry) /\ Len(<< >>) = 0
    BY EmptySeq
  <2>2. balance \in [Accounts -> Int] /\ entries \in [Accounts -> Seq(Entry)]
    BY AccountsAssumption, OpeningChain DEF Init, AccountsAssumption
  <2> QED BY <2>1, <2>2 DEF Init, TypeOK, Results, Messages
<1>2. \A p \in Procs : Own(p)
  BY DEF Init, Own, Fresh
<1>3. OneWriter
  BY DEF Init, OneWriter, Holds
<1>4. AuditChain
  BY OpeningChain DEF Init, AuditChain
<1>5. PendingChains
  <2> SUFFICES ASSUME NEW p \in Procs, NEW a \in Accounts
               PROVE  Chain(entries[a] \o pending[p][a], LastAfter(pending[p][a], balance[a]))
    BY DEF PendingChains
  <2>1. pending[p][a] = << >>
    BY DEF Init
  <2>2. entries[a] \o << >> = entries[a]
    BY <1>1, ConcatEmptySeq DEF TypeOK
  <2> QED BY <1>4, <2>1, <2>2 DEF AuditChain, LastAfter
<1> QED BY <1>1, <1>2, <1>3, <1>4, <1>5 DEF BatchInv

(* A rollback, or a call that is gone: the open group leaves nothing.         *)
LEMMA RowsForgotten ==
    ASSUME BatchInv, NEW p \in Procs, Forget(p), UNCHANGED <<balance, entries>>
    PROVE  OneWriter' /\ PendingChains' /\ AuditChain'
<1>1. /\ \A a \in Accounts : pending'[p][a] = << >>
      /\ \A q \in Procs \ {p} : pending'[q] = pending[q]
  BY DEF Forget, BatchInv, TypeOK
<1>2. OneWriter'
  BY <1>1 DEF BatchInv, OneWriter, Holds
<1>3. AuditChain'
  BY DEF BatchInv, AuditChain, Chain
<1>4. PendingChains'
  <2> SUFFICES ASSUME NEW q \in Procs, NEW a \in Accounts
               PROVE  Chain(entries[a] \o pending'[q][a], LastAfter(pending'[q][a], balance[a]))
    BY DEF PendingChains
  <2>1. CASE q = p
    <3>1. entries[a] \o << >> = entries[a]
      BY ConcatEmptySeq DEF BatchInv, TypeOK
    <3> QED BY <1>1, <2>1, <3>1 DEF BatchInv, AuditChain, LastAfter
  <2>2. CASE q # p
    BY <1>1, <2>2 DEF BatchInv, PendingChains
  <2> QED BY <2>1, <2>2
<1> QED BY <1>2, <1>3, <1>4

LEMMA AppendLast ==
    ASSUME NEW e \in Seq(Entry), NEW w \in Seq(Entry), NEW x \in Entry
    PROVE  e \o Append(w, x) = Append(e \o w, x)
<1>1. e \o w \in Seq(Entry) /\ <<x>> \in Seq(Entry)
  BY ConcatProperties
<1>2. Append(w, x) = w \o <<x>> /\ Append(e \o w, x) = (e \o w) \o <<x>>
  BY <1>1, AppendIsConcat
<1>3. (e \o w) \o <<x>> = e \o (w \o <<x>>)
  BY ONLY <1>1, e \in Seq(Entry), w \in Seq(Entry), ConcatAssociative
<1> QED BY <1>2, <1>3

(* An operation adds an entry of its own to those of its group.               *)
LEMMA RowsAppended ==
    ASSUME BatchInv, NEW p \in Procs, NEW a \in Accounts, RowFree(p, a),
           NEW x \in Entry, x.after = Signed(x) + LastAfter(pending[p][a], balance[a]),
           pending' = [pending EXCEPT ![p][a] = Append(@, x)],
           UNCHANGED <<balance, entries>>
    PROVE  OneWriter' /\ PendingChains' /\ AuditChain'
<1> DEFINE e == entries[a]
           w == pending[p][a]
<1>1. /\ pending'[p][a] = Append(w, x)
      /\ \A c \in Accounts \ {a} : pending'[p][c] = pending[p][c]
      /\ \A q \in Procs \ {p} : pending'[q] = pending[q]
  BY DEF BatchInv, TypeOK
<1>2. e \in Seq(Entry) /\ w \in Seq(Entry) /\ balance[a] \in Int
  BY DEF BatchInv, TypeOK
<1>3. OneWriter'
  BY <1>1 DEF BatchInv, OneWriter, Holds, RowFree
<1>4. AuditChain'
  BY DEF BatchInv, AuditChain, Chain
<1>5. Chain(e \o Append(w, x), LastAfter(Append(w, x), balance[a]))
  <2> DEFINE b == LastAfter(w, balance[a])
             ew == e \o w
  <2>1. b \in Int /\ ew \in Seq(Entry) /\ Chain(ew, b)
    BY <1>2, LastAfterType, ConcatProperties DEF BatchInv, PendingChains
  <2> HIDE DEF b, ew
  <2>2. Chain(Append(ew, x), x.after)
    BY <2>1, ChainAppend DEF b
  <2>3. e \o Append(w, x) = Append(ew, x)
    BY <1>2, AppendLast DEF ew
  <2>4. LastAfter(Append(w, x), balance[a]) = x.after
    <3>1. Append(w, x) # << >> /\ Append(w, x)[Len(Append(w, x))] = x
      BY <1>2, AppendProperties
    <3> QED BY <3>1 DEF LastAfter
  <2> QED BY <2>2, <2>3, <2>4
<1>6. PendingChains'
  <2> SUFFICES ASSUME NEW q \in Procs, NEW c \in Accounts
               PROVE  Chain(entries[c] \o pending'[q][c], LastAfter(pending'[q][c], balance[c]))
    BY DEF PendingChains
  <2>1. CASE q = p /\ c = a
    BY <1>1, <1>5, <2>1
  <2>2. CASE ~(q = p /\ c = a)
    <3>1. pending'[q][c] = pending[q][c]
      BY <1>1, <2>2
    <3> QED BY <3>1 DEF BatchInv, PendingChains
  <2> QED BY <2>1, <2>2
<1> QED BY <1>3, <1>4, <1>6

(* A Sync commits the entries of its group, where nobody else has written.    *)
LEMMA RowsCommitted ==
    ASSUME BatchInv, NEW p \in Procs, Forget(p),
           entries' = [a \in Accounts |-> entries[a] \o pending[p][a]],
           balance' = [a \in Accounts |-> LastAfter(pending[p][a], balance[a])]
    PROVE  OneWriter' /\ PendingChains' /\ AuditChain'
<1>1. /\ \A a \in Accounts : pending'[p][a] = << >>
      /\ \A q \in Procs \ {p} : pending'[q] = pending[q]
  BY DEF Forget, BatchInv, TypeOK
<1>2. OneWriter'
  BY <1>1 DEF BatchInv, OneWriter, Holds
<1>3. ASSUME NEW a \in Accounts
      PROVE  /\ Chain(entries'[a], balance'[a])
             /\ entries'[a] \in Seq(Entry)
             /\ pending[p][a] = << >> => entries'[a] = entries[a] /\ balance'[a] = balance[a]
  <2>1. entries[a] \in Seq(Entry) /\ pending[p][a] \in Seq(Entry)
    BY DEF BatchInv, TypeOK
  <2>2. entries[a] \o pending[p][a] \in Seq(Entry) /\ entries[a] \o << >> = entries[a]
    BY <2>1, ConcatProperties, ConcatEmptySeq
  <2> QED BY <2>2 DEF BatchInv, PendingChains, LastAfter
<1>4. AuditChain'
  BY <1>3 DEF AuditChain
<1>5. PendingChains'
  <2> SUFFICES ASSUME NEW q \in Procs, NEW a \in Accounts
               PROVE  Chain(entries'[a] \o pending'[q][a], LastAfter(pending'[q][a], balance'[a]))
    BY DEF PendingChains
  <2>1. CASE pending'[q][a] = << >>
    <3>1. entries'[a] \o << >> = entries'[a]
      BY <1>3, ConcatEmptySeq
    <3> QED BY <1>3, <2>1, <3>1 DEF LastAfter
  <2>2. CASE pending'[q][a] # << >>
    <3>1. q # p /\ pending'[q][a] = pending[q][a]
      BY <1>1, <2>2
    <3>2. pending[p][a] = << >>
      BY <2>2, <3>1 DEF BatchInv, OneWriter, Holds
    <3> QED BY <1>3, <3>1, <3>2 DEF BatchInv, PendingChains
  <2> QED BY <2>1, <2>2
<1> QED BY <1>2, <1>4, <1>5

-----------------------------------------------------------------------------
(* The server *)

(* A step of the server while the call is being read, or drained.             *)
LEMMA ServedOwn ==
    ASSUME BatchInv, NEW p \in Procs, pc[p] # "idle",
           UNCHANGED <<ops, client, lost>>,
           failed[p] \subseteq failed'[p],
           p \notin lost /\ pc[p] # "done" => InGroup(p)' /\ Recorded(p)',
           p \notin lost /\ pc[p] = "read" => Attributed(p)',
           p \notin lost => pc[p] # "done"
    PROVE  Own(p)'
<1>1. pc[p] \in {"read", "drain", "done"}
  BY DEF BatchInv, TypeOK
<1>2. pc[p] = "drain" /\ p \notin lost => \A i \in opIdx[p] .. Len(ops[p]) : ~Good(p, i)'
  BY GoodBefore DEF BatchInv, Own
<1> QED BY <1>1, <1>2 DEF Own, Fresh, client

(* A call that was told its results has nothing left to run.                  *)
LEMMA DoneIsServed ==
    ASSUME BatchInv, NEW p \in Procs, p \notin lost, synced[p] < Len(ops[p])
    PROVE  pc[p] # "done"
<1>1. synced[p] \in Nat /\ Len(ops[p]) \in Nat
  BY LenProperties DEF BatchInv, TypeOK
<1> QED BY <1>1 DEF BatchInv, Own, Returned

LEMMA ExecuteInv ==
    ASSUME BatchInv, NEW p \in Procs, Execute(p)
    PROVE  BatchInv'
<1>a. PICK n : n = next[p]
  OBVIOUS
<1>b. PICK op : op = ops[p][n]
  OBVIOUS
<1>c. PICK m : m = Answer(p, n)
  OBVIOUS
<1>1. /\ pc[p] # "idle" /\ GroupOpen(p) /\ ~aborted[p]
      /\ next' = [next EXCEPT ![p] = n + 1]
      /\ UNCHANGED <<balance, entries, ops, client, synced, aborted, lost, committed, failed>>
  BY <1>a DEF Execute
<1>2. n \in 1 .. Len(ops[p]) /\ n \in Nat /\ Len(ops[p]) \in Nat /\ op \in BatchOp
  BY <1>a, <1>b, <1>1, OpenMeansMore, Operation, LenProperties DEF BatchInv, TypeOK
<1>3. m \in Messages /\ m # "sync" /\ (m = "row" <=> op.account \in Accounts)
  BY <1>b, <1>c DEF Answer, Messages
<1>4. \/ m = "norow" /\ Send(p, m) /\ UNCHANGED <<pending, written>>
      \/ /\ m = "row" /\ op.account \in Accounts /\ RowFree(p, op.account) /\ Send(p, m)
         /\ pending' = [pending EXCEPT ![p][op.account] = Append(@, AtomicEntry(p, op))]
         /\ written' = [written EXCEPT ![p] = @ \cup {n}]
  <2>1. CASE op.account \notin Accounts
    <3>1. m = "norow"
      BY <1>b, <1>c, <2>1 DEF Answer
    <3> QED BY <1>a, <1>b, <2>1, <3>1, Zenon DEF Execute
  <2>2. CASE op.account \in Accounts
    <3>1. m = "row"
      BY <1>b, <1>c, <2>2 DEF Answer
    <3> QED BY <1>a, <1>b, <2>2, <3>1, Zenon DEF Execute
  <2> QED BY <2>1, <2>2
<1>5. /\ wire' \in [Procs -> Seq(Messages)]
      /\ p \notin lost => wire'[p] = Append(wire[p], m)
      /\ \A q \in Procs \ {p} : wire'[q] = wire[q]
  BY <1>3, <1>4, SendType DEF BatchInv
<1>6. /\ next'[p] = n + 1 /\ \A q \in Procs \ {p} : next'[q] = next[q]
      /\ next' \in [Procs -> Nat]
  BY <1>1, <1>2 DEF BatchInv, TypeOK
<1>7. /\ written'[p] = written[p] \cup (IF m = "row" THEN {n} ELSE {})
      /\ \A q \in Procs \ {p} : written'[q] = written[q]
      /\ written' \in [Procs -> SUBSET (Nat \ {0})]
  <2>1. written \in [Procs -> SUBSET (Nat \ {0})] /\ n \in Nat \ {0}
    BY <1>2 DEF BatchInv, TypeOK
  <2>2. CASE m = "norow"
    BY <1>4, <2>1, <2>2
  <2>3. CASE m = "row"
    BY <1>4, <2>1, <2>3
  <2> QED BY <1>4, <2>2, <2>3
<1>8. OneWriter' /\ PendingChains' /\ AuditChain' /\ pending' \in [Procs -> [Accounts -> Seq(Entry)]]
  <2>1. CASE UNCHANGED pending
    BY <1>1, <2>1, RowsKept DEF BatchInv, TypeOK
  <2>2. CASE /\ op.account \in Accounts /\ RowFree(p, op.account)
             /\ pending' = [pending EXCEPT ![p][op.account] = Append(@, AtomicEntry(p, op))]
    <3>a. PICK a \in Accounts : a = op.account
      BY <2>2
    <3>x. PICK x : x = AtomicEntry(p, op)
      OBVIOUS
    <3>1. x \in Entry /\ x.after = Signed(x) + LastAfter(pending[p][a], balance[a])
      BY <1>2, <2>2, <3>a, <3>x, EntryType DEF BatchInv
    <3>2. pending' = [pending EXCEPT ![p][a] = Append(@, x)] /\ RowFree(p, a)
      BY <2>2, <3>a, <3>x
    <3>3. OneWriter' /\ PendingChains' /\ AuditChain'
      BY <1>1, <3>1, <3>2, RowsAppended
    <3>4. pending \in [Procs -> [Accounts -> Seq(Entry)]]
      BY DEF BatchInv, TypeOK
    <3>5. Append(pending[p][a], x) \in Seq(Entry)
      BY <3>1, <3>4, AppendProperties
    <3> QED BY <3>2, <3>3, <3>4, <3>5
  <2> QED BY <1>4, <2>1, <2>2
<1>9. TypeOK'
  <2>1. ASSUME NEW q \in Procs
        PROVE  /\ Len(results'[q]) = Len(ops'[q])
               /\ {opIdx'[q], next'[q]} \subseteq 1 .. Len(ops'[q]) + 1
               /\ synced'[q] \in 0 .. Len(ops'[q])
               /\ written'[q] \cup committed'[q] \cup failed'[q] \subseteq 1 .. Len(ops'[q])
    <3>1. CASE q = p
      BY <1>1, <1>2, <1>6, <1>7, <3>1 DEF BatchInv, TypeOK, client
    <3>2. CASE q # p
      BY <1>1, <1>6, <1>7, <3>2 DEF BatchInv, TypeOK, client
    <3> QED BY <3>1, <3>2
  <2>2. /\ {opIdx', next', synced'} \subseteq [Procs -> Nat]
        /\ {written', committed', failed'} \subseteq [Procs -> SUBSET (Nat \ {0})]
    BY <1>1, <1>6, <1>7 DEF BatchInv, TypeOK, client
  <2>3. wire' \in [Procs -> Seq({"row", "norow", "error", "sync"})]
    BY <1>5 DEF Messages
  <2> QED BY <1>1, <1>8, <2>1, <2>2, <2>3, Zenon DEF BatchInv, TypeOK, client
<1>10. Elsewhere(p)
  BY <1>1, <1>5, <1>6, <1>7 DEF Elsewhere, Untouched, client
<1>11. /\ \A i, k : Separated(p, i, k)' <=> Separated(p, i, k)
       /\ \A i : Answer(p, i)' = Answer(p, i)
       /\ \A i : Good(p, i)' <=> Good(p, i)
  BY <1>1, SameOps, GoodBefore
<1>12. p \notin lost =>
          /\ pc[p] \in {"read", "drain"} /\ InGroup(p) /\ Recorded(p)
          /\ ~Separated(p, synced[p] + 1, n) /\ synced[p] \in Nat
          /\ pc[p] = "read" => Attributed(p)
  <2>1. p \notin lost => pc[p] \in {"read", "drain"}
    BY <1>1, DoneIsServed DEF GroupOpen, BatchInv, TypeOK
  <2> QED BY <1>a, <1>1, <2>1 DEF BatchInv, Own, GroupOpen, TypeOK
<1>13. ASSUME p \notin lost
       PROVE  InGroup(p)' /\ Recorded(p)'
  <2>1. /\ synced'[p] = synced[p] /\ failed'[p] = failed[p] /\ committed'[p] = committed[p]
        /\ ~aborted'[p] /\ opIdx'[p] = opIdx[p] /\ results'[p] = results[p]
        /\ next'[p] - 1 = n
    BY <1>1, <1>2, <1>6 DEF client
  <2>2. ASSUME NEW i \in synced[p] + 1 .. n
        PROVE  i \in written'[p] <=> Answer(p, i) = "row"
    <3>1. CASE i = n
      <4>1. n \notin written[p]
        BY <1>a, <1>2, <1>12, <1>13 DEF InGroup
      <4> QED BY <1>c, <1>7, <3>1, <4>1
    <3>2. CASE i # n
      <4>1. i \in synced[p] + 1 .. next[p] - 1
        BY <1>a, <1>2, <1>12, <1>13, <3>2
      <4> QED BY <1>1, <1>7, <1>12, <1>13, <3>2, <4>1 DEF InGroup
    <3> QED BY <3>1, <3>2
  <2>3. \A i \in written'[p] : synced[p] < i /\ i < n + 1
    BY <1>a, <1>2, <1>7, <1>12, <1>13 DEF InGroup
  <2>4. synced[p] < n + 1 /\ \A g \in failed[p] : g < n + 1
    <3>1. failed[p] \subseteq Nat
      BY DEF BatchInv, TypeOK
    <3> QED BY <1>a, <1>2, <1>12, <1>13, <3>1 DEF InGroup
  <2>5. ~Separated(p, synced[p] + 1, next[p] - 1)'
    <3>1. PICK k : k = synced[p] + 1
      OBVIOUS
    <3>2. ~Separated(p, k, n)'
      BY <1>11, <1>12, <1>13, <3>1
    <3> QED BY <2>1, <3>1, <3>2
  <2>6. InGroup(p)'
    BY <1>6, <1>11, <2>1, <2>2, <2>3, <2>4, <2>5 DEF InGroup
  <2>7. Recorded(p)'
    BY <1>11, <1>12, <1>13, <2>1 DEF Recorded
  <2> QED BY <2>6, <2>7
<1>14. ASSUME p \notin lost, pc[p] = "read"
       PROVE  Attributed(p)'
  <2>1. PICK f \in [1 .. Len(wire[p]) + 1 -> Nat \ {0}] : Attributes(p, f)
    BY <1>12, <1>14 DEF Attributed
  <2>c. PICK c : c = f[Len(wire[p]) + 1]
    OBVIOUS
  <2>2. Len(wire[p]) \in Nat /\ c \in Nat \ {0}
    <3>1. wire[p] \in Seq(Messages)
      BY DEF BatchInv, TypeOK, Messages
    <3>2. Len(wire[p]) \in Nat
      BY <3>1, LenProperties
    <3> QED BY <2>c, <3>2
  <2>3. /\ \A i \in 1 .. n - 1 : Good(p, i) => i < c
        /\ failed[p] = {} => c = n
    BY <1>a, <2>1, <2>c DEF Attributes
  <2>4. \A g \in failed[p] : g < n /\ g \in Nat
    BY <1>a, <1>12, <1>14 DEF InGroup, BatchInv, TypeOK
  <2>5. \A i \in Nat : \A g \in failed[p] : Good(p, i) => i < g
    BY <2>4 DEF Good, Separated
  <2>6. Good(p, c)' => m = Answer(p, c)
    <3> SUFFICES ASSUME Good(p, c) PROVE m = Answer(p, c)
      BY <1>11
    <3>1. CASE failed[p] = {}
      BY <1>c, <2>3, <3>1
    <3>2. CASE failed[p] # {}
      <4>1. PICK g \in failed[p] : TRUE
        BY <3>2
      <4>2. c \in 1 .. n - 1
        BY <1>2, <2>2, <2>4, <2>5, <4>1
      <4> QED BY <2>2, <2>3, <4>2
    <3> QED BY <3>1, <3>2
  <2>7. \A i \in 1 .. next'[p] - 1 : Good(p, i)' => i < c + 1
    <3> SUFFICES ASSUME NEW i \in 1 .. n, Good(p, i) PROVE i < c + 1
      BY <1>2, <1>6, <1>11
    <3>1. CASE failed[p] = {}
      BY <1>2, <2>2, <2>3, <3>1
    <3>2. CASE failed[p] # {}
      <4>g. PICK g \in failed[p] : g < n /\ g \in Nat
        BY <2>4, <3>2
      <4>1. i \in 1 .. n - 1
        BY <1>2, <2>5, <4>g
      <4> QED BY <1>2, <2>2, <2>3, <4>1
    <3> QED BY <3>1, <3>2
  <2>8. failed'[p] = {} => c + 1 = next'[p]
    BY <1>1, <1>6, <2>3
  <2>9. wire'[p] = Append(wire[p], m) /\ ops'[p] = ops[p] /\ opIdx'[p] = opIdx[p]
        /\ failed[p] \subseteq failed'[p] /\ TypeOK
    BY <1>1, <1>5, <1>14 DEF client, BatchInv
  <2>10. c + 1 \in Nat \ {0} /\ c + 1 = c + (IF m = "sync" THEN 0 ELSE 1)
    BY <1>3, <2>2
  <2> QED BY <1>3, <2>1, <2>c, <2>2, <2>6, <2>7, <2>8, <2>9, <2>10, SentIsAttributed
<1>15. Own(p)'
  BY <1>1, <1>12, <1>13, <1>14, ServedOwn
<1> QED BY <1>8, <1>9, <1>10, <1>15, OthersOwn DEF BatchInv

(* A group that failed is skipped.                                            *)
LEMMA ErrorResponseInv ==
    ASSUME BatchInv, NEW p \in Procs, ErrorResponse(p)
    PROVE  BatchInv'
<1>a. PICK n : n = next[p]
  OBVIOUS
<1>s. PICK s : s = synced[p]
  OBVIOUS
<1>1. PICK last \in n .. Len(ops[p]) :
         /\ pc[p] # "idle" /\ GroupOpen(p) /\ ~aborted[p]
         /\ aborted' = [aborted EXCEPT ![p] = TRUE]
         /\ failed' = [failed EXCEPT ![p] = @ \cup {n}]
         /\ next' = [next EXCEPT ![p] = last + 1]
         /\ ~Separated(p, n, last)
         /\ Send(p, "error") /\ Forget(p)
         /\ UNCHANGED <<balance, entries, ops, client, synced, lost, committed>>
  BY <1>a DEF ErrorResponse
<1>2. n \in 1 .. Len(ops[p]) /\ n \in Nat /\ Len(ops[p]) \in Nat /\ last \in Nat /\ s \in Nat
  <2>1. n \in 1 .. Len(ops[p])
    BY <1>a, <1>1, OpenMeansMore DEF BatchInv
  <2>2. Len(ops[p]) \in Nat /\ s \in Nat
    BY <1>s, LenProperties DEF BatchInv, TypeOK
  <2> QED BY <2>1, <2>2
<1>5. /\ wire' \in [Procs -> Seq(Messages)]
      /\ p \notin lost => wire'[p] = Append(wire[p], "error")
      /\ \A q \in Procs \ {p} : wire'[q] = wire[q]
  <2>1. "error" \in Messages
    BY DEF Messages
  <2> QED BY <1>1, <2>1, SendType DEF BatchInv
<1>6. /\ next'[p] = last + 1 /\ \A q \in Procs \ {p} : next'[q] = next[q]
      /\ next' \in [Procs -> Nat]
  BY <1>1, <1>2 DEF BatchInv, TypeOK
<1>7. /\ written'[p] = {} /\ \A q \in Procs \ {p} : written'[q] = written[q]
      /\ written' \in [Procs -> SUBSET (Nat \ {0})]
  BY <1>1 DEF Forget, BatchInv, TypeOK
<1>8. /\ failed'[p] = failed[p] \cup {n} /\ \A q \in Procs \ {p} : failed'[q] = failed[q]
      /\ failed' \in [Procs -> SUBSET (Nat \ {0})]
  <2>1. failed \in [Procs -> SUBSET (Nat \ {0})] /\ n \in Nat \ {0}
    BY <1>2 DEF BatchInv, TypeOK
  <2> QED BY <1>1, <2>1
<1>9. TypeOK'
  <2>1. ASSUME NEW q \in Procs
        PROVE  /\ Len(results'[q]) = Len(ops'[q])
               /\ {opIdx'[q], next'[q]} \subseteq 1 .. Len(ops'[q]) + 1
               /\ synced'[q] \in 0 .. Len(ops'[q])
               /\ written'[q] \cup committed'[q] \cup failed'[q] \subseteq 1 .. Len(ops'[q])
    <3>1. CASE q = p
      BY <1>1, <1>2, <1>6, <1>7, <1>8, <3>1 DEF BatchInv, TypeOK, client
    <3>2. CASE q # p
      BY <1>1, <1>6, <1>7, <1>8, <3>2 DEF BatchInv, TypeOK, client
    <3> QED BY <3>1, <3>2
  <2>2. /\ {opIdx', next', synced'} \subseteq [Procs -> Nat]
        /\ {written', committed', failed'} \subseteq [Procs -> SUBSET (Nat \ {0})]
    BY <1>1, <1>6, <1>7, <1>8 DEF BatchInv, TypeOK, client
  <2>3. wire' \in [Procs -> Seq({"row", "norow", "error", "sync"})]
    BY <1>5 DEF Messages
  <2>4. pending' \in [Procs -> [Accounts -> Seq(Entry)]]
    BY <1>1, EmptySeq DEF Forget, BatchInv, TypeOK
  <2>5. aborted' \in [Procs -> BOOLEAN]
    BY <1>1 DEF BatchInv, TypeOK
  <2> QED BY <1>1, <2>1, <2>2, <2>3, <2>4, <2>5, Zenon DEF BatchInv, TypeOK, client
<1>10. Elsewhere(p)
  BY <1>1, <1>5, <1>6, <1>7, <1>8 DEF Elsewhere, Untouched, client, BatchInv, TypeOK
<1>11. /\ \A i, k : Separated(p, i, k)' <=> Separated(p, i, k)
       /\ \A i : Answer(p, i)' = Answer(p, i)
       /\ \A i : Good(p, i)' => Good(p, i)
  BY <1>1, <1>8, SameOps, GoodBefore
<1>12. p \notin lost =>
          /\ pc[p] \in {"read", "drain"} /\ InGroup(p) /\ Recorded(p)
          /\ ~Separated(p, s + 1, n)
          /\ pc[p] = "read" => Attributed(p)
  <2>1. p \notin lost => pc[p] \in {"read", "drain"}
    BY <1>1, DoneIsServed DEF GroupOpen, BatchInv, TypeOK
  <2> QED BY <1>a, <1>s, <1>1, <2>1 DEF BatchInv, Own, GroupOpen
<1>13. ASSUME p \notin lost
       PROVE  InGroup(p)' /\ Recorded(p)'
  <2>1. /\ synced'[p] = s /\ committed'[p] = committed[p] /\ synced[p] = s
        /\ opIdx'[p] = opIdx[p] /\ results'[p] = results[p] /\ next'[p] - 1 = last
    BY <1>s, <1>1, <1>2, <1>6 DEF client
  <2>2. s < n /\ n <= last /\ \A g \in failed[p] : g < n
    BY <1>a, <1>s, <1>1, <1>2, <1>12, <1>13 DEF InGroup
  <2>3. ~Separated(p, s + 1, last)'
    <3>1. ~Separated(p, s + 1, last)
      BY <1>1, <1>2, <1>12, <1>13, <2>2 DEF Separated
    <3> QED BY <1>11, <3>1
  <2>4. \A g \in failed'[p] : g < last + 1
    <3>1. failed[p] \subseteq Nat
      BY DEF BatchInv, TypeOK
    <3> QED BY <1>2, <1>8, <2>2, <3>1
  <2>5. aborted'[p] /\ \E g \in failed'[p] : s < g
    BY <1>1, <1>8, <2>2 DEF BatchInv, TypeOK
  <2>6. InGroup(p)'
    <3>1. s < last + 1
      BY <1>2, <2>2
    <3> QED BY <1>6, <1>7, <2>1, <2>3, <2>4, <2>5, <3>1 DEF InGroup
  <2>7. Recorded(p)'
    BY <1>11, <1>12, <1>13, <2>1 DEF Recorded
  <2> QED BY <2>6, <2>7
<1>14. ASSUME p \notin lost, pc[p] = "read"
       PROVE  Attributed(p)'
  <2>1. PICK f \in [1 .. Len(wire[p]) + 1 -> Nat \ {0}] : Attributes(p, f)
    BY <1>12, <1>14 DEF Attributed
  <2>c. PICK c : c = f[Len(wire[p]) + 1]
    OBVIOUS
  <2>2. c \in Nat \ {0}
    <3>1. wire[p] \in Seq(Messages)
      BY DEF BatchInv, TypeOK, Messages
    <3>2. Len(wire[p]) \in Nat
      BY <3>1, LenProperties
    <3> QED BY <2>c, <3>2
  <2>3. \A i \in 1 .. n - 1 : Good(p, i) => i < c
    BY <1>a, <2>1, <2>c DEF Attributes
  <2>4. \A i \in Nat \ {0} : Good(p, i)' => i \in 1 .. n - 1 /\ i < c
    <3> SUFFICES ASSUME NEW i \in Nat \ {0}, Good(p, i)'
                 PROVE  i \in 1 .. n - 1 /\ i < c
      OBVIOUS
    <3>1. Separated(p, i, n)
      <4>1. Separated(p, i, n)'
        BY <1>8 DEF Good
      <4> QED BY <1>11, <4>1
    <3>2. i \in 1 .. n - 1
      BY <1>2, <3>1 DEF Separated
    <3> QED BY <1>11, <2>3, <3>2
  <2>6. ~Good(p, c)'
    BY <2>2, <2>4
  <2>7. \A i \in 1 .. next'[p] - 1 : Good(p, i)' => i < c + 1
    BY <1>2, <1>6, <2>2, <2>4
  <2>8. failed'[p] # {}
    BY <1>8
  <2>9. wire'[p] = Append(wire[p], "error") /\ ops'[p] = ops[p] /\ opIdx'[p] = opIdx[p]
        /\ failed[p] \subseteq failed'[p] /\ TypeOK
    BY <1>1, <1>5, <1>8, <1>14 DEF client, BatchInv
  <2>10. c + 1 \in Nat \ {0} /\ "error" \in Messages
    BY <2>2 DEF Messages
  <2> QED BY <2>1, <2>c, <2>2, <2>6, <2>7, <2>8, <2>9, <2>10, SentIsAttributed
<1>15. Own(p)'
  BY <1>1, <1>8, <1>12, <1>13, <1>14, ServedOwn
<1>16. OneWriter' /\ PendingChains' /\ AuditChain'
  BY <1>1, RowsForgotten
<1> QED BY <1>9, <1>10, <1>15, <1>16, OthersOwn DEF BatchInv

(* A Sync closes the group.                                                   *)
LEMMA PipelineSyncInv ==
    ASSUME BatchInv, NEW p \in Procs, PipelineSync(p)
    PROVE  BatchInv'
<1>a. PICK n : n = next[p]
  OBVIOUS
<1>s. PICK s : s = synced[p]
  OBVIOUS
<1>1. /\ pc[p] # "idle" /\ s < Len(ops[p]) /\ Separated(p, s + 1, n)
      /\ entries' = [a \in Accounts |-> entries[a] \o pending[p][a]]
      /\ balance' = [a \in Accounts |-> LastAfter(pending[p][a], balance[a])]
      /\ committed' = [committed EXCEPT ![p] = @ \cup written[p]]
      /\ synced' = [synced EXCEPT ![p] = n - 1]
      /\ aborted' = [aborted EXCEPT ![p] = FALSE]
      /\ Send(p, "sync") /\ Forget(p)
      /\ UNCHANGED <<ops, client, next, lost, failed>>
  BY <1>a, <1>s DEF PipelineSync, GroupOpen
<1>2. n \in 1 .. Len(ops[p]) + 1 /\ n \in Nat \ {0} /\ Len(ops[p]) \in Nat /\ s \in Nat
  BY <1>a, <1>s, LenProperties DEF BatchInv, TypeOK
<1>5. /\ wire' \in [Procs -> Seq(Messages)]
      /\ p \notin lost => wire'[p] = Append(wire[p], "sync")
      /\ \A q \in Procs \ {p} : wire'[q] = wire[q]
  <2>1. "sync" \in Messages
    BY DEF Messages
  <2> QED BY <1>1, <2>1, SendType DEF BatchInv
<1>6. /\ synced'[p] = n - 1 /\ \A q \in Procs \ {p} : synced'[q] = synced[q]
      /\ synced' \in [Procs -> Nat]
  BY <1>1, <1>2 DEF BatchInv, TypeOK
<1>7. /\ written'[p] = {} /\ \A q \in Procs \ {p} : written'[q] = written[q]
      /\ written' \in [Procs -> SUBSET (Nat \ {0})]
  BY <1>1 DEF Forget, BatchInv, TypeOK
<1>8. /\ committed'[p] = committed[p] \cup written[p]
      /\ \A q \in Procs \ {p} : committed'[q] = committed[q]
      /\ committed' \in [Procs -> SUBSET (Nat \ {0})]
  <2>1. committed \in [Procs -> SUBSET (Nat \ {0})] /\ written[p] \in SUBSET (Nat \ {0})
    BY DEF BatchInv, TypeOK
  <2> QED BY <1>1, <2>1
<1>9. TypeOK'
  <2>1. ASSUME NEW q \in Procs
        PROVE  /\ Len(results'[q]) = Len(ops'[q])
               /\ {opIdx'[q], next'[q]} \subseteq 1 .. Len(ops'[q]) + 1
               /\ synced'[q] \in 0 .. Len(ops'[q])
               /\ written'[q] \cup committed'[q] \cup failed'[q] \subseteq 1 .. Len(ops'[q])
    <3>1. CASE q = p
      BY <1>1, <1>2, <1>6, <1>7, <1>8, <3>1 DEF BatchInv, TypeOK, client
    <3>2. CASE q # p
      BY <1>1, <1>6, <1>7, <1>8, <3>2 DEF BatchInv, TypeOK, client
    <3> QED BY <3>1, <3>2
  <2>2. /\ {opIdx', next', synced'} \subseteq [Procs -> Nat]
        /\ {written', committed', failed'} \subseteq [Procs -> SUBSET (Nat \ {0})]
    BY <1>1, <1>6, <1>7, <1>8 DEF BatchInv, TypeOK, client
  <2>3. wire' \in [Procs -> Seq({"row", "norow", "error", "sync"})]
    BY <1>5 DEF Messages
  <2>4. pending' \in [Procs -> [Accounts -> Seq(Entry)]]
    BY <1>1, EmptySeq DEF Forget, BatchInv, TypeOK
  <2>5. aborted' \in [Procs -> BOOLEAN]
    BY <1>1 DEF BatchInv, TypeOK
  <2>6. balance' \in [Accounts -> Int] /\ entries' \in [Accounts -> Seq(Entry)]
    <3>1. ASSUME NEW a \in Accounts
          PROVE  LastAfter(pending[p][a], balance[a]) \in Int
                 /\ entries[a] \o pending[p][a] \in Seq(Entry)
      <4>1. pending[p][a] \in Seq(Entry) /\ entries[a] \in Seq(Entry) /\ balance[a] \in Int
        BY DEF BatchInv, TypeOK
      <4> QED BY <4>1, LastAfterType, ConcatProperties
    <3> QED BY <1>1, <3>1
  <2> QED BY <1>1, <2>1, <2>2, <2>3, <2>4, <2>5, <2>6, Zenon DEF BatchInv, TypeOK, client
<1>10. Elsewhere(p)
  BY <1>1, <1>5, <1>6, <1>7, <1>8 DEF Elsewhere, Untouched, client, BatchInv, TypeOK
<1>11. /\ \A i, k : Separated(p, i, k)' <=> Separated(p, i, k)
       /\ \A i : Answer(p, i)' = Answer(p, i)
       /\ \A i : Good(p, i)' <=> Good(p, i)
  BY <1>1, SameOps, GoodBefore
<1>12. p \notin lost =>
          /\ pc[p] \in {"read", "drain"} /\ InGroup(p) /\ Recorded(p)
          /\ pc[p] = "read" => Attributed(p)
  <2>1. p \notin lost => pc[p] \in {"read", "drain"}
    BY <1>s, <1>1, DoneIsServed DEF BatchInv, TypeOK
  <2> QED BY <2>1 DEF BatchInv, Own
<1>13. ASSUME p \notin lost
       PROVE  InGroup(p)' /\ Recorded(p)'
  <2>1. /\ failed'[p] = failed[p] /\ ~aborted'[p] /\ next'[p] = n /\ next[p] = n
        /\ opIdx'[p] = opIdx[p] /\ results'[p] = results[p] /\ synced[p] = s
    BY <1>a, <1>s, <1>1 DEF client, BatchInv, TypeOK
  <2>2. InGroup(p) /\ Recorded(p) /\ s < n
    BY <1>12, <1>13, <2>1 DEF InGroup
  <2>3. ~Separated(p, n, n - 1)'
    BY <1>2 DEF Separated
  <2>4. InGroup(p)'
    <3>1. ~Separated(p, synced[p] + 1, next[p] - 1)'
      <4>1. (n - 1) + 1 = n
        BY <1>2
      <4> QED BY <1>6, <2>1, <2>3, <4>1
    <3>2. synced'[p] < n /\ \A g \in failed[p] : g < n
      BY <1>2, <1>6, <2>1, <2>2 DEF InGroup
    <3>3. \A i \in synced'[p] + 1 .. n - 1 : i \in written'[p] <=> Answer(p, i)' = "row"
      BY <1>2, <1>6
    <3> QED BY <1>7, <2>1, <3>1, <3>2, <3>3 DEF InGroup
  <2>5. ASSUME NEW i \in 1 .. n - 1, Good(p, i)
        PROVE  i \in committed'[p] <=> Answer(p, i) = "row"
    <3>1. CASE i <= s
      <4>1. i \notin written[p]
        BY <1>2, <2>1, <2>2, <3>1 DEF InGroup
      <4>2. i \in committed[p] <=> Answer(p, i) = "row"
        BY <1>2, <2>1, <2>2, <2>5, <3>1 DEF Recorded
      <4> QED BY <1>8, <4>1, <4>2
    <3>2. CASE ~(i <= s)
      <4>1. i \in s + 1 .. n - 1
        BY <1>2, <3>2
      <4>2. i \notin committed[p]
        BY <1>2, <2>1, <2>2, <3>2 DEF Recorded
      <4>3. ~aborted[p]
        <5> SUFFICES ASSUME aborted[p] PROVE FALSE
          OBVIOUS
        <5>1. PICK g \in failed[p] : s < g /\ g < n /\ g \in Nat
          BY <2>1, <2>2 DEF InGroup, BatchInv, TypeOK
        <5>2. PICK j \in i .. g - 1 : SyncAfter(p, j)
          BY <2>5 DEF Good, Separated
        <5>3. j \in s + 1 .. (n - 1) - 1
          BY <1>2, <4>1, <5>1
        <5>4. Separated(p, s + 1, n - 1)
          BY <5>2, <5>3 DEF Separated
        <5> QED BY <2>1, <2>2, <5>4 DEF InGroup
      <4>4. i \in written[p] <=> Answer(p, i) = "row"
        BY <2>1, <2>2, <4>1, <4>3 DEF InGroup
      <4> QED BY <1>8, <4>2, <4>4
    <3> QED BY <3>1, <3>2
  <2>6. \A i \in committed'[p] : i <= n - 1
    <3>1. committed[p] \subseteq Nat /\ written[p] \subseteq Nat
      BY DEF BatchInv, TypeOK
    <3> QED BY <1>2, <1>8, <2>1, <2>2, <3>1 DEF InGroup, Recorded
  <2>7. \A i \in 1 .. opIdx'[p] - 1 : Good(p, i)' => results'[p][i] = Answer(p, i)'
    BY <1>11, <2>1, <2>2 DEF Recorded
  <2>8. \A i \in 1 .. synced'[p] : Good(p, i)' => (i \in committed'[p] <=> Answer(p, i)' = "row")
    BY <1>6, <1>11, <2>5
  <2>9. Recorded(p)'
    BY <1>6, <2>6, <2>7, <2>8 DEF Recorded
  <2> QED BY <2>4, <2>9
<1>14. ASSUME p \notin lost, pc[p] = "read"
       PROVE  Attributed(p)'
  <2>1. PICK f \in [1 .. Len(wire[p]) + 1 -> Nat \ {0}] : Attributes(p, f)
    BY <1>12, <1>14 DEF Attributed
  <2>c. PICK c : c = f[Len(wire[p]) + 1]
    OBVIOUS
  <2>2. c \in Nat \ {0}
    <3>1. wire[p] \in Seq(Messages)
      BY DEF BatchInv, TypeOK, Messages
    <3>2. Len(wire[p]) \in Nat
      BY <3>1, LenProperties
    <3> QED BY <2>c, <3>2
  <2>3. next'[p] = next[p] /\ failed'[p] = failed[p]
    BY <1>1
  <2>7. \A i \in 1 .. next'[p] - 1 : Good(p, i)' => i < c
    BY <1>11, <2>1, <2>c, <2>3 DEF Attributes
  <2>8. failed'[p] = {} => c = next'[p]
    BY <2>1, <2>c, <2>3 DEF Attributes
  <2>9. wire'[p] = Append(wire[p], "sync") /\ ops'[p] = ops[p] /\ opIdx'[p] = opIdx[p]
        /\ failed[p] \subseteq failed'[p] /\ TypeOK
    BY <1>1, <1>5, <1>14 DEF client, BatchInv
  <2>10. c = c + 0 /\ "sync" \in Messages
    BY <2>2 DEF Messages
  <2> QED BY <2>1, <2>c, <2>2, <2>7, <2>8, <2>9, <2>10, SentIsAttributed
<1>15. Own(p)'
  BY <1>1, <1>12, <1>13, <1>14, ServedOwn
<1>16. OneWriter' /\ PendingChains' /\ AuditChain'
  BY <1>1, RowsCommitted
<1> QED BY <1>9, <1>10, <1>15, <1>16, OthersOwn DEF BatchInv

(* Nothing is promised of a call whose connection is lost.                    *)
LEMMA LoseInv ==
    ASSUME BatchInv, NEW p \in Procs, Lose(p)
    PROVE  BatchInv'
<1>1. /\ pc[p] \in {"read", "drain"} /\ lost' = lost \cup {p}
      /\ wire' = [wire EXCEPT ![p] = << >>]
      /\ UNCHANGED <<balance, entries, ops, client, server, committed, failed>>
  BY DEF Lose
<1>2. TypeOK'
  <2>1. wire' \in [Procs -> Seq({"row", "norow", "error", "sync"})]
    BY <1>1, EmptySeq DEF BatchInv, TypeOK
  <2>2. lost' \subseteq Procs
    BY <1>1 DEF BatchInv, TypeOK
  <2> QED BY <1>1, <2>1, <2>2, Zenon DEF BatchInv, TypeOK, client, server
<1>3. Elsewhere(p)
  BY <1>1 DEF Elsewhere, Untouched, client, server, BatchInv, TypeOK
<1>4. Own(p)'
  BY <1>1 DEF Own, Fresh, client
<1>5. OneWriter' /\ PendingChains' /\ AuditChain'
  BY <1>1, RowsKept DEF BatchInv, server
<1> QED BY <1>2, <1>3, <1>4, <1>5, OthersOwn DEF BatchInv

LEMMA DisconnectedInv ==
    ASSUME BatchInv, NEW p \in Procs, Disconnected(p)
    PROVE  BatchInv'
<1> DEFINE n == Len(ops[p])
<1>1. /\ p \in lost /\ Forget(p)
      /\ next' = [next EXCEPT ![p] = n + 1] /\ synced' = [synced EXCEPT ![p] = n]
      /\ UNCHANGED <<balance, entries, ops, client, wire, aborted, lost, committed, failed>>
  BY DEF Disconnected
<1>2. n \in Nat
  BY LenProperties DEF BatchInv, TypeOK
<1>3. /\ next' \in [Procs -> Nat] /\ next'[p] = n + 1
      /\ synced' \in [Procs -> Nat] /\ synced'[p] = n
      /\ written' \in [Procs -> SUBSET (Nat \ {0})] /\ written'[p] = {}
      /\ \A q \in Procs \ {p} :
            next'[q] = next[q] /\ synced'[q] = synced[q] /\ written'[q] = written[q]
  BY <1>1, <1>2 DEF Forget, BatchInv, TypeOK
<1>4. TypeOK'
  <2>1. ASSUME NEW q \in Procs
        PROVE  /\ Len(results'[q]) = Len(ops'[q])
               /\ {opIdx'[q], next'[q]} \subseteq 1 .. Len(ops'[q]) + 1
               /\ synced'[q] \in 0 .. Len(ops'[q])
               /\ written'[q] \cup committed'[q] \cup failed'[q] \subseteq 1 .. Len(ops'[q])
    <3>1. CASE q = p
      BY <1>1, <1>2, <1>3, <3>1 DEF BatchInv, TypeOK, client
    <3>2. CASE q # p
      BY <1>1, <1>3, <3>2 DEF BatchInv, TypeOK, client
    <3> QED BY <3>1, <3>2
  <2>2. /\ {opIdx', next', synced'} \subseteq [Procs -> Nat]
        /\ {written', committed', failed'} \subseteq [Procs -> SUBSET (Nat \ {0})]
    BY <1>1, <1>3 DEF BatchInv, TypeOK, client
  <2>3. pending' \in [Procs -> [Accounts -> Seq(Entry)]]
    BY <1>1, EmptySeq DEF Forget, BatchInv, TypeOK
  <2> QED BY <1>1, <2>1, <2>2, <2>3, Zenon DEF BatchInv, TypeOK, client
<1>5. Elsewhere(p)
  BY <1>1, <1>3 DEF Elsewhere, Untouched, client
<1>6. Own(p)'
  <2>1. pc[p] # "idle"
    BY <1>1 DEF BatchInv, Own, Fresh
  <2> QED BY <1>1, <2>1 DEF Own, Fresh, client
<1>7. OneWriter' /\ PendingChains' /\ AuditChain'
  BY <1>1, RowsForgotten
<1> QED BY <1>4, <1>5, <1>6, <1>7, OthersOwn DEF BatchInv

-----------------------------------------------------------------------------
(* The loops that read *)

LEMMA ConsumeType ==
    ASSUME TypeOK, NEW p \in Procs, Consume(p)
    PROVE  /\ wire' \in [Procs -> Seq(Messages)]
           /\ wire[p] # << >> => wire'[p] = Tail(wire[p])
           /\ \A q \in Procs \ {p} : wire'[q] = wire[q]
<1>1. wire \in [Procs -> Seq(Messages)]
  BY DEF TypeOK, Messages
<1>2. wire[p] # << >> => Tail(wire[p]) \in Seq(Messages)
  BY <1>1, HeadTailProperties
<1> QED BY <1>1, <1>2 DEF Consume

LEMMA ReadResultInv ==
    ASSUME BatchInv, NEW p \in Procs, ReadResult(p)
    PROVE  BatchInv'
<1>i. PICK i : i = opIdx[p]
  OBVIOUS
<1>r. PICK r : r = GetResults(p)
  OBVIOUS
<1>1. /\ pc[p] = "read" /\ i <= Len(ops[p]) /\ HasResults(p) /\ Consume(p)
      /\ \/ r = "sync" /\ UNCHANGED <<results, opIdx>>
         \/ /\ r # "sync" /\ results' = [results EXCEPT ![p][i] = r]
            /\ opIdx' = [opIdx EXCEPT ![p] = i + 1]
      /\ UNCHANGED <<balance, entries, ops, pc, server, lost, committed, failed>>
  BY <1>i, <1>r DEF ReadResult
<1>2. i \in 1 .. Len(ops[p]) /\ i \in Nat \ {0} /\ Len(ops[p]) \in Nat
  BY <1>i, <1>1, LenProperties DEF BatchInv, TypeOK
<1>3. /\ wire' \in [Procs -> Seq(Messages)]
      /\ wire[p] # << >> => wire'[p] = Tail(wire[p])
      /\ \A q \in Procs \ {p} : wire'[q] = wire[q]
  BY <1>1, ConsumeType DEF BatchInv
<1>4. r \in Messages /\ (p \notin lost => wire[p] # << >> /\ r = wire[p][1])
  <2>1. wire[p] \in Seq(Messages) /\ "error" \in Messages
    BY DEF BatchInv, TypeOK, Messages
  <2>2. wire[p] # << >> => Head(wire[p]) \in Messages /\ Head(wire[p]) = wire[p][1]
    BY <2>1, HeadTailProperties
  <2> QED BY <1>1, <1>r, <2>1, <2>2 DEF GetResults, HasResults
<1>5. /\ results' \in [Procs -> Seq(Results)] /\ Len(results'[p]) = Len(results[p])
      /\ opIdx' \in [Procs -> Nat]
      /\ \A q \in Procs \ {p} : results'[q] = results[q] /\ opIdx'[q] = opIdx[q]
      /\ r = "sync" => opIdx'[p] = i /\ results'[p] = results[p]
      /\ r # "sync" => /\ opIdx'[p] = i + 1 /\ results'[p][i] = r
                       /\ \A k \in 1 .. i - 1 : results'[p][k] = results[p][k]
  <2>1. /\ results \in [Procs -> Seq(Results)] /\ Len(results[p]) = Len(ops[p])
        /\ opIdx \in [Procs -> Nat]
    BY DEF BatchInv, TypeOK, Results
  <2>2. CASE r = "sync"
    BY <1>1, <1>i, <2>1, <2>2
  <2>3. CASE r # "sync"
    <3>1. r \in Results
      BY <1>4, <2>3 DEF Messages, Results
    <3>2. [results[p] EXCEPT ![i] = r] \in Seq(Results)
          /\ Len([results[p] EXCEPT ![i] = r]) = Len(results[p])
      BY <1>2, <2>1, <3>1, ExceptSeq
    <3>3. /\ results'[p] = [results[p] EXCEPT ![i] = r]
          /\ \A q \in Procs \ {p} : results'[q] = results[q]
          /\ results' \in [Procs -> Seq(Results)]
      BY <1>1, <2>1, <2>3, <3>2
    <3>4. results'[p][i] = r /\ \A k \in 1 .. i - 1 : results'[p][k] = results[p][k]
      BY <1>2, <2>1, <3>2, <3>3, ExceptSeq
    <3>5. opIdx'[p] = i + 1 /\ opIdx' \in [Procs -> Nat]
          /\ \A q \in Procs \ {p} : opIdx'[q] = opIdx[q]
      <4>1. i + 1 \in Nat /\ opIdx' = [opIdx EXCEPT ![p] = i + 1]
        BY <1>1, <1>2, <2>3
      <4> QED BY ONLY <2>1, <4>1, p \in Procs
    <3> QED BY <2>3, <3>2, <3>3, <3>4, <3>5
  <2> QED BY <2>2, <2>3
<1>6. TypeOK'
  <2>1. ASSUME NEW q \in Procs
        PROVE  Len(results'[q]) = Len(ops'[q]) /\ opIdx'[q] \in 1 .. Len(ops'[q]) + 1
    <3>1. CASE q = p
      BY <1>1, <1>2, <1>5, <3>1 DEF BatchInv, TypeOK
    <3>2. CASE q # p
      BY <1>1, <1>5, <3>2 DEF BatchInv, TypeOK
    <3> QED BY <3>1, <3>2
  <2>2. ASSUME NEW q \in Procs
        PROVE  /\ {opIdx'[q], next'[q]} \subseteq 1 .. Len(ops'[q]) + 1
               /\ synced'[q] \in 0 .. Len(ops'[q])
               /\ written'[q] \cup committed'[q] \cup failed'[q] \subseteq 1 .. Len(ops'[q])
    BY <1>1, <2>1 DEF BatchInv, TypeOK, server
  <2>3. {opIdx', next', synced'} \subseteq [Procs -> Nat]
    BY <1>1, <1>5 DEF BatchInv, TypeOK, server
  <2>4. wire' \in [Procs -> Seq({"row", "norow", "error", "sync"})]
        /\ results' \in [Procs -> Seq({"none", "row", "norow", "error"})]
    BY <1>3, <1>5 DEF Messages, Results
  <2> QED BY <1>1, <2>1, <2>2, <2>3, <2>4, Zenon DEF BatchInv, TypeOK, server
<1>7. Elsewhere(p)
  BY <1>1, <1>3, <1>5 DEF Elsewhere, Untouched, server
<1>8. /\ \A k : Answer(p, k)' = Answer(p, k)
      /\ \A k : Good(p, k)' <=> Good(p, k)
      /\ \A j, k : Separated(p, j, k)' <=> Separated(p, j, k)
  BY <1>1, SameOps, GoodBefore
<1>9. ASSUME p \notin lost
      PROVE  InGroup(p)' /\ Recorded(p)' /\ Attributed(p)'
  <2>1. InGroup(p) /\ Recorded(p) /\ Attributed(p)
    BY <1>1, <1>9 DEF BatchInv, Own
  <2>2. InGroup(p)'
    <3>1. PICK j, k : j = synced[p] + 1 /\ k = next[p] - 1
      OBVIOUS
    <3>2. (~Separated(p, j, k))'
      BY <1>8, <2>1, <3>1 DEF InGroup
    <3> QED BY <1>1, <1>8, <2>1, <3>1, <3>2 DEF InGroup, server
  <2>3. PICK f \in [1 .. Len(wire[p]) + 1 -> Nat \ {0}] : Attributes(p, f)
    BY <2>1 DEF Attributed
  <2>4. f[1] = i /\ (r # "sync" /\ Good(p, i) => r = Answer(p, i))
    <3>1. 1 \in 1 .. Len(wire[p])
      <4>1. wire[p] \in Seq(Messages) /\ wire[p] # << >>
        BY <1>4, <1>9 DEF BatchInv, TypeOK, Messages
      <4> QED BY <4>1, EmptySeq, LenProperties
    <3> QED BY <1>i, <1>4, <1>9, <2>3, <3>1 DEF Attributes
  <2>5. Recorded(p)'
    <3>1. ASSUME NEW k \in 1 .. opIdx'[p] - 1, Good(p, k)
          PROVE  results'[p][k] = Answer(p, k)
      <4>1. CASE k \in 1 .. i - 1
        BY <1>i, <1>5, <2>1, <3>1, <4>1 DEF Recorded
      <4>2. CASE k \notin 1 .. i - 1
        <5>1. r # "sync" /\ k = i
          BY <1>2, <1>5, <4>2
        <5> QED BY <1>5, <2>4, <3>1, <5>1
      <4> QED BY <4>1, <4>2
    <3> QED BY <1>1, <1>8, <2>1, <3>1 DEF Recorded, server
  <2>6. Attributed(p)'
    <3>1. opIdx'[p] = opIdx[p] + (IF wire[p][1] = "sync" THEN 0 ELSE 1)
      BY <1>i, <1>2, <1>4, <1>5, <1>9
    <3> QED BY <1>1, <1>3, <1>4, <1>9, <2>3, <3>1, ReadIsAttributed DEF BatchInv, server
  <2> QED BY <2>2, <2>5, <2>6
<1>10. Own(p)'
  BY <1>1, <1>9 DEF Own, Fresh
<1>11. OneWriter' /\ PendingChains' /\ AuditChain'
  BY <1>1, RowsKept DEF BatchInv, server
<1> QED BY <1>6, <1>7, <1>10, <1>11, OthersOwn DEF BatchInv

(* The read loop leaves no operation before a failure without its result.     *)
LEMMA EndOfReadsInv ==
    ASSUME BatchInv, NEW p \in Procs, EndOfReads(p)
    PROVE  BatchInv'
<1>1. /\ pc[p] = "read" /\ (opIdx[p] > Len(ops[p]) \/ NoMoreResults(p))
      /\ pc' = [pc EXCEPT ![p] = "drain"]
      /\ UNCHANGED <<balance, entries, ops, results, opIdx, wire, server, lost, committed,
                     failed>>
  BY DEF EndOfReads
<1>2. TypeOK'
  <2>1. pc' \in [Procs -> {"idle", "read", "drain", "done"}]
    BY <1>1 DEF BatchInv, TypeOK
  <2> QED BY <1>1, <2>1, Zenon DEF BatchInv, TypeOK, server
<1>3. Elsewhere(p)
  BY <1>1 DEF Elsewhere, Untouched, server, BatchInv, TypeOK
<1>4. pc'[p] = "drain"
  BY <1>1 DEF BatchInv, TypeOK
<1>8. /\ \A k : Answer(p, k)' = Answer(p, k)
      /\ \A k : Good(p, k)' <=> Good(p, k)
      /\ \A j, k : Separated(p, j, k)' <=> Separated(p, j, k)
  BY <1>1, SameOps, GoodBefore
<1>9. ASSUME p \notin lost
      PROVE  /\ InGroup(p)' /\ Recorded(p)'
             /\ \A i \in opIdx'[p] .. Len(ops'[p]) : ~Good(p, i)'
  <2>1. InGroup(p) /\ Recorded(p) /\ Attributed(p)
    BY <1>1, <1>9 DEF BatchInv, Own
  <2>2. InGroup(p)'
    <3>1. PICK j, k : j = synced[p] + 1 /\ k = next[p] - 1
      OBVIOUS
    <3>2. (~Separated(p, j, k))'
      BY <1>8, <2>1, <3>1 DEF InGroup
    <3> QED BY <1>1, <1>8, <2>1, <3>1, <3>2 DEF InGroup, server
  <2>3. Recorded(p)'
    BY <1>1, <1>8, <2>1 DEF Recorded, server
  <2>t. opIdx[p] \in Nat \ {0} /\ Len(ops[p]) \in Nat /\ next[p] \in 1 .. Len(ops[p]) + 1
    BY LenProperties DEF BatchInv, TypeOK
  <2>4. ASSUME NEW i \in opIdx[p] .. Len(ops[p])
        PROVE  ~Good(p, i)
    <3>1. wire[p] = << >> /\ synced[p] = Len(ops[p]) /\ opIdx[p] <= Len(ops[p])
      BY <1>1, <2>t, <2>4 DEF NoMoreResults
    <3>2. next[p] = Len(ops[p]) + 1 /\ Len(wire[p]) = 0
      BY <2>1, <2>t, <3>1, EmptySeq DEF InGroup
    <3>3. PICK f \in [1 .. Len(wire[p]) + 1 -> Nat \ {0}] : Attributes(p, f)
      BY <2>1 DEF Attributed
    <3>4. /\ f[1] = opIdx[p]
          /\ \A k \in 1 .. next[p] - 1 : Good(p, k) => k < f[1]
      BY <3>2, <3>3 DEF Attributes
    <3> QED BY <2>t, <2>4, <3>2, <3>4
  <2> QED BY <1>1, <1>8, <2>2, <2>3, <2>4
<1>10. Own(p)'
  BY <1>1, <1>4, <1>9 DEF Own, Fresh
<1>11. OneWriter' /\ PendingChains' /\ AuditChain'
  BY <1>1, RowsKept DEF BatchInv, server
<1> QED BY <1>2, <1>3, <1>10, <1>11, OthersOwn DEF BatchInv

(* The drain loop stops when the server has nothing left to do.               *)
LEMMA DrainInv ==
    ASSUME BatchInv, NEW p \in Procs, Drain(p)
    PROVE  BatchInv'
<1>1. /\ pc[p] = "drain"
      /\ \/ HasResults(p) /\ Consume(p) /\ UNCHANGED pc
         \/ NoMoreResults(p) /\ pc' = [pc EXCEPT ![p] = "done"] /\ UNCHANGED wire
      /\ UNCHANGED <<balance, entries, ops, results, opIdx, server, lost, committed, failed>>
  BY DEF Drain
<1>2. /\ wire' \in [Procs -> Seq(Messages)]
      /\ pc' \in [Procs -> {"idle", "read", "drain", "done"}]
      /\ \A q \in Procs \ {p} : wire'[q] = wire[q] /\ pc'[q] = pc[q]
  <2>1. wire \in [Procs -> Seq(Messages)] /\ pc \in [Procs -> {"idle", "read", "drain", "done"}]
    BY DEF BatchInv, TypeOK, Messages
  <2>2. CASE Consume(p) /\ UNCHANGED pc
    BY <2>1, <2>2, ConsumeType DEF BatchInv
  <2>3. CASE pc' = [pc EXCEPT ![p] = "done"] /\ UNCHANGED wire
    BY <2>1, <2>3
  <2> QED BY <1>1, <2>2, <2>3
<1>3. TypeOK'
  <2>1. wire' \in [Procs -> Seq({"row", "norow", "error", "sync"})]
    BY <1>2 DEF Messages
  <2> QED BY <1>1, <1>2, <2>1, Zenon DEF BatchInv, TypeOK, server
<1>4. Elsewhere(p)
  BY <1>1, <1>2 DEF Elsewhere, Untouched, server
<1>8. /\ \A k : Answer(p, k)' = Answer(p, k)
      /\ \A k : Good(p, k)' <=> Good(p, k)
      /\ \A j, k : Separated(p, j, k)' <=> Separated(p, j, k)
  BY <1>1, SameOps, GoodBefore
<1>9. ASSUME p \notin lost
      PROVE  InGroup(p) /\ Recorded(p) /\ \A i \in opIdx[p] .. Len(ops[p]) : ~Good(p, i)
  BY <1>1, <1>9 DEF BatchInv, Own
<1>10. Own(p)'
  <2>1. CASE UNCHANGED pc
    <3>1. ASSUME p \notin lost
          PROVE  /\ InGroup(p)' /\ Recorded(p)'
                 /\ \A i \in opIdx'[p] .. Len(ops'[p]) : ~Good(p, i)'
      <4>1. InGroup(p)'
        <5>1. PICK j, k : j = synced[p] + 1 /\ k = next[p] - 1
          OBVIOUS
        <5>2. (~Separated(p, j, k))'
          BY <1>8, <1>9, <3>1, <5>1 DEF InGroup
        <5> QED BY <1>1, <1>8, <1>9, <3>1, <5>1, <5>2 DEF InGroup, server
      <4>2. Recorded(p)'
        BY <1>1, <1>8, <1>9, <3>1 DEF Recorded, server
      <4> QED BY <1>1, <1>8, <1>9, <3>1, <4>1, <4>2
    <3> QED BY <1>1, <2>1, <3>1 DEF Own, Fresh
  <2>2. CASE NoMoreResults(p) /\ pc' = [pc EXCEPT ![p] = "done"] /\ UNCHANGED wire
    <3>1. /\ p \notin lost /\ wire[p] = << >> /\ synced[p] = Len(ops[p]) /\ pc'[p] = "done"
          /\ opIdx[p] \in Nat \ {0}
      BY <2>2 DEF NoMoreResults, BatchInv, TypeOK
    <3>2. ASSUME NEW i \in 1 .. Len(ops[p]), Good(p, i)
          PROVE  Truthful(p, i)
      <4>1. i \in 1 .. opIdx[p] - 1
        BY <1>9, <3>1, <3>2
      <4>2. results[p][i] = Answer(p, i) /\ (i \in committed[p] <=> Answer(p, i) = "row")
        BY <1>9, <3>1, <3>2, <4>1 DEF Recorded
      <4> QED BY <4>2 DEF Truthful
    <3>3. Returned(p)'
      BY <1>1, <1>8, <2>2, <3>1, <3>2 DEF Returned, Truthful, server
    <3> QED BY <1>1, <3>1, <3>3 DEF Own, Fresh
  <2> QED BY <1>1, <2>1, <2>2
<1>11. OneWriter' /\ PendingChains' /\ AuditChain'
  BY <1>1, RowsKept DEF BatchInv, server
<1> QED BY <1>3, <1>4, <1>10, <1>11, OthersOwn DEF BatchInv

-----------------------------------------------------------------------------
(* The theorems *)

LEMMA NextBatchInv == BatchInv /\ [Next]_vars => BatchInv'
<1> SUFFICES ASSUME BatchInv, [Next]_vars PROVE BatchInv'
  OBVIOUS
<1>1. CASE Next
  <2>1. PICK p \in Procs :
           \/ \E b \in Batches : Start(p, b)
           \/ Server(p) \/ Fail(p) \/ LockTimeout(p) \/ Lose(p) \/ Disconnected(p)
           \/ Client(p)
    BY <1>1 DEF Next
  <2>2. CASE \E b \in Batches : Start(p, b)
    BY <2>2, StartInv
  <2>3. CASE Server(p)
    BY <2>3, ExecuteInv, PipelineSyncInv DEF Server
  <2>4. CASE Fail(p) \/ LockTimeout(p)
    BY <2>4, ErrorResponseInv DEF Fail, LockTimeout
  <2>5. CASE Lose(p) \/ Disconnected(p)
    BY <2>5, LoseInv, DisconnectedInv
  <2>6. CASE Client(p)
    BY <2>6, ReadResultInv, EndOfReadsInv, DrainInv DEF Client
  <2> QED BY <2>1, <2>2, <2>3, <2>4, <2>5, <2>6
<1>2. CASE UNCHANGED vars
  <2>1. UNCHANGED <<balance, entries, ops, client, wire, server, lost, committed, failed>>
    BY <1>2 DEF vars
  <2>2. TypeOK'
    BY <2>1, Zenon DEF BatchInv, TypeOK, client, server
  <2>3. ASSUME NEW p \in Procs PROVE Untouched(p)
    BY <2>1 DEF Untouched, client, server
  <2>4. ASSUME NEW p \in Procs PROVE Own(p)'
    BY <2>3, UntouchedOwn DEF BatchInv
  <2>5. OneWriter' /\ PendingChains' /\ AuditChain'
    BY <2>1, RowsKept DEF BatchInv, server
  <2> QED BY <2>2, <2>4, <2>5 DEF BatchInv
<1> QED BY <1>1, <1>2

(* In every state of any number of concurrent ExecBatch calls the invariant   *)
(* holds: the server is in the group it should be in, the answers on the wire *)
(* are those the read loop takes them for, and locked rows extend the chain.  *)
THEOREM BatchInvariant == Spec => []BatchInv
<1> QED BY InitBatchInv, NextBatchInv, PTL DEF Spec

(* Every account's entries form an unbroken chain that ends in its balance,   *)
(* however the groups of concurrent batches interleave, fail and time out:    *)
(* entries computed within a group and committed by its Sync are based on     *)
(* balances nobody else could change.                                        *)
THEOREM EntriesAreAChain == Spec => []AuditChain
<1>1. BatchInv => AuditChain
  BY DEF BatchInv
<1> QED BY <1>1, BatchInvariant, PTL

(* An operation before the group of the first failure is reported as done if  *)
(* and only if its effect was committed: ExecBatch's counting of answers goes *)
(* wrong only from the group of a failure on.                                *)
THEOREM TruthBeforeFailure == Spec => []TruthfulBeforeFailure
<1>1. BatchInv => TruthfulBeforeFailure
  BY DEF BatchInv, Own, Returned, Good, TruthfulBeforeFailure
<1> QED BY <1>1, BatchInvariant, PTL

(* When ExecBatch returns on a connection that works, no answer is left on it *)
(* for the next user of the pool, and no operation is still to run.           *)
THEOREM NothingAfterReturn == Spec => []CleanOnReturn
<1>1. BatchInv => CleanOnReturn
  BY DEF BatchInv, Own, Returned, CleanOnReturn
<1> QED BY <1>1, BatchInvariant, PTL
=============================================================================
