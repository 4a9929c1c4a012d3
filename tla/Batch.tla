-------------------------------- MODULE Batch --------------------------------
(***************************************************************************)
(* ExecBatch of internal/ledger/service.go: deposits and withdrawals sent   *)
(* down one connection in a single flush, with a Sync after every           *)
(* batchSyncGroup operations, and the loops that read the answers back.     *)
(*                                                                         *)
(* The server runs the statements in order.  Those up to a Sync are one     *)
(* implicit transaction: their row locks and effects last until the Sync,   *)
(* and an error undoes all of them and skips the rest of the group without   *)
(* an answer.  The client counts answers to tell which operation each one   *)
(* belongs to.  A process is one call of ExecBatch on its own connection.   *)
(***************************************************************************)
EXTENDS LedgerBase, FiniteSets

CONSTANTS
    Batches,         \* the operation lists clients send, from BatchOp
    batchSyncGroup,  \* operations per Sync; 10 in the code
    Procs,           \* calls in progress at once
    MaxFailures,     \* bound: statements of a call that fail by themselves
    MaxLosses        \* bound: connections that are lost in a behaviour

BatchOp == [type : {"deposit", "withdraw"}, account : AccountIDs, amount : Amounts]

ASSUME BatchAssumption ==
    /\ batchSyncGroup \in Nat \ {0}
    /\ MaxFailures \in Nat /\ MaxLosses \in Nat
    /\ Batches \subseteq Seq(BatchOp)

VARIABLES
    balance, entries,  \* the committed tables
    ops,               \* the operations of a call
    pc,                \* "idle", "read", "drain", "done"
    results, opIdx,    \* the code's results and opIdx (the next one to fill)
    wire,              \* answers sent and not yet read
    next, synced,      \* server: the next operation, the last one synced
    pending,           \* server: the entries written since the last Sync
    written,           \* server: the operations that wrote them
    aborted,           \* server: the group has failed and is being skipped
    lost,              \* the connection is gone
    committed,         \* history: operations whose effect was committed
    failed             \* history: operations that failed

client == <<pc, results, opIdx>>
server == <<next, synced, pending, written, aborted>>
vars == <<balance, entries, ops, client, wire, server, lost, committed, failed>>

Init ==
    /\ balance = Opening
    /\ entries = [a \in Accounts |-> OpeningEntries(a)]
    /\ ops = [p \in Procs |-> << >>]
    /\ pc = [p \in Procs |-> "idle"]
    /\ results = [p \in Procs |-> << >>]
    /\ opIdx = [p \in Procs |-> 1]
    /\ wire = [p \in Procs |-> << >>]
    /\ next = [p \in Procs |-> 1]
    /\ synced = [p \in Procs |-> 0]
    /\ pending = [p \in Procs |-> [a \in Accounts |-> << >>]]
    /\ written = [p \in Procs |-> {}]
    /\ aborted = [p \in Procs |-> FALSE]
    /\ lost = {}
    /\ committed = [p \in Procs |-> {}]
    /\ failed = [p \in Procs |-> {}]

(* ExecBatch: queue everything and flush.  With no operation or no connection *)
(* nothing reaches the server; when the flush fails some of it may have.      *)
Start(p, b) ==
    /\ pc[p] = "idle"
    /\ ops' = [ops EXCEPT ![p] = b]
    /\ \/ /\ b # << >>
          /\ pc' = [pc EXCEPT ![p] = "read"]
          /\ results' = [results EXCEPT ![p] = [i \in 1 .. Len(b) |-> "none"]]
          /\ UNCHANGED <<next, synced, lost>>
       \/ /\ pc' = [pc EXCEPT ![p] = "done"]
          /\ results' = [results EXCEPT ![p] = [i \in 1 .. Len(b) |-> "error"]]
          /\ \/ /\ next' = [next EXCEPT ![p] = Len(b) + 1]
                /\ synced' = [synced EXCEPT ![p] = Len(b)]
                /\ UNCHANGED lost
             \/ /\ b # << >> /\ Cardinality(lost) < MaxLosses
                /\ lost' = lost \cup {p}
                /\ UNCHANGED <<next, synced>>
    /\ UNCHANGED <<balance, entries, opIdx, wire, pending, written, aborted, committed,
                   failed>>

-----------------------------------------------------------------------------
(* The server's side of a connection. *)

(* ExecBatch sends a Sync after operation i. *)
SyncAfter(p, i) == i % batchSyncGroup = 0 \/ i = Len(ops[p])

(* There is a Sync after operation i and before operation k.                 *)
Separated(p, i, k) == \E j \in i .. k - 1 : SyncAfter(p, j)

(* The server has not come to the next Sync yet. *)
GroupOpen(p) == synced[p] < Len(ops[p]) /\ ~Separated(p, synced[p] + 1, next[p])

(* The rows written since the last Sync are locked. *)
Holds(p, a) == pending[p][a] # << >>

RowFreeUnlocked(p, a) == TRUE

RowFree(p, a) == \A q \in Procs \ {p} : ~Holds(q, a)

LastAfter(e, b) == IF e = << >> THEN b ELSE e[Len(e)].after

Send(p, message) ==
    wire' = [wire EXCEPT ![p] = IF p \in lost THEN @ ELSE Append(@, message)]

(* depositAtomicSQL or withdrawAtomicSQL; the amount is not looked at. *)
AtomicEntry(p, op) ==
    LET b == LastAfter(pending[p][op.account], balance[op.account])
    IN  IF op.type = "deposit" THEN Credit(op.amount, b + op.amount, NoKey)
        ELSE Debit(op.amount, b - op.amount, NoKey)

(* One operation runs.  It answers with a row, or with none if the account   *)
(* does not exist.                                                           *)
Execute(p) ==
    LET op == ops[p][next[p]] IN
    /\ pc[p] # "idle" /\ GroupOpen(p) /\ ~aborted[p]
    /\ \/ /\ op.account \notin Accounts
          /\ Send(p, "norow")
          /\ UNCHANGED <<pending, written>>
       \/ /\ op.account \in Accounts /\ RowFree(p, op.account)
          /\ Send(p, "row")
          /\ pending' = [pending EXCEPT ![p][op.account] = Append(@, AtomicEntry(p, op))]
          /\ written' = [written EXCEPT ![p] = @ \cup {next[p]}]
    /\ next' = [next EXCEPT ![p] = @ + 1]
    /\ UNCHANGED <<balance, entries, ops, client, synced, aborted, lost, committed,
                   failed>>

(* What was written since the last Sync is committed, or rolled back. *)
Forget(p) ==
    /\ pending' = [pending EXCEPT ![p] = [a \in Accounts |-> << >>]]
    /\ written' = [written EXCEPT ![p] = {}]

(* An operation fails: what its group wrote is rolled back, the rest of the  *)
(* group is skipped.                                                         *)
ErrorResponse(p) ==
    /\ pc[p] # "idle" /\ GroupOpen(p) /\ ~aborted[p]
    /\ Send(p, "error")
    /\ aborted' = [aborted EXCEPT ![p] = TRUE]
    /\ Forget(p)
    /\ failed' = [failed EXCEPT ![p] = @ \cup {next[p]}]
    /\ \E last \in next[p] .. Len(ops[p]) :
          /\ SyncAfter(p, last) /\ ~Separated(p, next[p], last)
          /\ next' = [next EXCEPT ![p] = last + 1]
    /\ UNCHANGED <<balance, entries, ops, client, synced, lost, committed>>

Fail(p) == Cardinality(failed[p]) < MaxFailures /\ ErrorResponse(p)

(* A statement that waits for a row is ended by lock_timeout. *)
LockTimeout(p) ==
    /\ GroupOpen(p)
    /\ ops[p][next[p]].account \in Accounts
    /\ ~RowFree(p, ops[p][next[p]].account)
    /\ ErrorResponse(p)

(* The Sync that ends a group: commit what it wrote. *)
PipelineSync(p) ==
    /\ pc[p] # "idle" /\ synced[p] < Len(ops[p]) /\ ~GroupOpen(p)
    /\ Send(p, "sync")
    /\ entries' = [a \in Accounts |-> entries[a] \o pending[p][a]]
    /\ balance' = [a \in Accounts |-> LastAfter(pending[p][a], balance[a])]
    /\ committed' = [committed EXCEPT ![p] = @ \cup written[p]]
    /\ synced' = [synced EXCEPT ![p] = next[p] - 1]
    /\ Forget(p)
    /\ aborted' = [aborted EXCEPT ![p] = FALSE]
    /\ UNCHANGED <<ops, client, next, lost, failed>>

(* The connection is lost, or the request's context is cancelled: what is    *)
(* on the wire is gone.                                                      *)
Lose(p) ==
    /\ pc[p] \in {"read", "drain"}
    /\ p \notin lost /\ Cardinality(lost) < MaxLosses
    /\ lost' = lost \cup {p}
    /\ wire' = [wire EXCEPT ![p] = << >>]
    /\ UNCHANGED <<balance, entries, ops, client, server, committed, failed>>

(* The server notices, before, between or within groups, and stops.          *)
Disconnected(p) ==
    /\ p \in lost /\ synced[p] < Len(ops[p])
    /\ next' = [next EXCEPT ![p] = Len(ops[p]) + 1]
    /\ synced' = [synced EXCEPT ![p] = Len(ops[p])]
    /\ Forget(p)
    /\ UNCHANGED <<balance, entries, ops, client, wire, aborted, lost, committed,
                   failed>>

-----------------------------------------------------------------------------
(* pipeline.GetResults: an answer, or an error for ever once the connection  *)
(* is lost, or neither when every Sync has been answered.                    *)
NoMoreResults(p) == p \notin lost /\ wire[p] = << >> /\ synced[p] = Len(ops[p])

GetResults(p) ==
    IF p \in lost THEN "error" ELSE Head(wire[p])

HasResults(p) == p \in lost \/ wire[p] # << >>

Consume(p) ==
    wire' = [wire EXCEPT ![p] = IF @ = << >> THEN @ ELSE Tail(@)]

ReadSyncCounted(p) ==
    /\ pc[p] = "read" /\ opIdx[p] <= Len(ops[p]) /\ HasResults(p)
    /\ Consume(p)
    /\ results' = [results EXCEPT ![p][opIdx[p]] = GetResults(p)]
    /\ opIdx' = [opIdx EXCEPT ![p] = @ + 1]
    /\ UNCHANGED <<balance, entries, ops, pc, server, lost, committed, failed>>

(* The read loop: a row, no row and an error fill the next result, a Sync    *)
(* does not.                                                                 *)
ReadResult(p) ==
    /\ pc[p] = "read" /\ opIdx[p] <= Len(ops[p]) /\ HasResults(p)
    /\ Consume(p)
    /\ IF GetResults(p) = "sync"
         THEN UNCHANGED <<results, opIdx>>
         ELSE /\ results' = [results EXCEPT ![p][opIdx[p]] = GetResults(p)]
              /\ opIdx' = [opIdx EXCEPT ![p] = @ + 1]
    /\ UNCHANGED <<balance, entries, ops, pc, server, lost, committed, failed>>

EndOfReadsReturns(p) ==
    /\ pc[p] = "read"
    /\ opIdx[p] > Len(ops[p]) \/ NoMoreResults(p)
    /\ pc' = [pc EXCEPT ![p] = "done"]
    /\ UNCHANGED <<balance, entries, ops, results, opIdx, wire, server, lost,
                   committed, failed>>

EndOfReadsAll(p) ==
    /\ pc[p] = "read"
    /\ opIdx[p] > Len(ops[p])
    /\ pc' = [pc EXCEPT ![p] = "drain"]
    /\ UNCHANGED <<balance, entries, ops, results, opIdx, wire, server, lost,
                   committed, failed>>

(* The read loop ends with the last result, or early. *)
EndOfReads(p) ==
    /\ pc[p] = "read"
    /\ opIdx[p] > Len(ops[p]) \/ NoMoreResults(p)
    /\ pc' = [pc EXCEPT ![p] = "drain"]
    /\ UNCHANGED <<balance, entries, ops, results, opIdx, wire, server, lost,
                   committed, failed>>

(* The drain loop goes round until there is neither an answer nor an error;  *)
(* then ExecBatch returns.                                                   *)
Drain(p) ==
    /\ pc[p] = "drain"
    /\ \/ HasResults(p) /\ Consume(p) /\ UNCHANGED pc
       \/ NoMoreResults(p) /\ pc' = [pc EXCEPT ![p] = "done"] /\ UNCHANGED wire
    /\ UNCHANGED <<balance, entries, ops, results, opIdx, server, lost, committed,
                   failed>>

Client(p) == ReadResult(p) \/ EndOfReads(p) \/ Drain(p)

Server(p) == Execute(p) \/ PipelineSync(p)

Next ==
    \E p \in Procs :
       \/ \E b \in Batches : Start(p, b)
       \/ Server(p) \/ Fail(p) \/ LockTimeout(p)
       \/ Lose(p) \/ Disconnected(p)
       \/ Client(p)

Spec == Init /\ [][Next]_vars

(* The server and the client keep running; a wait for a row that does not    *)
(* end is ended by the session's lock_timeout.                               *)
Fairness ==
    \A p \in Procs :
       WF_vars(Client(p)) /\ WF_vars(Server(p)) /\ WF_vars(LockTimeout(p))

FairSpec == Spec /\ Fairness

-----------------------------------------------------------------------------
(* Type correctness. *)
TypeOK ==
    /\ balance \in [Accounts -> Int]
    /\ entries \in [Accounts -> Seq(Entry)]
    /\ ops \in [Procs -> Seq(BatchOp)]
    /\ pc \in [Procs -> {"idle", "read", "drain", "done"}]
    /\ results \in [Procs -> Seq({"none", "row", "norow", "error"})]
    /\ wire \in [Procs -> Seq({"row", "norow", "error", "sync"})]
    /\ {opIdx, next, synced} \subseteq [Procs -> Nat]
    /\ pending \in [Procs -> [Accounts -> Seq(Entry)]]
    /\ {written, committed, failed} \subseteq [Procs -> SUBSET (Nat \ {0})]
    /\ aborted \in [Procs -> BOOLEAN]
    /\ lost \subseteq Procs
    /\ \A p \in Procs :
          /\ Len(results[p]) = Len(ops[p])
          /\ {opIdx[p], next[p]} \subseteq 1 .. Len(ops[p]) + 1
          /\ synced[p] \in 0 .. Len(ops[p])
          /\ written[p] \cup committed[p] \cup failed[p] \subseteq 1 .. Len(ops[p])

(* The audit trail stays a chain although a group's entries are computed      *)
(* operation by operation and committed together, and other batches run in   *)
(* between.                                                                  *)
AuditChain == \A a \in Accounts : Chain(entries[a], balance[a])

Truthful(p, i) == results[p][i] = "row" <=> i \in committed[p]

(* Results are attributed to the right operations up to the group of the      *)
(* first failure: there, success means committed and its absence means not.  *)
TruthfulBeforeFailure ==
    \A p \in Procs :
       pc[p] = "done" /\ p \notin lost =>
          \A i \in 1 .. Len(ops[p]) :
             (\A f \in failed[p] : Separated(p, i, f)) => Truthful(p, i)

(* When ExecBatch returns, the server is done with the batch: every answer    *)
(* has been read, and no operation takes effect after the caller has been     *)
(* told the results.                                                         *)
CleanOnReturn ==
    \A p \in Procs :
       pc[p] = "done" /\ p \notin lost => wire[p] = << >> /\ synced[p] = Len(ops[p])

(* A failure mislabels at most the operations of its own group. *)
MislabelledPerFailure ==
    \A p \in Procs :
       pc[p] = "done" /\ p \notin lost =>
          Cardinality({i \in 1 .. Len(ops[p]) : ~Truthful(p, i)})
             <= batchSyncGroup * Cardinality(failed[p])

(* ExecBatch returns, although its operations may wait for those of another   *)
(* batch, in a cycle too, and although answers are missing after a failure:   *)
(* unless the connection is lost.                                            *)
ConnectedBatchReturns ==
    \A p \in Procs : pc[p] \in {"read", "drain"} ~> pc[p] = "done" \/ p \in lost

(* The drain loop ends, whatever happened to the connection. *)
EveryBatchReturns == \A p \in Procs : pc[p] = "drain" ~> pc[p] = "done"
=============================================================================
