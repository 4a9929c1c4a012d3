----------------------------- MODULE Durability -----------------------------
(***************************************************************************)
(* Ledger on a database that may crash.  Every connection of the pool runs  *)
(* with synchronous_commit = off (cmd/api/main.go): a COMMIT is answered     *)
(* when its record is in the write-ahead log, before the log is flushed, and *)
(* a crash loses what was not flushed.                                      *)
(*                                                                         *)
(* wal is what the log can still restore: the tables as they are on disk,    *)
(* and then as they were after each commit that is not flushed yet.  The     *)
(* last one is what everybody sees.                                         *)
(***************************************************************************)
EXTENDS Ledger

CONSTANT MaxCrashes   \* bound: crashes of the database in a behaviour

ASSUME CrashesAssumption == MaxCrashes \in Nat

VARIABLES wal, crashes

durabilityVars == <<vars, wal, crashes>>

Tables == [balance |-> balance, entries |-> entries, txns |-> txns]

DurableInit == Init /\ wal = <<Tables>> /\ crashes = 0

(* A commit is appended to the log, a step that commits nothing is not. *)
Logged ==
    /\ wal' = IF UNCHANGED db THEN wal ELSE Append(wal, Tables')
    /\ UNCHANGED crashes

(* The WAL writer, which wakes up every wal_writer_delay, flushes the oldest *)
(* commit; it may do so several times in a row.                             *)
Flush ==
    /\ Len(wal) > 1
    /\ wal' = Tail(wal)
    /\ UNCHANGED <<vars, crashes>>

(* The connections are gone: every request in progress ends with an error.   *)
Disconnect ==
    /\ pc' = [p \in Procs |-> "idle"]
    /\ reply' = [p \in Procs |-> IF pc[p] = "idle" THEN reply[p] ELSE "error"]
    /\ updated' = [p \in Procs |-> NoUpdate]
    /\ UNCHANGED <<req, started, applied>>

CrashTearsCommits ==
    /\ crashes < MaxCrashes
    /\ crashes' = crashes + 1
    /\ balance' = wal[1].balance
    /\ entries' = wal[1].entries
    /\ txns' = txns
    /\ wal' = <<Tables'>>
    /\ Disconnect

(* The database crashes and comes back as it is on disk. *)
Crash ==
    /\ crashes < MaxCrashes
    /\ crashes' = crashes + 1
    /\ balance' = wal[1].balance
    /\ entries' = wal[1].entries
    /\ txns' = wal[1].txns
    /\ wal' = <<wal[1]>>
    /\ Disconnect

DurableNext == (Next /\ Logged) \/ Flush \/ Crash

DurableSpec == DurableInit /\ [][DurableNext]_durabilityVars

(* As in Ledger; nothing needs to be flushed for a request to be answered.   *)
DurableFairness == \A p \in Procs : SF_durabilityVars(Step(p) /\ Logged)

FairDurableSpec == DurableSpec /\ DurableFairness

-----------------------------------------------------------------------------
(* The tables on disk go through the ledger's atomic movements, one by one   *)
(* and in an order that is possible: whatever a crash loses, it never loses  *)
(* half of a movement, or one that a surviving one was built on.             *)
Durable == INSTANCE AtomicLedger WITH
    balance <- wal[1].balance, entries <- wal[1].entries, txns <- wal[1].txns

DurableIsAtomic == Durable!Spec
=============================================================================
