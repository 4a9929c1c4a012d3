------------------------------- MODULE Stress -------------------------------
(***************************************************************************)
(* A run of the stress tool (cmd/stress/stress.go): a loop starts a          *)
(* goroutine per request while there is a place for it; each goroutine adds   *)
(* what it was told to the totals and to a shared buffer of events, and       *)
(* whoever fills the buffer posts it to the API.                             *)
(*                                                                         *)
(* A critical section of eventBuffer touches memory only, so it is one step,  *)
(* which needs the mutex and gives it back.  LogEvents inserts the rows one   *)
(* by one outside any transaction, so any part of a batch may get in.         *)
(***************************************************************************)
EXTENDS Integers, FiniteSets

CONSTANTS
    Goroutines,   \* goroutines that can exist at once
    Nobody,       \* holds the mutex when no goroutine does
    BatchSizes,   \* -batch-size: transactions of a request, 0 for single ones
    concurrency,  \* -concurrency, in transactions
    FlushAt,      \* events that make Add flush; 100 in the code
    MaxTasks      \* bound: requests of a run, in place of its duration

ASSUME StressAssumption ==
    /\ Nobody \notin Goroutines /\ IsFiniteSet(Goroutines)
    /\ BatchSizes \subseteq Nat
    /\ {concurrency, FlushAt} \subseteq Nat \ {0} /\ MaxTasks \in Nat

VARIABLES
    batchSize,
    pc, task,     \* per goroutine: what it does next, for which request
    toAdd,        \* the events it has yet to record
    events, mu,   \* eventBuffer
    batch,        \* the events a goroutine, or main (Nobody), has taken to send
    rows, dropped,   \* how many events the database has, and LogEvents lost
    counted,      \* the reporter's totalTxns
    started,      \* requests started
    main          \* where runStress is

buffer == <<events, mu, batch>>
eventTable == <<rows, dropped>>
stressVars == <<batchSize, pc, task, toAdd, events, mu, batch, rows, dropped,
          counted, started, main>>

MainAndGoroutines == Goroutines \cup {Nobody}

StressInit ==
    /\ batchSize \in BatchSizes
    /\ pc = [g \in Goroutines |-> "none"]
    /\ task = [g \in Goroutines |-> 0]
    /\ toAdd = [g \in Goroutines |-> {}]
    /\ events = {} /\ mu = Nobody
    /\ batch = [g \in MainAndGoroutines |-> {}]
    /\ rows = 0 /\ dropped = 0
    /\ counted = 0 /\ started = 0
    /\ main = "loop"

(* In batch mode fewer requests run, but always one. *)
httpConcurrency ==
    LET c == IF batchSize = 0 THEN concurrency ELSE concurrency \div batchSize
    IN  IF c < 1 THEN 1 ELSE c

(* The events of request t, one per transaction. *)
EventsOf(t) == {t} \X (1 .. IF batchSize = 0 THEN 1 ELSE batchSize)

(* A goroutine gives its place in sem back and then calls wg.Done. *)
HoldsPlace(g) == pc[g] \notin {"none", "released"}

Taken == Cardinality({g \in Goroutines : HoldsPlace(g)})

Goto(g, l) == pc' = [pc EXCEPT ![g] = l]

-----------------------------------------------------------------------------
(* runStressLoop *)

(* A tick, with a place in sem free (it skips otherwise). *)
Spawn(g) ==
    /\ main = "loop" /\ started < MaxTasks
    /\ pc[g] = "none" /\ Taken < httpConcurrency
    /\ started' = started + 1
    /\ task' = [task EXCEPT ![g] = started']
    /\ Goto(g, "call")
    /\ UNCHANGED <<batchSize, toAdd, buffer, eventTable, counted, main>>

(* The timer fires. *)
Stop ==
    /\ main = "loop"
    /\ main' = "wait"
    /\ UNCHANGED <<batchSize, pc, task, toAdd, buffer, eventTable, counted, started>>

AllDoneUnwaited == TRUE

AllDone == \A g \in Goroutines : pc[g] = "none"

(* wg.Wait returns, and runStress flushes what is left. *)
Wait ==
    /\ main = "wait" /\ AllDone
    /\ main' = "flush"
    /\ UNCHANGED <<batchSize, pc, task, toAdd, buffer, eventTable, counted, started>>

-----------------------------------------------------------------------------
(* runTask and runBatch *)

(* The answer of the request, or an error: either way every transaction gets *)
(* an event.  If the body of a batch's answer is cut off, Batch ignores the   *)
(* decoder's error and there are no results to record.                       *)
Call(g) ==
    /\ pc[g] = "call"
    /\ \/ toAdd' = [toAdd EXCEPT ![g] = EventsOf(task[g])] /\ Goto(g, "record")
       \/ batchSize > 0 /\ Goto(g, "release") /\ UNCHANGED toAdd
    /\ UNCHANGED <<batchSize, task, buffer, eventTable, counted, started, main>>

(* reporter.Record, for the next event of the loop. *)
Record(g) ==
    /\ pc[g] = "record"
    /\ counted' = counted + 1
    /\ Goto(g, "add")
    /\ UNCHANGED <<batchSize, task, toAdd, buffer, eventTable, started, main>>

AfterAdd(g, left) == IF left = {} THEN "release" ELSE "record"

ShouldFlushOnce(n) == n = FlushAt

ShouldFlush(n) == n >= FlushAt

(* eventBuffer.Add up to its Unlock. *)
Add(g) ==
    /\ pc[g] = "add" /\ mu = Nobody
    /\ \E e \in toAdd[g] :
          /\ \A f \in toAdd[g] : e[2] <= f[2]
          /\ events' = events \cup {e}
          /\ toAdd' = [toAdd EXCEPT ![g] = @ \ {e}]
          /\ Goto(g, IF ShouldFlush(Cardinality(events')) THEN "flush"
                     ELSE AfterAdd(g, toAdd[g] \ {e}))
    /\ UNCHANGED <<batchSize, task, mu, batch, eventTable, counted, started, main>>

(* eventBuffer.Flush: somebody else may have taken the events already. *)
TakeReadsTwice(g) ==
    /\ mu = Nobody /\ UNCHANGED mu
    /\ \E e \in {events} \cup {events \ {x} : x \in events} :
          batch' = [batch EXCEPT ![g] = e]
    /\ events' = {}

Take(g) ==
    /\ mu = Nobody /\ UNCHANGED mu
    /\ batch' = [batch EXCEPT ![g] = events]
    /\ events' = {}

(* LogEvents: some of the rows are inserted; its result is ignored. *)
LogEvents(g) ==
    /\ \E inserted \in 0 .. Cardinality(batch[g]) :
          /\ rows' = rows + inserted
          /\ dropped' = dropped + Cardinality(batch[g]) - inserted
    /\ batch' = [batch EXCEPT ![g] = {}]
    /\ UNCHANGED <<events, mu>>

Flush(g) ==
    /\ pc[g] = "flush"
    /\ Take(g)
    /\ Goto(g, IF events = {} THEN AfterAdd(g, toAdd[g]) ELSE "send")
    /\ UNCHANGED <<batchSize, task, toAdd, eventTable, counted, started, main>>

Send(g) ==
    /\ pc[g] = "send"
    /\ LogEvents(g)
    /\ Goto(g, AfterAdd(g, toAdd[g]))
    /\ UNCHANGED <<batchSize, task, toAdd, counted, started, main>>

(* The deferred functions: <-sem, then wg.Done. *)
Release(g) ==
    /\ pc[g] \in {"release", "released"}
    /\ Goto(g, IF pc[g] = "release" THEN "released" ELSE "none")
    /\ task' = IF pc[g] = "release" THEN task ELSE [task EXCEPT ![g] = 0]
    /\ UNCHANGED <<batchSize, toAdd, buffer, eventTable, counted, started, main>>

-----------------------------------------------------------------------------
(* The end of runStress: the last Flush, then the summary. *)
FlushRest ==
    /\ main = "flush"
    /\ Take(Nobody)
    /\ main' = IF events = {} THEN "summary" ELSE "send"
    /\ UNCHANGED <<batchSize, pc, task, toAdd, eventTable, counted, started>>

SendRest ==
    /\ main = "send"
    /\ LogEvents(Nobody)
    /\ main' = "summary"
    /\ UNCHANGED <<batchSize, pc, task, toAdd, counted, started>>

Step(g) ==
    \/ Call(g) \/ Record(g) \/ Add(g) \/ Flush(g) \/ Send(g) \/ Release(g)

Main == Stop \/ Wait \/ FlushRest \/ SendRest

StressNext ==
    \/ \E g \in Goroutines : Spawn(g) \/ Step(g)
    \/ Main

(* Goroutines run, every request has a timeout, and the timer fires. *)
StressFairness == WF_stressVars(Main) /\ \A g \in Goroutines : WF_stressVars(Step(g))

StressSpec == StressInit /\ [][StressNext]_stressVars /\ StressFairness

-----------------------------------------------------------------------------
AllEvents == UNION {EventsOf(t) : t \in 1 .. started}

(* Type correctness. *)
StressTypeOK ==
    /\ pc \in [Goroutines -> {"none", "call", "record", "add", "flush", "send",
                              "release", "released"}]
    /\ task \in [Goroutines -> 0 .. MaxTasks]
    /\ toAdd \in [Goroutines -> SUBSET AllEvents]
    /\ mu \in MainAndGoroutines
    /\ batch \in [MainAndGoroutines -> SUBSET AllEvents]
    /\ events \subseteq AllEvents
    /\ {rows, dropped, counted} \subseteq Nat
    /\ main \in {"loop", "wait", "flush", "send", "summary"}

(* Between eventBuffer.Add, which the totals run ahead of by the events that  *)
(* goroutines are about to add, and the database no event is lost or sent     *)
(* twice: two goroutines that flush at once do not take the same events, and  *)
(* an event added while a flush is under way goes with a later one.           *)
EachEventOnce ==
    counted = Cardinality({g \in Goroutines : pc[g] = "add"})
              + Cardinality(events) + rows + dropped
              + Cardinality(UNION {batch[g] : g \in MainAndGoroutines})

(* The summary comes after everything: then no request is running, nothing    *)
(* is left in the buffer, and the total is the events that were sent.         *)
SummaryIsComplete ==
    main = "summary" =>
       /\ \A g \in Goroutines : pc[g] = "none" /\ toAdd[g] = {}
       /\ events = {}
       /\ counted = rows + dropped

(* The buffer does not grow while its flush is delayed: each event beyond the *)
(* threshold has a goroutine of its own on the way to flush it.               *)
BufferBounded ==
    Cardinality(events) <= FlushAt - 1 + Cardinality({g \in Goroutines : pc[g] = "flush"})

(* A run ends: no goroutine keeps the mutex of the buffer, or its place.      *)
StressEnds == <>(main = "summary")
=============================================================================
