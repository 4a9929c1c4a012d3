---------------------------- MODULE PGToolsProofs ----------------------------
(***************************************************************************)
(* Theorems about the three client programs, Stress, Verify and PGBench, for  *)
(* every value of the constants their assumptions allow.                      *)
(***************************************************************************)
EXTENDS PGTools, SumProofs

-----------------------------------------------------------------------------
(* The stress tool: for every number of goroutines, requests and events, every *)
(* batch size and every threshold of the buffer.                             *)

(* The goroutines at a place, and the events on their way to the API.         *)
At(l) == {g \in Goroutines : pc[g] = l}

Sending == UNION {batch[g] : g \in MainAndGoroutines}

(* What a goroutine has in hand, by its place. *)
InHand ==
    /\ \A g \in Goroutines : pc[g] \notin {"record", "add", "flush", "send"} => toAdd[g] = {}
    /\ \A g \in Goroutines : pc[g] # "send" => batch[g] = {}
    /\ main # "send" => batch[Nobody] = {}

(* Goroutines work on different requests, for whose events they account.      *)
OwnRequest ==
    /\ \A g \in Goroutines : pc[g] # "none" => task[g] \in 1 .. started
    /\ \A g \in Goroutines : toAdd[g] \subseteq EventsOf(task[g])
    /\ \A g, h \in Goroutines :
          g # h /\ pc[g] # "none" /\ pc[h] # "none" => task[g] # task[h]

(* What a goroutine will record. *)
Mine(g) == IF pc[g] = "call" THEN EventsOf(task[g]) ELSE toAdd[g]

(* An event is in one place only: yet to be added, in the buffer, or in the     *)
(* hands of one goroutine.                                                   *)
Apart ==
    /\ \A g \in Goroutines :
          Mine(g) \cap events = {} /\ \A h \in MainAndGoroutines : Mine(g) \cap batch[h] = {}
    /\ \A g \in MainAndGoroutines :
          /\ batch[g] \cap events = {}
          /\ \A h \in MainAndGoroutines \ {g} : batch[g] \cap batch[h] = {}

Ends ==
    /\ main \in {"flush", "send", "summary"} => \A g \in Goroutines : pc[g] = "none"
    /\ main \in {"send", "summary"} => events = {}

(* The inductive invariant. *)
SInv ==
    /\ StressTypeOK /\ batchSize \in Nat /\ started \in 0 .. MaxTasks
    /\ InHand /\ OwnRequest /\ Apart /\ Ends
    /\ EachEventOnce /\ BufferBounded

Places == {"none", "call", "record", "add", "flush", "send", "release", "released"}

LEMMA Constants ==
    /\ Nobody \notin Goroutines /\ IsFiniteSet(Goroutines) /\ BatchSizes \subseteq Nat
    /\ FlushAt \in Nat /\ FlushAt > 0 /\ MaxTasks \in Nat
BY StressAssumption DEF StressAssumption

LEMMA EventsApart ==
    ASSUME NEW s, NEW t, s # t
    PROVE  EventsOf(s) \cap EventsOf(t) = {}
BY DEF EventsOf

(* Events are finitely many, and so are the goroutines.                       *)
LEMMA FiniteEvents ==
    ASSUME batchSize \in Nat, started \in Nat, NEW S \in SUBSET AllEvents
    PROVE  IsFiniteSet(S) /\ Cardinality(S) \in Nat
<1> DEFINE k == IF batchSize = 0 THEN 1 ELSE batchSize
<1>1. IsFiniteSet((1 .. started) \X (1 .. k))
  <2>1. IsFiniteSet(1 .. started) /\ IsFiniteSet(1 .. k)
    BY FS_Interval
  <2> QED BY <2>1, FS_Product
<1>2. S \in SUBSET ((1 .. started) \X (1 .. k))
  BY DEF AllEvents, EventsOf
<1> HIDE DEF k
<1>3. IsFiniteSet(S)
  BY <1>1, <1>2, FS_Subset
<1> QED BY <1>3, FS_CardinalityType

LEMMA FiniteAt ==
    ASSUME NEW l
    PROVE  IsFiniteSet(At(l)) /\ Cardinality(At(l)) \in Nat
<1>1. At(l) \in SUBSET Goroutines
  BY DEF At
<1>2. IsFiniteSet(At(l))
  BY <1>1, Constants, FS_Subset
<1> QED BY <1>2, FS_CardinalityType

(* How many goroutines are at place l when g goes to place m.                 *)
LEMMA CountAt ==
    ASSUME pc \in [Goroutines -> Places], NEW g \in Goroutines, NEW m \in Places,
           pc' = [pc EXCEPT ![g] = m], NEW l
    PROVE  Cardinality(At(l)') = Cardinality(At(l)) + (IF m = l THEN 1 ELSE 0)
                                                   - (IF pc[g] = l THEN 1 ELSE 0)
<1>1. At(l)' = IF m = l THEN At(l) \cup {g} ELSE At(l) \ {g}
  BY DEF At
<1>2. g \in At(l) <=> pc[g] = l
  BY DEF At
<1>3. /\ Cardinality(At(l) \cup {g})
             = IF g \in At(l) THEN Cardinality(At(l)) ELSE Cardinality(At(l)) + 1
      /\ Cardinality(At(l) \ {g})
             = IF g \in At(l) THEN Cardinality(At(l)) - 1 ELSE Cardinality(At(l))
      /\ Cardinality(At(l)) \in Nat
  BY FiniteAt, FS_AddElement, FS_RemoveElement
<1> QED BY <1>1, <1>2, <1>3

LEMMA SendingType ==
    ASSUME SInv
    PROVE  /\ Sending \subseteq AllEvents /\ events \subseteq AllEvents
           /\ Cardinality(Sending) \in Nat /\ Cardinality(events) \in Nat
           /\ IsFiniteSet(Sending) /\ IsFiniteSet(events)
           /\ Sending \cap events = {}
<1>1. Sending \subseteq AllEvents /\ events \subseteq AllEvents
  BY DEF SInv, StressTypeOK, Sending
<1>2. Sending \cap events = {}
  BY DEF SInv, Apart, Sending
<1> QED BY <1>1, <1>2, FiniteEvents DEF SInv

LEMMA InitSInv == StressInit => SInv
<1> SUFFICES ASSUME StressInit PROVE SInv
  OBVIOUS
<1>1. StressTypeOK /\ batchSize \in Nat /\ started \in 0 .. MaxTasks
  BY Constants DEF StressInit, StressTypeOK, MainAndGoroutines
<1>2. InHand /\ OwnRequest /\ Apart /\ Ends
  BY DEF StressInit, InHand, OwnRequest, Apart, Mine, Ends, MainAndGoroutines
<1>3. EachEventOnce /\ BufferBounded
  <2>1. /\ {g \in Goroutines : pc[g] = "add"} = {} /\ {g \in Goroutines : pc[g] = "flush"} = {}
        /\ events = {} /\ UNION {batch[g] : g \in MainAndGoroutines} = {}
        /\ counted = 0 /\ rows = 0 /\ dropped = 0
    BY DEF StressInit
  <2>2. Cardinality({}) = 0
    BY FS_EmptySet
  <2>3. EachEventOnce
    <3>1. /\ Cardinality({g \in Goroutines : pc[g] = "add"}) = 0 /\ Cardinality(events) = 0
          /\ Cardinality(UNION {batch[g] : g \in MainAndGoroutines}) = 0
      BY <2>1, <2>2, Zenon
    <3> QED BY <2>1, <3>1 DEF EachEventOnce
  <2>4. BufferBounded
    <3>1. Cardinality({g \in Goroutines : pc[g] = "flush"}) = 0 /\ Cardinality(events) = 0
      BY <2>1, <2>2, Zenon
    <3> QED BY <3>1, Constants DEF BufferBounded
  <2> QED BY <2>3, <2>4
<1> QED BY <1>1, <1>2, <1>3 DEF SInv

-----------------------------------------------------------------------------
(* runStressLoop *)

LEMMA SpawnSInv ==
    ASSUME SInv, NEW g \in Goroutines, Spawn(g)
    PROVE  SInv'
<1>1. /\ started < MaxTasks /\ pc[g] = "none" /\ started' = started + 1
      /\ task' = [task EXCEPT ![g] = started'] /\ pc' = [pc EXCEPT ![g] = "call"]
      /\ main = "loop"
      /\ UNCHANGED <<batchSize, toAdd, events, mu, batch, rows, dropped, counted, main>>
  BY DEF Spawn, Goto, buffer, eventTable
<1>2. started \in Nat /\ started' \in 0 .. MaxTasks /\ started' \in Nat
  BY <1>1, Constants DEF SInv
<1>3. /\ pc'[g] = "call" /\ task'[g] = started + 1
      /\ \A h \in Goroutines \ {g} : pc'[h] = pc[h] /\ task'[h] = task[h]
  BY <1>1 DEF SInv, StressTypeOK
<1>4. AllEvents \subseteq AllEvents' /\ AllEvents \cap EventsOf(started + 1) = {}
  BY <1>1, <1>2 DEF AllEvents, EventsOf
<1>5. StressTypeOK'
  BY <1>1, <1>2, <1>4 DEF SInv, StressTypeOK
<1>6. InHand'
  BY <1>1, <1>3 DEF SInv, InHand
<1>7. OwnRequest'
  <2>1. toAdd[g] = {}
    BY <1>1 DEF SInv, InHand
  <2>2. \A h \in Goroutines : toAdd'[h] \subseteq EventsOf(task[h])'
    BY <1>1, <1>3, <2>1 DEF SInv, OwnRequest, EventsOf
  <2>3. \A h \in Goroutines : pc'[h] # "none" => task'[h] \in 1 .. started'
    BY <1>1, <1>2, <1>3 DEF SInv, OwnRequest
  <2>4. \A h, i \in Goroutines :
           h # i /\ pc'[h] # "none" /\ pc'[i] # "none" => task'[h] # task'[i]
    BY <1>2, <1>3 DEF SInv, OwnRequest
  <2> QED BY <2>2, <2>3, <2>4 DEF OwnRequest
<1>8. Apart'
  <2>1. events \subseteq AllEvents /\ \A h \in MainAndGoroutines : batch[h] \subseteq AllEvents
    BY DEF SInv, StressTypeOK
  <2>2. EventsOf(task[g])' = EventsOf(started + 1)
    BY <1>1, <1>3 DEF EventsOf
  <2>3. \A h \in Goroutines \ {g} : EventsOf(task[h])' = EventsOf(task[h])
    BY <1>1, <1>3 DEF EventsOf
  <2> QED BY <1>1, <1>3, <1>4, <2>1, <2>2, <2>3 DEF SInv, Apart, Mine, MainAndGoroutines
<1>9. Ends'
  BY <1>1 DEF Ends
<1>10. EachEventOnce' /\ BufferBounded'
  <2>1. /\ {h \in Goroutines : pc'[h] = "add"} = {h \in Goroutines : pc[h] = "add"}
        /\ {h \in Goroutines : pc'[h] = "flush"} = {h \in Goroutines : pc[h] = "flush"}
    BY <1>1, <1>3
  <2>2. EachEventOnce'
    <3>1. EachEventOnce
      BY DEF SInv
    <3>2. UNCHANGED <<counted, events, rows, dropped, batch>>
      BY ONLY <1>1
    <3> QED BY ONLY <2>1, <3>1, <3>2, Zenon DEF EachEventOnce, MainAndGoroutines
  <2>3. BufferBounded'
    <3>1. BufferBounded
      BY DEF SInv
    <3>2. UNCHANGED events
      BY ONLY <1>1
    <3> QED BY ONLY <2>1, <3>1, <3>2, Zenon DEF BufferBounded
  <2> QED BY <2>2, <2>3
<1> QED BY <1>1, <1>2, <1>5, <1>6, <1>7, <1>8, <1>9, <1>10 DEF SInv

(* Stop, and Wait, when all have returned. *)
LEMMA MainSInv == SInv /\ (Stop \/ Wait) => SInv'
<1> SUFFICES ASSUME SInv, Stop \/ Wait PROVE SInv'
  OBVIOUS
<1>1. /\ main' \in {"wait", "flush"} /\ main \in {"loop", "wait"}
      /\ main' = "flush" => \A g \in Goroutines : pc[g] = "none"
      /\ UNCHANGED <<batchSize, pc, task, toAdd, events, mu, batch, rows, dropped,
                     counted, started>>
  BY DEF Stop, Wait, AllDone, buffer, eventTable
<1>2. StressTypeOK'
  BY <1>1 DEF SInv, StressTypeOK, AllEvents, EventsOf, MainAndGoroutines
<1>3. InHand' /\ Ends'
  BY <1>1 DEF SInv, InHand, Ends
<1>4. OwnRequest' /\ Apart'
  BY <1>1 DEF SInv, OwnRequest, Apart, Mine, EventsOf, MainAndGoroutines
<1>5. EachEventOnce' /\ BufferBounded'
  BY <1>1 DEF SInv, EachEventOnce, BufferBounded, MainAndGoroutines
<1> QED BY <1>1, <1>2, <1>3, <1>4, <1>5 DEF SInv

-----------------------------------------------------------------------------
(* A step of a goroutine on its own: the answer, the totals, and the end.      *)
LEMMA OwnStep ==
    ASSUME SInv, NEW g \in Goroutines, NEW m \in {"none", "record", "add", "release", "released"},
           pc[g] \in {"call", "record", "release", "released"},
           pc' = [pc EXCEPT ![g] = m],
           \/ toAdd' = toAdd
           \/ /\ pc[g] = "call" /\ m = "record"
              /\ toAdd' = [toAdd EXCEPT ![g] = EventsOf(task[g])],
           m \notin {"record", "add"} => toAdd[g] = {},
           task' = task \/ (m = "none" /\ task' = [task EXCEPT ![g] = 0]),
           counted' = counted + (IF m = "add" THEN 1 ELSE 0),
           UNCHANGED <<batchSize, events, mu, batch, rows, dropped, started, main>>
    PROVE  SInv'
<1>1. /\ pc \in [Goroutines -> Places] /\ task \in [Goroutines -> 0 .. MaxTasks]
      /\ toAdd \in [Goroutines -> SUBSET AllEvents] /\ started \in Nat
      /\ EventsOf(task[g]) \subseteq AllEvents
  BY DEF SInv, StressTypeOK, Places, OwnRequest, AllEvents
<1>2. /\ pc'[g] = m /\ \A h \in Goroutines \ {g} : pc'[h] = pc[h]
      /\ \A h \in Goroutines \ {g} : task'[h] = task[h] /\ toAdd'[h] = toAdd[h]
      /\ toAdd'[g] \in {toAdd[g], EventsOf(task[g])}
      /\ toAdd'[g] # toAdd[g] => pc[g] = "call" /\ m = "record"
      /\ m # "none" => task'[g] = task[g]
  BY <1>1
<1>3. AllEvents' = AllEvents /\ \A t : EventsOf(t)' = EventsOf(t)
  BY DEF AllEvents, EventsOf
<1>4. StressTypeOK'
  <2>1. pc' \in [Goroutines -> Places]
    BY <1>1 DEF Places
  <2>2. task' \in [Goroutines -> 0 .. MaxTasks]
    BY <1>1, Constants
  <2>3. toAdd' \in [Goroutines -> SUBSET AllEvents]
    BY <1>1
  <2>4. counted' \in Nat
    BY DEF SInv, StressTypeOK
  <2> QED BY <1>3, <2>1, <2>2, <2>3, <2>4 DEF SInv, StressTypeOK, Places, MainAndGoroutines
<1>5. InHand'
  BY <1>2 DEF SInv, InHand
<1>6. OwnRequest'
  <2>1. \A h \in Goroutines : pc'[h] # "none" => task'[h] \in 1 .. started'
    BY <1>2 DEF SInv, OwnRequest
  <2>2. ASSUME NEW h \in Goroutines
        PROVE  toAdd'[h] \subseteq EventsOf(task'[h])
    <3>1. CASE h = g /\ m = "none"
      BY <1>1, <1>2, <3>1
    <3>2. CASE h # g \/ m # "none"
      BY <1>2, <3>2 DEF SInv, OwnRequest
    <3> QED BY <3>1, <3>2
  <2>3. \A h, i \in Goroutines :
           h # i /\ pc'[h] # "none" /\ pc'[i] # "none" => task'[h] # task'[i]
    BY <1>2 DEF SInv, OwnRequest
  <2> QED BY <2>1, <2>2, <2>3 DEF OwnRequest, EventsOf
<1>7. Apart'
  <2>1. \A h \in Goroutines : Mine(h)' \subseteq Mine(h)
    BY <1>2, <1>3 DEF SInv, InHand, Mine
  <2>2. \A h \in Goroutines : /\ Mine(h)' \cap events = {}
                              /\ \A i \in MainAndGoroutines : Mine(h)' \cap batch[i] = {}
    BY <2>1 DEF SInv, Apart
  <2> QED BY <2>2 DEF SInv, Apart, MainAndGoroutines
<1>8. Ends'
  BY <1>2 DEF SInv, Ends
<1>9. EachEventOnce' /\ BufferBounded'
  <2>1. /\ Cardinality(At("add")') = Cardinality(At("add")) + (IF m = "add" THEN 1 ELSE 0)
        /\ Cardinality(At("flush")') = Cardinality(At("flush"))
        /\ Cardinality(At("add")) \in Nat /\ Cardinality(At("flush")) \in Nat
    <3>1. m \in Places /\ m # "flush" /\ pc[g] # "add" /\ pc[g] # "flush"
      BY DEF Places
    <3>2. /\ Cardinality(At("add")') = Cardinality(At("add")) + (IF m = "add" THEN 1 ELSE 0)
                                                   - (IF pc[g] = "add" THEN 1 ELSE 0)
          /\ Cardinality(At("flush")') = Cardinality(At("flush")) + (IF m = "flush" THEN 1 ELSE 0)
                                                   - (IF pc[g] = "flush" THEN 1 ELSE 0)
      BY <1>1, <3>1, CountAt
    <3>3. Cardinality(At("add")) \in Nat /\ Cardinality(At("flush")) \in Nat
      BY FiniteAt
    <3> QED BY <3>1, <3>2, <3>3
  <2>2. counted = Cardinality(At("add")) + Cardinality(events) + rows + dropped + Cardinality(Sending)
    BY DEF SInv, EachEventOnce, At, Sending
  <2>3. /\ Cardinality(events) \in Nat /\ Cardinality(Sending) \in Nat
        /\ rows \in Nat /\ dropped \in Nat /\ counted \in Nat
    BY SendingType DEF SInv, StressTypeOK
  <2>4. counted' = Cardinality(At("add")') + Cardinality(events) + rows + dropped
                   + Cardinality(Sending)
    BY <2>1, <2>2, <2>3
  <2>5. Sending' = Sending
    BY DEF Sending, MainAndGoroutines
  <2>6. EachEventOnce'
    BY <2>4, <2>5 DEF EachEventOnce, At, Sending
  <2>7. BufferBounded'
    BY <2>1 DEF SInv, BufferBounded, At
  <2> QED BY <2>6, <2>7
<1> QED BY <1>4, <1>5, <1>6, <1>7, <1>8, <1>9 DEF SInv

LEMMA OwnStepsSInv ==
    ASSUME SInv, NEW g \in Goroutines, Call(g) \/ Record(g) \/ Release(g)
    PROVE  SInv'
<1>1. CASE Call(g)
  <2>1. /\ pc[g] = "call" /\ counted' = counted + 0 /\ counted \in Nat /\ toAdd[g] = {}
        /\ UNCHANGED <<batchSize, task, events, mu, batch, rows, dropped, counted, started, main>>
    BY <1>1 DEF Call, buffer, eventTable, SInv, StressTypeOK, InHand
  <2>2. CASE toAdd' = [toAdd EXCEPT ![g] = EventsOf(task[g])] /\ Goto(g, "record")
    BY <2>1, <2>2, OwnStep DEF Goto
  <2>3. CASE Goto(g, "release") /\ UNCHANGED toAdd
    BY <2>1, <2>3, OwnStep DEF Goto
  <2> QED BY <1>1, <2>2, <2>3 DEF Call
<1>2. CASE Record(g)
  BY <1>2, OwnStep DEF Record, Goto, buffer, eventTable
<1>3. CASE Release(g)
  <2> DEFINE m == IF pc[g] = "release" THEN "released" ELSE "none"
  <2>1. /\ m \in {"none", "released"} /\ pc[g] \in {"release", "released"}
        /\ pc' = [pc EXCEPT ![g] = m] /\ toAdd' = toAdd /\ toAdd[g] = {}
        /\ task' = task \/ (m = "none" /\ task' = [task EXCEPT ![g] = 0])
        /\ counted' = counted + 0
        /\ UNCHANGED <<batchSize, events, mu, batch, rows, dropped, started, main>>
    BY <1>3 DEF Release, Goto, buffer, eventTable, SInv, StressTypeOK, InHand
  <2> HIDE DEF m
  <2> QED BY <2>1, OwnStep
<1> QED BY <1>1, <1>2, <1>3

-----------------------------------------------------------------------------
(* eventBuffer.Add: the event was not in the buffer, nor with anybody.         *)
LEMMA AddSInv ==
    ASSUME SInv, NEW g \in Goroutines, Add(g)
    PROVE  SInv'
<1>1. PICK e \in toAdd[g] :
         /\ events' = events \cup {e}
         /\ toAdd' = [toAdd EXCEPT ![g] = @ \ {e}]
         /\ pc' = [pc EXCEPT ![g] = IF ShouldFlush(Cardinality(events')) THEN "flush"
                                    ELSE AfterAdd(g, toAdd[g] \ {e})]
  BY DEF Add, Goto
<1>2. pc[g] = "add"
      /\ UNCHANGED <<batchSize, task, mu, batch, rows, dropped, counted, started, main>>
  BY DEF Add, eventTable
<1> DEFINE m == IF ShouldFlush(Cardinality(events')) THEN "flush"
                ELSE AfterAdd(g, toAdd[g] \ {e})
<1>3. /\ m \in {"flush", "record", "release"} /\ pc' = [pc EXCEPT ![g] = m]
      /\ m = "flush" <=> Cardinality(events') >= FlushAt
      /\ m = "release" => toAdd[g] \ {e} = {}
  BY <1>1 DEF ShouldFlush, AfterAdd
<1> HIDE DEF m
<1>4. /\ pc \in [Goroutines -> Places] /\ toAdd \in [Goroutines -> SUBSET AllEvents]
      /\ e \in AllEvents /\ started \in Nat
  BY <1>1 DEF SInv, StressTypeOK, Places
<1>5. /\ pc'[g] = m /\ toAdd'[g] = toAdd[g] \ {e}
      /\ \A h \in Goroutines \ {g} : pc'[h] = pc[h] /\ toAdd'[h] = toAdd[h]
  BY <1>1, <1>3, <1>4
<1>6. AllEvents' = AllEvents /\ \A t : EventsOf(t)' = EventsOf(t)
  BY <1>2 DEF AllEvents, EventsOf
<1>7. StressTypeOK'
  <2>1. pc' \in [Goroutines -> Places] /\ toAdd' \in [Goroutines -> SUBSET AllEvents]
    BY <1>1, <1>3, <1>4 DEF Places
  <2>2. events' \subseteq AllEvents
    BY <1>1, <1>4 DEF SInv, StressTypeOK
  <2> QED BY <1>2, <1>6, <2>1, <2>2 DEF SInv, StressTypeOK, Places, MainAndGoroutines
<1>8. InHand'
  BY <1>2, <1>3, <1>5 DEF SInv, InHand
<1>9. OwnRequest'
  BY <1>2, <1>3, <1>5, <1>6 DEF SInv, OwnRequest
<1>10. e \in EventsOf(task[g]) /\ e \notin events /\ \A h \in MainAndGoroutines : e \notin batch[h]
  BY <1>1, <1>2 DEF SInv, OwnRequest, Apart, Mine
<1>11. Apart'
  <2>1. ASSUME NEW h \in Goroutines
        PROVE  Mine(h)' \subseteq Mine(h) /\ e \notin Mine(h)'
    <3>1. CASE h = g
      BY <1>2, <1>3, <1>5, <3>1 DEF Mine
    <3>2. CASE h # g
      <4>1. Mine(h)' = Mine(h) /\ Mine(h) \subseteq EventsOf(task[h])
        BY <1>2, <1>5, <1>6, <3>2 DEF Mine, SInv, OwnRequest
      <4>2. pc[h] = "none" => Mine(h) = {}
        BY DEF Mine, SInv, InHand
      <4>3. pc[h] # "none" => EventsOf(task[h]) \cap EventsOf(task[g]) = {}
        BY <1>2, <3>2, EventsApart DEF SInv, OwnRequest
      <4> QED BY <1>10, <4>1, <4>2, <4>3
    <3> QED BY <3>1, <3>2
  <2>2. \A h \in Goroutines : /\ Mine(h)' \cap events' = {}
                              /\ \A i \in MainAndGoroutines : Mine(h)' \cap batch[i] = {}
    BY <1>1, <2>1 DEF SInv, Apart
  <2> QED BY <1>1, <1>2, <1>10, <2>2 DEF SInv, Apart, MainAndGoroutines
<1>12. Ends'
  BY <1>2 DEF SInv, Ends
<1>13. Cardinality(events') = Cardinality(events) + 1
  BY <1>1, <1>10, SendingType, FS_AddElement
<1>14. /\ Cardinality(At("add")') = Cardinality(At("add")) - 1
       /\ Cardinality(At("flush")') = Cardinality(At("flush")) + (IF m = "flush" THEN 1 ELSE 0)
       /\ Cardinality(At("add")) \in Nat /\ Cardinality(At("flush")) \in Nat
  <2>1. m \in Places /\ m # "add"
    BY <1>3 DEF Places
  <2>2. /\ Cardinality(At("add")') = Cardinality(At("add")) + (IF m = "add" THEN 1 ELSE 0)
                                                 - (IF pc[g] = "add" THEN 1 ELSE 0)
        /\ Cardinality(At("flush")') = Cardinality(At("flush")) + (IF m = "flush" THEN 1 ELSE 0)
                                                 - (IF pc[g] = "flush" THEN 1 ELSE 0)
    BY <1>3, <1>4, <2>1, CountAt
  <2>3. Cardinality(At("add")) \in Nat /\ Cardinality(At("flush")) \in Nat
    BY FiniteAt
  <2> QED BY <1>2, <2>1, <2>2, <2>3
<1>15. EachEventOnce'
  <2>1. counted = Cardinality(At("add")) + Cardinality(events) + rows + dropped + Cardinality(Sending)
    BY DEF SInv, EachEventOnce, At, Sending
  <2>2. counted' = Cardinality(At("add")') + Cardinality(events') + rows + dropped
                   + Cardinality(Sending)
    BY <1>2, <1>13, <1>14, <2>1, SendingType DEF SInv, StressTypeOK
  <2>3. Sending' = Sending
    BY <1>2 DEF Sending, MainAndGoroutines
  <2> QED BY <1>2, <2>2, <2>3 DEF EachEventOnce, At, Sending
<1>16. BufferBounded'
  <2>1. Cardinality(events) <= FlushAt - 1 + Cardinality(At("flush"))
    BY DEF SInv, BufferBounded, At
  <2>2. Cardinality(events') <= FlushAt - 1 + Cardinality(At("flush")')
    BY <1>3, <1>13, <1>14, <2>1, SendingType, Constants
  <2> QED BY <2>2 DEF BufferBounded, At
<1> QED BY <1>2, <1>7, <1>8, <1>9, <1>11, <1>12, <1>15, <1>16 DEF SInv

-----------------------------------------------------------------------------
(* What Take and LogEvents do to the events on their way; they are done by a   *)
(* goroutine, or by main, with nothing and with something in hand.            *)
LEMMA TakeFacts ==
    ASSUME SInv, NEW h \in MainAndGoroutines, batch[h] = {}, Take(h)
    PROVE  /\ events' = {} /\ mu' = mu /\ Cardinality(events') = 0
           /\ batch'[h] = events
           /\ \A i \in MainAndGoroutines \ {h} : batch'[i] = batch[i]
           /\ batch' \in [MainAndGoroutines -> SUBSET AllEvents]
           /\ Cardinality(Sending') = Cardinality(Sending) + Cardinality(events)
<1>1. /\ events' = {} /\ mu' = mu /\ batch' = [batch EXCEPT ![h] = events]
      /\ batch \in [MainAndGoroutines -> SUBSET AllEvents] /\ events \subseteq AllEvents
  BY DEF Take, SInv, StressTypeOK
<1>2. batch'[h] = events /\ \A i \in MainAndGoroutines \ {h} : batch'[i] = batch[i]
  BY <1>1
<1>3. batch' \in [MainAndGoroutines -> SUBSET AllEvents]
  BY <1>1
<1>4. Sending' = Sending \cup events
  <2>1. MainAndGoroutines' = MainAndGoroutines
    BY DEF MainAndGoroutines
  <2> QED BY <1>2, <2>1 DEF Sending
<1>5. Cardinality({}) = 0
  BY FS_EmptySet
<1>6. Cardinality(Sending \cup events) = Cardinality(Sending) + Cardinality(events)
  <2>1. Cardinality(Sending \cup events)
           = Cardinality(Sending) + Cardinality(events) - Cardinality(Sending \cap events)
    BY SendingType, FS_Union
  <2>2. Sending \cap events = {} /\ Cardinality(Sending) \in Nat /\ Cardinality(events) \in Nat
    BY SendingType
  <2>3. Cardinality(Sending \cap events) = 0
    BY <1>5, <2>2
  <2> QED BY <2>1, <2>2, <2>3
<1> QED BY <1>1, <1>2, <1>3, <1>4, <1>5, <1>6

LEMMA LogFacts ==
    ASSUME SInv, NEW h \in MainAndGoroutines, LogEvents(h)
    PROVE  /\ events' = events /\ mu' = mu /\ rows' \in Nat /\ dropped' \in Nat
           /\ batch'[h] = {}
           /\ \A i \in MainAndGoroutines \ {h} : batch'[i] = batch[i]
           /\ batch' \in [MainAndGoroutines -> SUBSET AllEvents]
           /\ rows' + dropped' + Cardinality(Sending') = rows + dropped + Cardinality(Sending)
<1>1. PICK inserted \in 0 .. Cardinality(batch[h]) :
         /\ rows' = rows + inserted
         /\ dropped' = dropped + Cardinality(batch[h]) - inserted
  BY DEF LogEvents
<1>2. /\ events' = events /\ mu' = mu /\ batch' = [batch EXCEPT ![h] = {}]
      /\ batch \in [MainAndGoroutines -> SUBSET AllEvents] /\ rows \in Nat /\ dropped \in Nat
  BY DEF LogEvents, SInv, StressTypeOK
<1>3. batch'[h] = {} /\ \A i \in MainAndGoroutines \ {h} : batch'[i] = batch[i]
  BY <1>2
<1>4. batch' \in [MainAndGoroutines -> SUBSET AllEvents]
  BY <1>2
<1>5. Sending' = Sending \ batch[h] /\ Sending \cap batch[h] = batch[h]
  <2>1. MainAndGoroutines' = MainAndGoroutines
    BY DEF MainAndGoroutines
  <2>2. \A i \in MainAndGoroutines \ {h} : batch[h] \cap batch[i] = {}
    BY DEF SInv, Apart
  <2> QED BY <1>3, <2>1, <2>2 DEF Sending
<1>6. Cardinality(batch[h]) \in Nat
  BY <1>2, FiniteEvents DEF SInv
<1>7. Cardinality(Sending \ batch[h]) = Cardinality(Sending) - Cardinality(Sending \cap batch[h])
  BY SendingType, FS_Difference
<1>8. Cardinality(Sending') = Cardinality(Sending) - Cardinality(batch[h])
  BY <1>5, <1>7
<1>9. /\ rows' \in Nat /\ dropped' \in Nat
      /\ rows' + dropped' + Cardinality(Sending') = rows + dropped + Cardinality(Sending)
  <2>1. Cardinality(Sending) \in Nat
    BY SendingType
  <2> QED BY <1>1, <1>2, <1>6, <1>8, <2>1
<1> QED BY <1>2, <1>3, <1>4, <1>9

(* What both keep, whoever does it, and whatever becomes of his place.        *)
LEMMA HandOver ==
    ASSUME SInv, NEW h \in MainAndGoroutines,
           (Take(h) /\ batch[h] = {} /\ UNCHANGED <<rows, dropped>>) \/ LogEvents(h),
           UNCHANGED <<batchSize, toAdd, task, counted, started>>,
           \A g \in Goroutines : pc'[g] = "call" => pc[g] = "call",
           \A g \in Goroutines : pc[g] = "call" => pc'[g] = "call"
    PROVE  /\ Apart'
           /\ counted = Cardinality(At("add")) + Cardinality(events')
                           + rows' + dropped' + Cardinality(Sending')
           /\ Cardinality(events') <= Cardinality(events)
           /\ batch' \in [MainAndGoroutines -> SUBSET AllEvents]
           /\ events' \subseteq AllEvents /\ rows' \in Nat /\ dropped' \in Nat /\ mu' = mu
<1>1. counted = Cardinality(At("add")) + Cardinality(events) + rows + dropped + Cardinality(Sending)
  BY DEF SInv, EachEventOnce, At, Sending
<1>2. /\ rows \in Nat /\ dropped \in Nat /\ Cardinality(events) \in Nat
      /\ Cardinality(Sending) \in Nat /\ Cardinality(At("add")) \in Nat
      /\ events \subseteq AllEvents
  BY SendingType, FiniteAt DEF SInv, StressTypeOK
<1>3. \A g \in Goroutines : Mine(g)' = Mine(g)
  BY DEF Mine, EventsOf
<1>4. MainAndGoroutines' = MainAndGoroutines
  BY DEF MainAndGoroutines
<1>5. CASE Take(h) /\ batch[h] = {} /\ UNCHANGED <<rows, dropped>>
  <2>1. /\ events' = {} /\ mu' = mu /\ Cardinality(events') = 0
        /\ batch'[h] = events
        /\ \A i \in MainAndGoroutines \ {h} : batch'[i] = batch[i]
        /\ batch' \in [MainAndGoroutines -> SUBSET AllEvents]
        /\ Cardinality(Sending') = Cardinality(Sending) + Cardinality(events)
    BY <1>5, TakeFacts
  <2>2. Apart'
    BY <1>3, <1>4, <2>1 DEF SInv, Apart
  <2> QED BY <1>1, <1>2, <1>5, <2>1, <2>2
<1>6. CASE LogEvents(h)
  <2>1. /\ events' = events /\ mu' = mu /\ rows' \in Nat /\ dropped' \in Nat
        /\ batch'[h] = {}
        /\ \A i \in MainAndGoroutines \ {h} : batch'[i] = batch[i]
        /\ batch' \in [MainAndGoroutines -> SUBSET AllEvents]
        /\ rows' + dropped' + Cardinality(Sending') = rows + dropped + Cardinality(Sending)
    BY <1>6, LogFacts
  <2>2. Apart'
    BY <1>3, <1>4, <2>1 DEF SInv, Apart
  <2>3. Cardinality(Sending') \in Nat
    <3>1. Sending' \in SUBSET AllEvents
      BY <1>4, <2>1 DEF Sending
    <3> QED BY <3>1, FiniteEvents DEF SInv
  <2> QED BY <1>1, <1>2, <2>1, <2>2, <2>3
<1> QED BY <1>5, <1>6

(* A goroutine flushes, or sends what it has taken. *)
LEMMA FlushSInv ==
    ASSUME SInv, NEW g \in Goroutines, Flush(g) \/ Send(g)
    PROVE  SInv'
<1>1. g \in MainAndGoroutines /\ g # Nobody /\ Nobody \in MainAndGoroutines
  BY Constants DEF MainAndGoroutines
<1>2. PICK m \in {"release", "record", "send"} :
         /\ pc' = [pc EXCEPT ![g] = m] /\ pc[g] \in {"flush", "send"}
         /\ m = "release" => toAdd[g] = {}
         /\ \/ /\ pc[g] = "flush" /\ batch[g] = {} /\ Take(g)
               /\ UNCHANGED <<rows, dropped>> /\ (m # "send" => events = {})
            \/ pc[g] = "send" /\ LogEvents(g) /\ m # "send"
         /\ UNCHANGED <<batchSize, toAdd, task, counted, started, main>>
  <2>1. CASE Flush(g)
    <3>1. batch[g] = {}
      BY <2>1 DEF Flush, SInv, InHand
    <3> QED BY <2>1, <3>1 DEF Flush, Goto, AfterAdd, eventTable
  <2>2. CASE Send(g)
    BY <2>2 DEF Send, Goto, AfterAdd
  <2> QED BY <2>1, <2>2
<1>3. pc \in [Goroutines -> Places]
  BY DEF SInv, StressTypeOK, Places
<1>4. pc'[g] = m /\ \A h \in Goroutines \ {g} : pc'[h] = pc[h]
  BY <1>2, <1>3
<1>5. /\ Apart'
      /\ counted = Cardinality(At("add")) + Cardinality(events')
                      + rows' + dropped' + Cardinality(Sending')
      /\ Cardinality(events') <= Cardinality(events)
      /\ batch' \in [MainAndGoroutines -> SUBSET AllEvents]
      /\ events' \subseteq AllEvents /\ rows' \in Nat /\ dropped' \in Nat /\ mu' = mu
  BY <1>1, <1>2, <1>4, HandOver
<1>6. AllEvents' = AllEvents /\ \A t : EventsOf(t)' = EventsOf(t)
  BY <1>2 DEF AllEvents, EventsOf
<1>7. StressTypeOK'
  <2>1. pc' \in [Goroutines -> Places]
    BY <1>2, <1>3 DEF Places
  <2> QED BY <1>2, <1>5, <1>6, <2>1 DEF SInv, StressTypeOK, Places, MainAndGoroutines
<1>8. InHand'
  <2>1. \A h \in MainAndGoroutines \ {g} : batch'[h] = batch[h]
    BY <1>1, <1>2, TakeFacts, LogFacts
  <2>2. pc'[g] # "send" => batch'[g] = {}
    BY <1>1, <1>2, <1>4, TakeFacts, LogFacts
  <2> QED BY <1>1, <1>2, <1>4, <2>1, <2>2 DEF SInv, InHand, MainAndGoroutines
<1>9. OwnRequest'
  BY <1>2, <1>4, <1>6 DEF SInv, OwnRequest
<1>10. Ends'
  BY <1>2, <1>4 DEF SInv, Ends
<1>11. EachEventOnce'
  <2>1. Cardinality(At("add")') = Cardinality(At("add"))
    <3>1. At("add")' = At("add")
      BY <1>2, <1>4 DEF At
    <3> QED BY <3>1
  <2> QED BY <1>2, <1>5, <2>1 DEF EachEventOnce, At, Sending
<1>12. BufferBounded'
  <2>1. Cardinality(events) <= FlushAt - 1 + Cardinality(At("flush"))
    BY DEF SInv, BufferBounded, At
  <2>2. CASE pc[g] = "flush"
    <3>1. Cardinality(events') = 0
      BY <1>1, <1>2, <2>2, TakeFacts
    <3>2. Cardinality(At("flush")') \in Nat
      <4>1. At("flush")' \in SUBSET Goroutines
        BY DEF At
      <4> QED BY <4>1, Constants, FS_Subset, FS_CardinalityType
    <3> QED BY <3>1, <3>2, Constants DEF BufferBounded, At
  <2>3. CASE pc[g] = "send"
    <3>1. At("flush")' = At("flush")
      BY <1>2, <1>4, <2>3 DEF At
    <3>2. events' = events
      BY <1>1, <1>2, <2>3, LogFacts
    <3> QED BY <2>1, <3>1, <3>2 DEF BufferBounded, At
  <2> QED BY <1>2, <2>2, <2>3
<1> QED BY <1>2, <1>5, <1>7, <1>8, <1>9, <1>10, <1>11, <1>12 DEF SInv

(* The last flush of runStress, when all goroutines have returned.            *)
LEMMA RestSInv == SInv /\ (FlushRest \/ SendRest) => SInv'
<1> SUFFICES ASSUME SInv, FlushRest \/ SendRest PROVE SInv'
  OBVIOUS
<1>1. Nobody \in MainAndGoroutines /\ Nobody \notin Goroutines
  BY Constants DEF MainAndGoroutines
<1>2. /\ main \in {"flush", "send"} /\ main' \in {"send", "summary"}
      /\ \/ /\ main = "flush" /\ batch[Nobody] = {} /\ Take(Nobody)
            /\ UNCHANGED <<rows, dropped>> /\ (main' # "send" => events = {})
         \/ main = "send" /\ LogEvents(Nobody) /\ main' = "summary"
      /\ UNCHANGED <<batchSize, pc, task, toAdd, counted, started>>
  BY DEF FlushRest, SendRest, eventTable, SInv, InHand
<1>3. /\ Apart'
      /\ counted = Cardinality(At("add")) + Cardinality(events')
                      + rows' + dropped' + Cardinality(Sending')
      /\ Cardinality(events') <= Cardinality(events)
      /\ batch' \in [MainAndGoroutines -> SUBSET AllEvents]
      /\ events' \subseteq AllEvents /\ rows' \in Nat /\ dropped' \in Nat /\ mu' = mu
  BY <1>1, <1>2, HandOver
<1>4. AllEvents' = AllEvents /\ \A t : EventsOf(t)' = EventsOf(t)
  BY <1>2 DEF AllEvents, EventsOf
<1>5. StressTypeOK'
  BY <1>2, <1>3, <1>4 DEF SInv, StressTypeOK, MainAndGoroutines
<1>6. InHand'
  <2>1. \A h \in MainAndGoroutines \ {Nobody} : batch'[h] = batch[h]
    BY <1>1, <1>2, TakeFacts, LogFacts
  <2>2. main' # "send" => batch'[Nobody] = {}
    BY <1>1, <1>2, TakeFacts, LogFacts
  <2> QED BY <1>1, <1>2, <2>1, <2>2 DEF SInv, InHand, MainAndGoroutines
<1>7. OwnRequest'
  BY <1>2, <1>4 DEF SInv, OwnRequest
<1>8. Ends'
  <2>1. main = "flush" => events' = {}
    BY <1>1, <1>2, TakeFacts
  <2>2. main = "send" => events' = events
    BY <1>1, <1>2, LogFacts
  <2> QED BY <1>2, <2>1, <2>2 DEF SInv, Ends
<1>9. At("add")' = At("add") /\ At("flush")' = At("flush")
  BY <1>2 DEF At
<1>10. EachEventOnce'
  BY <1>2, <1>3, <1>9 DEF EachEventOnce, At, Sending
<1>11. BufferBounded'
  <2>1. Cardinality(events) <= FlushAt - 1 + Cardinality(At("flush"))
    BY DEF SInv, BufferBounded, At
  <2>2. Cardinality(events) \in Nat /\ Cardinality(At("flush")) \in Nat
    BY SendingType, FiniteAt
  <2>3. Cardinality(events') \in Nat
    BY <1>3, FiniteEvents DEF SInv
  <2> QED BY <1>3, <1>9, <2>1, <2>2, <2>3, Constants DEF BufferBounded, At
<1> QED BY <1>2, <1>3, <1>5, <1>6, <1>7, <1>8, <1>10, <1>11 DEF SInv

LEMMA NextSInv == SInv /\ [StressNext]_stressVars => SInv'
<1> SUFFICES ASSUME SInv, [StressNext]_stressVars PROVE SInv'
  OBVIOUS
<1>1. ASSUME NEW g \in Goroutines, Spawn(g) \/ Step(g)
      PROVE  SInv'
  BY <1>1, SpawnSInv, OwnStepsSInv, AddSInv, FlushSInv DEF Step
<1>2. CASE Main
  BY <1>2, MainSInv, RestSInv DEF Main
<1>3. CASE UNCHANGED stressVars
  BY <1>3 DEF stressVars, SInv, StressTypeOK, InHand, OwnRequest, Apart, Mine, Ends,
         EachEventOnce, BufferBounded, AllEvents, EventsOf, MainAndGoroutines
<1> QED BY <1>1, <1>2, <1>3 DEF StressNext

(* Goroutines, buffer, totals and event log keep to all that is said of them   *)
(* above.                                                                   *)
THEOREM StressInvariant == StressSpec => []SInv
<1>1. StressInit => SInv
  BY InitSInv
<1>2. SInv /\ [StressNext]_stressVars => SInv'
  BY NextSInv
<1> QED BY <1>1, <1>2, PTL DEF StressSpec

(* No event is lost or sent twice between eventBuffer.Add and LogEvents,       *)
(* whoever flushes while others add.                                        *)
THEOREM NoEventLostOrDoubled == StressSpec => []EachEventOnce
<1>1. SInv => EachEventOnce
  BY DEF SInv
<1> QED BY <1>1, StressInvariant, PTL

(* The buffer holds fewer events than its threshold, but for one for each      *)
(* goroutine that is on its way to flush it.                                 *)
THEOREM BufferStaysSmall == StressSpec => []BufferBounded
<1>1. SInv => BufferBounded
  BY DEF SInv
<1> QED BY <1>1, StressInvariant, PTL

LEMMA SummaryFollows ==
    SInv => SummaryIsComplete
<1> SUFFICES ASSUME SInv, main = "summary"
             PROVE  /\ \A g \in Goroutines : pc[g] = "none" /\ toAdd[g] = {}
                    /\ events = {} /\ counted = rows + dropped
  BY DEF SummaryIsComplete
<1>1. (\A g \in Goroutines : pc[g] = "none" /\ toAdd[g] = {}) /\ events = {}
  BY DEF SInv, Ends, InHand
<1>2. At("add") = {} /\ Sending = {}
  BY <1>1 DEF At, Sending, SInv, InHand, MainAndGoroutines
<1>3. Cardinality(At("add")) = 0 /\ Cardinality(Sending) = 0 /\ Cardinality(events) = 0
  BY <1>1, <1>2, FS_EmptySet
<1>4. counted = Cardinality(At("add")) + Cardinality(events) + rows + dropped + Cardinality(Sending)
  BY DEF SInv, EachEventOnce, At, Sending
<1>5. counted = rows + dropped
  BY <1>3, <1>4 DEF SInv, StressTypeOK
<1> QED BY <1>1, <1>5

(* The summary of runStress is printed when no request is running, with        *)
(* nothing left in the buffer, and its total is the events that were sent.     *)
THEOREM SummaryComplete == StressSpec => []SummaryIsComplete
<1>1. SInv => SummaryIsComplete
  BY SummaryFollows
<1> QED BY <1>1, StressInvariant, PTL

-----------------------------------------------------------------------------
(* The verify command: for every number of accounts, every pool, limit and     *)
(* chunk, and any number of requests whose fate the client is not told.       *)

OpsOf(a, op, S) == {o \in S : o.src = a /\ o.op = op}

(* Deposits less withdrawals of account a in a set of requests. *)
NetOf(a, S) == Cardinality(OpsOf(a, "deposit", S)) - Cardinality(OpsOf(a, "withdraw", S))

Sent == DOMAIN results

Requests == running \cup applied \cup todo \cup Sent

(* The client was told of every request of account a that was executed.       *)
Trusted(a) == \A o \in untold \cap applied : o.src # a

Shapes ==
    /\ balance \in Seq(Int)
    /\ IsFiniteSet(todo) /\ IsFiniteSet(applied) /\ IsFiniteSet(Sent)
    /\ pool \subseteq Created /\ initial \in [pool -> Int]
    /\ phase = "scenario1" => netOps \in [pool -> Int]
    /\ results \in [Sent -> {"waiting", "ok", "failed"}]
    /\ \A o \in Requests : o.op \in {"deposit", "withdraw", "transfer"} /\ o.src \in Created
    /\ \A o \in todo \cup running \cup Sent : o.op = "transfer" => o.src # o.dst

(* A request that the client takes from its list once is executed at most      *)
(* once, unless the transport sends it again.                                *)
Once ==
    /\ todo \cap (running \cup applied \cup Sent) = {}
    /\ running \cap applied \subseteq untold /\ again \subseteq untold

(* The requests of a phase. *)
Phases ==
    /\ phase = "load" => Requests = {} /\ untold = {}
    /\ phase = "scenario1" => \A o \in Requests : o.src \in pool
    /\ phase \in {"scenario1", "reload"} => \A o \in Requests : o.op # "transfer"
    /\ phase = "scenario2" =>
          \A o \in todo \cup running \cup Sent :
             o.op = "transfer" => o.src \in pool /\ o.dst \in pool
    /\ phase \in {"reload", "end", "exit"} => todo = {} /\ Sent = {}
    /\ phase \in {"load", "scenario1", "reload", "scenario2"} => SumAlarm \notin alarms

(* Scenario 1: an account has what was executed, and the client's count for    *)
(* it what was executed and tallied, unless the client was not told of one of  *)
(* its requests, which may have been executed twice.                         *)
Books ==
    phase = "scenario1" =>
       /\ \A o \in running : o \in untold \/ (o \in Sent /\ results[o] = "waiting")
       /\ \A o \in Sent :
             /\ results[o] = "ok" => o \in applied
             /\ results[o] = "failed" => o \notin applied \/ o \in untold
       /\ \A a \in pool : Trusted(a) =>
             /\ balance[a] = initial[a] + Amount * NetOf(a, applied)
             /\ netOps[a] = NetOf(a, applied \ Sent)

(* Scenario 2: transfers leave the sum over the pool alone. *)
SumKept ==
    phase = "scenario2" /\ stragglers = {} => Total(balance, pool) = Total(initial, pool)

(* The inductive invariant. *)
VInv == Shapes /\ Once /\ Phases /\ Books /\ SumKept /\ AlarmsExplained

-----------------------------------------------------------------------------
LEMMA Amounts == Amount \in Nat /\ Opening \in Nat
BY VerifyAssumption DEF VerifyAssumption

LEMMA NetType ==
    ASSUME NEW S, IsFiniteSet(S), NEW a
    PROVE  /\ NetOf(a, S) \in Int
           /\ \A op : IsFiniteSet(OpsOf(a, op, S)) /\ Cardinality(OpsOf(a, op, S)) \in Nat
<1>1. ASSUME NEW op PROVE IsFiniteSet(OpsOf(a, op, S)) /\ Cardinality(OpsOf(a, op, S)) \in Nat
  <2>1. OpsOf(a, op, S) \subseteq S
    BY DEF OpsOf
  <2> QED BY <2>1, FS_Subset, FS_CardinalityType
<1> QED BY <1>1 DEF NetOf

LEMMA NetNone == ASSUME NEW a PROVE NetOf(a, {}) = 0
<1>1. \A op : OpsOf(a, op, {}) = {}
  BY DEF OpsOf
<1> QED BY <1>1, FS_EmptySet DEF NetOf

LEMMA NetAdd ==
    ASSUME NEW S, IsFiniteSet(S), NEW o, o \notin S, NEW a,
           o.op \in {"deposit", "withdraw"}
    PROVE  NetOf(a, S \cup {o}) =
              NetOf(a, S) + (IF o.src # a THEN 0 ELSE IF o.op = "deposit" THEN 1 ELSE -1)
<1>1. ASSUME NEW op
      PROVE  Cardinality(OpsOf(a, op, S \cup {o})) =
                Cardinality(OpsOf(a, op, S)) + (IF o.src = a /\ o.op = op THEN 1 ELSE 0)
  <2>1. IsFiniteSet(OpsOf(a, op, S)) /\ Cardinality(OpsOf(a, op, S)) \in Nat
    BY NetType
  <2>2. CASE o.src = a /\ o.op = op
    <3>1. OpsOf(a, op, S \cup {o}) = OpsOf(a, op, S) \cup {o} /\ o \notin OpsOf(a, op, S)
      BY <2>2 DEF OpsOf
    <3>2. PICK A : A = OpsOf(a, op, S)
      OBVIOUS
    <3>3. Cardinality(A \cup {o}) = Cardinality(A) + 1
      BY <2>1, <3>1, <3>2, FS_AddElement
    <3> QED BY <2>2, <3>1, <3>2, <3>3
  <2>3. CASE ~(o.src = a /\ o.op = op)
    <3>1. OpsOf(a, op, S \cup {o}) = OpsOf(a, op, S)
      BY <2>3 DEF OpsOf
    <3> QED BY <2>1, <2>3, <3>1
  <2> QED BY <2>2, <2>3
<1>2. /\ Cardinality(OpsOf(a, "deposit", S)) \in Nat
      /\ Cardinality(OpsOf(a, "withdraw", S)) \in Nat
  BY NetType
<1>3. "deposit" # "withdraw"
  OBVIOUS
<1> QED BY <1>1, <1>2, <1>3 DEF NetOf

LEMMA NetSplit ==
    ASSUME NEW S, IsFiniteSet(S), NEW T, NEW a
    PROVE  NetOf(a, S) = NetOf(a, S \ T) + NetOf(a, S \cap T)
<1>1. ASSUME NEW op
      PROVE  /\ Cardinality(OpsOf(a, op, S)) =
                   Cardinality(OpsOf(a, op, S \ T)) + Cardinality(OpsOf(a, op, S \cap T))
             /\ Cardinality(OpsOf(a, op, S \ T)) \in Nat
             /\ Cardinality(OpsOf(a, op, S \cap T)) \in Nat
  <2> DEFINE A == OpsOf(a, op, S)
  <2>1. OpsOf(a, op, S \ T) = A \ T /\ OpsOf(a, op, S \cap T) = A \cap T
    BY DEF OpsOf
  <2>2. IsFiniteSet(A) /\ Cardinality(A) \in Nat
    BY NetType
  <2> HIDE DEF A
  <2>3. IsFiniteSet(A \ T) /\ IsFiniteSet(A \cap T)
    BY <2>2, FS_Subset
  <2>4. Cardinality(A \ T) = Cardinality(A) - Cardinality(A \cap T)
    BY <2>2, FS_Difference
  <2>5. Cardinality(A \ T) \in Nat /\ Cardinality(A \cap T) \in Nat
    BY <2>3, FS_CardinalityType
  <2>6. Cardinality(A) = Cardinality(A \ T) + Cardinality(A \cap T)
    BY <2>2, <2>4, <2>5
  <2> QED BY <2>1, <2>5, <2>6 DEF A
<1>2. PICK i \in Nat, j \in Nat :
         /\ i = Cardinality(OpsOf(a, "deposit", S \ T))
         /\ j = Cardinality(OpsOf(a, "deposit", S \cap T))
         /\ Cardinality(OpsOf(a, "deposit", S)) = i + j
  BY <1>1
<1>3. PICK k \in Nat, l \in Nat :
         /\ k = Cardinality(OpsOf(a, "withdraw", S \ T))
         /\ l = Cardinality(OpsOf(a, "withdraw", S \cap T))
         /\ Cardinality(OpsOf(a, "withdraw", S)) = k + l
  BY <1>1
<1>4. /\ NetOf(a, S) = (i + j) - (k + l)
      /\ NetOf(a, S \ T) = i - k /\ NetOf(a, S \cap T) = j - l
  BY <1>2, <1>3 DEF NetOf
<1> QED BY <1>4

LEMMA FiniteCreated ==
    ASSUME balance \in Seq(Int), NEW P \in SUBSET Created
    PROVE  IsFiniteSet(P)
<1>1. Len(balance) \in Nat
  OBVIOUS
<1>2. IsFiniteSet(Created)
  BY <1>1, FS_Interval DEF Created
<1> QED BY <1>2, FS_Subset

LEMMA SetBalance ==
    ASSUME NEW s \in Seq(Int), NEW i \in 1 .. Len(s), NEW v \in Int
    PROVE  /\ [s EXCEPT ![i] = v] \in Seq(Int)
           /\ Len([s EXCEPT ![i] = v]) = Len(s)
           /\ [s EXCEPT ![i] = v][i] = v
           /\ \A j \in 1 .. Len(s) : j # i => [s EXCEPT ![i] = v][j] = s[j]
OBVIOUS

LEMMA NoResults == DOMAIN << >> = {} /\ << >> \in [{} -> {"waiting", "ok", "failed"}]
OBVIOUS

LEMMA InitVInv == VerifyInit => VInv
<1> SUFFICES ASSUME VerifyInit PROVE VInv
  OBVIOUS
<1>1. PICK n \in Existing : balance = [a \in 1 .. n |-> Opening]
  BY DEF VerifyInit
<1>2. n \in Nat
  BY VerifyAssumption DEF VerifyAssumption
<1>3. balance \in Seq(Int)
  BY <1>1, <1>2, Amounts
<1>4. /\ running = {} /\ again = {} /\ applied = {} /\ phase = "load" /\ pool = {} /\ initial = << >>
      /\ todo = {} /\ results = << >> /\ alarms = {} /\ untold = {}
  BY DEF VerifyInit
<1>5. Sent = {} /\ results \in [Sent -> {"waiting", "ok", "failed"}] /\ Requests = {}
  BY <1>4 DEF Sent, Requests
<1>6. initial \in [pool -> Int]
  BY <1>4
<1>7. Shapes
  BY <1>3, <1>4, <1>5, <1>6, FS_EmptySet DEF Shapes
<1> QED BY <1>4, <1>5, <1>7 DEF VInv, Once, Phases, Books, SumKept, AlarmsExplained

-----------------------------------------------------------------------------
(* The server.                                                             *)
LEMMA SeedVInv == VInv /\ Seed => VInv'
<1> SUFFICES ASSUME VInv, Seed PROVE VInv'
  OBVIOUS
<1>1. /\ balance' = Append(balance, Opening)
      /\ UNCHANGED <<running, again, applied, phase, pool, initial, todo, results, netOps,
                     alarms, untold, stragglers, unlisted>>
  BY DEF Seed, history
<1>2. Sent' = Sent /\ Requests' = Requests
  BY <1>1 DEF Sent, Requests
<1>3. balance \in Seq(Int)
  BY DEF VInv, Shapes
<1>4. /\ balance' \in Seq(Int) /\ Len(balance') = Len(balance) + 1 /\ Len(balance) \in Nat
      /\ \A a \in Created : balance'[a] = balance[a]
  BY <1>1, <1>3, Amounts DEF Created
<1>5. Created \subseteq Created'
  BY <1>4 DEF Created
<1>6. Shapes'
  BY <1>1, <1>2, <1>4, <1>5 DEF VInv, Shapes
<1>7. Once' /\ Phases' /\ AlarmsExplained'
  BY <1>1, <1>2 DEF VInv, Once, Phases, AlarmsExplained
<1>8. \A a \in pool : balance'[a] = balance[a] /\ balance[a] \in Int
  BY <1>3, <1>4 DEF VInv, Shapes, Created
<1>9. Books'
  BY <1>1, <1>2, <1>8 DEF VInv, Books, Trusted
<1>10. SumKept'
  <2>1. PICK f, g, P : f = balance /\ g = balance' /\ P = pool
    OBVIOUS
  <2>2. IsFiniteSet(P)
    BY <1>3, <2>1, FiniteCreated DEF VInv, Shapes
  <2>3. Total(f, P) = Total(g, P)
    BY <1>8, <2>1, <2>2, TotalAgree
  <2> QED BY <1>1, <2>1, <2>3 DEF VInv, SumKept
<1> QED BY <1>6, <1>7, <1>9, <1>10 DEF VInv

(* A request is executed.  In scenario 1 only those given up are not of the    *)
(* current chunk.                                                           *)
LEMMA ExecutedBalance ==
    ASSUME Shapes, NEW o \in running, balance' = Executed(o)
    PROVE  /\ balance' \in Seq(Int) /\ Len(balance') = Len(balance)
           /\ o.op = "deposit" => balance'[o.src] = balance[o.src] + Amount
           /\ o.op = "withdraw" => balance'[o.src] = balance[o.src] - Amount
           /\ o.op # "transfer" => \A a \in Created \ {o.src} : balance'[a] = balance[a]
           /\ o.op = "transfer" /\ o.dst \in Created =>
                 /\ balance'[o.src] = balance[o.src] - Amount
                 /\ balance'[o.dst] = balance[o.dst] + Amount
                 /\ \A a \in Created \ {o.src, o.dst} : balance'[a] = balance[a]
<1>1. /\ balance \in Seq(Int) /\ o.src \in 1 .. Len(balance)
      /\ o.op \in {"deposit", "withdraw", "transfer"}
  BY DEF Shapes, Requests, Created
<1>0. PICK s \in Seq(Int) : s = balance
  BY <1>1
<1>2. PICK i \in 1 .. Len(s), v \in Int : s = balance /\ i = o.src /\ v = balance[i]
  BY <1>0, <1>1
<1>3. CASE o.op = "deposit"
  <2>1. balance' = [s EXCEPT ![i] = v + Amount]
    BY <1>2, <1>3 DEF Executed
  <2>2. v + Amount \in Int
    BY Amounts
  <2> QED BY <1>2, <1>3, <2>1, <2>2, SetBalance DEF Created
<1>4. CASE o.op = "withdraw"
  <2>1. balance' = [s EXCEPT ![i] = v - Amount]
    BY <1>2, <1>4 DEF Executed
  <2>2. v - Amount \in Int
    BY Amounts
  <2> QED BY <1>2, <1>4, <2>1, <2>2, SetBalance DEF Created
<1>5. CASE o.op = "transfer"
  <2> DEFINE t == [s EXCEPT ![i] = v - Amount]
             j == o.dst
  <2>1. v - Amount \in Int
    BY Amounts
  <2>2. /\ t \in Seq(Int) /\ Len(t) = Len(s) /\ t[i] = v - Amount
        /\ \A a \in 1 .. Len(s) : a # i => t[a] = s[a]
    BY <2>1, SetBalance
  <2>3. j # i
    BY <1>2, <1>5 DEF Shapes
  <2>4. balance' = [t EXCEPT ![j] = @ + Amount]
    <3>1. balance' = [balance EXCEPT ![o.src] = @ - Amount, ![o.dst] = @ + Amount]
      BY <1>5 DEF Executed
    <3>2. [balance EXCEPT ![o.src] = @ - Amount] = t
      BY <1>2
    <3>3. t[j] = balance[j]
      BY <1>2, <2>3
    <3> QED BY <1>2, <2>3, <3>1, <3>2, <3>3
  <2> HIDE DEF t, j
  <2>5. CASE j \in 1 .. Len(s)
    <3>1. PICK u \in Int : u = t[j]
      BY <2>2, <2>5
    <3>2. balance' = [t EXCEPT ![j] = u + Amount] /\ u + Amount \in Int
      BY <2>4, <3>1, Amounts
    <3>3. /\ balance' \in Seq(Int) /\ Len(balance') = Len(t) /\ balance'[j] = u + Amount
          /\ \A a \in 1 .. Len(s) : a # j => balance'[a] = t[a]
      BY <2>2, <2>5, <3>2, SetBalance
    <3> QED BY <1>2, <1>5, <2>2, <2>3, <3>1, <3>3 DEF Created, j
  <2>6. CASE j \notin 1 .. Len(s)
    <3>1. balance' = t
      BY <2>2, <2>4, <2>6
    <3> QED BY <1>2, <1>5, <2>2, <2>6, <3>1 DEF Created, j
  <2> QED BY <2>5, <2>6
<1> QED BY <1>1, <1>3, <1>4, <1>5

LEMMA ExecuteVInv ==
    ASSUME VInv, NEW o \in running, Execute(o)
    PROVE  VInv'
<1>1. /\ balance' = Executed(o) /\ applied' = applied \cup {o}
      /\ running' \in {running, running \ {o}} /\ again' = again \ {o}
      /\ o \in running' => o \in again
      /\ stragglers' = stragglers \cup {x \in {o} : x.op # "transfer" /\ phase = "scenario2"}
      /\ UNCHANGED <<phase, pool, initial, todo, results, netOps, alarms, untold, unlisted>>
  BY DEF Execute, Done
<1>2. /\ Sent' = Sent /\ Requests' = Requests
  BY <1>1 DEF Sent, Requests
<1>3. Shapes
  BY DEF VInv
<1>4. o \in Requests /\ o.op \in {"deposit", "withdraw", "transfer"} /\ o.src \in Created
  BY <1>3 DEF Shapes, Requests
<1>5. balance' \in Seq(Int) /\ Created' = Created
  BY <1>1, <1>3, ExecutedBalance DEF Created
<1>6. Shapes'
  <2>1. IsFiniteSet(applied')
    BY <1>1, <1>3, FS_AddElement DEF Shapes
  <2> QED BY <1>1, <1>2, <1>3, <1>5, <2>1 DEF Shapes
<1>7. Once' /\ Phases' /\ AlarmsExplained'
  BY <1>1, <1>2 DEF VInv, Once, Phases, AlarmsExplained
<1>8. Books'
  <2> SUFFICES ASSUME phase = "scenario1" PROVE Books'
    BY <1>1 DEF Books
  <2>1. /\ o.op \in {"deposit", "withdraw"} /\ o.src \in pool
        /\ o \in applied => o \in untold
    BY <1>4 DEF VInv, Phases, Once
  <2>2. /\ o \in untold \/ o \in Sent
        /\ \A r \in Sent \ untold : results[r] = "failed" => r # o
    BY <1>3 DEF VInv, Books
  <2>5. ASSUME NEW a, Trusted(a)'
        PROVE  Trusted(a) /\ (o \in untold => o.src # a)
    BY <1>1, <2>5 DEF Trusted
  <2>3. ASSUME NEW a \in pool, Trusted(a)'
        PROVE  balance'[a] = initial[a] + Amount * NetOf(a, applied')
    <3>1. a \in Created /\ balance[a] \in Int /\ initial[a] \in Int
      BY <1>3 DEF Shapes, Created
    <3>2. balance[a] = initial[a] + Amount * NetOf(a, applied)
      BY <2>3, <2>5 DEF VInv, Books
    <3>3. IsFiniteSet(applied) /\ NetOf(a, applied) \in Int
      BY <1>3, NetType DEF Shapes
    <3>4. NetOf(a, applied') = NetOf(a, applied) +
             (IF o.src # a THEN 0 ELSE IF o.op = "deposit" THEN 1 ELSE -1)
      <4>1. CASE o \in applied
        <5>1. applied' = applied /\ o.src # a
          BY <1>1, <2>1, <2>3, <2>5, <4>1
        <5>2. PICK n \in Int : n = NetOf(a, applied)
          BY <3>3
        <5> QED BY <5>1, <5>2
      <4>2. CASE o \notin applied
        BY <1>1, <2>1, <3>3, <4>2, NetAdd
      <4> QED BY <4>1, <4>2
    <3>5. balance'[a] = balance[a] +
             (IF o.src # a THEN 0 ELSE IF o.op = "deposit" THEN Amount ELSE -Amount)
      BY <1>1, <1>3, <2>1, <3>1, Amounts, ExecutedBalance
    <3>6. PICK n \in Int, m \in Nat : n = NetOf(a, applied) /\ m = Amount
      BY <3>3, Amounts
    <3>7. m * (n + 0) = m * n + 0 /\ m * (n + 1) = m * n + m /\ m * (n + (-1)) = m * n + (-m)
      OBVIOUS
    <3> QED BY <3>1, <3>2, <3>4, <3>5, <3>6, <3>7
  <2>4. ASSUME NEW a \in pool, Trusted(a)'
        PROVE  netOps[a] = NetOf(a, applied' \ Sent)
    <3>1. netOps[a] = NetOf(a, applied \ Sent)
      BY <2>4, <2>5 DEF VInv, Books
    <3>2. CASE o \in Sent
      BY <1>1, <3>1, <3>2
    <3>4. CASE o \in applied
      <4>1. applied' = applied
        BY <1>1, <3>4
      <4> QED BY <3>1, <4>1
    <3>3. CASE o \in untold /\ o \notin Sent /\ o \notin applied
      <4>1. IsFiniteSet(applied \ Sent) /\ applied' \ Sent = (applied \ Sent) \cup {o}
            /\ o \notin applied \ Sent
        BY <1>1, <1>3, <3>3, FS_Subset DEF Shapes
      <4>2. NetOf(a, (applied \ Sent) \cup {o}) = NetOf(a, applied \ Sent) +
               (IF o.src # a THEN 0 ELSE IF o.op = "deposit" THEN 1 ELSE -1)
        BY <2>1, <4>1, NetAdd
      <4>3. o.src # a
        BY <2>4, <2>5, <3>3
      <4>4. NetOf(a, applied \ Sent) \in Int
        BY <4>1, NetType
      <4>5. PICK n \in Int : n = NetOf(a, applied \ Sent)
        BY <4>4
      <4>6. NetOf(a, (applied \ Sent) \cup {o}) = n
        BY <4>2, <4>3, <4>5
      <4> QED BY <3>1, <4>1, <4>5, <4>6
    <3> QED BY <2>2, <3>2, <3>3, <3>4
  <2>6. \A r \in running' : r \in untold \/ (r \in Sent /\ results[r] = "waiting")
    BY <1>1 DEF VInv, Books
  <2>7. \A r \in Sent : /\ results[r] = "ok" => r \in applied'
                        /\ results[r] = "failed" => r \notin applied' \/ r \in untold
    BY <1>1, <2>2 DEF VInv, Books
  <2> QED BY <1>1, <1>2, <2>3, <2>4, <2>6, <2>7 DEF Books
<1>9. SumKept'
  <2> SUFFICES ASSUME phase = "scenario2", stragglers' = {}
               PROVE  Total(balance, pool)' = Total(initial, pool)
    BY <1>1 DEF SumKept
  <2>1. stragglers = {} /\ o.op = "transfer"
    BY <1>1
  <2>2. o.src \in pool /\ o.dst \in pool /\ o.src # o.dst /\ pool \subseteq Created
    BY <1>1, <1>3, <2>1 DEF VInv, Phases, Shapes
  <2>3. PICK f, g, P, s, d : /\ f = balance /\ g = balance' /\ P = pool
                             /\ s = o.src /\ d = o.dst
    OBVIOUS
  <2>4. IsFiniteSet(P) /\ s \in P /\ d \in P /\ s # d
    BY <1>3, <2>2, <2>3, FiniteCreated DEF Shapes
  <2>5. \A a \in P : f[a] \in Int /\ g[a] \in Int
    BY <1>3, <1>5, <2>2, <2>3 DEF Shapes, Created
  <2>6. /\ g[s] = f[s] - Amount /\ g[d] = f[d] + Amount
        /\ \A a \in P \ {s, d} : g[a] = f[a]
    BY <1>1, <1>3, <2>1, <2>2, <2>3, ExecutedBalance
  <2>7. Total(g, P) = Total(f, P)
    <3> DEFINE h == [a \in P |-> IF a = s THEN g[s] ELSE f[a]]
    <3>1. \A a \in P : h[a] \in Int
      BY <2>4, <2>5
    <3>2. /\ \A a \in P \ {s} : f[a] = h[a]
          /\ \A a \in P \ {d} : h[a] = g[a]
          /\ h[s] = g[s] /\ h[d] = f[d]
      BY <2>4, <2>6
    <3> HIDE DEF h
    <3>3. Total(h, P) = Total(f, P) + h[s] - f[s]
      <4>1. \A a \in P : f[a] \in Int /\ h[a] \in Int
        BY <2>5, <3>1
      <4> QED BY ONLY <2>4, <4>1, <3>2, TotalPoint
    <3>4. Total(g, P) = Total(h, P) + g[d] - h[d]
      <4>1. \A a \in P : h[a] \in Int /\ g[a] \in Int
        BY <2>5, <3>1
      <4> QED BY ONLY <2>4, <4>1, <3>2, TotalPoint
    <3>5. PICK n \in Int, x \in Int, y \in Int : n = Total(f, P) /\ x = f[s] /\ y = f[d]
      BY <2>4, <2>5, TotalType
    <3>6. Total(h, P) = n + (x - Amount) - x
      BY <2>6, <3>2, <3>3, <3>5
    <3>7. Total(h, P) = n - Amount
      BY <3>6, Amounts
    <3>8. Total(g, P) = (n - Amount) + (y + Amount) - y
      BY <2>6, <3>2, <3>4, <3>5, <3>7
    <3> QED BY <3>5, <3>8, Amounts
  <2>8. Total(balance, pool) = Total(initial, pool)
    BY <2>1 DEF VInv, SumKept
  <2> QED BY <1>1, <2>3, <2>7, <2>8
<1> QED BY <1>6, <1>7, <1>8, <1>9 DEF VInv

LEMMA RefuseVInv ==
    ASSUME VInv, NEW o \in running, Refuse(o)
    PROVE  VInv'
<1>1. /\ running' \in {running, running \ {o}} /\ again' = again \ {o}
      /\ UNCHANGED <<balance, applied, phase, pool, initial, todo, results, netOps, alarms,
                     untold, stragglers, unlisted>>
  BY DEF Refuse, Done, history
<1>2. Sent' = Sent /\ Requests' \subseteq Requests /\ Created' = Created
  BY <1>1 DEF Sent, Requests, Created
<1>3. Shapes' /\ Once' /\ Phases'
  BY <1>1, <1>2 DEF VInv, Shapes, Once, Phases
<1>4. Books'
  BY <1>1, <1>2 DEF VInv, Books, Trusted
<1>5. SumKept' /\ AlarmsExplained'
  BY <1>1 DEF VInv, SumKept, AlarmsExplained
<1> QED BY <1>3, <1>4, <1>5 DEF VInv

-----------------------------------------------------------------------------
(* The client. *)
LEMMA FiniteOperations ==
    ASSUME NEW P, IsFiniteSet(P)
    PROVE  IsFiniteSet(Operations(P))
<1> DEFINE R == {"deposit", "withdraw"} \X (P \X (1 .. opsPerAccount))
           f == [t \in R |-> [op |-> t[1], src |-> t[2][1], dst |-> 0, n |-> t[2][2]]]
<1>1. IsFiniteSet(1 .. opsPerAccount)
  BY VerifyAssumption, FS_Interval DEF VerifyAssumption
<1>2. IsFiniteSet({"deposit", "withdraw"})
  <2>1. IsFiniteSet({"deposit"} \cup {"withdraw"})
    BY FS_Singleton, FS_AddElement
  <2>2. {"deposit"} \cup {"withdraw"} = {"deposit", "withdraw"}
    OBVIOUS
  <2> QED BY <2>1, <2>2
<1>3. IsFiniteSet(P \X (1 .. opsPerAccount))
  BY <1>1, FS_Product
<1>4. IsFiniteSet(R)
  BY <1>2, <1>3, FS_Product
<1>5. f \in Surjection(R, Operations(P))
  <2>1. f \in [R -> Operations(P)]
    BY DEF Operations
  <2>2. ASSUME NEW o \in Operations(P) PROVE \E t \in R : f[t] = o
    <3>1. /\ o = [op |-> o.op, src |-> o.src, dst |-> 0, n |-> o.n]
          /\ o.op \in {"deposit", "withdraw"} /\ o.src \in P /\ o.n \in 1 .. opsPerAccount
      BY DEF Operations
    <3>2. <<o.op, <<o.src, o.n>>>> \in R
      BY <3>1
    <3>3. f[<<o.op, <<o.src, o.n>>>>] = o
      BY <3>1, <3>2
    <3> QED BY <3>2, <3>3
  <2> QED BY <2>1, <2>2 DEF Surjection
<1> QED BY <1>4, <1>5, FS_Surjection

LEMMA LoadVInv == VInv /\ Load => VInv'
<1> SUFFICES ASSUME VInv, Load PROVE VInv'
  OBVIOUS
<1>1. /\ phase = "load"
      /\ UNCHANGED <<balance, running, again, applied, results, alarms, untold, stragglers,
                     unlisted>>
  BY DEF Load, server, history
<1>2. Requests = {} /\ untold = {} /\ SumAlarm \notin alarms /\ balance \in Seq(Int)
  BY <1>1 DEF VInv, Phases, Shapes
<1>3. running = {} /\ applied = {} /\ Sent = {} /\ todo = {}
  BY <1>2 DEF Requests
<1>4. Sent' = Sent /\ Created' = Created
  BY <1>1 DEF Sent, Created
<1>5. CASE phase' = "exit" /\ UNCHANGED <<pool, initial, todo, netOps>>
  <2>1. Requests' = Requests
    BY <1>1, <1>4, <1>5 DEF Requests
  <2>2. Shapes'
    BY <1>1, <1>4, <1>5, <2>1 DEF VInv, Shapes
  <2>3. Once' /\ Phases' /\ Books' /\ SumKept' /\ AlarmsExplained'
    BY <1>1, <1>2, <1>3, <1>4, <1>5, <2>1
       DEF VInv, Once, Phases, Books, SumKept, AlarmsExplained
  <2> QED BY <2>2, <2>3 DEF VInv
<1>6. ASSUME NEW P \in SUBSET Created, Use(P), StartScenario1(P)
      PROVE  VInv'
  <2>1. /\ pool' = P /\ initial' = [a \in P |-> balance[a]] /\ phase' = "scenario1"
        /\ todo' = Operations(P) /\ netOps' = [a \in P |-> 0]
    BY <1>6 DEF Use, StartScenario1
  <2>2. IsFiniteSet(P) /\ IsFiniteSet(Operations(P))
    BY <1>2, <1>6, FiniteCreated, FiniteOperations
  <2>3. \A o \in Operations(P) : o.op \in {"deposit", "withdraw"} /\ o.src \in P
    BY DEF Operations
  <2>4. Requests' = Operations(P)
    BY <1>1, <1>3, <1>4, <2>1 DEF Requests
  <2>5. \A a \in P : balance[a] \in Int
    BY <1>2 DEF Created
  <2>6. Shapes'
    <3>1. initial' \in [P -> Int] /\ netOps' \in [P -> Int]
      BY <2>1, <2>5
    <3>2. \A o \in todo' \cup running' \cup Sent' : o.op # "transfer"
      BY <1>1, <1>3, <1>4, <2>1, <2>3
    <3>3. \A o \in Requests' : o.op \in {"deposit", "withdraw", "transfer"} /\ o.src \in Created'
      BY <1>4, <2>3, <2>4
    <3> QED BY <1>1, <1>2, <1>3, <1>4, <2>1, <2>2, <3>1, <3>2, <3>3 DEF VInv, Shapes
  <2>7. Once'
    BY <1>1, <1>3, <1>4 DEF VInv, Once
  <2>8. Phases'
    BY <1>1, <1>2, <2>1, <2>3, <2>4 DEF Phases
  <2>9. Books'
    <3>1. \A a \in P : NetOf(a, {}) = 0
      BY NetNone
    <3>2. applied' = {} /\ running' = {} /\ Sent' = {} /\ {} \ Sent' = {}
      BY <1>1, <1>3, <1>4
    <3>3. \A a \in P : balance'[a] = initial'[a] + Amount * NetOf(a, {})
      BY <1>1, <2>1, <2>5, <3>1, Amounts
    <3> QED BY <2>1, <3>1, <3>2, <3>3 DEF Books
  <2>10. SumKept' /\ AlarmsExplained'
    BY <2>1 DEF SumKept, AlarmsExplained
  <2> QED BY <2>6, <2>7, <2>8, <2>9, <2>10 DEF VInv
<1>7. {a \in Listed : Len(balance) - a < PoolSize} \subseteq Created
  BY DEF Listed
<1> QED BY <1>5, <1>6, <1>7 DEF Load

LEMMA SendChunkVInv == VInv /\ SendChunk => VInv'
<1> SUFFICES ASSUME VInv, SendChunk PROVE VInv'
  OBVIOUS
<1>1. PICK chunk \in SUBSET todo :
         /\ todo' = todo \ chunk /\ running' = running \cup chunk
         /\ results' = [o \in chunk |-> "waiting"]
  BY DEF SendChunk, kSubset
<1>2. /\ results = << >> /\ todo # {}
      /\ UNCHANGED <<balance, again, applied, phase, pool, initial, netOps, alarms, untold,
                     stragglers, unlisted>>
  BY DEF SendChunk, history
<1>3. Sent = {} /\ Sent' = chunk /\ Created' = Created
  BY <1>1, <1>2 DEF Sent, Created
<1>4. /\ Requests' = Requests
      /\ todo' \cup running' \cup Sent' = todo \cup running \cup Sent
  BY <1>1, <1>2, <1>3 DEF Requests
<1>5. chunk \cap applied = {} /\ applied \ chunk = applied
  BY DEF VInv, Once
<1>6. Shapes'
  <2>1. IsFiniteSet(todo') /\ IsFiniteSet(chunk)
    BY <1>1, FS_Subset DEF VInv, Shapes
  <2>2. results' \in [Sent' -> {"waiting", "ok", "failed"}]
    BY <1>1, <1>3
  <2> QED BY <1>2, <1>3, <1>4, <2>1, <2>2 DEF VInv, Shapes
<1>7. Once'
  BY <1>1, <1>2, <1>3, <1>5 DEF VInv, Once
<1>8. Phases'
  BY <1>1, <1>2, <1>3, <1>4 DEF VInv, Phases
<1>9. Books'
  <2> SUFFICES ASSUME phase = "scenario1" PROVE Books'
    BY <1>2 DEF Books
  <2>1. \A o \in running' : o \in untold \/ (o \in Sent' /\ results'[o] = "waiting")
    BY <1>1, <1>3 DEF VInv, Books
  <2>2. \A a \in pool : Trusted(a) =>
           /\ balance[a] = initial[a] + Amount * NetOf(a, applied)
           /\ netOps[a] = NetOf(a, applied \ Sent')
    BY <1>3, <1>5 DEF VInv, Books
  <2>3. \A o \in Sent' : results'[o] = "waiting"
    BY <1>1, <1>3
  <2> QED BY <1>2, <2>1, <2>2, <2>3 DEF Books, Trusted
<1>10. SumKept' /\ AlarmsExplained'
  BY <1>2 DEF VInv, SumKept, AlarmsExplained
<1> QED BY <1>6, <1>7, <1>8, <1>9, <1>10 DEF VInv

LEMMA AnswerVInv ==
    ASSUME VInv, NEW o, Answer(o) \/ ReportFailed(o)
    PROVE  VInv'
<1>1. /\ o \in Sent /\ results[o] = "waiting"
      /\ \E r \in {"ok", "failed"} :
            /\ results' = [results EXCEPT ![o] = r]
            /\ r = "ok" => o \in applied
            /\ r = "failed" => o \notin applied \/ o \in untold'
      /\ untold' \in {untold, untold \cup {o}} /\ (o \in running => o \in untold')
      /\ UNCHANGED <<balance, running, again, applied, phase, pool, initial, todo, netOps,
                     alarms, stragglers, unlisted>>
  <2>1. CASE Answer(o)
    BY <2>1 DEF Answer, Waiting, Outcomes, Sent, server, history
  <2>2. CASE ReportFailed(o)
    BY <2>2 DEF ReportFailed, Untell, Waiting, Sent, server
  <2> QED BY <2>1, <2>2
<1>2. results \in [Sent -> {"waiting", "ok", "failed"}]
  BY DEF VInv, Shapes
<1>3. /\ Sent' = Sent /\ Created' = Created /\ results' \in [Sent' -> {"waiting", "ok", "failed"}]
      /\ \A r \in Sent \ {o} : results'[r] = results[r]
      /\ results'[o] = "ok" => o \in applied
      /\ results'[o] = "failed" => o \notin applied \/ o \in untold'
      /\ untold \subseteq untold'
  BY <1>1, <1>2 DEF Sent, Created
<1>4. Requests' = Requests
  BY <1>1, <1>3 DEF Requests
<1>5. Shapes' /\ Once'
  BY <1>1, <1>3, <1>4 DEF VInv, Shapes, Once
<1>6. Phases'
  BY <1>1, <1>3, <1>4 DEF VInv, Phases, Requests
<1>7. Books'
  <2> SUFFICES ASSUME phase = "scenario1" PROVE Books'
    BY <1>1 DEF Books
  <2>1. Books
    BY DEF VInv
  <2>2. \A a : Trusted(a)' => Trusted(a)
    BY <1>1, <1>3 DEF Trusted
  <2>3. ASSUME NEW r \in running
        PROVE  r \in untold' \/ (r \in Sent /\ results'[r] = "waiting")
    <3>1. r \in untold \/ (r \in Sent /\ results[r] = "waiting")
      BY <2>1 DEF Books
    <3> QED BY <1>1, <1>3, <3>1
  <2>4. \A r \in Sent : /\ results'[r] = "ok" => r \in applied
                        /\ results'[r] = "failed" => r \notin applied \/ r \in untold'
    BY <1>3, <2>1 DEF Books
  <2> QED BY <1>1, <1>3, <2>1, <2>2, <2>3, <2>4 DEF Books
<1>8. SumKept' /\ AlarmsExplained'
  BY <1>1, <1>3 DEF VInv, SumKept, AlarmsExplained
<1> QED BY <1>5, <1>6, <1>7, <1>8 DEF VInv

LEMMA ResendVInv ==
    ASSUME VInv, NEW o, Resend(o)
    PROVE  VInv'
<1>1. /\ o \in Sent /\ untold' = untold \cup {o} /\ running' = running \cup {o}
      /\ again' \subseteq again \cup {o}
      /\ UNCHANGED <<balance, applied, phase, pool, initial, todo, results, netOps, alarms,
                     stragglers, unlisted>>
  BY DEF Resend, Untell, Waiting, Sent
<1>2. Sent' = Sent /\ Created' = Created
  BY <1>1 DEF Sent, Created
<1>3. Requests' = Requests /\ todo' \cup running' \cup Sent' = todo \cup running \cup Sent
  BY <1>1, <1>2 DEF Requests
<1>4. Shapes' /\ Once'
  BY <1>1, <1>2, <1>3 DEF VInv, Shapes, Once
<1>5. Phases'
  BY <1>1, <1>2, <1>3 DEF VInv, Phases, Requests
<1>6. \A a : Trusted(a)' => Trusted(a)
  BY <1>1 DEF Trusted
<1>7. Books'
  BY <1>1, <1>2, <1>6 DEF VInv, Books
<1>8. SumKept' /\ AlarmsExplained'
  BY <1>1 DEF VInv, SumKept, AlarmsExplained
<1> QED BY <1>4, <1>5, <1>7, <1>8 DEF VInv

(* A chunk is tallied: for an account the client was told everything about,    *)
(* what is counted is what the server has executed.                          *)
LEMMA TallyVInv == VInv /\ Tally => VInv'
<1> SUFFICES ASSUME VInv, Tally PROVE VInv'
  OBVIOUS
<1>1. /\ \A o \in Sent : results[o] # "waiting"
      /\ netOps' = [a \in DOMAIN netOps |-> netOps[a] + Net(a)]
      /\ results' = << >>
      /\ UNCHANGED <<balance, running, again, applied, phase, pool, initial, todo, alarms,
                     untold, stragglers, unlisted>>
  BY DEF Tally, ChunkDone, Sent, server, history
<1>2. Sent' = {} /\ Created' = Created /\ results' \in [{} -> {"waiting", "ok", "failed"}]
  BY <1>1, NoResults DEF Sent, Created
<1>3. Requests' \subseteq Requests
  BY <1>1, <1>2 DEF Requests
<1>4. IsFiniteSet(Sent) /\ IsFiniteSet(applied)
  BY DEF VInv, Shapes
<1>5. ASSUME NEW a PROVE Net(a) \in Int
  <2>1. \A op, result : IsFiniteSet({o \in Sent : o.src = a /\ o.op = op /\ results[o] \in result})
    BY <1>4, FS_Subset
  <2>2. \A op, result : Counted(a, op, result) \in Nat
    BY <2>1, FS_CardinalityType DEF Counted, Sent
  <2> QED BY <2>2 DEF Net
<1>6. phase = "scenario1" => netOps' \in [pool -> Int]
  BY <1>1, <1>5 DEF VInv, Shapes
<1>7. Shapes'
  BY <1>1, <1>2, <1>3, <1>6, FS_EmptySet DEF VInv, Shapes
<1>8. Once' /\ Phases'
  BY <1>1, <1>2, <1>3 DEF VInv, Once, Phases
<1>9. Books'
  <2> SUFFICES ASSUME phase = "scenario1" PROVE Books'
    BY <1>1 DEF Books
  <2>1. \A o \in running : o \in untold
    BY <1>1 DEF VInv, Books
  <2>2. ASSUME NEW a \in pool, Trusted(a)
        PROVE  netOps'[a] = NetOf(a, applied \ {})
    <3>1. \A o \in Sent : o.src = a => o \notin untold \cap applied
      BY <2>2 DEF Trusted
    <3>2. \A o \in Sent : o.src = a => (results[o] = "ok" <=> o \in applied)
      <4>1. \A o \in Sent : results[o] \in {"ok", "failed"}
        BY <1>1 DEF VInv, Shapes
      <4> QED BY <3>1, <4>1 DEF VInv, Books
    <3>3. \A op : {o \in Sent : o.src = a /\ o.op = op /\ results[o] \in {"ok"}}
                     = OpsOf(a, op, applied \cap Sent)
      BY <3>2 DEF OpsOf
    <3>4. Net(a) = NetOf(a, applied \cap Sent)
      BY <3>3 DEF Net, Counted, NetOf, Sent
    <3>5. netOps'[a] = netOps[a] + Net(a)
      BY <1>1 DEF VInv, Shapes
    <3>6. netOps[a] = NetOf(a, applied \ Sent)
      BY <2>2 DEF VInv, Books
    <3>7. NetOf(a, applied) = NetOf(a, applied \ Sent) + NetOf(a, applied \cap Sent)
      BY <1>4, NetSplit
    <3>8. applied \ {} = applied
      OBVIOUS
    <3> QED BY <3>4, <3>5, <3>6, <3>7, <3>8
  <2>3. \A a \in pool : Trusted(a) => balance[a] = initial[a] + Amount * NetOf(a, applied)
    BY DEF VInv, Books
  <2>4. \A a \in pool : Trusted(a)' => Trusted(a)
    BY <1>1 DEF Trusted
  <2> QED BY <1>1, <1>2, <2>1, <2>2, <2>3, <2>4 DEF Books
<1>10. SumKept' /\ AlarmsExplained'
  BY <1>1 DEF VInv, SumKept, AlarmsExplained
<1> QED BY <1>7, <1>8, <1>9, <1>10 DEF VInv

(* The end of scenario 1: an account that the list shows and the client was     *)
(* told everything about has what the client expects.                        *)
LEMMA Check1VInv == VInv /\ Check1 => VInv'
<1> SUFFICES ASSUME VInv, Check1 PROVE VInv'
  OBVIOUS
<1>1. /\ phase = "scenario1" /\ phase' = "reload" /\ todo = {} /\ results = << >>
      /\ UNCHANGED <<balance, running, again, applied, pool, initial, todo, results, netOps,
                     untold, stragglers>>
      /\ \/ /\ alarms' = {a \in pool : initial[a] + netOps[a] * Amount # Shown(a)}
            /\ unlisted' = pool \ Listed
         \/ alarms' = {NotFetched} /\ unlisted' = unlisted
  BY DEF Check1, AllSent, server
<1>2. Sent = {} /\ Sent' = {} /\ Created' = Created /\ Requests' = Requests
  BY <1>1 DEF Sent, Created, Requests
<1>3. Shapes' /\ Once'
  BY <1>1, <1>2 DEF VInv, Shapes, Once
<1>4. \A a \in pool : a \in Nat /\ a > 0
  BY DEF VInv, Shapes, Created
<1>5. SumAlarm \notin alarms'
  BY <1>1, <1>4 DEF SumAlarm, NotFetched
<1>6. Phases'
  BY <1>1, <1>2, <1>5 DEF VInv, Phases
<1>7. ASSUME NEW a \in alarms' \cap pool
      PROVE  a \in unlisted' \/ \E o \in untold \cap applied : o.src = a
  <2>1. a # NotFetched
    BY <1>4 DEF NotFetched
  <2>2. /\ initial[a] + netOps[a] * Amount # Shown(a)
        /\ unlisted' = pool \ Listed
    BY <1>1, <2>1
  <2>3. CASE a \notin Listed
    BY <2>2, <2>3
  <2>4. CASE a \in Listed
    <3>1. SUFFICES ASSUME Trusted(a) PROVE FALSE
      BY DEF Trusted
    <3>2. applied \ Sent = applied
      BY <1>2
    <3>3. /\ balance[a] = initial[a] + Amount * NetOf(a, applied)
          /\ netOps[a] = NetOf(a, applied)
      BY <1>1, <3>1, <3>2 DEF VInv, Books
    <3>4. PICK n \in Int, m \in Nat : n = netOps[a] /\ m = Amount
      BY <1>1, Amounts DEF VInv, Shapes
    <3>5. m * n = n * m
      OBVIOUS
    <3> QED BY <2>2, <2>4, <3>3, <3>4, <3>5 DEF Shown
  <2> QED BY <2>3, <2>4
<1>8. Books' /\ SumKept' /\ AlarmsExplained'
  BY <1>1, <1>7 DEF Books, SumKept, AlarmsExplained
<1> QED BY <1>3, <1>6, <1>8 DEF VInv

LEMMA FiniteTransfers ==
    ASSUME NEW f
    PROVE  IsFiniteSet({[op |-> "transfer", src |-> f[i].src, dst |-> f[i].dst, n |-> i] :
                           i \in 1 .. transferCount})
<1> DEFINE T == {[op |-> "transfer", src |-> f[i].src, dst |-> f[i].dst, n |-> i] :
                    i \in 1 .. transferCount}
           g == [i \in 1 .. transferCount |->
                    [op |-> "transfer", src |-> f[i].src, dst |-> f[i].dst, n |-> i]]
<1>1. IsFiniteSet(1 .. transferCount)
  BY VerifyAssumption, FS_Interval DEF VerifyAssumption
<1>2. g \in Surjection(1 .. transferCount, T)
  <2>1. g \in [1 .. transferCount -> T]
    OBVIOUS
  <2>2. \A x \in T : \E i \in 1 .. transferCount : g[i] = x
    OBVIOUS
  <2> QED BY <2>1, <2>2 DEF Surjection
<1>3. IsFiniteSet(T)
  BY <1>1, <1>2, FS_Surjection
<1> QED BY <1>3

LEMMA ReloadVInv == VInv /\ Reload => VInv'
<1> SUFFICES ASSUME VInv, Reload PROVE VInv'
  OBVIOUS
<1>1. /\ phase = "reload" /\ unlisted' = {}
      /\ UNCHANGED <<balance, running, again, applied, results, alarms, untold, stragglers>>
  BY DEF Reload, server
<1>2. /\ todo = {} /\ Sent = {} /\ Sent' = {} /\ Created' = Created
      /\ SumAlarm \notin alarms
  BY <1>1 DEF VInv, Phases, Sent, Created
<1>3. balance \in Seq(Int)
  BY DEF VInv, Shapes
<1>4. CASE phase' = "exit" /\ UNCHANGED <<pool, initial, todo, netOps>>
  <2>1. Requests' = Requests
    BY <1>1, <1>2, <1>4 DEF Requests
  <2>2. Shapes' /\ Once' /\ Phases'
    BY <1>1, <1>2, <1>4, <2>1 DEF VInv, Shapes, Once, Phases
  <2>3. Books' /\ SumKept' /\ AlarmsExplained'
    BY <1>4 DEF Books, SumKept, AlarmsExplained
  <2> QED BY <2>2, <2>3 DEF VInv
<1>5. ASSUME phase' = "scenario2", Use(pool \cap Listed),
             NEW f \in Transfers(pool \cap Listed),
             todo' = {[op |-> "transfer", src |-> f[i].src, dst |-> f[i].dst, n |-> i] :
                         i \in 1 .. transferCount}
      PROVE  VInv'
  <2> DEFINE P == pool \cap Listed
  <2>1. /\ pool' = P /\ initial' = [a \in P |-> balance[a]]
        /\ \A i \in 1 .. transferCount : f[i].src \in P /\ f[i].dst \in P /\ f[i].src # f[i].dst
    BY <1>5 DEF Use, Transfers
  <2>2. P \subseteq Created /\ P \subseteq pool
    BY DEF VInv, Shapes
  <2> HIDE DEF P
  <2>3. \A o \in todo' : /\ o.op = "transfer" /\ o.src \in P /\ o.dst \in P
                         /\ o.src # o.dst
    BY <1>5, <2>1
  <2>4. Requests' \subseteq Requests \cup todo'
    BY <1>1, <1>2 DEF Requests
  <2>5. \A a \in P : balance[a] \in Int
    BY <1>3, <2>2 DEF Created
  <2>6. Shapes'
    <3>1. IsFiniteSet(todo')
      BY <1>5, FiniteTransfers
    <3>2. initial' \in [P -> Int]
      BY <2>1, <2>5
    <3>3. \A o \in Requests' : o.op \in {"deposit", "withdraw", "transfer"} /\ o.src \in Created'
      BY <1>2, <2>2, <2>3, <2>4 DEF VInv, Shapes
    <3>4. results' \in [Sent' -> {"waiting", "ok", "failed"}] /\ IsFiniteSet(Sent')
      BY <1>1, <1>2 DEF VInv, Shapes
    <3>5. \A o \in todo' \cup running' \cup Sent' : o.op = "transfer" => o.src # o.dst
      BY <1>1, <1>2, <2>3 DEF VInv, Shapes
    <3> QED BY <1>1, <1>2, <1>3, <1>5, <2>1, <2>2, <3>1, <3>2, <3>3, <3>4, <3>5
            DEF VInv, Shapes
  <2>7. Once'
    <3>1. \A o \in running \cup applied : o.op # "transfer"
      BY <1>1 DEF VInv, Phases, Requests
    <3>2. running \cap applied \subseteq untold /\ again \subseteq untold
      BY DEF VInv, Once
    <3>3. todo' \cap (running \cup applied) = {}
      BY <2>3, <3>1
    <3> QED BY <1>1, <1>2, <3>2, <3>3 DEF Once
  <2>8. Phases'
    <3>1. \A o \in running : o.op # "transfer"
      BY <1>1 DEF VInv, Phases, Requests
    <3> QED BY <1>1, <1>2, <1>5, <2>1, <2>3, <3>1 DEF Phases
  <2>9. Books' /\ AlarmsExplained'
    BY <1>5 DEF Books, AlarmsExplained
  <2>10. SumKept'
    <3>1. PICK g, h, S : g = balance /\ h = initial' /\ S = P
      OBVIOUS
    <3>2. IsFiniteSet(S) /\ \A a \in S : g[a] \in Int /\ g[a] = h[a]
      BY <1>3, <2>1, <2>2, <2>5, <3>1, FiniteCreated
    <3>3. Total(g, S) = Total(h, S)
      BY <3>2, TotalAgree
    <3> QED BY <1>1, <2>1, <3>1, <3>3 DEF SumKept
  <2> QED BY <2>6, <2>7, <2>8, <2>9, <2>10 DEF VInv
<1> QED BY <1>4, <1>5 DEF Reload

LEMMA SumOfTotal ==
    ASSUME Shapes, NEW f, \A a \in pool : f[a] \in Int
    PROVE  SumOf(f) = Total(f, pool)
<1>1. IsFiniteSet(pool)
  BY FiniteCreated DEF Shapes
<1>2. FoldSet(LAMBDA a, s : f[a] + s, 0, pool) = Total(f, pool)
  BY <1>1, FoldSetTotal
<1> QED BY <1>2 DEF SumOf

(* The end of scenario 2: when the list shows the whole pool and no request of *)
(* scenario 1 was executed meanwhile, the sums agree.                         *)
LEMMA Check2VInv == VInv /\ Check2 => VInv'
<1> SUFFICES ASSUME VInv, Check2 PROVE VInv'
  OBVIOUS
<1>1. /\ phase = "scenario2" /\ phase' = "end" /\ todo = {} /\ results = << >>
      /\ UNCHANGED <<balance, running, again, applied, pool, initial, todo, results, netOps,
                     untold, stragglers>>
      /\ \/ /\ alarms' = alarms \cup
                  {x \in {SumAlarm} : SumOf([a \in pool |-> Shown(a)]) # SumOf(initial)}
            /\ unlisted' = pool \ Listed
         \/ alarms' = alarms \cup {NotFetched} /\ unlisted' = unlisted
  BY DEF Check2, AllSent, server
<1>2. Sent = {} /\ Sent' = {} /\ Created' = Created /\ Requests' = Requests
  BY <1>1 DEF Sent, Created, Requests
<1>3. Shapes' /\ Once' /\ Phases'
  BY <1>1, <1>2 DEF VInv, Shapes, Once, Phases
<1>4. ASSUME SumAlarm \in alarms' PROVE stragglers # {} \/ unlisted' # {}
  <2>1. SumAlarm \notin alarms /\ SumAlarm # NotFetched
    BY <1>1 DEF VInv, Phases, SumAlarm, NotFetched
  <2>2. SumOf([a \in pool |-> Shown(a)]) # SumOf(initial) /\ unlisted' = pool \ Listed
    BY <1>1, <1>4, <2>1
  <2>3. SUFFICES ASSUME pool \subseteq Listed, stragglers = {} PROVE FALSE
    BY <2>2
  <2>4. PICK f, g, h : f = balance /\ g = [a \in pool |-> Shown(a)] /\ h = initial
    OBVIOUS
  <2>5. /\ \A a \in pool : f[a] \in Int /\ g[a] = f[a] /\ h[a] \in Int
        /\ IsFiniteSet(pool)
    BY <2>3, <2>4, FiniteCreated DEF VInv, Shapes, Created, Shown
  <2>6. SumOf(g) = Total(g, pool) /\ SumOf(h) = Total(h, pool)
    BY <2>5, SumOfTotal DEF VInv
  <2>7. Total(g, pool) = Total(f, pool)
    BY <2>5, TotalAgree
  <2>8. Total(f, pool) = Total(h, pool)
    BY <1>1, <2>3, <2>4 DEF VInv, SumKept
  <2> QED BY <2>2, <2>4, <2>6, <2>7, <2>8
<1>5. Books' /\ SumKept' /\ AlarmsExplained'
  BY <1>1, <1>4 DEF Books, SumKept, AlarmsExplained
<1> QED BY <1>3, <1>5 DEF VInv

LEMMA NextVInv == VInv /\ [VerifyNext]_verifyVars => VInv'
<1> SUFFICES ASSUME VInv, [VerifyNext]_verifyVars PROVE VInv'
  OBVIOUS
<1>1. CASE Seed \/ Client
  BY <1>1, SeedVInv, LoadVInv, SendChunkVInv, TallyVInv, Check1VInv, ReloadVInv, Check2VInv
     DEF Client
<1>2. CASE Finish
  BY <1>2, ExecuteVInv, RefuseVInv DEF Finish
<1>3. CASE Answered \/ \E o \in DOMAIN results : ReportFailed(o) \/ Resend(o)
  BY <1>3, AnswerVInv, ResendVInv DEF Answered
<1>4. CASE UNCHANGED verifyVars
  <2>1. /\ UNCHANGED <<balance, running, again, applied, phase, pool, initial, todo, results,
                       netOps, alarms, untold, stragglers, unlisted>>
    BY <1>4 DEF verifyVars, server, history
  <2>2. Sent' = Sent /\ Created' = Created /\ Requests' = Requests
    BY <2>1 DEF Sent, Created, Requests
  <2> QED BY <2>1, <2>2
          DEF VInv, Shapes, Once, Phases, Books, Trusted, SumKept, AlarmsExplained
<1> QED BY <1>1, <1>2, <1>3, <1>4 DEF VerifyNext

(* The verify command raises no alarm without a reason: it blames an account   *)
(* only if one of its requests was executed without the client being told so,  *)
(* or twice, or the list does not show it; and the sum only if a request of    *)
(* scenario 1 came late or an account is not shown.                          *)
THEOREM NoFalseAlarm == VerifySpec => []AlarmsExplained
<1>1. VerifyInit => VInv
  BY InitVInv
<1>2. VInv /\ [VerifyNext]_verifyVars => VInv'
  BY NextVInv
<1>3. VInv => AlarmsExplained
  BY DEF VInv
<1> QED BY <1>1, <1>2, <1>3, PTL DEF VerifySpec

-----------------------------------------------------------------------------
(* The benchmark: for every number of goroutines, accounts, calls and failing   *)
(* statements, and all amounts that PGBenchAssumption allows.                 *)

(* The scenario of the hot account has begun, or is past. *)
Late == stage \in {"hot", "fanout", "end"}

(* Only the waterfall has draws and top-ups in progress. *)
Working == \A w \in Workers : doing[w] \in {"fallback", "topup"} => stage = "waterfall"

(* The pre-funding, less a unit for each call that has not left a withdrawal  *)
(* behind, and a draw for each statement of the fast path that came late.     *)
Floor == PreFund - calls + lateWithdraws - DrawAmount * (faults - lateDraws[1])

(* Nothing is said of an account that the pre-funding does not concern: it may *)
(* have been overdrawn before.                                               *)
Funds ==
    /\ ~Late => ~prefunded /\ lateDeposits = 0 /\ lateWithdraws = 0
    /\ \A w \in Workers : lateDraws[w] <= faults
    /\ Hot \in Groups /\ prefunded => acct[Hot].balance >= Floor

(* The inductive invariant. *)
BInv == BenchTypeOK /\ Working /\ Funds /\ DebitsAccounted

LEMMA Numbers ==
    /\ {GroupSize, DrawAmount, Small, Cash, FanOut, PreFund, MaxCalls, MaxFaults} \subseteq Nat
    /\ DrawAmount > 0 /\ PreFund >= MaxCalls + DrawAmount * MaxFaults
BY PGBenchAssumption DEF PGBenchAssumption

LEMMA FiniteGroups == IsFiniteSet(Groups)
<1>1. IsFiniteSet(Workers) /\ IsFiniteSet(1 .. GroupSize)
  BY FS_Interval, Numbers, PGBenchAssumption DEF PGBenchAssumption
<1> QED BY <1>1, FS_Product DEF Groups

LEMMA NaturalCardinality ==
    ASSUME NEW S \in SUBSET Groups
    PROVE  Cardinality(S) \in Nat
BY FiniteGroups, FS_Subset, FS_CardinalityType

LEMMA AfterType ==
    ASSUME NEW n \in Int
    PROVE  After(n) \in {"setup", "prefund", "fanout", "end"}
BY DEF After

LEMMA InitBInv == BenchInit => BInv
<1> SUFFICES ASSUME BenchInit PROVE BInv
  OBVIOUS
<1>1. acct \in [Groups -> [balance : Int, depleted : BOOLEAN]]
  BY PGBenchAssumption DEF BenchInit, PGBenchAssumption, Groups
<1>2. BenchTypeOK
  <2>1. {lateDraws, drawCounts, cashDrawn, excuse} \subseteq [Workers -> Nat]
    BY DEF BenchInit
  <2>2. /\ doing \in [Workers -> {"loop", "fallback", "topup", "returned"}]
        /\ col \in [jobs : Nat, errs : Nat, txns : Nat]
    BY DEF BenchInit, Empty
  <2>3. /\ scenario \in 0 .. 3 /\ stage = "fetch" /\ calls = 0 /\ faults = 0
        /\ debits \in Nat /\ lost \in Nat /\ prefunded \in BOOLEAN
        /\ lateDeposits \in Nat /\ lateWithdraws \in Nat
    BY DEF BenchInit
  <2>5. lateResets \in [Groups -> Nat]
    BY DEF BenchInit
  <2>4. calls \in 0 .. MaxCalls /\ faults \in 0 .. MaxFaults
    BY <2>3, Numbers
  <2> QED BY <1>1, <2>1, <2>2, <2>3, <2>4, <2>5 DEF BenchTypeOK
<1>3. Working /\ DebitsAccounted /\ Funds
  BY DEF BenchInit, Working, DebitsAccounted, Funds, Late
<1> QED BY <1>2, <1>3 DEF BInv

-----------------------------------------------------------------------------
(* The floor: faults and calls lower it, a withdrawal that is still to come     *)
(* holds it up.                                                              *)
LEMMA FloorBound ==
    ASSUME NEW c \in 0 .. MaxCalls, NEW f \in 0 .. MaxFaults, NEW l \in Nat, l <= f,
           NEW n \in Nat
    PROVE  /\ PreFund - c + n - DrawAmount * (f - l) \in Int
           /\ PreFund - c + n - DrawAmount * (f - l) >= 0
<1>1. f \in Nat /\ c \in Nat /\ f <= MaxFaults /\ c <= MaxCalls
  BY Numbers
<1>2. DrawAmount * (f - l) <= DrawAmount * MaxFaults
  BY <1>1, Product, Numbers
<1>3. DrawAmount * (f - l) \in Nat /\ DrawAmount * MaxFaults \in Nat
  <2>1. \A x, y \in Nat : x * y \in Nat
    OBVIOUS
  <2> QED BY <1>1, <2>1, Numbers
<1> QED BY <1>1, <1>2, <1>3, Numbers

LEMMA FloorType ==
    ASSUME BInv, 1 \in Workers
    PROVE  Floor \in Int /\ Floor >= 0
BY FloorBound DEF BInv, BenchTypeOK, Funds, Floor

LEMMA NextFloor ==
    ASSUME BInv', 1 \in Workers
    PROVE  Floor' \in Int /\ Floor' >= 0
BY FloorBound DEF BInv, BenchTypeOK, Funds, Floor

LEMMA FloorFalls ==
    ASSUME BInv, BenchTypeOK', 1 \in Workers, lateDraws'[1] = lateDraws[1],
           faults <= faults', NEW k \in Int,
           calls' - lateWithdraws' >= calls - lateWithdraws + k
    PROVE  Floor' \in Int /\ Floor' <= Floor - k
<1>1. /\ lateDraws[1] \in Nat /\ faults \in Nat /\ faults' \in Nat /\ calls \in Nat
      /\ calls' \in Nat /\ lateWithdraws \in Nat /\ lateWithdraws' \in Nat
  BY Numbers DEF BInv, BenchTypeOK
<1>2. DrawAmount * (faults - lateDraws[1]) <= DrawAmount * (faults' - lateDraws[1])
  BY <1>1, Product, Numbers
<1>3. DrawAmount * (faults - lateDraws[1]) \in Int /\ DrawAmount * (faults' - lateDraws[1]) \in Int
  BY <1>1, Numbers
<1>4. PICK x \in Int, y \in Int :
         /\ x = DrawAmount * (faults - lateDraws[1])
         /\ y = DrawAmount * (faults' - lateDraws[1])
  BY <1>3
<1>5. Floor = PreFund - calls + lateWithdraws - x
      /\ Floor' = PreFund - calls' + lateWithdraws' - y /\ x <= y
  BY <1>2, <1>4 DEF Floor
<1>6. PICK c \in Nat, d \in Nat, m \in Nat, n \in Nat, p \in Nat :
         /\ c = calls /\ d = calls' /\ m = lateWithdraws /\ n = lateWithdraws' /\ p = PreFund
  BY <1>1, Numbers
<1>7. /\ Floor = p - c + m - x /\ Floor' = p - d + n - y /\ x <= y
      /\ d - n >= c - m + k
  BY <1>5, <1>6
<1> QED BY ONLY <1>7, x \in Int, y \in Int, k \in Int, c \in Nat, d \in Nat, m \in Nat,
                n \in Nat, p \in Nat

(* Whatever leaves the hot account alone keeps what is said of it.            *)
LEMMA FundsKept ==
    ASSUME BInv, BenchTypeOK',
           Hot \in Groups => acct'[Hot].balance = acct[Hot].balance,
           prefunded' => prefunded,
           ~Late' => UNCHANGED <<lateDeposits, lateWithdraws>>,
           Late => Late', faults <= faults',
           \A w \in Workers : lateDraws'[w] - lateDraws[w] <= faults' - faults,
           Late => /\ UNCHANGED lateDraws
                   /\ calls' - lateWithdraws' >= calls - lateWithdraws
    PROVE  Funds'
<1>1. \A w \in Workers : lateDraws'[w] <= faults'
  BY DEF BInv, BenchTypeOK, Funds
<1>2. ASSUME Hot \in Groups, prefunded' PROVE acct'[Hot].balance >= Floor'
  <2>1. 1 \in Workers
    BY <1>2 DEF Groups, Hot
  <2>2. prefunded /\ Late
    BY <1>2 DEF BInv, Funds
  <2>3. calls' - lateWithdraws' >= calls - lateWithdraws + 0
    BY <2>2 DEF BInv, BenchTypeOK
  <2>4. Floor' \in Int /\ Floor' <= Floor - 0
    BY <2>1, <2>2, <2>3, FloorFalls
  <2>5. acct[Hot].balance >= Floor /\ Floor \in Int /\ acct[Hot].balance \in Int
    BY <1>2, <2>1, <2>2, FloorType DEF BInv, BenchTypeOK, Funds
  <2> QED BY <1>2, <2>4, <2>5
<1>3. ~Late' => ~prefunded' /\ lateDeposits' = 0 /\ lateWithdraws' = 0
  BY DEF BInv, Funds
<1> QED BY <1>1, <1>2, <1>3 DEF Funds

LEMMA FetchBInv == BInv /\ Fetch => BInv'
<1> SUFFICES ASSUME BInv, Fetch PROVE BInv'
  OBVIOUS
<1>1. /\ stage' \in {"setup", "prefund", "fanout", "end", "exit"} /\ stage = "fetch"
      /\ stage' # "fanout" => UNCHANGED <<doing, col, debits, lost>>
      /\ stage' = "fanout" => StartGoroutines \/ UNCHANGED <<doing, col, debits, lost>>
      /\ UNCHANGED <<scenario, acct, lateDraws, lateResets, lateDeposits, lateWithdraws,
                     drawCounts, calls, faults, prefunded, cashDrawn, excuse>>
  BY AfterType DEF Fetch, Enter, KeepGoroutines, groups, lateHot
<1>2. BenchTypeOK'
  BY <1>1 DEF BInv, BenchTypeOK, StartGoroutines, Empty
<1>3. Working' /\ DebitsAccounted'
  BY <1>1 DEF BInv, Working, DebitsAccounted, StartGoroutines, BenchTypeOK
<1>4. Funds'
  BY <1>1, <1>2, FundsKept DEF Late, BInv, BenchTypeOK
<1> QED BY <1>2, <1>3, <1>4 DEF BInv

LEMMA EndScenarioBInv == BInv /\ EndScenario => BInv'
<1> SUFFICES ASSUME BInv, EndScenario PROVE BInv'
  OBVIOUS
<1>1. /\ stage \in {"waterfall", "hot", "fanout"}
      /\ stage' \in {"prefund", "fanout", "end"}
      /\ stage # "waterfall" => stage' \in {"fanout", "end"}
      /\ \A w \in Workers : doing[w] = "returned"
      /\ StartGoroutines \/ UNCHANGED <<doing, col, debits, lost>>
      /\ UNCHANGED <<scenario, acct, lateDraws, lateResets, lateDeposits, lateWithdraws,
                     drawCounts, calls, faults, prefunded, cashDrawn, excuse>>
  BY DEF EndScenario, Running, Enter, After, KeepGoroutines, groups, lateHot
<1>2. BenchTypeOK'
  BY <1>1 DEF BInv, BenchTypeOK, StartGoroutines, Empty
<1>3. Working' /\ DebitsAccounted'
  BY <1>1 DEF BInv, Working, DebitsAccounted, StartGoroutines, BenchTypeOK
<1>4. Funds'
  BY <1>1, <1>2, FundsKept DEF Late, BInv, BenchTypeOK
<1> QED BY <1>2, <1>3, <1>4 DEF BInv

LEMMA LeaveBInv ==
    ASSUME BInv, NEW w \in Workers, Leave(w)
    PROVE  BInv'
<1>1. /\ doing' = [doing EXCEPT ![w] = "returned"]
      /\ UNCHANGED <<scenario, stage, acct, lateDraws, lateResets, lateDeposits,
                     lateWithdraws, drawCounts, col, calls, faults, debits, lost, prefunded,
                     cashDrawn, excuse>>
  BY DEF Leave, groups, lateHot, benchHistory
<1>2. BenchTypeOK'
  BY <1>1 DEF BInv, BenchTypeOK
<1>3. Working' /\ DebitsAccounted'
  BY <1>1 DEF BInv, BenchTypeOK, Working, DebitsAccounted
<1>4. Funds'
  BY <1>1, <1>2, FundsKept DEF Late, BInv, BenchTypeOK
<1> QED BY <1>2, <1>3, <1>4 DEF BInv

LEMMA FanOutBInv ==
    ASSUME BInv, NEW w \in Workers, FanOutBatch(w)
    PROVE  BInv'
<1>1. /\ stage = "fanout" /\ calls < MaxCalls /\ calls' = calls + 1
      /\ faults' \in {faults, faults + 1} /\ faults' <= MaxFaults
      /\ UNCHANGED <<scenario, stage, acct, lateDraws, lateResets, lateDeposits,
                     lateWithdraws, doing, drawCounts, debits, lost, prefunded, cashDrawn,
                     excuse>>
  BY DEF FanOutBatch, Calls, Fail, groups, lateHot, benchHistory, BInv, BenchTypeOK
<1>2. PICK n \in 0 .. FanOut : record(n > 0, n)
  BY DEF FanOutBatch
<1>3. col' \in [jobs : Nat, errs : Nat, txns : Nat]
  BY <1>2, Numbers DEF record, BInv, BenchTypeOK
<1>4. BenchTypeOK'
  BY <1>1, <1>3, Numbers DEF BInv, BenchTypeOK
<1>5. Working' /\ DebitsAccounted'
  BY <1>1 DEF BInv, Working, DebitsAccounted
<1>6. Funds'
  BY <1>1, <1>4, FundsKept DEF Late, BInv, BenchTypeOK
<1> QED BY <1>4, <1>5, <1>6 DEF BInv

-----------------------------------------------------------------------------
(* Set-up and top-up give their accounts funds and clear the flag; so do those *)
(* of their statements that come late.                                       *)
LEMMA ResetType ==
    ASSUME NEW a
    PROVE  /\ Reset(a) \in [balance : Int, depleted : BOOLEAN]
           /\ Reset(a).balance >= 0 /\ ~Reset(a).depleted
BY Numbers DEF Reset

LEMMA ResetRows ==
    ASSUME BInv, NEW accounts \in SUBSET Groups, NEW failed \in SUBSET accounts,
           NEW late, ResetAll(accounts, failed, late)
    PROVE  /\ acct' \in [Groups -> [balance : Int, depleted : BOOLEAN]]
           /\ \A a \in Groups : acct'[a] \in {acct[a], Reset(a)}
           /\ lateResets' \in [Groups -> Nat]
           /\ excuse' \in [Workers -> Nat]
           /\ faults' \in 0 .. MaxFaults /\ faults <= faults'
<1>1. acct' = [a \in Groups |-> IF a \in accounts \ failed THEN Reset(a) ELSE acct[a]]
  BY DEF ResetAll
<1>2. \A a \in Groups : acct'[a] \in {acct[a], Reset(a)}
  BY <1>1
<1>3. acct' \in [Groups -> [balance : Int, depleted : BOOLEAN]]
  BY <1>1, ResetType DEF BInv, BenchTypeOK
<1>4. excuse' \in [Workers -> Nat]
  <2>1. ASSUME NEW w \in Workers
        PROVE  excuse[w] + Small * Cardinality(failed \cap Priority(w)) \in Nat
    <3>1. Cardinality(failed \cap Priority(w)) \in Nat
      BY NaturalCardinality
    <3>2. excuse[w] \in Nat /\ Small \in Nat
      BY Numbers DEF BInv, BenchTypeOK
    <3>3. \A m, n \in Nat : m * n \in Nat
      OBVIOUS
    <3> QED BY <3>1, <3>2, <3>3
  <2> QED BY <2>1 DEF ResetAll
<1>5. faults' \in 0 .. MaxFaults /\ faults <= faults'
  BY NaturalCardinality DEF ResetAll, Fail, BInv, BenchTypeOK
<1>6. lateResets' \in [Groups -> Nat]
  <2>1. \A a \in Groups : lateResets[a] + (IF a \in late THEN 1 ELSE 0) \in Nat
    BY DEF BInv, BenchTypeOK
  <2> QED BY <2>1 DEF ResetAll
<1> QED BY <1>2, <1>3, <1>4, <1>5, <1>6

LEMMA WaterfallFunds ==
    ASSUME BInv, ~Late, ~Late', UNCHANGED <<prefunded, lateDeposits, lateWithdraws>>,
           \A w \in Workers : lateDraws'[w] <= faults'
    PROVE  Funds'
BY DEF BInv, Funds

LEMMA SetUpBInv == BInv /\ SetUp => BInv'
<1> SUFFICES ASSUME BInv, SetUp PROVE BInv'
  OBVIOUS
<1>1. /\ stage = "setup" /\ stage' = "waterfall" /\ StartGoroutines
      /\ UNCHANGED <<scenario, lateDraws, lateDeposits, lateWithdraws, drawCounts, calls,
                     prefunded, cashDrawn>>
  BY DEF SetUp, lateHot
<1>2. PICK failed \in SUBSET Groups : \E late : ResetAll(Groups, failed, late)
  BY DEF SetUp, Failures
<1>3. /\ acct' \in [Groups -> [balance : Int, depleted : BOOLEAN]]
      /\ lateResets' \in [Groups -> Nat]
      /\ excuse' \in [Workers -> Nat] /\ faults' \in 0 .. MaxFaults /\ faults <= faults'
  BY <1>2, ResetRows
<1>4. BenchTypeOK'
  BY <1>1, <1>3 DEF BInv, BenchTypeOK, StartGoroutines, Empty
<1>5. Working' /\ DebitsAccounted'
  BY <1>1 DEF Working, DebitsAccounted, StartGoroutines, Empty
<1>6. Funds'
  <2>1. \A w \in Workers : lateDraws'[w] <= faults'
    BY <1>1, <1>3 DEF BInv, BenchTypeOK, Funds
  <2> QED BY <1>1, <2>1, WaterfallFunds DEF Late
<1> QED BY <1>4, <1>5, <1>6 DEF BInv

LEMMA TopUpBInv ==
    ASSUME BInv, NEW w \in Workers, TopUp(w)
    PROVE  BInv'
<1>1. /\ stage = "waterfall" /\ doing' = [doing EXCEPT ![w] = "loop"]
      /\ UNCHANGED <<scenario, stage, lateDraws, lateDeposits, lateWithdraws, drawCounts, col,
                     calls, debits, lost, prefunded, cashDrawn>>
  BY DEF TopUp, lateHot, BInv, Working
<1>2. Priority(w) \subseteq Groups
  BY Numbers DEF Priority, Groups
<1>3. PICK failed \in SUBSET Priority(w) : \E late : ResetAll(Priority(w), failed, late)
  BY DEF TopUp, Failures
<1>4. /\ acct' \in [Groups -> [balance : Int, depleted : BOOLEAN]]
      /\ lateResets' \in [Groups -> Nat]
      /\ excuse' \in [Workers -> Nat] /\ faults' \in 0 .. MaxFaults /\ faults <= faults'
  BY <1>2, <1>3, ResetRows
<1>5. BenchTypeOK'
  BY <1>1, <1>4 DEF BInv, BenchTypeOK
<1>6. Working' /\ DebitsAccounted'
  BY <1>1 DEF BInv, BenchTypeOK, Working, DebitsAccounted
<1>7. Funds'
  <2>1. \A v \in Workers : lateDraws'[v] <= faults'
    BY <1>1, <1>4 DEF BInv, BenchTypeOK, Funds
  <2> QED BY <1>1, <2>1, WaterfallFunds DEF Late
<1> QED BY <1>5, <1>6, <1>7 DEF BInv

LEMMA LateResetBInv ==
    ASSUME BInv, NEW a \in Groups, LateReset(a)
    PROVE  BInv'
<1>1. /\ lateResets[a] > 0 /\ lateResets' = [lateResets EXCEPT ![a] = @ - 1]
      /\ acct' = [acct EXCEPT ![a] = Reset(a)]
      /\ prefunded' = (prefunded /\ a # Hot)
      /\ UNCHANGED <<scenario, stage, lateDraws, lateDeposits, lateWithdraws, doing,
                     drawCounts, col, calls, faults, debits, lost, cashDrawn, excuse>>
  BY DEF LateReset, lateHot
<1>2. lateResets' \in [Groups -> Nat]
  BY <1>1 DEF BInv, BenchTypeOK
<1>3. acct' \in [Groups -> [balance : Int, depleted : BOOLEAN]]
  BY <1>1, ResetType DEF BInv, BenchTypeOK
<1>4. prefunded' \in BOOLEAN /\ (prefunded' => prefunded /\ a # Hot)
  BY <1>1
<1>5. BenchTypeOK'
  BY <1>1, <1>2, <1>3, <1>4 DEF BInv, BenchTypeOK
<1>6. Working' /\ DebitsAccounted'
  BY <1>1 DEF BInv, Working, DebitsAccounted
<1>7. Funds'
  <2>1. ASSUME Hot \in Groups, prefunded' PROVE acct'[Hot].balance >= Floor'
    <3>1. acct'[Hot] = acct[Hot]
      BY <1>1, <1>4, <2>1 DEF BInv, BenchTypeOK
    <3> QED BY <1>1, <1>4, <2>1, <3>1 DEF BInv, Funds, Floor
  <2> QED BY <1>1, <1>4, <2>1 DEF BInv, Funds, Late
<1> QED BY <1>5, <1>6, <1>7 DEF BInv

-----------------------------------------------------------------------------
(* A draw, in the waterfall or late, from an account that can pay.            *)
LEMMA DrawRows ==
    ASSUME BInv, NEW w \in Workers, NEW a \in Groups, NEW answered \in BOOLEAN,
           Payable(a), Draw(w, a, answered)
    PROVE  /\ acct' \in [Groups -> [balance : Int, depleted : BOOLEAN]]
           /\ debits' = debits + 1 /\ debits' \in Nat
           /\ lost' = lost + (IF answered THEN 0 ELSE 1) /\ lost' \in Nat
           /\ cashDrawn' \in [Workers -> Nat]
           /\ acct'[a] = Debited(a)
           /\ acct'[a].balance = acct[a].balance - DrawAmount /\ acct'[a].balance >= 0
           /\ acct'[a].depleted => acct'[a].balance = 0
           /\ \A b \in Groups \ {a} : acct'[b] = acct[b]
<1>1. acct[a] \in [balance : Int, depleted : BOOLEAN] /\ acct[a].balance >= DrawAmount
  BY DEF BInv, BenchTypeOK, Payable
<1>2. /\ Debited(a) \in [balance : Int, depleted : BOOLEAN]
      /\ Debited(a).balance = acct[a].balance - DrawAmount /\ Debited(a).balance >= 0
      /\ Debited(a).depleted => Debited(a).balance = 0
  <2> DEFINE left == acct[a].balance - DrawAmount
             empty == acct[a].balance = DrawAmount
  <2>1. Debited(a) = [balance |-> left, depleted |-> empty]
    BY DEF Debited
  <2>2. left \in Int /\ left >= 0 /\ (empty => left = 0) /\ empty \in BOOLEAN
    BY <1>1, Numbers
  <2> HIDE DEF left, empty
  <2>3. Debited(a).balance = left /\ Debited(a).depleted = empty
    BY <2>1
  <2>4. Debited(a) \in [balance : Int, depleted : BOOLEAN]
    BY <2>1, <2>2
  <2> QED BY <2>2, <2>3, <2>4 DEF left
<1>3. acct' = [acct EXCEPT ![a] = Debited(a)]
  BY DEF Draw
<1>4. cashDrawn' \in [Workers -> Nat]
  BY Numbers DEF Draw, BInv, BenchTypeOK
<1>5. debits' = debits + 1 /\ lost' = lost + (IF answered THEN 0 ELSE 1)
  BY DEF Draw
<1>6. debits' \in Nat /\ lost' \in Nat
  BY <1>5 DEF BInv, BenchTypeOK
<1> QED BY <1>2, <1>3, <1>4, <1>5, <1>6 DEF BInv, BenchTypeOK

LEMMA SucceedCounts ==
    ASSUME BInv, NEW w \in Workers, Succeed(w)
    PROVE  /\ col' \in [jobs : Nat, errs : Nat, txns : Nat] /\ col'.jobs = col.jobs + 1
           /\ drawCounts' \in [Workers -> Nat]
           /\ doing' \in [Workers -> {"loop", "fallback", "topup", "returned"}]
<1>1. col' = [jobs |-> col.jobs + 1, errs |-> col.errs, txns |-> col.txns + 1]
  BY DEF Succeed, record, BInv, BenchTypeOK
<1>2. col' \in [jobs : Nat, errs : Nat, txns : Nat] /\ col'.jobs = col.jobs + 1
  BY <1>1 DEF BInv, BenchTypeOK
<1>3. drawCounts' \in [Workers -> Nat]
  BY DEF Succeed, BInv, BenchTypeOK
<1>4. doing' \in [Workers -> {"loop", "fallback", "topup", "returned"}]
  <2> DEFINE next == IF drawCounts'[w] % topUpEvery = 0 THEN "topup" ELSE "loop"
  <2>1. next \in {"topup", "loop"}
    OBVIOUS
  <2>2. doing' = [doing EXCEPT ![w] = next]
    BY DEF Succeed
  <2> HIDE DEF next
  <2> QED BY <2>1, <2>2 DEF BInv, BenchTypeOK
<1> QED BY <1>2, <1>3, <1>4

LEMMA FailCounts ==
    ASSUME BInv, Fail(1)
    PROVE  faults' = faults + 1 /\ faults' \in 0 .. MaxFaults
BY Numbers DEF Fail, BInv, BenchTypeOK

LEMMA FastPathBInv ==
    ASSUME BInv, NEW w \in Workers, FastPath(w)
    PROVE  BInv'
<1> DEFINE a == <<w, 1>>
<1>1. a \in Groups
  BY Numbers, PGBenchAssumption DEF PGBenchAssumption, Groups
<1>2. /\ stage = "waterfall" /\ calls' \in 0 .. MaxCalls
      /\ UNCHANGED <<scenario, stage, lateResets, lateDeposits, lateWithdraws, prefunded>>
  BY Numbers DEF FastPath, Calls, lateHot, BInv, BenchTypeOK
<1> HIDE DEF a
<1>3. SUFFICES /\ acct' \in [Groups -> [balance : Int, depleted : BOOLEAN]]
               /\ doing' \in [Workers -> {"loop", "fallback", "topup", "returned"}]
               /\ {lateDraws', drawCounts', cashDrawn', excuse'} \subseteq [Workers -> Nat]
               /\ col' \in [jobs : Nat, errs : Nat, txns : Nat]
               /\ faults' \in 0 .. MaxFaults
               /\ debits' \in Nat /\ lost' \in Nat /\ debits' = col'.jobs + lost'
               /\ \A v \in Workers : lateDraws'[v] <= faults'
  <2>1. BenchTypeOK'
    BY <1>2, <1>3 DEF BInv, BenchTypeOK
  <2>2. Working' /\ DebitsAccounted'
    BY <1>2, <1>3 DEF Working, DebitsAccounted
  <2>3. Funds'
    BY <1>2, <1>3, WaterfallFunds DEF Late
  <2> QED BY <2>1, <2>2, <2>3 DEF BInv
<1>4. debits = col.jobs + lost /\ {debits, lost, col.jobs} \subseteq Nat
  BY <1>2 DEF BInv, BenchTypeOK, DebitsAccounted
<1>5. CASE /\ Payable(a) /\ Draw(w, a, TRUE) /\ Succeed(w)
           /\ UNCHANGED <<lateDraws, faults, excuse>>
  <2>1. /\ acct' \in [Groups -> [balance : Int, depleted : BOOLEAN]]
        /\ debits' = debits + 1 /\ lost' = lost + (IF TRUE THEN 0 ELSE 1)
        /\ cashDrawn' \in [Workers -> Nat]
    BY <1>1, <1>5, DrawRows
  <2>2. \A v \in Workers : lateDraws'[v] <= faults'
    BY <1>5 DEF BInv, BenchTypeOK, Funds
  <2>3. UNCHANGED <<lateDraws, faults, excuse>>
    BY <1>5
  <2>4. {lateDraws', excuse'} \subseteq [Workers -> Nat] /\ faults' \in 0 .. MaxFaults
    BY <2>3 DEF BInv, BenchTypeOK
  <2>5. /\ col' \in [jobs : Nat, errs : Nat, txns : Nat] /\ col'.jobs = col.jobs + 1
        /\ drawCounts' \in [Workers -> Nat]
        /\ doing' \in [Workers -> {"loop", "fallback", "topup", "returned"}]
    BY <1>5, SucceedCounts
  <2> QED BY <1>4, <2>1, <2>2, <2>4, <2>5
<1>6. CASE NoDraw /\ FallBack(w) /\ UNCHANGED <<lateDraws, faults, excuse>>
  <2>1. /\ acct' = acct /\ debits' = debits /\ lost' = lost /\ cashDrawn' = cashDrawn
        /\ doing' = [doing EXCEPT ![w] = "fallback"]
        /\ drawCounts' = drawCounts /\ col' = col
        /\ lateDraws' = lateDraws /\ faults' = faults /\ excuse' = excuse
    BY <1>6 DEF NoDraw, FallBack
  <2>2. \A v \in Workers : lateDraws'[v] <= faults'
    BY <2>1 DEF BInv, BenchTypeOK, Funds
  <2> QED BY <1>4, <2>1, <2>2 DEF BInv, BenchTypeOK
<1>7. CASE /\ Fail(1) /\ FallBack(w)
           /\ \/ Payable(a) /\ Draw(w, a, FALSE) /\ Excuse(w, DrawAmount) /\ UNCHANGED lateDraws
              \/ NoDraw /\ \E late \in {0, 1} :
                              /\ lateDraws' = [lateDraws EXCEPT ![w] = @ + late]
                              /\ Excuse(w, (1 + late) * DrawAmount)
  <2>1. faults' = faults + 1 /\ faults' \in 0 .. MaxFaults /\ faults \in Nat
    BY <1>7, FailCounts DEF BInv, BenchTypeOK
  <2>2. /\ doing' = [doing EXCEPT ![w] = "fallback"]
        /\ drawCounts' = drawCounts /\ col' = col
        /\ excuse' \in [Workers -> Nat]
    <3>1. \E amount \in Nat : Excuse(w, amount)
      <4>1. CASE Excuse(w, DrawAmount)
        BY <4>1, Numbers
      <4>2. CASE \E late \in {0, 1} : Excuse(w, (1 + late) * DrawAmount)
        <5>1. PICK late \in {0, 1} : Excuse(w, (1 + late) * DrawAmount)
          BY <4>2
        <5>2. (1 + late) * DrawAmount \in Nat
          BY Numbers
        <5> QED BY <5>1, <5>2
      <4> QED BY <1>7, <4>1, <4>2
    <3>2. PICK amount \in Nat : Excuse(w, amount)
      BY <3>1
    <3> QED BY <1>7, <3>2 DEF FallBack, Excuse, BInv, BenchTypeOK
  <2>3. /\ lateDraws' \in [Workers -> Nat]
        /\ \A v \in Workers : lateDraws'[v] - lateDraws[v] <= 1
    <3>1. lateDraws \in [Workers -> Nat]
      BY DEF BInv, BenchTypeOK
    <3>2. CASE UNCHANGED lateDraws
      BY <3>1, <3>2
    <3>3. CASE \E late \in {0, 1} : lateDraws' = [lateDraws EXCEPT ![w] = @ + late]
      BY <3>1, <3>3
    <3> QED BY <1>7, <3>2, <3>3
  <2>4. \A v \in Workers : lateDraws'[v] <= faults'
    BY <2>1, <2>3 DEF BInv, BenchTypeOK, Funds
  <2>5. /\ acct' \in [Groups -> [balance : Int, depleted : BOOLEAN]]
        /\ debits' = col.jobs + lost' /\ {debits', lost'} \subseteq Nat
        /\ cashDrawn' \in [Workers -> Nat]
    <3>1. CASE NoDraw
      BY <1>4, <3>1 DEF NoDraw, BInv, BenchTypeOK
    <3>2. CASE Payable(a) /\ Draw(w, a, FALSE)
      <4>1. /\ acct' \in [Groups -> [balance : Int, depleted : BOOLEAN]]
            /\ debits' = debits + 1 /\ debits' \in Nat
            /\ lost' = lost + 1 /\ lost' \in Nat
            /\ cashDrawn' \in [Workers -> Nat]
        BY <1>1, <3>2, DrawRows
      <4> QED BY <1>4, <4>1
    <3> QED BY <1>7, <3>1, <3>2
  <2>6. doing' \in [Workers -> {"loop", "fallback", "topup", "returned"}]
        /\ drawCounts' \in [Workers -> Nat] /\ col' \in [jobs : Nat, errs : Nat, txns : Nat]
    BY <2>2 DEF BInv, BenchTypeOK
  <2> QED BY <2>1, <2>2, <2>3, <2>4, <2>5, <2>6
<1> QED BY <1>5, <1>6, <1>7 DEF FastPath, a

LEMMA FallbackBInv ==
    ASSUME BInv, NEW w \in Workers, Fallback(w)
    PROVE  BInv'
<1>1. \A a \in Payer(w) : a \in Groups /\ Payable(a)
  BY Numbers DEF Payer, Groups
<1>2. /\ stage = "waterfall"
      /\ UNCHANGED <<scenario, stage, lateDraws, lateResets, lateDeposits, lateWithdraws,
                     calls, prefunded>>
  BY DEF Fallback, lateHot, BInv, Working
<1>3. SUFFICES /\ acct' \in [Groups -> [balance : Int, depleted : BOOLEAN]]
               /\ doing' \in [Workers -> {"loop", "fallback", "topup", "returned"}]
               /\ {drawCounts', cashDrawn', excuse'} \subseteq [Workers -> Nat]
               /\ col' \in [jobs : Nat, errs : Nat, txns : Nat]
               /\ faults' \in 0 .. MaxFaults
               /\ debits' \in Nat /\ lost' \in Nat /\ debits' = col'.jobs + lost'
               /\ \A v \in Workers : lateDraws'[v] <= faults'
  <2>1. BenchTypeOK'
    BY <1>2, <1>3 DEF BInv, BenchTypeOK
  <2>2. Working' /\ DebitsAccounted'
    BY <1>2, <1>3 DEF Working, DebitsAccounted
  <2>3. Funds'
    BY <1>2, <1>3, WaterfallFunds DEF Late
  <2> QED BY <2>1, <2>2, <2>3 DEF BInv
<1>4. debits = col.jobs + lost /\ {debits, lost, col.jobs} \subseteq Nat
  BY <1>2 DEF BInv, BenchTypeOK, DebitsAccounted
<1>5. ASSUME faults' >= faults, faults' \in 0 .. MaxFaults
      PROVE  \A v \in Workers : lateDraws'[v] <= faults'
  BY <1>2, <1>5 DEF BInv, BenchTypeOK, Funds
<1>6. CASE (\E a \in Payer(w) : Draw(w, a, TRUE)) /\ Succeed(w) /\ UNCHANGED <<faults, excuse>>
  <2>1. PICK a \in Payer(w) : Draw(w, a, TRUE)
    BY <1>6
  <2>2. a \in Groups /\ Payable(a)
    BY <1>1
  <2>3. /\ acct' \in [Groups -> [balance : Int, depleted : BOOLEAN]]
        /\ debits' = debits + 1 /\ lost' = lost + (IF TRUE THEN 0 ELSE 1)
        /\ cashDrawn' \in [Workers -> Nat]
    BY <2>1, <2>2, DrawRows
  <2>4. excuse' \in [Workers -> Nat] /\ faults' \in 0 .. MaxFaults /\ faults' >= faults
    BY <1>6 DEF BInv, BenchTypeOK
  <2>5. \A v \in Workers : lateDraws'[v] <= faults'
    BY <1>5, <2>4
  <2>6. /\ col' \in [jobs : Nat, errs : Nat, txns : Nat] /\ col'.jobs = col.jobs + 1
        /\ drawCounts' \in [Workers -> Nat]
        /\ doing' \in [Workers -> {"loop", "fallback", "topup", "returned"}]
    BY <1>6, SucceedCounts
  <2> QED BY <1>4, <2>3, <2>4, <2>5, <2>6
<1>7. CASE /\ record(FALSE, 1) /\ doing' = [doing EXCEPT ![w] = "loop"]
           /\ UNCHANGED drawCounts
           /\ \/ Payer(w) = {} /\ NoDraw /\ UNCHANGED <<faults, excuse>>
              \/ Fail(1) /\ NoDraw /\ UNCHANGED excuse
              \/ /\ Fail(1) /\ Excuse(w, DrawAmount)
                 /\ \E a \in Payer(w) : Draw(w, a, FALSE)
  <2>1. col' = [jobs |-> col.jobs, errs |-> col.errs + 1, txns |-> col.txns + 1]
    BY <1>7 DEF record, BInv, BenchTypeOK
  <2>2. col' \in [jobs : Nat, errs : Nat, txns : Nat] /\ col'.jobs = col.jobs
    BY <2>1 DEF BInv, BenchTypeOK
  <2>3. /\ doing' \in [Workers -> {"loop", "fallback", "topup", "returned"}]
        /\ drawCounts' \in [Workers -> Nat]
    BY <1>7 DEF BInv, BenchTypeOK
  <2>4. CASE NoDraw /\ UNCHANGED excuse /\ (Fail(1) \/ UNCHANGED faults)
    <3>1. faults' \in 0 .. MaxFaults /\ faults' >= faults
      BY <2>4, FailCounts DEF BInv, BenchTypeOK
    <3>2. /\ acct' = acct /\ debits' = debits /\ lost' = lost /\ cashDrawn' = cashDrawn
          /\ excuse' = excuse
      BY <2>4 DEF NoDraw
    <3>3. \A v \in Workers : lateDraws'[v] <= faults'
      BY <1>5, <3>1
    <3> QED BY <1>4, <2>2, <2>3, <3>1, <3>2, <3>3 DEF BInv, BenchTypeOK
  <2>5. CASE Fail(1) /\ Excuse(w, DrawAmount) /\ \E a \in Payer(w) : Draw(w, a, FALSE)
    <3>1. PICK a \in Payer(w) : Draw(w, a, FALSE)
      BY <2>5
    <3>2. a \in Groups /\ Payable(a)
      BY <1>1
    <3>3. /\ acct' \in [Groups -> [balance : Int, depleted : BOOLEAN]]
          /\ debits' = debits + 1 /\ debits' \in Nat
          /\ lost' = lost + 1 /\ lost' \in Nat
          /\ cashDrawn' \in [Workers -> Nat]
      BY <3>1, <3>2, DrawRows
    <3>4. faults' \in 0 .. MaxFaults /\ faults' >= faults
      BY <2>5, FailCounts DEF BInv, BenchTypeOK
    <3>5. excuse' \in [Workers -> Nat]
      BY <2>5, Numbers DEF Excuse, BInv, BenchTypeOK
    <3>6. \A v \in Workers : lateDraws'[v] <= faults'
      BY <1>5, <3>4
    <3> QED BY <1>4, <2>2, <2>3, <3>3, <3>4, <3>5, <3>6
  <2> QED BY <1>7, <2>4, <2>5
<1> QED BY <1>6, <1>7 DEF Fallback

-----------------------------------------------------------------------------
(* The hot account. *)
LEMMA HotRow ==
    ASSUME BInv, NEW amount, Hot \in Groups => amount \in Int,
           acct' = [acct EXCEPT ![Hot].balance = amount]
    PROVE  /\ acct' \in [Groups -> [balance : Int, depleted : BOOLEAN]]
           /\ Hot \in Groups => acct'[Hot].balance = amount
           /\ \A a \in Groups \ {Hot} : acct'[a] = acct[a]
<1>1. acct \in [Groups -> [balance : Int, depleted : BOOLEAN]]
  BY DEF BInv, BenchTypeOK
<1>2. CASE Hot \in Groups
  <2> DEFINE row == [acct[Hot] EXCEPT !.balance = amount]
  <2>1. acct[Hot] \in [balance : Int, depleted : BOOLEAN]
    BY <1>1, <1>2
  <2>2. row \in [balance : Int, depleted : BOOLEAN] /\ row.balance = amount
    BY <1>2, <2>1
  <2>3. acct' = [acct EXCEPT ![Hot] = row]
    OBVIOUS
  <2> HIDE DEF row
  <2> QED BY <1>1, <1>2, <2>2, <2>3
<1>3. CASE Hot \notin Groups
  <2> DEFINE row == [acct[Hot] EXCEPT !.balance = amount]
  <2>1. acct' = [acct EXCEPT ![Hot] = row]
    OBVIOUS
  <2> HIDE DEF row
  <2> QED BY <1>1, <1>3, <2>1
<1> QED BY <1>2, <1>3

LEMMA HotAdded ==
    ASSUME BInv, NEW amount \in Int, AddToHot(amount)
    PROVE  /\ acct' \in [Groups -> [balance : Int, depleted : BOOLEAN]]
           /\ Hot \in Groups => acct'[Hot].balance = acct[Hot].balance + amount
           /\ \A a \in Groups \ {Hot} : acct'[a] = acct[a]
<1> DEFINE sum == acct[Hot].balance + amount
<1>1. Hot \in Groups => sum \in Int
  BY DEF BInv, BenchTypeOK
<1>2. acct' = [acct EXCEPT ![Hot].balance = sum]
  BY DEF AddToHot
<1> HIDE DEF sum
<1>3. /\ acct' \in [Groups -> [balance : Int, depleted : BOOLEAN]]
      /\ Hot \in Groups => acct'[Hot].balance = sum
      /\ \A a \in Groups \ {Hot} : acct'[a] = acct[a]
  BY <1>1, <1>2, HotRow
<1> QED BY <1>3 DEF sum

LEMMA PreFundHotBInv == BInv /\ PreFundHot => BInv'
<1> SUFFICES ASSUME BInv, PreFundHot PROVE BInv'
  OBVIOUS
<1>1. /\ stage = "prefund" /\ stage' = "hot" /\ StartGoroutines
      /\ UNCHANGED <<scenario, lateDraws, lateResets, lateWithdraws, drawCounts, calls,
                     cashDrawn, excuse>>
  BY DEF PreFundHot
<1>2. ~prefunded /\ lateWithdraws = 0 /\ lateDeposits \in Nat /\ calls \in Nat
  BY <1>1 DEF BInv, BenchTypeOK, Funds, Late
<1>3. /\ acct' \in [Groups -> [balance : Int, depleted : BOOLEAN]]
      /\ faults' \in 0 .. MaxFaults /\ faults <= faults'
      /\ lateDeposits' \in Nat /\ prefunded' \in BOOLEAN
      /\ Hot \in Groups /\ prefunded' => acct'[Hot].balance >= PreFund
  <2>1. CASE /\ AddToHot(PreFund) /\ prefunded' = (acct[Hot].balance >= 0)
             /\ \E failed \in {0, 1} : Fail(failed)
             /\ UNCHANGED lateDeposits
    <3>1. /\ acct' \in [Groups -> [balance : Int, depleted : BOOLEAN]]
          /\ Hot \in Groups => acct'[Hot].balance = acct[Hot].balance + PreFund
      BY <2>1, HotAdded, Numbers
    <3>2. faults' \in 0 .. MaxFaults /\ faults <= faults'
      BY <2>1 DEF Fail, BInv, BenchTypeOK
    <3>3. ASSUME Hot \in Groups, prefunded' PROVE acct'[Hot].balance >= PreFund
      <4>1. acct[Hot].balance >= 0
        BY <2>1, <3>3
      <4>2. acct[Hot].balance \in Int
        BY <3>3 DEF BInv, BenchTypeOK
      <4> QED BY <3>1, <3>3, <4>1, <4>2, Numbers
    <3>4. prefunded' \in BOOLEAN
      BY <2>1
    <3> QED BY <1>2, <2>1, <3>1, <3>2, <3>3, <3>4
  <2>2. CASE /\ Fail(1)
             /\ \E late \in {0, 1} : lateDeposits' = lateDeposits + late
             /\ UNCHANGED <<acct, prefunded>>
    <3>1. faults' = faults + 1 /\ faults' \in 0 .. MaxFaults /\ faults \in Nat
      BY <2>2, FailCounts DEF BInv, BenchTypeOK
    <3> QED BY <1>2, <2>2, <3>1 DEF BInv, BenchTypeOK
  <2> QED BY <2>1, <2>2 DEF PreFundHot
<1>4. BenchTypeOK'
  BY <1>1, <1>3 DEF BInv, BenchTypeOK, StartGoroutines, Empty
<1>5. Working' /\ DebitsAccounted'
  BY <1>1 DEF Working, DebitsAccounted, StartGoroutines, Empty
<1>6. Funds'
  <2>1. \A w \in Workers : lateDraws'[w] <= faults'
    BY <1>1, <1>3 DEF BInv, BenchTypeOK, Funds
  <2>2. ASSUME Hot \in Groups, prefunded' PROVE acct'[Hot].balance >= Floor'
    <3>1. 1 \in Workers
      BY <2>2 DEF Groups, Hot
    <3>2. lateDraws'[1] \in Nat /\ lateDraws'[1] <= faults' /\ faults' \in Nat
      BY <1>3, <1>4, <2>1, <3>1 DEF BenchTypeOK
    <3>3. DrawAmount * (faults' - lateDraws'[1]) \in Nat
      <4>1. \A m, n \in Nat : m * n \in Nat
        OBVIOUS
      <4> QED BY <3>2, <4>1, Numbers
    <3>4. Floor' <= PreFund /\ Floor' \in Int
      BY <1>1, <1>2, <3>3, Numbers DEF Floor
    <3>5. acct'[Hot].balance \in Int
      BY <1>3, <2>2
    <3> QED BY <1>3, <2>2, <3>4, <3>5, Numbers
  <2> QED BY <1>1, <2>1, <2>2 DEF Funds, Late
<1> QED BY <1>4, <1>5, <1>6 DEF BInv

LEMMA LateDepositBInv == BInv /\ LateDeposit => BInv'
<1> SUFFICES ASSUME BInv, LateDeposit PROVE BInv'
  OBVIOUS
<1>1. /\ lateDeposits > 0 /\ lateDeposits' = lateDeposits - 1
      /\ UNCHANGED <<scenario, stage, lateDraws, lateResets, lateWithdraws, doing, drawCounts,
                     col, calls, faults, debits, lost, prefunded, cashDrawn, excuse>>
  BY DEF LateDeposit, benchHistory
<1>2. Late
  BY <1>1 DEF BInv, Funds
<1>3. /\ acct' \in [Groups -> [balance : Int, depleted : BOOLEAN]]
      /\ Hot \in Groups => acct'[Hot].balance = acct[Hot].balance + PreFund
  BY HotAdded, Numbers DEF LateDeposit
<1>4. BenchTypeOK'
  BY <1>1, <1>3 DEF BInv, BenchTypeOK
<1>5. Working' /\ DebitsAccounted'
  BY <1>1 DEF BInv, Working, DebitsAccounted
<1>6. Funds'
  <2>1. ASSUME Hot \in Groups, prefunded' PROVE acct'[Hot].balance >= Floor'
    <3>1. 1 \in Workers
      BY <2>1 DEF Groups, Hot
    <3>2. Floor' = Floor /\ acct[Hot].balance >= Floor
      BY <1>1, <2>1 DEF BInv, Funds, Floor
    <3>3. Floor \in Int /\ acct[Hot].balance \in Int
      BY <2>1, <3>1, FloorType DEF BInv, BenchTypeOK
    <3> QED BY <1>3, <2>1, <3>2, <3>3, Numbers
  <2> QED BY <1>1, <1>2, <2>1 DEF BInv, Funds, Late
<1> QED BY <1>4, <1>5, <1>6 DEF BInv

(* A withdrawal takes one unit, and the floor was lowered by one when it was   *)
(* called or is when it comes late.                                          *)
LEMMA WithdrawRows ==
    ASSUME BInv, NEW answered \in BOOLEAN, Withdraw(answered)
    PROVE  /\ acct' \in [Groups -> [balance : Int, depleted : BOOLEAN]]
           /\ Hot \in Groups => acct'[Hot].balance = acct[Hot].balance - 1
           /\ debits' = debits + 1 /\ debits' \in Nat
           /\ lost' = lost + (IF answered THEN 0 ELSE 1) /\ lost' \in Nat
<1>1. AddToHot(-1) /\ debits' = debits + 1 /\ lost' = lost + (IF answered THEN 0 ELSE 1)
  BY DEF Withdraw
<1>2. /\ acct' \in [Groups -> [balance : Int, depleted : BOOLEAN]]
      /\ Hot \in Groups => acct'[Hot].balance = acct[Hot].balance + (-1)
  BY <1>1, HotAdded
<1> QED BY <1>1, <1>2 DEF BInv, BenchTypeOK

LEMMA WithdrawFunds ==
    ASSUME BInv, BenchTypeOK', Late, Late', UNCHANGED <<lateDraws, prefunded>>,
           faults <= faults',
           Hot \in Groups => acct'[Hot].balance = acct[Hot].balance - 1,
           calls' - lateWithdraws' >= calls - lateWithdraws + 1
    PROVE  Funds'
<1>1. ASSUME Hot \in Groups, prefunded' PROVE acct'[Hot].balance >= Floor'
  <2>1. 1 \in Workers
    BY <1>1 DEF Groups, Hot
  <2>2. Floor' \in Int /\ Floor' <= Floor - 1
    BY <2>1, FloorFalls
  <2>3. acct[Hot].balance >= Floor /\ Floor \in Int /\ acct[Hot].balance \in Int
    BY <1>1, <2>1, FloorType DEF BInv, BenchTypeOK, Funds
  <2> QED BY <1>1, <2>2, <2>3
<1>2. \A w \in Workers : lateDraws'[w] <= faults'
  BY DEF BInv, BenchTypeOK, Funds
<1> QED BY <1>1, <1>2 DEF Funds

LEMMA WithdrawHotBInv ==
    ASSUME BInv, NEW w \in Workers, WithdrawHot(w)
    PROVE  BInv'
<1>1. /\ stage = "hot" /\ calls' = calls + 1 /\ calls' \in 0 .. MaxCalls /\ calls \in Nat
      /\ UNCHANGED <<scenario, stage, lateDraws, lateResets, lateDeposits, doing, drawCounts,
                     prefunded, cashDrawn, excuse>>
  BY Numbers DEF WithdrawHot, Calls, BInv, BenchTypeOK
<1>2. /\ debits = col.jobs + lost /\ {debits, lost, lateWithdraws} \subseteq Nat
      /\ {col.jobs, col.errs, col.txns} \subseteq Nat
  BY <1>1 DEF BInv, BenchTypeOK, DebitsAccounted
<1>3. ASSUME NEW answered \in BOOLEAN, record(answered, 1)
      PROVE  /\ col' \in [jobs : Nat, errs : Nat, txns : Nat]
             /\ col'.jobs = col.jobs + (IF answered THEN 1 ELSE 0)
  BY <1>2, <1>3 DEF record
<1>4. SUFFICES /\ acct' \in [Groups -> [balance : Int, depleted : BOOLEAN]]
               /\ col' \in [jobs : Nat, errs : Nat, txns : Nat]
               /\ faults' \in 0 .. MaxFaults /\ faults <= faults' /\ lateWithdraws' \in Nat
               /\ debits' \in Nat /\ lost' \in Nat /\ debits' = col'.jobs + lost'
               /\ \/ UNCHANGED acct /\ calls' - lateWithdraws' >= calls - lateWithdraws
                  \/ /\ Hot \in Groups => acct'[Hot].balance = acct[Hot].balance - 1
                     /\ calls' - lateWithdraws' >= calls - lateWithdraws + 1
  <2>1. BenchTypeOK'
    BY <1>1, <1>4 DEF BInv, BenchTypeOK
  <2>2. Working' /\ DebitsAccounted'
    BY <1>1, <1>4 DEF BInv, Working, DebitsAccounted
  <2>3. Funds'
    <3>1. CASE UNCHANGED acct /\ calls' - lateWithdraws' >= calls - lateWithdraws
      <4>1. \A v \in Workers : lateDraws'[v] - lateDraws[v] <= faults' - faults
        BY <1>1, <1>4 DEF BInv, BenchTypeOK
      <4> QED BY <1>1, <1>4, <2>1, <3>1, <4>1, FundsKept DEF Late
    <3>2. CASE /\ Hot \in Groups => acct'[Hot].balance = acct[Hot].balance - 1
               /\ calls' - lateWithdraws' >= calls - lateWithdraws + 1
      BY <1>1, <1>4, <2>1, <3>2, WithdrawFunds DEF Late
    <3> QED BY <1>4, <3>1, <3>2
  <2> QED BY <2>1, <2>2, <2>3 DEF BInv
<1>5. CASE Withdraw(TRUE) /\ record(TRUE, 1) /\ UNCHANGED <<faults, lateWithdraws>>
  <2>1. /\ acct' \in [Groups -> [balance : Int, depleted : BOOLEAN]]
        /\ Hot \in Groups => acct'[Hot].balance = acct[Hot].balance - 1
        /\ debits' = debits + 1 /\ debits' \in Nat /\ lost' = lost + 0 /\ lost' \in Nat
    BY <1>5, WithdrawRows
  <2>2. col' \in [jobs : Nat, errs : Nat, txns : Nat] /\ col'.jobs = col.jobs + 1
    BY <1>3, <1>5
  <2>3. faults' \in 0 .. MaxFaults /\ faults <= faults'
    BY <1>5 DEF BInv, BenchTypeOK
  <2> QED BY <1>1, <1>2, <1>5, <2>1, <2>2, <2>3
<1>6. CASE /\ Fail(1) /\ record(FALSE, 1)
           /\ \/ Withdraw(FALSE) /\ UNCHANGED lateWithdraws
              \/ /\ \E late \in {0, 1} : lateWithdraws' = lateWithdraws + late
                 /\ UNCHANGED <<acct, debits, lost>>
  <2>1. faults' \in 0 .. MaxFaults /\ faults <= faults'
    BY <1>6, FailCounts DEF BInv, BenchTypeOK
  <2>2. col' \in [jobs : Nat, errs : Nat, txns : Nat] /\ col'.jobs = col.jobs + 0
    BY <1>3, <1>6
  <2>3. CASE Withdraw(FALSE) /\ UNCHANGED lateWithdraws
    <3>1. /\ acct' \in [Groups -> [balance : Int, depleted : BOOLEAN]]
          /\ Hot \in Groups => acct'[Hot].balance = acct[Hot].balance - 1
          /\ debits' = debits + 1 /\ debits' \in Nat /\ lost' = lost + 1 /\ lost' \in Nat
      BY <2>3, WithdrawRows
    <3> QED BY <1>1, <1>2, <2>1, <2>2, <2>3, <3>1
  <2>4. CASE /\ \E late \in {0, 1} : lateWithdraws' = lateWithdraws + late
             /\ UNCHANGED <<acct, debits, lost>>
    <3>1. lateWithdraws' \in Nat /\ calls' - lateWithdraws' >= calls - lateWithdraws
      BY <1>1, <1>2, <2>4
    <3> QED BY <1>2, <2>1, <2>2, <2>4, <3>1 DEF BInv, BenchTypeOK
  <2> QED BY <1>6, <2>3, <2>4
<1> QED BY <1>5, <1>6 DEF WithdrawHot

LEMMA LateWithdrawBInv == BInv /\ LateWithdraw => BInv'
<1> SUFFICES ASSUME BInv, LateWithdraw PROVE BInv'
  OBVIOUS
<1>1. /\ lateWithdraws > 0 /\ lateWithdraws' = lateWithdraws - 1
      /\ UNCHANGED <<scenario, stage, lateDraws, lateResets, lateDeposits, doing, drawCounts,
                     col, calls, faults, prefunded, cashDrawn, excuse>>
  BY DEF LateWithdraw
<1>2. Late
  BY <1>1 DEF BInv, Funds
<1>3. /\ acct' \in [Groups -> [balance : Int, depleted : BOOLEAN]]
      /\ Hot \in Groups => acct'[Hot].balance = acct[Hot].balance - 1
      /\ debits' = debits + 1 /\ debits' \in Nat /\ lost' = lost + 1 /\ lost' \in Nat
  BY WithdrawRows DEF LateWithdraw
<1>4. BenchTypeOK'
  BY <1>1, <1>3 DEF BInv, BenchTypeOK
<1>5. Working' /\ DebitsAccounted'
  BY <1>1, <1>3 DEF BInv, BenchTypeOK, Working, DebitsAccounted
<1>6. Funds'
  <2>1. calls' - lateWithdraws' >= calls - lateWithdraws + 1 /\ faults <= faults'
    BY <1>1 DEF BInv, BenchTypeOK
  <2> QED BY <1>1, <1>2, <1>3, <1>4, <2>1, WithdrawFunds DEF Late
<1> QED BY <1>4, <1>5, <1>6 DEF BInv

LEMMA LateDrawBInv ==
    ASSUME BInv, NEW w \in Workers, LateDraw(w)
    PROVE  BInv'
<1> DEFINE a == <<w, 1>>
<1>1. a \in Groups /\ (a = Hot <=> w = 1)
  BY Numbers, PGBenchAssumption DEF PGBenchAssumption, Groups, Hot
<1>2. /\ lateDraws[w] > 0 /\ lateDraws' = [lateDraws EXCEPT ![w] = @ - 1]
      /\ UNCHANGED <<scenario, stage, lateResets, lateDeposits, lateWithdraws, doing,
                     drawCounts, col, calls, faults, prefunded, excuse>>
      /\ (Payable(a) /\ Draw(w, a, FALSE)) \/ NoDraw
  BY DEF LateDraw, lateHot
<1> HIDE DEF a
<1>3. /\ lateDraws' \in [Workers -> Nat] /\ lateDraws'[w] = lateDraws[w] - 1
      /\ \A v \in Workers : lateDraws'[v] <= lateDraws[v]
      /\ \A v \in Workers \ {w} : lateDraws'[v] = lateDraws[v]
  BY <1>2 DEF BInv, BenchTypeOK
<1>4. /\ BenchTypeOK' /\ DebitsAccounted'
      /\ Hot \in Groups => /\ acct[Hot].balance \in Int /\ acct'[Hot].balance \in Int
                           /\ acct'[Hot].balance >=
                                 acct[Hot].balance - (IF w = 1 THEN DrawAmount ELSE 0)
  <2>1. CASE NoDraw
    <3>1. acct' = acct /\ debits' = debits /\ lost' = lost /\ cashDrawn' = cashDrawn
      BY <2>1 DEF NoDraw
    <3> QED BY <1>2, <1>3, <3>1, Numbers DEF BInv, BenchTypeOK, DebitsAccounted
  <2>2. CASE Payable(a) /\ Draw(w, a, FALSE)
    <3>1. /\ acct' \in [Groups -> [balance : Int, depleted : BOOLEAN]]
          /\ debits' = debits + 1 /\ debits' \in Nat
          /\ lost' = lost + 1 /\ lost' \in Nat
          /\ cashDrawn' \in [Workers -> Nat]
          /\ acct'[a].balance = acct[a].balance - DrawAmount
          /\ \A b \in Groups \ {a} : acct'[b] = acct[b]
      BY <1>1, <2>2, DrawRows
    <3>2. BenchTypeOK'
      BY <1>2, <1>3, <3>1 DEF BInv, BenchTypeOK
    <3>3. DebitsAccounted'
      BY <1>2, <3>1 DEF BInv, BenchTypeOK, DebitsAccounted
    <3>4. \A b \in Groups : acct[b].balance \in Int
      BY DEF BInv, BenchTypeOK
    <3> QED BY <1>1, <3>1, <3>2, <3>3, <3>4, Numbers
  <2> QED BY <1>2, <2>1, <2>2
<1>5. Working'
  BY <1>2 DEF BInv, Working
<1>6. Funds'
  <2>1. \A v \in Workers : lateDraws'[v] <= faults'
    BY <1>2, <1>3 DEF BInv, BenchTypeOK, Funds
  <2>2. ASSUME Hot \in Groups, prefunded' PROVE acct'[Hot].balance >= Floor'
    <3>1. 1 \in Workers /\ prefunded /\ acct[Hot].balance >= Floor
      BY <1>2, <2>2 DEF Groups, Hot, BInv, Funds
    <3>2. /\ lateDraws[1] \in Nat /\ faults \in Nat /\ calls \in Nat /\ lateWithdraws \in Nat
      BY <3>1 DEF BInv, BenchTypeOK
    <3>3. CASE w = 1
      <4>1. lateDraws'[1] = lateDraws[1] - 1
        BY <1>3, <3>3
      <4>2. DrawAmount * (faults - (lateDraws[1] - 1))
               = DrawAmount * (faults - lateDraws[1]) + DrawAmount
        BY <3>2, Numbers
      <4>3. DrawAmount * (faults - lateDraws[1]) \in Int
        BY <3>2, Numbers
      <4>4. Floor' = Floor - DrawAmount /\ Floor \in Int
        BY <1>2, <3>2, <4>1, <4>2, <4>3, Numbers DEF Floor
      <4> QED BY <1>4, <2>2, <3>1, <3>3, <4>4, Numbers
    <3>4. CASE w # 1
      <4>1. Floor' = Floor /\ Floor \in Int
        BY <1>2, <1>3, <3>1, <3>4, FloorType DEF Floor
      <4> QED BY <1>4, <2>2, <3>1, <3>4, <4>1
    <3> QED BY <3>3, <3>4
  <2> QED BY <1>2, <2>1, <2>2 DEF BInv, Funds, Late
<1> QED BY <1>4, <1>5, <1>6 DEF BInv

-----------------------------------------------------------------------------
LEMMA NextBInv == BInv /\ [BenchNext]_benchVars => BInv'
<1> SUFFICES ASSUME BInv, [BenchNext]_benchVars PROVE BInv'
  OBVIOUS
<1>1. CASE BenchMain
  BY <1>1, FetchBInv, SetUpBInv, PreFundHotBInv, EndScenarioBInv DEF BenchMain
<1>2. ASSUME NEW w \in Workers, Work(w) \/ Leave(w)
      PROVE  BInv'
  BY <1>2, FastPathBInv, FallbackBInv, TopUpBInv, WithdrawHotBInv, FanOutBInv,
     LeaveBInv DEF Work
<1>3. CASE LateStatement
  BY <1>3, LateDrawBInv, LateResetBInv, LateDepositBInv, LateWithdrawBInv
     DEF LateStatement
<1>4. CASE UNCHANGED benchVars
  <2>1. UNCHANGED <<scenario, stage, acct, lateDraws, lateResets, lateDeposits, lateWithdraws,
                    doing, drawCounts, col, calls, faults, debits, lost, prefunded,
                    cashDrawn, excuse>>
    BY <1>4 DEF benchVars, groups, lateHot, benchHistory
  <2> QED BY <2>1 DEF BInv, BenchTypeOK, Working, Funds, Floor, DebitsAccounted, Late
<1> QED BY <1>1, <1>2, <1>3, <1>4 DEF BenchNext

(* The rows, the goroutines and the collector of the benchmark keep to what    *)
(* is said of them above, in every state it reaches.                          *)
THEOREM BenchInvariant == BenchSpec => []BInv
<1>1. BenchInit => BInv
  BY InitBInv
<1>2. BInv /\ [BenchNext]_benchVars => BInv'
  BY NextBInv
<1> QED BY <1>1, <1>2, PTL DEF BenchSpec

(* Job counts of scenarios 1 and 2 are exact up to statements whose answer was *)
(* an error: each DEBIT entry is a job or one of those.                      *)
THEOREM JobsAreDebits == BenchSpec => []DebitsAccounted
<1>1. BInv => DebitsAccounted
  BY DEF BInv
<1> QED BY <1>1, BenchInvariant, PTL

-----------------------------------------------------------------------------
(* What a step may do to the row of an account: reset it, draw from it, or     *)
(* change the balance of the hot account and nothing else.                    *)
RowStep(a) ==
    \/ acct'[a] = acct[a]
    \/ acct'[a] = Reset(a)
    \/ Payable(a) /\ acct'[a] = Debited(a)
    \/ /\ a = Hot /\ Late' /\ acct'[a].depleted = acct[a].depleted
       /\ acct'[a].balance >= acct[a].balance \/ prefunded' = prefunded

LEMMA DrawStep ==
    ASSUME BInv, NEW a \in Groups,
           \/ NoDraw
           \/ \E w \in Workers, b \in Groups, answered \in BOOLEAN :
                 Payable(b) /\ Draw(w, b, answered)
    PROVE  RowStep(a)
<1>1. CASE NoDraw
  BY <1>1 DEF NoDraw, RowStep
<1>2. ASSUME NEW w \in Workers, NEW b \in Groups, NEW answered \in BOOLEAN,
             Payable(b), Draw(w, b, answered)
      PROVE  RowStep(a)
  <2>1. acct'[b] = Debited(b) /\ \A x \in Groups \ {b} : acct'[x] = acct[x]
    BY <1>2, DrawRows
  <2> QED BY <1>2, <2>1 DEF RowStep
<1> QED BY <1>1, <1>2

LEMMA HotStep ==
    ASSUME BInv, NEW a \in Groups, NEW amount \in Int, AddToHot(amount), Late',
           amount >= 0 \/ prefunded' = prefunded
    PROVE  RowStep(a)
<1>1. /\ Hot \in Groups => acct'[Hot].balance = acct[Hot].balance + amount
      /\ \A b \in Groups \ {Hot} : acct'[b] = acct[b]
  BY HotAdded
<1>2. CASE a = Hot
  <2>1. acct[a] \in [balance : Int, depleted : BOOLEAN]
    BY DEF BInv, BenchTypeOK
  <2>2. acct'[a].depleted = acct[a].depleted
    BY <1>2, <2>1 DEF AddToHot, BInv, BenchTypeOK
  <2>3. amount >= 0 => acct'[a].balance >= acct[a].balance
    BY <1>1, <1>2, <2>1
  <2> QED BY <1>2, <2>2, <2>3 DEF RowStep
<1> QED BY <1>1, <1>2 DEF RowStep

LEMMA RowSteps ==
    ASSUME BInv, [BenchNext]_benchVars, NEW a \in Groups
    PROVE  RowStep(a)
<1>1. CASE UNCHANGED acct
  BY <1>1 DEF RowStep
<1>2. CASE SetUp \/ \E w \in Workers : TopUp(w)
  <2>1. PICK accounts \in SUBSET Groups, failed \in SUBSET Groups :
           failed \subseteq accounts /\ \E late : ResetAll(accounts, failed, late)
    <3>1. \A w \in Workers : Priority(w) \subseteq Groups
      BY Numbers DEF Priority, Groups
    <3>2. CASE SetUp
      BY <3>2 DEF SetUp, Failures
    <3>3. ASSUME NEW w \in Workers, TopUp(w)
          PROVE  \E accounts \in SUBSET Groups, failed \in SUBSET Groups :
                    failed \subseteq accounts /\ \E late : ResetAll(accounts, failed, late)
      <4>1. PICK failed \in SUBSET Priority(w) : \E late : ResetAll(Priority(w), failed, late)
        BY <3>3 DEF TopUp, Failures
      <4> QED BY <3>1, <4>1
    <3> QED BY <1>2, <3>2, <3>3
  <2>2. acct'[a] \in {acct[a], Reset(a)}
    BY <2>1, ResetRows
  <2> QED BY <2>2 DEF RowStep
<1>3. CASE PreFundHot
  <2>1. AddToHot(PreFund) \/ UNCHANGED acct
    BY <1>3 DEF PreFundHot
  <2>2. Late'
    BY <1>3 DEF PreFundHot, Late
  <2> QED BY <1>1, <2>1, <2>2, HotStep, Numbers
<1>4. ASSUME NEW w \in Workers, FastPath(w) \/ Fallback(w) \/ LateDraw(w)
      PROVE  RowStep(a)
  <2>1. <<w, 1>> \in Groups /\ \A b \in Payer(w) : b \in Groups /\ Payable(b)
    BY Numbers, PGBenchAssumption DEF PGBenchAssumption, Groups, Payer
  <2>2. \/ NoDraw
        \/ \E b \in Groups, answered \in BOOLEAN : Payable(b) /\ Draw(w, b, answered)
    <3>1. CASE FastPath(w)
      BY <2>1, <3>1 DEF FastPath
    <3>2. CASE Fallback(w)
      BY <2>1, <3>2 DEF Fallback
    <3>3. CASE LateDraw(w)
      BY <2>1, <3>3 DEF LateDraw
    <3> QED BY <1>4, <3>1, <3>2, <3>3
  <2> QED BY <2>2, DrawStep
<1>5. ASSUME NEW b \in Groups, LateReset(b)
      PROVE  RowStep(a)
  <2>1. acct' = [acct EXCEPT ![b] = Reset(b)]
    BY <1>5 DEF LateReset
  <2>2. acct'[a] \in {acct[a], Reset(a)}
    BY <2>1 DEF BInv, BenchTypeOK
  <2> QED BY <2>2 DEF RowStep
<1>6. CASE LateDeposit \/ LateWithdraw \/ \E w \in Workers : WithdrawHot(w)
  <2>1. Late' /\ UNCHANGED prefunded
    <3>1. CASE LateDeposit
      <4>1. Late
        BY <3>1 DEF LateDeposit, BInv, Funds
      <4> QED BY <3>1, <4>1 DEF LateDeposit, benchHistory, Late
    <3>2. CASE LateWithdraw
      <4>1. Late
        BY <3>2 DEF LateWithdraw, BInv, Funds
      <4> QED BY <3>2, <4>1 DEF LateWithdraw, Late
    <3>3. CASE \E w \in Workers : WithdrawHot(w)
      BY <3>3 DEF WithdrawHot, Calls, Late
    <3> QED BY <1>6, <3>1, <3>2, <3>3
  <2>2. \/ UNCHANGED acct
        \/ \E amount \in {PreFund, -1} : AddToHot(amount)
    BY <1>6 DEF LateDeposit, LateWithdraw, WithdrawHot, Withdraw
  <2> QED BY <1>1, <2>1, <2>2, HotStep, Numbers
<1>7. CASE Fetch \/ EndScenario \/ (\E w \in Workers : FanOutBatch(w) \/ Leave(w))
           \/ UNCHANGED benchVars
  <2>1. UNCHANGED acct
    BY <1>7 DEF Fetch, EndScenario, FanOutBatch, Leave, benchVars, groups
  <2> QED BY <1>1, <2>1
<1> QED BY <1>2, <1>3, <1>4, <1>5, <1>6, <1>7 DEF BenchNext, BenchMain, LateStatement, Work

LEMMA MarkStep ==
    ASSUME BInv, [BenchNext]_benchVars, NEW a \in Groups,
           WronglyMarked(a)', ~WronglyMarked(a)
    PROVE  a = Hot /\ stage' \in {"hot", "fanout", "end"}
<1>1. ~(acct'[a].depleted => acct'[a].balance = 0)
  BY DEF WronglyMarked
<1>2. acct'[a] # acct[a]
  BY <1>1 DEF WronglyMarked
<1>3. acct'[a] # Reset(a)
  BY <1>1, ResetType
<1>4. Payable(a) => acct'[a] # Debited(a)
  <2>1. Debited(a).depleted => Debited(a).balance = 0
    <3>1. acct[a].balance \in Int
      BY DEF BInv, BenchTypeOK
    <3>2. PICK b \in Int, n \in Nat : b = acct[a].balance /\ n = DrawAmount
      BY <3>1, Numbers
    <3>3. Debited(a).balance = b - n /\ (Debited(a).depleted => b = n)
      BY <3>2 DEF Debited
    <3> QED BY <3>2, <3>3
  <2> QED BY <1>1, <2>1
<1> QED BY <1>2, <1>3, <1>4, RowSteps DEF RowStep, Late

(* Waterfall draws, refills and late statements mark no account that has funds *)
(* or an overdraft, whatever marks they find: a mark becomes wrong only when    *)
(* Deposit or Withdraw changes the balance of the hot account.                *)
THEOREM FlagsAreTrue == BenchSpec => DepletedExplained
<1>1. BInv /\ [BenchNext]_benchVars =>
         [\A a \in Groups :
             WronglyMarked(a)' /\ ~WronglyMarked(a) =>
                a = Hot /\ stage' \in {"hot", "fanout", "end"}]_benchVars
  BY MarkStep
<1> QED BY <1>1, BenchInvariant, PTL DEF BenchSpec, DepletedExplained

LEMMA OverdraftStep ==
    ASSUME BInv, BInv', [BenchNext]_benchVars, NEW a \in Groups,
           acct'[a].balance < 0, acct'[a].balance < acct[a].balance
    PROVE  a = Hot /\ stage' \in {"hot", "fanout", "end"} /\ ~prefunded
<1>1. acct[a].balance \in Int /\ acct'[a].balance \in Int
  BY DEF BInv, BenchTypeOK
<1>2. acct'[a] # acct[a]
  BY <1>1
<1>3. acct'[a] # Reset(a)
  BY <1>1, ResetType
<1>4. Payable(a) => acct'[a] # Debited(a)
  <2>1. Payable(a) => Debited(a).balance >= 0
    BY <1>1, Numbers DEF Payable, Debited
  <2> QED BY <1>1, <2>1
<1>5. a = Hot /\ Late' /\ prefunded' = prefunded
  BY <1>1, <1>2, <1>3, <1>4, RowSteps DEF RowStep
<1>6. ASSUME prefunded PROVE FALSE
  <2>1. 1 \in Workers
    BY <1>5 DEF Groups, Hot
  <2>2. Floor' \in Int /\ Floor' >= 0
    BY <2>1, NextFloor
  <2>3. acct'[Hot].balance >= Floor'
    BY <1>5, <1>6 DEF BInv, Funds
  <2> QED BY <1>1, <1>5, <2>2, <2>3
<1> QED BY <1>5, <1>6 DEF Late

(* While the hot account keeps its pre-funding, enough for all calls and draws *)
(* that come late, no statement of the benchmark overdraws any account, or     *)
(* makes an overdraft it found worse; without it, only withdrawals do.         *)
THEOREM PreFundingSuffices == BenchSpec => OverdraftExplained
<1>1. BInv /\ BInv' /\ [BenchNext]_benchVars =>
         [\A a \in Groups :
             acct'[a].balance < 0 /\ acct'[a].balance < acct[a].balance =>
                /\ a = Hot /\ stage' \in {"hot", "fanout", "end"}
                /\ ~prefunded]_benchVars
  BY OverdraftStep
<1> QED BY <1>1, BenchInvariant, PTL DEF BenchSpec, OverdraftExplained

-----------------------------------------------------------------------------
(* Cash is a safety net: what the credits of a worker can still pay, in whole *)
(* draws, is enough for the rest of the cycle, unless faults are to blame.  An  *)
(* account counts for no more than a refill gives it, whatever it held before, *)
(* so a refill that comes late never takes credit away.                       *)
Credit(row) ==
    IF row.depleted \/ row.balance < DrawAmount THEN 0
    ELSE IF row.balance >= Small THEN Small
    ELSE row.balance - (row.balance % DrawAmount)

credit == [a \in Groups |-> Credit(acct[a])]

Credits(w) == Total(credit, Priority(w))

(* What the fallback looks at. *)
Rest(w) == Priority(w) \ {<<w, 1>>}

RestCredits(w) == Total(credit, Rest(w))

(* The draws until the next top-up. *)
ToDraw(w) == IF doing[w] = "topup" THEN 0 ELSE topUpEvery - (drawCounts[w] % topUpEvery)

(* What came from cash, and what late statements may still take from the      *)
(* credits.                                                                 *)
Spent(w) == cashDrawn[w] + DrawAmount * lateDraws[w]

Covered(w) ==
    /\ Spent(w) <= excuse[w]
    /\ stage = "waterfall" =>
          /\ Spent(w) + DrawAmount * ToDraw(w) <= excuse[w] + Credits(w)
          /\ doing[w] = "fallback" =>
                \/ Spent(w) + DrawAmount * ToDraw(w) <= excuse[w] + RestCredits(w)
                \/ Spent(w) + DrawAmount <= excuse[w]

CreditInv ==
    /\ stage \in {"fetch", "setup"} =>
          \A w \in Workers : drawCounts[w] = 0 /\ lateDraws[w] = 0 /\ cashDrawn[w] = 0
    /\ \A w \in Workers : Covered(w)

LEMMA SmallIsDraws ==
    ASSUME NEW q, q = Small \div DrawAmount
    PROVE  q \in Int /\ Small = DrawAmount * q
<1>1. PICK n \in Nat, d \in Nat \ {0} : n = Small /\ d = DrawAmount
  BY Numbers
<1>2. n % d = 0
  BY ONLY <1>1, PGBenchAssumption DEF PGBenchAssumption
<1>3. n = d * (n \div d) + (n % d) /\ n \div d \in Int
  BY DivMod
<1>4. n \div d = q
  BY <1>1
<1>5. n = d * q + 0 /\ q \in Int
  BY ONLY <1>2, <1>3, <1>4
<1> QED BY ONLY <1>1, <1>5

(* A cycle is as many draws as the credits are topped up for. *)
LEMMA Cycle ==
    /\ topUpEvery \in Nat \ {0}
    /\ DrawAmount * topUpEvery = Small * (GroupSize - 1)
<1>1. PICK q \in Int : q = Small \div DrawAmount
  BY Numbers
<1>2. Small = DrawAmount * q
  BY <1>1, SmallIsDraws
<1>3. Small > 0 /\ GroupSize - 1 \in Nat \ {0}
  BY PGBenchAssumption DEF PGBenchAssumption
<1>4. q > 0
  <2>1. ASSUME q <= 0 PROVE DrawAmount * q <= DrawAmount * 0
    BY <2>1, Product, Numbers
  <2> QED BY <1>2, <1>3, <2>1, Numbers
<1>5. topUpEvery = (GroupSize - 1) * q
  BY <1>1 DEF topUpEvery
<1>6. topUpEvery \in Nat \ {0}
  <2>1. (GroupSize - 1) * q \in Int /\ (GroupSize - 1) * 1 <= (GroupSize - 1) * q
    BY <1>3, <1>4, Product
  <2>2. PICK p \in Int : p = (GroupSize - 1) * q
    BY <2>1
  <2>3. GroupSize - 1 <= p
    BY <1>3, <2>1, <2>2
  <2> QED BY Numbers, <1>3, <1>5, <2>2, <2>3
<1>7. DrawAmount * ((GroupSize - 1) * q) = (DrawAmount * q) * (GroupSize - 1)
  <2>1. \A d, g, m \in Int : d * (g * m) = (d * m) * g
    OBVIOUS
  <2> QED BY <1>3, <2>1, Numbers
<1> QED BY <1>2, <1>5, <1>6, <1>7

LEMMA ToDrawType ==
    ASSUME BInv, NEW w \in Workers
    PROVE  /\ ToDraw(w) \in Nat /\ ToDraw(w) <= topUpEvery
           /\ doing[w] # "topup" => ToDraw(w) > 0
           /\ DrawAmount * ToDraw(w) \in Nat
           /\ DrawAmount * ToDraw(w) <= DrawAmount * topUpEvery
<1>1. drawCounts[w] \in Nat
  BY DEF BInv, BenchTypeOK
<1>2. drawCounts[w] % topUpEvery \in 0 .. topUpEvery - 1
  <2>1. PICK n \in Nat, t \in Nat \ {0} : n = drawCounts[w] /\ t = topUpEvery
    BY <1>1, Cycle
  <2>2. n % t \in 0 .. t - 1
    BY DivMod
  <2> QED BY ONLY <2>1, <2>2
<1>3. /\ ToDraw(w) \in Nat /\ ToDraw(w) <= topUpEvery
      /\ doing[w] # "topup" => ToDraw(w) > 0
  BY <1>2, Cycle DEF ToDraw
<1>4. \A m, n \in Nat : m * n \in Nat
  OBVIOUS
<1> QED BY <1>3, <1>4, Cycle, Numbers, Product

(* A counted draw is one less until the top-up. *)
LEMMA CountedJobs ==
    ASSUME BInv, NEW w \in Workers, doing[w] # "topup", Succeed(w)
    PROVE  /\ DrawAmount * ToDraw(w)' = DrawAmount * ToDraw(w) - DrawAmount
           /\ doing'[w] \in {"topup", "loop"}
           /\ \A v \in Workers \ {w} : doing'[v] = doing[v] /\ drawCounts'[v] = drawCounts[v]
<1>1. PICK n \in Nat, t \in Nat \ {0} : n = drawCounts[w] /\ t = topUpEvery
  BY Cycle DEF BInv, BenchTypeOK
<1>2. PICK r \in 0 .. t - 1, s \in 0 .. t - 1 : r = n % t /\ s = (n + 1) % t
  <2>1. PICK m \in Nat : m = n + 1
    OBVIOUS
  <2>2. n % t \in 0 .. t - 1 /\ m % t \in 0 .. t - 1
    BY DivMod
  <2> QED BY <2>1, <2>2
<1>3. s = IF r = t - 1 THEN 0 ELSE r + 1
  <2>1. n \in Int /\ t \in Nat \ {0}
    OBVIOUS
  <2>2. (n + 1) % t = IF n % t = t - 1 THEN 0 ELSE (n % t) + 1
    BY ONLY <2>1, ModStep
  <2> QED BY <1>2, <2>2
<1>4. drawCounts'[w] = n + 1
  BY <1>1 DEF Succeed, BInv, BenchTypeOK
<1>5. drawCounts'[w] % topUpEvery = s
  BY <1>1, <1>2, <1>4
<1>6. doing'[w] = IF s = 0 THEN "topup" ELSE "loop"
  <2> DEFINE next == IF drawCounts'[w] % topUpEvery = 0 THEN "topup" ELSE "loop"
  <2>1. doing' = [doing EXCEPT ![w] = next]
    BY DEF Succeed
  <2>2. next = IF s = 0 THEN "topup" ELSE "loop"
    BY <1>5
  <2> HIDE DEF next
  <2> QED BY <2>1, <2>2 DEF BInv, BenchTypeOK
<1>7. ToDraw(w) = t - r
  BY <1>1, <1>2 DEF ToDraw
<1>8. ToDraw(w)' = IF s = 0 THEN 0 ELSE t - s
  <2>1. ToDraw(w)' = IF doing'[w] = "topup" THEN 0
                     ELSE topUpEvery - (drawCounts'[w] % topUpEvery)
    BY DEF ToDraw, topUpEvery
  <2> QED BY <1>1, <1>5, <1>6, <2>1
<1>9. ToDraw(w)' = ToDraw(w) - 1 /\ ToDraw(w) \in Int
  BY <1>3, <1>7, <1>8
<1>10. DrawAmount * (ToDraw(w) - 1) = DrawAmount * ToDraw(w) - DrawAmount
  BY <1>9, Numbers
<1>11. \A v \in Workers \ {w} : doing'[v] = doing[v] /\ drawCounts'[v] = drawCounts[v]
  BY DEF Succeed, BInv, BenchTypeOK
<1> QED BY <1>6, <1>9, <1>10, <1>11

-----------------------------------------------------------------------------
LEMMA PriorityRows ==
    ASSUME NEW w
    PROVE  Priority(w) \subseteq {w} \X (1 .. GroupSize)
BY Numbers DEF Priority

LEMMA PriorityAccounts ==
    ASSUME NEW w \in Workers
    PROVE  /\ Priority(w) \subseteq Groups /\ IsFiniteSet(Priority(w))
           /\ Cardinality(Priority(w)) = GroupSize - 1
           /\ <<w, 1>> \in Priority(w)
           /\ \A a \in {w} \X (1 .. GroupSize) : a[2] # GroupSize => a \in Priority(w)
           /\ \A a \in Priority(w) : a[1] = w /\ a[2] \in 1 .. GroupSize - 1
<1>1. Priority(w) \subseteq Groups
  BY Numbers DEF Priority, Groups
<1>2. GroupSize \in Nat /\ GroupSize - 1 \in Nat \ {0}
  BY PGBenchAssumption DEF PGBenchAssumption
<1>3. /\ IsFiniteSet(1 .. GroupSize - 1)
      /\ Cardinality(1 .. GroupSize - 1) = GroupSize - 1
  BY <1>2, FS_Interval
<1>4. IsFiniteSet({w}) /\ Cardinality({w}) = 1
  BY FS_Singleton
<1>5. /\ IsFiniteSet(Priority(w))
      /\ Cardinality(Priority(w)) = 1 * (GroupSize - 1)
  <2>1. PICK one, rest : one = {w} /\ rest = 1 .. GroupSize - 1
    OBVIOUS
  <2>2. /\ IsFiniteSet(one) /\ Cardinality(one) = 1
        /\ IsFiniteSet(rest) /\ Cardinality(rest) = GroupSize - 1
    BY ONLY <1>3, <1>4, <2>1
  <2>3. /\ IsFiniteSet(one \X rest)
        /\ Cardinality(one \X rest) = Cardinality(one) * Cardinality(rest)
    BY ONLY <2>2, FS_Product
  <2>4. Priority(w) = one \X rest
    BY ONLY <2>1 DEF Priority
  <2> QED BY ONLY <2>2, <2>3, <2>4
<1>6. Cardinality(Priority(w)) = GroupSize - 1
  BY <1>2, <1>5
<1>7. \A a \in {w} \X (1 .. GroupSize) : a[2] # GroupSize => a \in Priority(w)
  <2>1. \A n \in 1 .. GroupSize : n # GroupSize => n \in 1 .. GroupSize - 1
    BY <1>2
  <2> QED BY <2>1 DEF Priority
<1>8. <<w, 1>> \in Priority(w)
  <2>1. 1 \in 1 .. GroupSize - 1
    BY <1>2
  <2> QED BY <2>1 DEF Priority
<1>9. \A a \in Priority(w) : a[1] = w /\ a[2] \in 1 .. GroupSize - 1
  BY DEF Priority
<1> QED BY <1>1, <1>5, <1>6, <1>7, <1>8, <1>9

LEMMA PriorityBelowCash ==
    ASSUME NEW w \in Workers, NEW a \in Priority(w)
    PROVE  a[2] # GroupSize
<1>1. PICK n \in 1 .. GroupSize - 1 : a[2] = n
  BY PriorityAccounts
<1> QED BY <1>1, Numbers

(* In draws, a balance that reaches a refill is worth a refill. *)
LEMMA WholeDraws ==
    ASSUME NEW b \in Nat, b >= Small
    PROVE  Small <= b - (b % DrawAmount)
<1>1. PICK d \in Nat \ {0}, s \in Nat : d = DrawAmount /\ s = Small
  BY Numbers
<1>2. PICK q \in Int : s = d * q
  BY <1>1, SmallIsDraws
<1>3. PICK k \in Int, m \in 0 .. d - 1 : b = d * k + m /\ m = b % d
  <2>1. b \div d \in Int /\ b % d \in 0 .. d - 1 /\ b = d * (b \div d) + (b % d)
    BY DivMod
  <2> QED BY <2>1
<1>4. ASSUME k < q PROVE FALSE
  <2>1. k + 1 <= q /\ k + 1 \in Int
    BY <1>4
  <2>2. d * (k + 1) <= d * q
    BY <2>1, Product
  <2>3. d * (k + 1) = d * k + d
    OBVIOUS
  <2>4. PICK x \in Int, y \in Int : x = d * k /\ y = d * q
    OBVIOUS
  <2>5. x + d <= y /\ b = x + m /\ s = y /\ m < d /\ s <= b
    BY <1>1, <1>2, <1>3, <2>2, <2>3, <2>4
  <2> QED BY <2>5
<1>5. d * q <= d * k
  BY <1>4, Product
<1>6. PICK x \in Int, y \in Int : x = d * k /\ y = d * q
  OBVIOUS
<1>7. s = y /\ y <= x /\ b - m = x
  BY <1>2, <1>3, <1>5, <1>6
<1> QED BY <1>1, <1>3, <1>7

LEMMA RowCredit ==
    ASSUME NEW row \in [balance : Int, depleted : BOOLEAN]
    PROVE  Credit(row) \in Int /\ Credit(row) >= 0 /\ Credit(row) <= Small
<1>1. PICK b \in Int, d \in Nat \ {0}, s \in Nat :
         b = row.balance /\ d = DrawAmount /\ s = Small
  BY Numbers
<1>2. PICK m \in 0 .. d - 1 : m = b % d
  BY DivMod
<1>3. Credit(row) = IF row.depleted \/ b < d THEN 0 ELSE IF b >= s THEN s ELSE b - m
  BY <1>1, <1>2 DEF Credit
<1> QED BY <1>1, <1>2, <1>3

(* An account that cannot pay has no credit. *)
LEMMA NoCredit ==
    ASSUME NEW a, ~Payable(a), acct[a].balance \in Int
    PROVE  Credit(acct[a]) = 0
BY Numbers DEF Credit, Payable

(* A draw takes one draw of the credit of its account, if any. *)
LEMMA DebitedCredit ==
    ASSUME BInv, NEW a \in Groups, Payable(a)
    PROVE  /\ Credit(Debited(a)) \in Int /\ Credit(acct[a]) \in Int
           /\ Credit(Debited(a)) >= Credit(acct[a]) - DrawAmount
<1>1. PICK b \in Nat, d \in Nat \ {0}, s \in Nat :
         b = acct[a].balance /\ d = DrawAmount /\ s = Small
  BY Numbers DEF BInv, BenchTypeOK, Payable
<1>2. b >= d /\ ~acct[a].depleted
  BY <1>1 DEF Payable
<1>3. PICK m \in 0 .. d - 1 : m = b % d
  BY DivMod
<1>4. Credit(acct[a]) = IF b >= s THEN s ELSE b - m
  BY <1>1, <1>2, <1>3 DEF Credit
<1>5. b >= s => s <= b - m
  BY <1>1, <1>3, WholeDraws
<1>6. Credit(acct[a]) \in Int /\ Credit(acct[a]) <= b - m /\ Credit(acct[a]) <= s
  BY <1>4, <1>5
<1>7. (b - d) % d = m
  <2>1. b \in Int /\ d \in Nat \ {0}
    OBVIOUS
  <2>2. (b - d) % d = b % d
    BY ONLY <2>1, ModLess
  <2> QED BY <1>3, <2>2
<1>8. Debited(a).balance = b - d /\ (Debited(a).depleted <=> b = d)
  BY <1>1 DEF Debited
<1>9. CASE b - d < d
  <2>1. Credit(Debited(a)) = 0
    BY <1>1, <1>8, <1>9 DEF Credit
  <2>2. m = b - d
    <3>1. PICK q \in Int, n \in 0 .. d - 1 : n = (b - d) % d /\ b - d = d * q + n
      <4>1. PICK c \in Int : c = b - d
        OBVIOUS
      <4>2. c \div d \in Int /\ c % d \in 0 .. d - 1 /\ c = d * (c \div d) + (c % d)
        BY DivMod
      <4> QED BY <4>1, <4>2
    <3>2. PICK c \in 0 .. d - 1 : c = b - d
      BY <1>2, <1>9
    <3>3. d * q + n = d * 0 + c /\ 0 \in Int
      BY <3>1, <3>2
    <3>4. n = c
      BY ONLY <3>3, Unique
    <3> QED BY <1>7, <3>1, <3>2, <3>4
  <2> QED BY <1>1, <1>6, <2>1, <2>2
<1>10. CASE b - d >= d
  <2>1. Credit(Debited(a)) = IF b - d >= s THEN s ELSE (b - d) - m
    BY <1>1, <1>7, <1>8, <1>10 DEF Credit
  <2> QED BY <1>1, <1>6, <2>1
<1> QED BY <1>9, <1>10

(* A refill is whole draws. *)
LEMMA ResetCredit ==
    ASSUME NEW w \in Workers, NEW a \in Priority(w)
    PROVE  Credit(Reset(a)) = Small
<1>1. a[2] # GroupSize
  BY PriorityBelowCash
<1>2. Reset(a) = [balance |-> Small, depleted |-> FALSE]
  BY <1>1 DEF Reset
<1>3. Small \in Nat /\ Small >= DrawAmount
  <2>1. PICK d \in Nat \ {0}, s \in Nat \ {0} : d = DrawAmount /\ s = Small
    BY PGBenchAssumption DEF PGBenchAssumption
  <2>2. PICK q \in Int : s = d * q
    BY <2>1, SmallIsDraws
  <2>3. ASSUME q <= 0 PROVE FALSE
    <3>1. d * q <= d * 0
      BY <2>3, Product
    <3> QED BY <2>2, <3>1
  <2>4. d * 1 <= d * q
    BY <2>3, Product
  <2> QED BY <2>1, <2>2, <2>4
<1> QED BY <1>2, <1>3, Numbers DEF Credit

LEMMA CreditType ==
    ASSUME BenchTypeOK, NEW w \in Workers
    PROVE  /\ credit \in [Groups -> Int]
           /\ \A a \in Priority(w) : credit[a] \in Int
           /\ Credits(w) \in Int /\ RestCredits(w) \in Int
<1>1. credit \in [Groups -> Int]
  BY RowCredit DEF credit, BenchTypeOK
<1>2. \A a \in Priority(w) : credit[a] \in Int
  BY <1>1, PriorityAccounts
<1>3. PICK f : f = credit
  OBVIOUS
<1>4. IsFiniteSet(Priority(w)) /\ IsFiniteSet(Rest(w)) /\ Rest(w) \subseteq Priority(w)
  BY PriorityAccounts, FS_Subset DEF Rest
<1>5. Total(f, Priority(w)) \in Int /\ Total(f, Rest(w)) \in Int
  BY <1>2, <1>3, <1>4, TotalType
<1> QED BY <1>1, <1>2, <1>3, <1>5 DEF Credits, RestCredits

(* What leaves the rows alone, or resets some, leaves the credits, or raises    *)
(* them.                                                                    *)
LEMMA CreditsRise ==
    ASSUME BenchTypeOK, BenchTypeOK', NEW w \in Workers,
           \A a \in Priority(w) : acct'[a] \in {acct[a], Reset(a)}
    PROVE  /\ Credits(w)' \in Int /\ Credits(w)' >= Credits(w)
           /\ RestCredits(w)' \in Int /\ RestCredits(w)' >= RestCredits(w)
<1>1. PICK f, g, S, T : f = credit /\ g = credit' /\ S = Priority(w) /\ T = Rest(w)
  OBVIOUS
<1>2. \A a \in S : f[a] \in Int /\ g[a] \in Int /\ f[a] <= g[a]
  <2> SUFFICES ASSUME NEW a \in S PROVE f[a] \in Int /\ g[a] \in Int /\ f[a] <= g[a]
    OBVIOUS
  <2>1. a \in Groups /\ a \in Priority(w)
    BY <1>1, PriorityAccounts
  <2>2. f[a] = Credit(acct[a]) /\ g[a] = Credit(acct'[a])
    BY <1>1, <2>1 DEF credit, Credit
  <2>3. acct[a] \in [balance : Int, depleted : BOOLEAN]
    BY <2>1 DEF BenchTypeOK
  <2>4. f[a] \in Int /\ f[a] <= Small /\ Small \in Int
    BY <2>2, <2>3, RowCredit, Numbers
  <2>5. CASE acct'[a] = acct[a]
    BY <2>2, <2>4, <2>5
  <2>6. CASE acct'[a] = Reset(a)
    <3>1. Credit(Reset(a)) = Small
      BY <2>1, ResetCredit
    <3> QED BY <2>2, <2>4, <2>6, <3>1
  <2> QED BY <2>1, <2>5, <2>6
<1>3. IsFiniteSet(S) /\ IsFiniteSet(T) /\ T \subseteq S
  BY <1>1, PriorityAccounts, FS_Subset DEF Rest
<1>4. /\ Total(f, S) <= Total(g, S) /\ Total(f, S) \in Int /\ Total(g, S) \in Int
      /\ Total(f, T) <= Total(g, T) /\ Total(f, T) \in Int /\ Total(g, T) \in Int
  <2>1. \A a \in T : f[a] \in Int /\ g[a] \in Int /\ f[a] <= g[a]
    BY <1>2, <1>3
  <2> QED BY <1>2, <1>3, <2>1, TotalMonotone, TotalType
<1>5. /\ Credits(w) = Total(f, S) /\ Credits(w)' = Total(g, S)
      /\ RestCredits(w) = Total(f, T) /\ RestCredits(w)' = Total(g, T)
  BY <1>1 DEF Credits, RestCredits, Rest, Priority
<1> QED BY <1>4, <1>5

LEMMA CreditsKept ==
    ASSUME BenchTypeOK, BenchTypeOK', NEW w \in Workers,
           \A a \in Priority(w) : acct'[a] = acct[a]
    PROVE  Credits(w)' = Credits(w)
<1>1. \A a \in Priority(w) : credit'[a] = credit[a] /\ credit[a] \in Int
  BY PriorityAccounts, CreditType DEF credit
<1>2. PICK f, g : f = credit /\ g = credit'
  OBVIOUS
<1>3. Total(f, Priority(w)) = Total(g, Priority(w))
  BY <1>1, <1>2, PriorityAccounts, TotalAgree
<1>4. Credits(w)' = Total(g, Priority(w))
  BY <1>2 DEF Credits, Priority
<1> QED BY <1>2, <1>3, <1>4 DEF Credits

(* A draw from a credit account is one draw less at most; one from cash leaves  *)
(* the credits alone.                                                       *)
LEMMA DrawCredits ==
    ASSUME BInv, BenchTypeOK', NEW w \in Workers, NEW a \in {w} \X (1 .. GroupSize),
           NEW answered \in BOOLEAN, Payable(a), Draw(w, a, answered)
    PROVE  /\ a[2] # GroupSize =>
                 /\ Credits(w)' \in Int /\ Credits(w)' >= Credits(w) - DrawAmount
                 /\ cashDrawn'[w] = cashDrawn[w]
           /\ a[2] = GroupSize =>
                 Credits(w)' = Credits(w) /\ cashDrawn'[w] = cashDrawn[w] + DrawAmount
           /\ \A v \in Workers \ {w} :
                 /\ cashDrawn'[v] = cashDrawn[v]
                 /\ \A b \in {v} \X (1 .. GroupSize) : acct'[b] = acct[b]
<1>1. a \in Groups /\ \A v \in Workers : {v} \X (1 .. GroupSize) \subseteq Groups
  BY DEF Groups
<1>2. acct' = [acct EXCEPT ![a] = Debited(a)]
  BY DEF Draw
<1>3. \A b \in Groups \ {a} : acct'[b] = acct[b]
  BY <1>2 DEF BInv, BenchTypeOK
<1>4. acct'[a] = Debited(a)
  BY <1>1, <1>2 DEF BInv, BenchTypeOK
<1>5. /\ cashDrawn'[w] = cashDrawn[w] + (IF a[2] = GroupSize THEN DrawAmount ELSE 0)
      /\ \A v \in Workers \ {w} : cashDrawn'[v] = cashDrawn[v]
  BY DEF Draw, BInv, BenchTypeOK
<1>6. cashDrawn[w] \in Int
  BY DEF BInv, BenchTypeOK
<1>7. CASE a[2] = GroupSize
  <2>1. \A b \in Priority(w) : b # a /\ b \in Groups
    BY <1>7, PriorityAccounts, PriorityBelowCash
  <2>2. Credits(w)' = Credits(w)
    BY <1>3, <2>1, CreditsKept DEF BInv
  <2> QED BY <1>1, <1>3, <1>5, <1>7, <2>2
<1>8. CASE a[2] # GroupSize
  <2>1. a \in Priority(w)
    BY <1>8, PriorityAccounts
  <2>2. PICK f, g, S : f = credit /\ g = credit' /\ S = Priority(w)
    OBVIOUS
  <2>3. \A b \in S \ {a} : f[b] = g[b]
    BY <1>3, <2>2, PriorityAccounts DEF credit
  <2>4. g[a] \in Int /\ g[a] >= f[a] - DrawAmount
    BY <1>1, <1>4, <2>2, DebitedCredit DEF credit
  <2>5. \A b \in S : f[b] \in Int /\ g[b] \in Int
    <3>1. \A b \in S : f[b] \in Int
      BY <2>2, CreditType DEF BInv
    <3> QED BY <2>3, <2>4, <3>1
  <2>6. IsFiniteSet(S) /\ a \in S
    BY <2>1, <2>2, PriorityAccounts
  <2>7. Total(g, S) = Total(f, S) + g[a] - f[a]
    BY <2>3, <2>5, <2>6, TotalPoint
  <2>8. Total(f, S) \in Int /\ Total(g, S) \in Int
    BY <2>5, <2>6, TotalType
  <2>9. Credits(w) = Total(f, S) /\ Credits(w)' = Total(g, S)
    BY <2>2 DEF Credits, Priority
  <2>10. Credits(w)' \in Int /\ Credits(w)' >= Credits(w) - DrawAmount
    BY <2>4, <2>5, <2>6, <2>7, <2>8, <2>9, Numbers
  <2> QED BY <1>1, <1>3, <1>5, <1>6, <1>8, <2>10
<1> QED BY <1>7, <1>8

LEMMA RestUsedUp ==
    ASSUME BenchTypeOK, NEW w \in Workers, \A a \in Rest(w) : ~Payable(a)
    PROVE  RestCredits(w) = 0
<1>1. Rest(w) \subseteq Groups /\ IsFiniteSet(Rest(w))
  BY PriorityAccounts, FS_Subset DEF Rest
<1>2. \A a \in Rest(w) : credit[a] = 0
  <2> SUFFICES ASSUME NEW a \in Rest(w) PROVE credit[a] = 0
    OBVIOUS
  <2>1. a \in Groups /\ acct[a].balance \in Int /\ ~Payable(a)
    BY <1>1 DEF BenchTypeOK
  <2> QED BY <2>1, NoCredit DEF credit
<1> QED BY <1>1, <1>2, TotalZero DEF RestCredits

(* When the first account cannot pay, the credits are those of the others.     *)
LEMMA FirstUsedUp ==
    ASSUME BenchTypeOK, NEW w \in Workers, ~Payable(<<w, 1>>)
    PROVE  Credits(w) = RestCredits(w)
<1>1. PICK f, S, T : f = credit /\ S = Priority(w) /\ T = Rest(w)
  OBVIOUS
<1>2. IsFiniteSet(S) /\ T \subseteq S /\ <<w, 1>> \in Groups
  BY <1>1, PriorityAccounts DEF Rest
<1>3. \A a \in S \ T : f[a] = 0
  <2>1. S \ T \subseteq {<<w, 1>>} /\ acct[<<w, 1>>].balance \in Int
    BY <1>1, <1>2 DEF Rest, BenchTypeOK
  <2>2. credit[<<w, 1>>] = 0
    BY <1>2, <2>1, NoCredit DEF credit
  <2> QED BY <1>1, <2>1, <2>2
<1>4. \A a \in S : f[a] \in Int
  BY <1>1, CreditType
<1>5. Total(f, S) = Total(f, T)
  BY <1>2, <1>3, <1>4, TotalSupport
<1> QED BY <1>1, <1>5 DEF Credits, RestCredits

(* A refill is the credits of a cycle, but for the accounts it missed.        *)
LEMMA ResetCredits ==
    ASSUME BInv, BenchTypeOK', NEW w \in Workers,
           NEW failed, \A a \in Priority(w) \ failed : acct'[a] = Reset(a),
           \A a \in Priority(w) \cap failed : acct'[a] = acct[a]
    PROVE  /\ Small * Cardinality(failed \cap Priority(w)) \in Nat
           /\ Credits(w)' \in Int /\ Small * (GroupSize - 1) \in Int
           /\ Credits(w)' + Small * Cardinality(failed \cap Priority(w))
                 >= Small * (GroupSize - 1)
<1>1. PICK S, A, f : S = Priority(w) /\ A = S \ failed /\ f = credit'
  OBVIOUS
<1> DEFINE g == [a \in S |-> IF a \in A THEN Small ELSE 0]
<1>2. IsFiniteSet(S) /\ A \subseteq S /\ S \subseteq Groups
  BY <1>1, PriorityAccounts
<1>3. IsFiniteSet(A) /\ IsFiniteSet(failed \cap S)
  BY <1>1, <1>2, FS_Subset
<1>4. \A a \in S : f[a] \in Int /\ g[a] \in Int /\ g[a] <= f[a]
  <2> SUFFICES ASSUME NEW a \in S PROVE f[a] \in Int /\ g[a] \in Int /\ g[a] <= f[a]
    OBVIOUS
  <2>1. f[a] = Credit(acct'[a])
    BY <1>1, <1>2 DEF credit, Credit
  <2>2. CASE a \in A
    <3>1. f[a] = Small
      BY <1>1, <2>1, <2>2, ResetCredit
    <3> QED BY <2>2, <3>1, Numbers
  <2>3. CASE a \notin A
    <3>1. acct'[a] = acct[a] /\ a \in Groups
      BY <1>1, <1>2, <2>3
    <3>2. f[a] \in Int /\ f[a] >= 0
      BY <2>1, <3>1, RowCredit DEF BInv, BenchTypeOK
    <3> QED BY <2>3, <3>2
  <2> QED BY <2>2, <2>3
<1>5. Total(g, S) = Small * Cardinality(A)
  <2>1. \A a \in A : g[a] = Small
    BY <1>2
  <2>2. \A a \in S \ A : g[a] = 0
    OBVIOUS
  <2> HIDE DEF g
  <2>3. Total(g, S) = Total(g, A)
    BY <1>2, <1>4, <2>2, TotalSupport
  <2>4. Small \in Int
    BY Numbers
  <2>5. Total(g, A) = Small * Cardinality(A)
    BY <1>3, <2>1, <2>4, TotalEqual
  <2> QED BY <2>3, <2>5
<1> HIDE DEF g
<1>6. Total(g, S) <= Total(f, S)
  BY <1>2, <1>4, TotalMonotone
<1>7. /\ Cardinality(A) = Cardinality(S) - Cardinality(S \cap failed)
      /\ Cardinality(S) = GroupSize - 1
      /\ Cardinality(failed \cap S) \in Nat /\ Cardinality(S \cap failed) \in Nat
      /\ failed \cap S = S \cap failed
  <2>1. Cardinality(A) = Cardinality(S) - Cardinality(S \cap failed)
    BY <1>1, <1>2, FS_Difference
  <2>2. failed \cap S = S \cap failed
    OBVIOUS
  <2>3. Cardinality(failed \cap S) \in Nat
    BY <1>3, FS_CardinalityType
  <2> QED BY <1>1, <2>1, <2>2, <2>3, PriorityAccounts
<1>8. Small * ((GroupSize - 1) - Cardinality(failed \cap S))
         = Small * (GroupSize - 1) - Small * Cardinality(failed \cap S)
  BY <1>7, Numbers
<1>9. Credits(w)' = Total(f, S)
  BY <1>1 DEF Credits, Priority
<1>10. Total(f, S) \in Int
  BY <1>2, <1>4, TotalType
<1>11. /\ Small * (GroupSize - 1) \in Int
       /\ Small * Cardinality(failed \cap S) \in Nat
  <2>1. \A m, n \in Nat : m * n \in Nat
    OBVIOUS
  <2> QED BY <1>7, <2>1, Numbers
<1>12. Total(f, S) + Small * Cardinality(failed \cap S) >= Small * (GroupSize - 1)
  <2>1. Cardinality(A) = (GroupSize - 1) - Cardinality(failed \cap S)
    BY <1>7
  <2>2. Total(g, S) = Small * (GroupSize - 1) - Small * Cardinality(failed \cap S)
    BY <1>5, <1>8, <2>1
  <2>3. PICK p \in Int, q \in Int : /\ p = Small * (GroupSize - 1)
                                  /\ q = Small * Cardinality(failed \cap S)
    BY <1>11
  <2>4. PICK x \in Int, y \in Int : x = Total(f, S) /\ y = Total(g, S)
    BY <1>10, <2>2, <2>3
  <2>5. y = p - q /\ y <= x
    BY <1>6, <2>2, <2>3, <2>4
  <2>6. x + q >= p
    BY <2>5
  <2> QED BY <2>3, <2>4, <2>6
<1> QED BY <1>1, <1>9, <1>10, <1>11, <1>12

-----------------------------------------------------------------------------
LEMMA NetTypes ==
    ASSUME BInv, NEW w \in Workers
    PROVE  /\ Spent(w) \in Nat /\ excuse[w] \in Nat /\ cashDrawn[w] \in Nat
           /\ lateDraws[w] \in Nat /\ DrawAmount * lateDraws[w] \in Nat
           /\ Credits(w) \in Int /\ RestCredits(w) \in Int
           /\ DrawAmount * ToDraw(w) \in Nat
<1>1. cashDrawn[w] \in Nat /\ lateDraws[w] \in Nat /\ excuse[w] \in Nat
  BY DEF BInv, BenchTypeOK
<1>2. \A m, n \in Nat : m * n \in Nat
  OBVIOUS
<1>3. DrawAmount * lateDraws[w] \in Nat
  BY <1>1, <1>2, Numbers
<1>4. Spent(w) \in Nat
  BY <1>1, <1>3 DEF Spent
<1>5. BenchTypeOK
  BY DEF BInv
<1> QED BY <1>1, <1>3, <1>4, <1>5, CreditType, ToDrawType

(* What does not touch the statements of a worker and its counts, nor its       *)
(* accounts but to reset them, leaves its net; it may be excused for more, or  *)
(* leave its loop.                                                          *)
LEMMA NetKept ==
    ASSUME BInv, BenchTypeOK', NEW w \in Workers, Covered(w),
           cashDrawn'[w] = cashDrawn[w], lateDraws'[w] = lateDraws[w],
           drawCounts'[w] = drawCounts[w], excuse'[w] >= excuse[w],
           doing'[w] = doing[w] \/ (doing[w] # "topup" /\ doing'[w] \notin {"topup", "fallback"})
              \/ stage' # "waterfall",
           stage' = "waterfall" =>
              /\ stage = "waterfall"
              /\ \A a \in Priority(w) : acct'[a] \in {acct[a], Reset(a)}
    PROVE  Covered(w)'
<1>1. excuse'[w] \in Nat /\ Spent(w)' = Spent(w)
  BY DEF BenchTypeOK, Spent
<1>2. Spent(w)' <= excuse'[w]
  BY <1>1, NetTypes DEF Covered
<1>3. ASSUME stage' = "waterfall"
      PROVE  /\ Spent(w)' + DrawAmount * ToDraw(w)' <= excuse'[w] + Credits(w)'
             /\ doing'[w] = "fallback" =>
                   \/ Spent(w)' + DrawAmount * ToDraw(w)' <= excuse'[w] + RestCredits(w)'
                   \/ Spent(w)' + DrawAmount <= excuse'[w]
  <2>1. /\ Spent(w) + DrawAmount * ToDraw(w) <= excuse[w] + Credits(w)
        /\ doing[w] = "fallback" =>
              \/ Spent(w) + DrawAmount * ToDraw(w) <= excuse[w] + RestCredits(w)
              \/ Spent(w) + DrawAmount <= excuse[w]
    BY <1>3 DEF Covered
  <2>2. ToDraw(w)' = ToDraw(w)
    BY <1>3 DEF ToDraw, topUpEvery
  <2>3. /\ Credits(w)' \in Int /\ Credits(w)' >= Credits(w)
        /\ RestCredits(w)' \in Int /\ RestCredits(w)' >= RestCredits(w)
    BY <1>3, CreditsRise DEF BInv
  <2>4. doing'[w] = "fallback" => doing[w] = "fallback"
    BY <1>3
  <2> QED BY <1>1, <2>1, <2>2, <2>3, <2>4, NetTypes, Numbers
<1> QED BY <1>2, <1>3 DEF Covered

LEMMA InitNet == BenchInit => CreditInv
<1> SUFFICES ASSUME BenchInit PROVE CreditInv
  OBVIOUS
<1>1. stage = "fetch"
  BY DEF BenchInit
<1>2. \A w \in Workers :
         drawCounts[w] = 0 /\ lateDraws[w] = 0 /\ cashDrawn[w] = 0 /\ excuse[w] = 0
  BY DEF BenchInit
<1>3. DrawAmount * 0 = 0
  BY Numbers
<1> QED BY <1>1, <1>2, <1>3 DEF CreditInv, Covered, Spent

(* The steps of main, other than the set-up, and those of scenarios 2 and 3.   *)
LEMMA OtherNet ==
    ASSUME BInv, BInv', CreditInv,
           Fetch \/ EndScenario \/ PreFundHot \/ LateDeposit \/ LateWithdraw
              \/ (\E w \in Workers : WithdrawHot(w) \/ FanOutBatch(w) \/ Leave(w))
    PROVE  CreditInv'
<1>1. UNCHANGED <<lateDraws, drawCounts, cashDrawn, excuse>>
  BY DEF Fetch, EndScenario, PreFundHot, LateDeposit, LateWithdraw, WithdrawHot, FanOutBatch,
         Leave, groups, benchHistory
<1>2. \/ stage' # "waterfall" /\ (stage' = "setup" => stage = "fetch") /\ stage' # "fetch"
      \/ \E w \in Workers : Leave(w)
  <2>1. CASE Fetch
    BY <2>1, AfterType DEF Fetch, Enter
  <2>2. CASE EndScenario
    BY <2>2 DEF EndScenario, Enter, After
  <2>3. CASE PreFundHot
    BY <2>3 DEF PreFundHot
  <2>4. CASE \E w \in Workers : WithdrawHot(w) \/ FanOutBatch(w)
    BY <2>4 DEF WithdrawHot, FanOutBatch, Calls
  <2>5. CASE LateDeposit \/ LateWithdraw
    <3>1. Late
      <4>1. CASE LateDeposit
        BY <4>1 DEF LateDeposit, BInv, Funds
      <4>2. CASE LateWithdraw
        BY <4>2 DEF LateWithdraw, BInv, Funds
      <4> QED BY <2>5, <4>1, <4>2
    <3>2. stage' = stage
      BY <2>5 DEF LateDeposit, LateWithdraw
    <3> QED BY <3>1, <3>2 DEF Late
  <2> QED BY <2>1, <2>2, <2>3, <2>4, <2>5
<1>3. ASSUME NEW v \in Workers PROVE Covered(v)'
  <2>1. Covered(v) /\ excuse'[v] >= excuse[v]
    BY <1>1, NetTypes DEF CreditInv
  <2>2. CASE stage' # "waterfall"
    BY <1>1, <2>1, <2>2, NetKept DEF BInv
  <2>3. CASE \E w \in Workers : Leave(w)
    <3>1. PICK w \in Workers : Leave(w)
      BY <2>3
    <3>2. /\ doing'[v] = doing[v] \/ (doing[v] = "loop" /\ doing'[v] = "returned")
          /\ stage' = stage /\ acct' = acct
      BY <3>1 DEF Leave, groups, BInv, BenchTypeOK
    <3> QED BY <1>1, <2>1, <3>2, NetKept DEF BInv
  <2> QED BY <1>2, <2>2, <2>3
<1>4. stage' \in {"fetch", "setup"} => stage \in {"fetch", "setup"}
  BY <1>2 DEF Leave, Running
<1> QED BY <1>1, <1>3, <1>4 DEF CreditInv

LEMMA SetUpNet ==
    ASSUME BInv, BInv', CreditInv, SetUp
    PROVE  CreditInv'
<1>1. /\ stage = "setup" /\ stage' = "waterfall" /\ StartGoroutines
      /\ UNCHANGED <<lateDraws, drawCounts, cashDrawn>>
  BY DEF SetUp
<1>2. PICK failed \in SUBSET Groups : \E late : ResetAll(Groups, failed, late)
  BY DEF SetUp, Failures
<1>3. ASSUME NEW w \in Workers PROVE Covered(w)'
  <2>1. drawCounts[w] = 0 /\ lateDraws[w] = 0 /\ cashDrawn[w] = 0
    BY <1>1 DEF CreditInv
  <2>2. Spent(w)' = 0
    <3>1. DrawAmount * 0 = 0
      BY Numbers
    <3> QED BY <1>1, <2>1, <3>1 DEF Spent
  <2>3. doing'[w] = "loop"
    BY <1>1 DEF StartGoroutines
  <2>4. DrawAmount * ToDraw(w)' \in Int /\ DrawAmount * ToDraw(w)' <= Small * (GroupSize - 1)
    <3>1. PICK t \in Nat \ {0} : t = topUpEvery
      BY Cycle
    <3>2. 0 % t \in 0 .. t - 1
      <4>1. PICK z \in Int : z = 0
        OBVIOUS
      <4>2. z % t \in 0 .. t - 1
        BY DivMod
      <4> QED BY <4>1, <4>2
    <3>3. ToDraw(w)' = t - (0 % t)
      BY <1>1, <2>1, <2>3, <3>1 DEF ToDraw, topUpEvery
    <3>4. ToDraw(w)' \in Int /\ ToDraw(w)' <= t
      BY <3>2, <3>3
    <3> QED BY <3>1, <3>4, Cycle, Product, Numbers
  <2>5. /\ \A a \in Priority(w) \ failed : acct'[a] = Reset(a)
        /\ \A a \in Priority(w) \cap failed : acct'[a] = acct[a]
        /\ excuse'[w] = excuse[w] + Small * Cardinality(failed \cap Priority(w))
    BY <1>2, PriorityAccounts DEF ResetAll
  <2>6. Credits(w)' + Small * Cardinality(failed \cap Priority(w)) >= Small * (GroupSize - 1)
    BY <1>1, <2>5, ResetCredits DEF BInv
  <2>7. /\ Credits(w)' \in Int /\ Small * (GroupSize - 1) \in Int
        /\ Small * Cardinality(failed \cap Priority(w)) \in Nat
    BY <1>1, <2>5, ResetCredits DEF BInv
  <2>8. excuse[w] \in Nat
    BY NetTypes
  <2>9. Spent(w)' + DrawAmount * ToDraw(w)' <= excuse'[w] + Credits(w)'
    BY <2>2, <2>4, <2>5, <2>6, <2>7, <2>8
  <2> QED BY <2>2, <2>3, <2>5, <2>7, <2>8, <2>9 DEF Covered
<1> QED BY <1>1, <1>3 DEF CreditInv

LEMMA TopUpNet ==
    ASSUME BInv, BInv', CreditInv, NEW w \in Workers, TopUp(w)
    PROVE  CreditInv'
<1>1. /\ stage = "waterfall" /\ doing[w] = "topup" /\ doing' = [doing EXCEPT ![w] = "loop"]
      /\ UNCHANGED <<stage, lateDraws, drawCounts, cashDrawn>>
  BY DEF TopUp, BInv, Working
<1>2. PICK failed \in SUBSET Priority(w) : \E late : ResetAll(Priority(w), failed, late)
  BY DEF TopUp, Failures
<1>3. Covered(w)'
  <2>1. Spent(w)' = Spent(w) /\ Spent(w) <= excuse[w] /\ Spent(w) \in Nat /\ excuse[w] \in Nat
    BY <1>1, NetTypes DEF Spent, CreditInv, Covered
  <2>2. doing'[w] = "loop"
    BY <1>1 DEF BInv, BenchTypeOK
  <2>3. /\ DrawAmount * ToDraw(w)' \in Int
        /\ DrawAmount * ToDraw(w)' <= Small * (GroupSize - 1)
    <3>1. PICK n \in Nat, t \in Nat \ {0} : n = drawCounts[w] /\ t = topUpEvery
      BY Cycle DEF BInv, BenchTypeOK
    <3>2. n % t \in 0 .. t - 1
      BY DivMod
    <3>3. ToDraw(w)' = t - (n % t)
      BY <1>1, <2>2, <3>1 DEF ToDraw, topUpEvery
    <3>4. ToDraw(w)' \in Int /\ ToDraw(w)' <= t
      BY <3>2, <3>3
    <3> QED BY <3>1, <3>4, Cycle, Product, Numbers
  <2>4. /\ \A a \in Priority(w) \ failed : acct'[a] = Reset(a)
        /\ \A a \in Priority(w) \cap failed : acct'[a] = acct[a]
        /\ excuse'[w] = excuse[w] + Small * Cardinality(failed \cap Priority(w))
    BY <1>2, PriorityAccounts DEF ResetAll
  <2>5. /\ Credits(w)' + Small * Cardinality(failed \cap Priority(w)) >= Small * (GroupSize - 1)
        /\ Credits(w)' \in Int /\ Small * (GroupSize - 1) \in Int
        /\ Small * Cardinality(failed \cap Priority(w)) \in Nat
    BY <1>1, <2>4, ResetCredits DEF BInv
  <2>6. Spent(w)' <= excuse'[w]
    BY <2>1, <2>4, <2>5
  <2>7. Spent(w)' + DrawAmount * ToDraw(w)' <= excuse'[w] + Credits(w)'
    BY <2>1, <2>3, <2>4, <2>5
  <2> QED BY <2>2, <2>6, <2>7 DEF Covered
<1>4. ASSUME NEW v \in Workers \ {w} PROVE Covered(v)'
  <2>1. \A a \in {v} \X (1 .. GroupSize) : acct'[a] = acct[a]
    <3>1. \A a \in {v} \X (1 .. GroupSize) : a \in Groups /\ a \notin Priority(w)
      BY PriorityAccounts DEF Groups
    <3> QED BY <1>2, <3>1 DEF ResetAll
  <2>2. excuse'[v] >= excuse[v]
    <3>1. failed \cap Priority(v) = {}
      BY DEF Priority
    <3>2. excuse'[v] = excuse[v] + Small * 0
      BY <1>2, <3>1, FS_EmptySet DEF ResetAll
    <3> QED BY <3>2, NetTypes, Numbers
  <2>3. doing'[v] = doing[v]
    BY <1>1 DEF BInv, BenchTypeOK
  <2>4. BenchTypeOK' /\ Covered(v) /\ v \in Workers
    BY DEF CreditInv, BInv
  <2>5. \A a \in Priority(v) : acct'[a] = acct[a]
    BY <2>1, PriorityRows
  <2> QED BY <1>1, <2>2, <2>3, <2>4, <2>5, NetKept
<1> QED BY <1>1, <1>3, <1>4 DEF CreditInv

(* What is left to show of a step of worker w in the waterfall.              *)
LEMMA OwnNet ==
    ASSUME BInv, BInv', CreditInv, NEW w \in Workers, stage = "waterfall", stage' = "waterfall",
           Covered(w)',
           \A v \in Workers \ {w} :
              /\ doing'[v] = doing[v] /\ drawCounts'[v] = drawCounts[v]
              /\ cashDrawn'[v] = cashDrawn[v] /\ lateDraws'[v] = lateDraws[v]
              /\ excuse'[v] = excuse[v]
              /\ \A a \in {v} \X (1 .. GroupSize) : acct'[a] = acct[a]
    PROVE  CreditInv'
<1>1. ASSUME NEW v \in Workers \ {w} PROVE Covered(v)'
  <2>1. excuse'[v] >= excuse[v] /\ v \in Workers
    BY NetTypes
  <2>2. BenchTypeOK' /\ Covered(v)
    BY DEF CreditInv, BInv
  <2>3. \A a \in Priority(v) : acct'[a] = acct[a]
    BY PriorityRows
  <2> QED BY <2>1, <2>2, <2>3, NetKept
<1> QED BY <1>1 DEF CreditInv

LEMMA FastPathNet ==
    ASSUME BInv, BInv', CreditInv, NEW w \in Workers, FastPath(w)
    PROVE  CreditInv'
<1> DEFINE a == <<w, 1>>
<1>1. a \in {w} \X (1 .. GroupSize) /\ a[2] # GroupSize
  BY PGBenchAssumption DEF PGBenchAssumption
<1>2. stage = "waterfall" /\ stage' = "waterfall" /\ doing[w] = "loop"
  BY DEF FastPath, Calls
<1>3. /\ Spent(w) <= excuse[w]
      /\ Spent(w) + DrawAmount * ToDraw(w) <= excuse[w] + Credits(w)
  BY <1>2 DEF CreditInv, Covered
<1> HIDE DEF a
<1>4. CASE /\ Payable(a) /\ Draw(w, a, TRUE) /\ Succeed(w)
           /\ UNCHANGED <<lateDraws, faults, excuse>>
  <2>1. /\ Credits(w)' \in Int /\ Credits(w)' >= Credits(w) - DrawAmount
        /\ cashDrawn'[w] = cashDrawn[w]
        /\ \A v \in Workers \ {w} :
              /\ cashDrawn'[v] = cashDrawn[v]
              /\ \A b \in {v} \X (1 .. GroupSize) : acct'[b] = acct[b]
    BY <1>1, <1>4, DrawCredits DEF BInv
  <2>2. /\ DrawAmount * ToDraw(w)' = DrawAmount * ToDraw(w) - DrawAmount
        /\ doing'[w] \in {"topup", "loop"}
        /\ \A v \in Workers \ {w} : doing'[v] = doing[v] /\ drawCounts'[v] = drawCounts[v]
    BY <1>2, <1>4, CountedJobs
  <2>3. Spent(w)' = Spent(w) /\ excuse' = excuse /\ lateDraws' = lateDraws
    BY <1>4, <2>1 DEF Spent
  <2>4. Spent(w)' + DrawAmount * ToDraw(w)' <= excuse'[w] + Credits(w)'
    BY <1>3, <2>1, <2>2, <2>3, NetTypes, Numbers
  <2>5. Covered(w)'
    BY <1>3, <2>2, <2>3, <2>4 DEF Covered
  <2> QED BY <1>2, <2>1, <2>2, <2>3, <2>5, OwnNet
<1>5. ASSUME doing' = [doing EXCEPT ![w] = "fallback"], UNCHANGED drawCounts
      PROVE  /\ doing'[w] = "fallback" /\ ToDraw(w)' = ToDraw(w)
             /\ \A v \in Workers \ {w} : doing'[v] = doing[v] /\ drawCounts'[v] = drawCounts[v]
  <2>1. doing'[w] = "fallback" /\ \A v \in Workers \ {w} : doing'[v] = doing[v]
    BY <1>5 DEF BInv, BenchTypeOK
  <2> QED BY <1>2, <1>5, <2>1 DEF ToDraw, topUpEvery
<1>6. ASSUME NoDraw
      PROVE  /\ Credits(w)' = Credits(w) /\ cashDrawn' = cashDrawn
             /\ acct' = acct
  BY <1>6, CreditsKept DEF NoDraw, BInv
<1>7. CASE ~Payable(a) /\ NoDraw /\ FallBack(w) /\ UNCHANGED <<lateDraws, faults, excuse>>
  <2>1. /\ doing'[w] = "fallback" /\ ToDraw(w)' = ToDraw(w)
        /\ \A v \in Workers \ {w} : doing'[v] = doing[v] /\ drawCounts'[v] = drawCounts[v]
    BY <1>5, <1>7 DEF FallBack
  <2>2. Spent(w)' = Spent(w) /\ excuse' = excuse /\ lateDraws' = lateDraws
    BY <1>6, <1>7 DEF Spent
  <2>3. Credits(w) = RestCredits(w)
    BY <1>7, FirstUsedUp DEF a, BInv
  <2>4. RestCredits(w)' \in Int /\ RestCredits(w)' >= RestCredits(w)
    BY <1>6, <1>7, CreditsRise DEF BInv
  <2>5. Spent(w)' + DrawAmount * ToDraw(w)' <= excuse'[w] + RestCredits(w)'
    BY <1>3, <2>1, <2>2, <2>3, <2>4, NetTypes
  <2>6. Covered(w)'
    BY <1>3, <1>6, <1>7, <2>1, <2>2, <2>5 DEF Covered
  <2> QED BY <1>2, <1>6, <1>7, <2>1, <2>2, <2>6, OwnNet
<1>8. CASE /\ FallBack(w) /\ Payable(a) /\ Draw(w, a, FALSE) /\ Excuse(w, DrawAmount)
           /\ UNCHANGED lateDraws
  <2>1. /\ doing'[w] = "fallback" /\ ToDraw(w)' = ToDraw(w)
        /\ \A v \in Workers \ {w} : doing'[v] = doing[v] /\ drawCounts'[v] = drawCounts[v]
    BY <1>5, <1>8 DEF FallBack
  <2>2. /\ Credits(w)' \in Int /\ Credits(w)' >= Credits(w) - DrawAmount
        /\ cashDrawn'[w] = cashDrawn[w]
        /\ \A v \in Workers \ {w} :
              /\ cashDrawn'[v] = cashDrawn[v]
              /\ \A b \in {v} \X (1 .. GroupSize) : acct'[b] = acct[b]
    BY <1>1, <1>8, DrawCredits DEF BInv
  <2>3. /\ excuse'[w] = excuse[w] + DrawAmount
        /\ \A v \in Workers \ {w} : excuse'[v] = excuse[v]
    BY <1>8 DEF Excuse, BInv, BenchTypeOK
  <2>4. Spent(w)' = Spent(w)
    BY <1>8, <2>2 DEF Spent
  <2>5. /\ Spent(w)' <= excuse'[w] /\ Spent(w)' + DrawAmount <= excuse'[w]
        /\ Spent(w)' + DrawAmount * ToDraw(w)' <= excuse'[w] + Credits(w)'
    BY <1>3, <2>1, <2>2, <2>3, <2>4, NetTypes, Numbers
  <2>6. Covered(w)'
    BY <2>5 DEF Covered
  <2> QED BY <1>2, <1>8, <2>1, <2>2, <2>3, <2>6, OwnNet
<1>9. CASE /\ FallBack(w) /\ NoDraw
           /\ \E late \in {0, 1} : /\ lateDraws' = [lateDraws EXCEPT ![w] = @ + late]
                                   /\ Excuse(w, (1 + late) * DrawAmount)
  <2>1. /\ doing'[w] = "fallback" /\ ToDraw(w)' = ToDraw(w)
        /\ \A v \in Workers \ {w} : doing'[v] = doing[v] /\ drawCounts'[v] = drawCounts[v]
    BY <1>5, <1>9 DEF FallBack
  <2>2. PICK late \in {0, 1} : /\ lateDraws' = [lateDraws EXCEPT ![w] = @ + late]
                               /\ Excuse(w, (1 + late) * DrawAmount)
    BY <1>9
  <2>3. /\ excuse'[w] = excuse[w] + (1 + late) * DrawAmount
        /\ lateDraws'[w] = lateDraws[w] + late
        /\ \A v \in Workers \ {w} : excuse'[v] = excuse[v] /\ lateDraws'[v] = lateDraws[v]
    BY <2>2 DEF Excuse, BInv, BenchTypeOK
  <2>4. /\ DrawAmount * (lateDraws[w] + late) = DrawAmount * lateDraws[w] + late * DrawAmount
        /\ (1 + late) * DrawAmount = DrawAmount + late * DrawAmount
        /\ late * DrawAmount \in {0, DrawAmount}
    <3>1. PICK d \in Nat, n \in Nat : d = DrawAmount /\ n = lateDraws[w]
      BY NetTypes, Numbers
    <3>2. late = 0 \/ late = 1
      OBVIOUS
    <3>3. d * (n + 0) = d * n + 0 * d /\ d * (n + 1) = d * n + 1 * d
      OBVIOUS
    <3> QED BY <3>1, <3>2, <3>3
  <2>5. Spent(w)' = Spent(w) + late * DrawAmount
    BY <1>6, <1>9, <2>3, <2>4, NetTypes, Numbers DEF Spent
  <2>6. /\ Spent(w)' <= excuse'[w] /\ Spent(w)' + DrawAmount <= excuse'[w]
        /\ Spent(w)' + DrawAmount * ToDraw(w)' <= excuse'[w] + Credits(w)'
    <3>1. PICK x \in Nat, y \in Nat : x = late * DrawAmount /\ y = DrawAmount * ToDraw(w)
      BY <2>4, NetTypes, Numbers
    <3>2. /\ Spent(w)' = Spent(w) + x /\ excuse'[w] = excuse[w] + (DrawAmount + x)
          /\ DrawAmount * ToDraw(w)' = y /\ Credits(w)' = Credits(w)
      BY <1>6, <1>9, <2>1, <2>3, <2>4, <2>5, <3>1
    <3>3. /\ Spent(w) \in Nat /\ excuse[w] \in Nat /\ Credits(w) \in Int /\ DrawAmount \in Nat
          /\ Spent(w) <= excuse[w] /\ Spent(w) + y <= excuse[w] + Credits(w)
      BY <1>3, <3>1, NetTypes, Numbers
    <3>4. PICK s \in Nat, e \in Nat, c \in Int, d \in Nat :
              /\ s = Spent(w) /\ e = excuse[w] /\ c = Credits(w) /\ d = DrawAmount
      BY ONLY <3>3
    <3>5. s <= e /\ s + y <= e + c
      BY ONLY <3>3, <3>4
    <3>6. s + x <= e + (d + x) /\ (s + x) + d <= e + (d + x) /\ (s + x) + y <= (e + (d + x)) + c
      BY ONLY <3>1, <3>4, <3>5
    <3>7. /\ Spent(w)' = s + x /\ excuse'[w] = e + (d + x)
          /\ DrawAmount * ToDraw(w)' = y /\ Credits(w)' = c /\ DrawAmount = d
      BY ONLY <3>2, <3>4
    <3> QED BY ONLY <3>6, <3>7
  <2>7. Covered(w)'
    BY <2>6 DEF Covered
  <2> QED BY <1>2, <1>6, <1>9, <2>1, <2>3, <2>7, OwnNet
<1> QED BY <1>4, <1>7, <1>8, <1>9 DEF FastPath, a

LEMMA FallbackNet ==
    ASSUME BInv, BInv', CreditInv, NEW w \in Workers, Fallback(w)
    PROVE  CreditInv'
<1>1. /\ stage = "waterfall" /\ stage' = "waterfall" /\ doing[w] = "fallback"
      /\ UNCHANGED lateDraws
  BY DEF Fallback, BInv, Working
<1>2. /\ Spent(w) <= excuse[w]
      /\ Spent(w) + DrawAmount * ToDraw(w) <= excuse[w] + Credits(w)
      /\ \/ Spent(w) + DrawAmount * ToDraw(w) <= excuse[w] + RestCredits(w)
         \/ Spent(w) + DrawAmount <= excuse[w]
  BY <1>1 DEF CreditInv, Covered
<1>3. DrawAmount * ToDraw(w) >= DrawAmount
  <2>1. PICK n \in Nat \ {0}, d \in Nat : n = ToDraw(w) /\ d = DrawAmount
    BY <1>1, ToDrawType, Numbers
  <2>2. d * 1 <= d * n
    BY Product
  <2> QED BY <2>1, <2>2
<1>4. \A a \in Payer(w) : a \in {w} \X (1 .. GroupSize) /\ Payable(a)
  BY Numbers DEF Payer
<1>5. ASSUME NEW a \in Payer(w), a[2] = GroupSize
      PROVE  Spent(w) + DrawAmount <= excuse[w]
  <2>1. ASSUME NEW b \in Rest(w) PROVE ~Payable(b)
    <3>1. PICK n \in 1 .. GroupSize - 1 : b = <<w, n>>
      BY DEF Rest, Priority
    <3>2. n # 1 /\ n < GroupSize /\ n \in 2 .. GroupSize
      BY <3>1, Numbers DEF Rest
    <3>3. Payable(b) => a[2] <= n
      BY <3>1, <3>2 DEF Payer
    <3> QED BY <1>5, <3>2, <3>3, Numbers
  <2>2. RestCredits(w) = 0
    BY <2>1, RestUsedUp DEF BInv
  <2>3. CASE Spent(w) + DrawAmount * ToDraw(w) <= excuse[w] + RestCredits(w)
    BY <1>3, <2>2, <2>3, NetTypes, Numbers
  <2> QED BY <1>2, <2>3
<1>6. CASE (\E a \in Payer(w) : Draw(w, a, TRUE)) /\ Succeed(w) /\ UNCHANGED <<faults, excuse>>
  <2>1. PICK a \in Payer(w) : Draw(w, a, TRUE)
    BY <1>6
  <2>2. /\ DrawAmount * ToDraw(w)' = DrawAmount * ToDraw(w) - DrawAmount
        /\ doing'[w] \in {"topup", "loop"}
        /\ \A v \in Workers \ {w} : doing'[v] = doing[v] /\ drawCounts'[v] = drawCounts[v]
    BY <1>1, <1>6, CountedJobs
  <2>3. /\ a[2] # GroupSize =>
              /\ Credits(w)' \in Int /\ Credits(w)' >= Credits(w) - DrawAmount
              /\ cashDrawn'[w] = cashDrawn[w]
        /\ a[2] = GroupSize =>
              Credits(w)' = Credits(w) /\ cashDrawn'[w] = cashDrawn[w] + DrawAmount
        /\ \A v \in Workers \ {w} :
              /\ cashDrawn'[v] = cashDrawn[v]
              /\ \A b \in {v} \X (1 .. GroupSize) : acct'[b] = acct[b]
    BY <1>4, <2>1, DrawCredits DEF BInv
  <2>4. Spent(w)' <= excuse'[w]
        /\ Spent(w)' + DrawAmount * ToDraw(w)' <= excuse'[w] + Credits(w)'
    <3>1. excuse' = excuse /\ lateDraws' = lateDraws
      BY <1>1, <1>6
    <3>2. CASE a[2] = GroupSize
      <4>1. Spent(w)' = Spent(w) + DrawAmount
        BY <2>3, <3>1, <3>2, NetTypes, Numbers DEF Spent
      <4> QED BY <1>2, <1>5, <2>2, <2>3, <3>1, <3>2, <4>1, NetTypes, Numbers
    <3>3. CASE a[2] # GroupSize
      <4>1. Spent(w)' = Spent(w)
        BY <2>3, <3>1, <3>3 DEF Spent
      <4> QED BY <1>2, <2>2, <2>3, <3>1, <3>3, <4>1, NetTypes, Numbers
    <3> QED BY <3>2, <3>3
  <2>5. Covered(w)'
    BY <2>2, <2>4 DEF Covered
  <2> QED BY <1>1, <1>6, <2>2, <2>3, <2>5, OwnNet
<1>7. ASSUME doing' = [doing EXCEPT ![w] = "loop"], UNCHANGED drawCounts
      PROVE  /\ doing'[w] = "loop" /\ ToDraw(w)' = ToDraw(w)
             /\ \A v \in Workers \ {w} : doing'[v] = doing[v] /\ drawCounts'[v] = drawCounts[v]
  <2>1. doing'[w] = "loop" /\ \A v \in Workers \ {w} : doing'[v] = doing[v]
    BY <1>7 DEF BInv, BenchTypeOK
  <2> QED BY <1>1, <1>7, <2>1 DEF ToDraw, topUpEvery
<1>8. CASE /\ doing' = [doing EXCEPT ![w] = "loop"] /\ UNCHANGED <<drawCounts, excuse>>
           /\ NoDraw
  <2>1. /\ doing'[w] = "loop" /\ ToDraw(w)' = ToDraw(w)
        /\ \A v \in Workers \ {w} : doing'[v] = doing[v] /\ drawCounts'[v] = drawCounts[v]
    BY <1>7, <1>8
  <2>2. Credits(w)' = Credits(w) /\ cashDrawn' = cashDrawn /\ acct' = acct
    BY <1>8, CreditsKept DEF NoDraw, BInv
  <2>3. Spent(w)' = Spent(w) /\ excuse' = excuse
    BY <1>1, <1>8, <2>2 DEF Spent
  <2>4. Covered(w)'
    BY <1>2, <2>1, <2>2, <2>3 DEF Covered
  <2> QED BY <1>1, <1>8, <2>1, <2>2, <2>4, OwnNet
<1>9. CASE /\ doing' = [doing EXCEPT ![w] = "loop"] /\ UNCHANGED drawCounts
           /\ Excuse(w, DrawAmount) /\ \E a \in Payer(w) : Draw(w, a, FALSE)
  <2>1. PICK a \in Payer(w) : Draw(w, a, FALSE)
    BY <1>9
  <2>2. /\ doing'[w] = "loop" /\ ToDraw(w)' = ToDraw(w)
        /\ \A v \in Workers \ {w} : doing'[v] = doing[v] /\ drawCounts'[v] = drawCounts[v]
    BY <1>7, <1>9
  <2>3. /\ a[2] # GroupSize =>
              /\ Credits(w)' \in Int /\ Credits(w)' >= Credits(w) - DrawAmount
              /\ cashDrawn'[w] = cashDrawn[w]
        /\ a[2] = GroupSize =>
              Credits(w)' = Credits(w) /\ cashDrawn'[w] = cashDrawn[w] + DrawAmount
        /\ \A v \in Workers \ {w} :
              /\ cashDrawn'[v] = cashDrawn[v]
              /\ \A b \in {v} \X (1 .. GroupSize) : acct'[b] = acct[b]
    BY <1>4, <2>1, DrawCredits DEF BInv
  <2>4. /\ excuse'[w] = excuse[w] + DrawAmount
        /\ \A v \in Workers \ {w} : excuse'[v] = excuse[v]
    BY <1>9 DEF Excuse, BInv, BenchTypeOK
  <2>5. Spent(w)' <= excuse'[w]
        /\ Spent(w)' + DrawAmount * ToDraw(w)' <= excuse'[w] + Credits(w)'
    <3>1. CASE a[2] = GroupSize
      <4>1. Spent(w)' = Spent(w) + DrawAmount
        BY <1>1, <2>3, <3>1, NetTypes, Numbers DEF Spent
      <4> QED BY <1>2, <2>2, <2>3, <2>4, <3>1, <4>1, NetTypes, Numbers
    <3>2. CASE a[2] # GroupSize
      <4>1. Spent(w)' = Spent(w)
        BY <1>1, <2>3, <3>2 DEF Spent
      <4> QED BY <1>2, <2>2, <2>3, <2>4, <3>2, <4>1, NetTypes, Numbers
    <3> QED BY <3>1, <3>2
  <2>6. Covered(w)'
    BY <2>2, <2>5 DEF Covered
  <2> QED BY <1>1, <2>2, <2>3, <2>4, <2>6, <1>9, OwnNet
<1> QED BY <1>6, <1>8, <1>9 DEF Fallback

LEMMA LateDrawNet ==
    ASSUME BInv, BInv', CreditInv, NEW w \in Workers, LateDraw(w)
    PROVE  CreditInv'
<1> DEFINE a == <<w, 1>>
<1>1. a \in {w} \X (1 .. GroupSize) /\ a[2] # GroupSize
  BY PGBenchAssumption DEF PGBenchAssumption
<1>2. /\ lateDraws[w] > 0 /\ lateDraws' = [lateDraws EXCEPT ![w] = @ - 1]
      /\ UNCHANGED <<stage, doing, drawCounts, excuse>>
      /\ (Payable(a) /\ Draw(w, a, FALSE)) \/ (~Payable(a) /\ NoDraw)
  BY DEF LateDraw
<1> HIDE DEF a
<1>3. /\ lateDraws'[w] = lateDraws[w] - 1
      /\ \A v \in Workers \ {w} : lateDraws'[v] = lateDraws[v]
  BY <1>2 DEF BInv, BenchTypeOK
<1>4. stage \notin {"fetch", "setup"} /\ stage' \notin {"fetch", "setup"}
  BY <1>2 DEF CreditInv
<1>5. /\ cashDrawn'[w] = cashDrawn[w]
      /\ Credits(w)' \in Int /\ Credits(w)' >= Credits(w) - DrawAmount
      /\ \A v \in Workers \ {w} :
            /\ cashDrawn'[v] = cashDrawn[v]
            /\ \A b \in {v} \X (1 .. GroupSize) : acct'[b] = acct[b]
  <2>1. CASE Payable(a) /\ Draw(w, a, FALSE)
    BY <1>1, <2>1, DrawCredits DEF BInv
  <2>2. CASE ~Payable(a) /\ NoDraw
    BY <2>2, CreditsKept, NetTypes, Numbers DEF NoDraw, BInv
  <2> QED BY <1>2, <2>1, <2>2
<1>6. Spent(w)' = Spent(w) - DrawAmount
  <2>1. DrawAmount * (lateDraws[w] - 1) = DrawAmount * lateDraws[w] - DrawAmount
    <3>1. PICK d \in Nat, n \in Nat : d = DrawAmount /\ n = lateDraws[w]
      BY NetTypes, Numbers
    <3>2. d * (n - 1) = d * n - d
      OBVIOUS
    <3> QED BY <3>1, <3>2
  <2> QED BY <1>3, <1>5, <2>1, NetTypes, Numbers DEF Spent
<1>7. ToDraw(w)' = ToDraw(w)
  BY <1>2 DEF ToDraw, topUpEvery
<1>8. Covered(w)'
  <2>1. Spent(w)' <= excuse'[w]
    <3>1. Spent(w) <= excuse[w]
      BY DEF CreditInv, Covered
    <3> QED BY <1>2, <1>6, <3>1, NetTypes, Numbers
  <2>2. ASSUME stage' = "waterfall"
        PROVE  /\ Spent(w)' + DrawAmount * ToDraw(w)' <= excuse'[w] + Credits(w)'
               /\ Spent(w)' + DrawAmount <= excuse'[w]
    <3>1. /\ Spent(w) <= excuse[w]
          /\ Spent(w) + DrawAmount * ToDraw(w) <= excuse[w] + Credits(w)
      BY <1>2, <2>2 DEF CreditInv, Covered
    <3>2. Spent(w)' + DrawAmount <= excuse'[w]
      BY <1>2, <1>6, <3>1, NetTypes, Numbers
    <3> QED BY <1>2, <1>5, <1>6, <1>7, <3>1, <3>2, NetTypes, Numbers
  <2> QED BY <2>1, <2>2 DEF Covered
<1>9. ASSUME NEW v \in Workers \ {w} PROVE Covered(v)'
  <2>1. excuse'[v] >= excuse[v]
    BY <1>2, NetTypes
  <2>2. BenchTypeOK' /\ Covered(v) /\ v \in Workers
    BY DEF CreditInv, BInv
  <2>3. \A b \in Priority(v) : acct'[b] = acct[b]
    BY <1>5, PriorityRows
  <2> QED BY <1>2, <1>3, <1>5, <2>1, <2>2, <2>3, NetKept
<1> QED BY <1>4, <1>8, <1>9 DEF CreditInv

LEMMA LateResetNet ==
    ASSUME BInv, BInv', CreditInv, NEW a \in Groups, LateReset(a)
    PROVE  CreditInv'
<1>1. /\ acct' = [acct EXCEPT ![a] = Reset(a)]
      /\ UNCHANGED <<stage, lateDraws, doing, drawCounts, cashDrawn, excuse>>
  BY DEF LateReset
<1>2. ASSUME NEW v \in Workers PROVE Covered(v)'
  <2>1. \A b \in Groups : acct'[b] \in {acct[b], Reset(b)}
    BY <1>1 DEF BInv, BenchTypeOK
  <2>2. \A b \in Priority(v) : acct'[b] \in {acct[b], Reset(b)}
    BY <2>1, PriorityAccounts
  <2>3. excuse'[v] >= excuse[v]
    BY <1>1, NetTypes
  <2> QED BY <1>1, <2>2, <2>3, NetKept DEF CreditInv, BInv
<1> QED BY <1>1, <1>2 DEF CreditInv

LEMMA NextNet == BInv /\ BInv' /\ CreditInv /\ [BenchNext]_benchVars => CreditInv'
<1> SUFFICES ASSUME BInv, BInv', CreditInv, [BenchNext]_benchVars PROVE CreditInv'
  OBVIOUS
<1>1. CASE BenchMain
  BY <1>1, OtherNet, SetUpNet DEF BenchMain
<1>2. ASSUME NEW w \in Workers, Work(w) \/ Leave(w)
      PROVE  CreditInv'
  BY <1>2, FastPathNet, FallbackNet, TopUpNet, OtherNet DEF Work
<1>4. CASE LateStatement
  BY <1>4, LateDrawNet, LateResetNet, OtherNet DEF LateStatement
<1>3. CASE UNCHANGED benchVars
  <2>1. UNCHANGED <<stage, acct, lateDraws, doing, drawCounts, cashDrawn, excuse>>
    BY <1>3 DEF benchVars, groups, benchHistory
  <2>2. ASSUME NEW w \in Workers PROVE Covered(w)'
    <3>1. excuse'[w] >= excuse[w]
      BY <2>1, NetTypes
    <3> QED BY <2>1, <3>1, NetKept DEF CreditInv, BInv
  <2> QED BY <2>1, <2>2 DEF CreditInv
<1> QED BY <1>1, <1>2, <1>3, <1>4 DEF BenchNext

LEMMA CashFollows ==
    BInv /\ CreditInv => CashIsSafetyNet
<1> SUFFICES ASSUME BInv, CreditInv, NEW w \in Workers PROVE cashDrawn[w] <= excuse[w]
  BY DEF CashIsSafetyNet
<1>1. Spent(w) <= excuse[w]
  BY DEF CreditInv, Covered
<1>2. PICK n \in Nat : n = DrawAmount * lateDraws[w]
  BY NetTypes
<1>3. Spent(w) = cashDrawn[w] + n
  BY <1>2 DEF Spent
<1> QED BY <1>1, <1>3, NetTypes

(* What a worker draws from its cash is never more than what failed statements *)
(* have kept from its credits: the refill of the credits every topUpEvery      *)
(* draws is exactly enough for the draws in between.                         *)
THEOREM CashComesLast == BenchSpec => []CashIsSafetyNet
<1>1. BenchInit => CreditInv
  BY InitNet
<1>2. BInv /\ BInv' /\ CreditInv /\ [BenchNext]_benchVars => CreditInv'
  BY NextNet
<1>3. BInv /\ CreditInv => CashIsSafetyNet
  BY CashFollows
<1> QED BY <1>1, <1>2, <1>3, BenchInvariant, PTL DEF BenchSpec

-----------------------------------------------------------------------------
(* PGTools: a run of one of the programs, the two others at their beginning.    *)

ToolsInv == SInv /\ VInv /\ BInv /\ CreditInv

ToolsProperties ==
    /\ EachEventOnce /\ SummaryIsComplete /\ BufferBounded /\ AlarmsExplained
    /\ DebitsAccounted /\ CashIsSafetyNet

LEMMA OneTool ==
    ASSUME [Next]_vars
    PROVE  [StressNext]_stressVars /\ [VerifyNext]_verifyVars /\ [BenchNext]_benchVars
<1>1. CASE StressStep(StressNext)
  BY <1>1 DEF StressStep
<1>2. CASE VerifyStep(VerifyNext)
  BY <1>2 DEF VerifyStep
<1>3. CASE BenchStep(BenchNext)
  BY <1>3 DEF BenchStep
<1>4. CASE UNCHANGED vars
  BY <1>4 DEF vars
<1> QED BY <1>1, <1>2, <1>3, <1>4 DEF Next

(* Whichever of the three programs of postgre-setup/go/cmd is run, its books   *)
(* agree with what it has done, and no step of it marks or overdraws an        *)
(* account but as DepletedExplained and OverdraftExplained say.               *)
THEOREM ToolsKeepBooks ==
    Spec => []ToolsProperties /\ DepletedExplained /\ OverdraftExplained
<1>1. Init => ToolsInv
  BY InitSInv, InitVInv, InitBInv, InitNet DEF Init, ToolsInv
<1>2. ToolsInv /\ [Next]_vars => ToolsInv'
  <2> SUFFICES ASSUME ToolsInv, [Next]_vars PROVE ToolsInv'
    OBVIOUS
  <2>1. SInv' /\ VInv' /\ BInv'
    BY OneTool, NextSInv, NextVInv, NextBInv DEF ToolsInv
  <2>2. CreditInv'
    BY <2>1, OneTool, NextNet DEF ToolsInv
  <2> QED BY <2>1, <2>2 DEF ToolsInv
<1>3. ToolsInv => ToolsProperties
  <2>1. SInv => EachEventOnce /\ SummaryIsComplete /\ BufferBounded
    BY SummaryFollows DEF SInv
  <2>2. VInv => AlarmsExplained
    BY DEF VInv
  <2>3. BInv => DebitsAccounted
    BY DEF BInv
  <2> QED BY <2>1, <2>2, <2>3, CashFollows DEF ToolsInv, ToolsProperties
<1>4. ToolsInv /\ [Next]_vars =>
         [\A a \in Groups :
             WronglyMarked(a)' /\ ~WronglyMarked(a) =>
                a = Hot /\ stage' \in {"hot", "fanout", "end"}]_benchVars
  BY OneTool, MarkStep DEF ToolsInv
<1>5. ToolsInv /\ ToolsInv' /\ [Next]_vars =>
         [\A a \in Groups :
             acct'[a].balance < 0 /\ acct'[a].balance < acct[a].balance =>
                /\ a = Hot /\ stage' \in {"hot", "fanout", "end"}
                /\ ~prefunded]_benchVars
  BY OneTool, OverdraftStep DEF ToolsInv
<1> QED BY <1>1, <1>2, <1>3, <1>4, <1>5, PTL DEF Spec, DepletedExplained, OverdraftExplained
=============================================================================
