----------------------------- MODULE WebhookProofs -----------------------------
(* The webhook's promises for every number of handlers, calls, agents and      *)
(* messages: HandlerInv, with the trace store's Inv, is inductive.  It is      *)
(* stated for one handler at a time, so that the steps of another process,     *)
(* handler or worker, disturb it only through the rows that they commit.       *)
EXTENDS Webhook, TraceStoreProofs

\* A request under way has its message, and its open transaction is on its call.
Serving(h) ==
  /\ pc[h] # "idle" => msg[h] \in Message
  /\ InTransaction(h) => txn[h].phase # "idle" /\ txn[h].call = CallOf(h)
  /\ ~ InTransaction(h) => txn[h].phase = "idle"

\* What update_active_state is about to write was read from a row.
SeenRow(h) ==
  pc[h] = "upsert" => seen[h] # "absent" /\ sessionRow[CallOf(h)] # "absent"

\* The terminal event is still the next command, or the draft is closed.
Closing(t, type) ==
  /\ t.phase # "held" => t.todo # << >> /\ t.todo[1].op = "ingest" /\ t.todo[1].type = type
  /\ t.phase = "held" =>
       \/ t.status \in Closed
       \/ t.todo # << >> /\ t.todo[1].op = "ingest" /\ t.todo[1].type = type

\* While agents are never removed, the transaction of a terminal message closes its
\* session, and what follows finds it closed.
ClosesSession(h) ==
  "remove" \notin Fault =>
    /\ pc[h] # "idle" => AgentOf[CallOf(h)] \in governed
    /\ pc[h] = "persist" /\ IsTerminal(msg[h]) => Closing(txn[h], Resolve(msg[h]))
    /\ pc[h] = "enqueue" => sessionRow[CallOf(h)] \in Closed

\* The latency is recorded after a terminal event that was committed, not only met in a
\* draft: a draft is empty until the row is held.
LatencyAfterEnd(h) ==
  /\ pc[h] = "persist" /\ txn[h].phase # "held" => txn[h].events = {}
  /\ pc[h] \in {"latency", "latencyTxn"} => sessionRow[CallOf(h)] \in Closed

HandlerSound(h) == Serving(h) /\ SeenRow(h) /\ ClosesSession(h) /\ LatencyAfterEnd(h)

HandlerTypes ==
  /\ LiveTypeOK
  /\ governed \subseteq Agent
  /\ delivered \in [Message -> 0..MaxDelivery]
  /\ pc \in [Handler -> Stage]
  /\ msg \in [Handler -> Message \union {None}]
  /\ seen \in [Handler -> RowStatus]

HandlerInv ==
  /\ HandlerTypes
  /\ \A h \in Handler : HandlerSound(h)
  /\ LiveHasSession

------------------------------------------------------------------------------
(* Plans.                                                                      *)

\* Observations make a sequence of commands.
LEMMA ObserveCommandsType ==
  ASSUME NEW m \in Message
  PROVE  ObserveCommands(m) \in Seq(Command)
<1>1. CASE ObserveCommands(m) = << >>
  BY <1>1
<1>2. CASE ObserveCommands(m) # << >>
  BY <1>2, HandlerPlans, PlanAssumption
<1> QED
  BY <1>1, <1>2

\* What a handler runs is a plan, and begins with the message's own event while the
\* agent is governed.
LEMMA PlanOfKnown ==
  ASSUME NEW m \in Message
  PROVE  /\ PlanOf(m) # << >> => PlanOf(m) \in Plan
         /\ AgentOf[m.call] \in governed /\ IsTerminal(m) =>
              /\ PlanOf(m) # << >>
              /\ PlanOf(m)[1].op = "ingest" /\ PlanOf(m)[1].type = Resolve(m)
<1> DEFINE commands == ObserveCommands(m)
<1>1. commands \in Seq(Command)
  BY ObserveCommandsType
<1>2. CASE AgentOf[m.call] \in governed
  <2>1. PlanOf(m) = OwnCommand(m) \o commands
    BY <1>2 DEF PlanOf, IngestCommands
  <2>2. PlanOf(m) # << >> => PlanOf(m) \in Plan
    BY <2>1, HandlerPlans
  <2>3. ASSUME IsTerminal(m)
        PROVE  /\ PlanOf(m) # << >>
               /\ PlanOf(m)[1].op = "ingest" /\ PlanOf(m)[1].type = Resolve(m)
    <3> DEFINE cmd == [op |-> "ingest", type |-> Resolve(m), key |-> "none"]
    <3>1. OwnCommand(m) = <<cmd>>
      BY <2>3 DEF OwnCommand, IsTerminal, TerminalEvents, LiveOnlyEvents
    <3>2. PlanOf(m) = <<cmd>> \o commands /\ cmd.op = "ingest" /\ cmd.type = Resolve(m)
      BY <2>1, <3>1
    <3> HIDE DEF cmd, commands
    <3>3. Len(<<cmd>> \o commands) = 1 + Len(commands) /\ (<<cmd>> \o commands)[1] = cmd
      BY <1>1
    <3>4. Len(commands) \in Nat
      BY <1>1
    <3>5. PlanOf(m) # << >>
      BY <3>2, <3>3, <3>4
    <3> QED
      BY <3>2, <3>3, <3>5
  <2> QED
    BY <2>2, <2>3
<1>3. CASE AgentOf[m.call] \notin governed
  <2>1. PlanOf(m) = << >> \o commands
    BY <1>3 DEF PlanOf, IngestCommands
  <2>2. PlanOf(m) = commands
    BY <1>1, <2>1
  <2> QED
    BY <1>3, <2>2, HandlerPlans
<1> QED
  BY <1>2, <1>3

\* Whatever a handler does to the store is a step of its own transaction.
LEMMA HandlerIsProcess ==
  ASSUME NEW h \in Handler, HandlerSound(h)
  PROVE  /\ HandlerStep(h) => StepOf(h)
         /\ Crash(h) => StepOf(h)
<1>1. h \in Process
  BY HandlerAssumption
<1>2. ASSUME Persist(h) PROVE StepOf(h)
  <2>1. msg[h] \in Message /\ msg[h].call \in Call
    BY <1>2, HandlerPlans DEF Persist, HandlerSound, Serving
  <2>2. UNCHANGED vars \/ (PlanOf(msg[h]) # << >> /\ Begin(h, msg[h].call, PlanOf(msg[h])))
    BY <1>2 DEF Persist
  <2> QED
    BY <2>1, <2>2, PlanOfKnown DEF StepOf
<1>3. ASSUME RecordLatency(h) PROVE StepOf(h)
  <2>1. CallOf(h) \in Call /\ LatencyPlan \in Plan
    BY <1>3, HandlerPlans DEF RecordLatency, HandlerSound, Serving, CallOf
  <2> QED
    BY <1>3, <2>1 DEF RecordLatency, StepOf
<1>4. ASSUME \/ Statement(h) \/ PersistCommit(h) \/ PersistFails(h) \/ LatencyDone(h) \/ Crash(h)
      PROVE  StepOf(h)
  BY <1>4 DEF Statement, PersistCommit, PersistFails, LatencyDone, Crash, StepOf
<1>5. ASSUME \/ EnqueueTask(h) \/ EnqueueFails(h) \/ ReadSession(h) \/ Upsert(h)
             \/ UpdateLive(h) \/ LiveFails(h)
      PROVE  StepOf(h)
  BY <1>5 DEF EnqueueTask, EnqueueFails, ReadSession, Upsert, UpdateLive, LiveFails, StepOf
<1> QED
  BY <1>2, <1>3, <1>4, <1>5 DEF HandlerStep

------------------------------------------------------------------------------
(* Steps.                                                                      *)

\* A request keeps its promises while others act: rows stay, closed ones stay closed.
LEMMA Bystander ==
  ASSUME Inv, [Next]_vars, NEW h \in Handler, HandlerSound(h),
         pc'[h] = pc[h], msg'[h] = msg[h], seen'[h] = seen[h], txn'[h] = txn[h],
         "remove" \notin Fault => governed \subseteq governed'
  PROVE  HandlerSound(h)'
<1>1. pc[h] # "idle" => CallOf(h) \in Call
  BY HandlerPlans DEF HandlerSound, Serving, CallOf
<1>2. pc[h] # "idle" => Advances(CallOf(h))
  BY <1>1, StoreAdvances
<1>3. CallOf(h)' = CallOf(h)
  BY DEF CallOf
<1>4. Serving(h)'
  BY <1>3 DEF HandlerSound, Serving, InTransaction
<1>5. SeenRow(h)'
  BY <1>2, <1>3 DEF HandlerSound, SeenRow, Advances
<1>6. ClosesSession(h)'
  BY <1>2, <1>3 DEF HandlerSound, ClosesSession, Advances, IsTerminal, Closing
<1>7. LatencyAfterEnd(h)'
  BY <1>2, <1>3 DEF HandlerSound, LatencyAfterEnd, Advances
<1> QED
  BY <1>4, <1>5, <1>6, <1>7 DEF HandlerSound

\* The statements of a transaction lose no terminal event: until it is recorded, it is
\* the next command.
LEMMA ClosingWorks ==
  ASSUME Inv, NEW p \in Process, Work(p), NEW type \in TerminalEvents, Closing(txn[p], type)
  PROVE  Closing(txn'[p], type)
<1> DEFINE t == txn[p]
<1>1. /\ t \in Transaction /\ t.todo \in Seq(Command) /\ TypeOK /\ Draft(p)
      /\ \A x : [txn EXCEPT ![p] = x][p] = x
  BY DEF Inv, TypeOK, Transaction
<1>2. ASSUME t.todo # << >> PROVE Head(t.todo) = t.todo[1]
  BY <1>1, <1>2
<1>3. CASE LoadForUpdate(p)
  BY <1>1, <1>3 DEF LoadForUpdate, Closing, Transaction, TypeOK
<1>4. CASE LoadMiss(p)
  BY <1>1, <1>2, <1>4 DEF LoadMiss, Closing, Transaction, TypeOK
<1>5. CASE Create(p)
  <2>1. txn'[p].phase = "held" /\ txn'[p].status = StatusAfter("active", Head(t.todo).type)
    BY <1>1, <1>5 DEF Create, Transaction, TypeOK
  <2>2. Head(t.todo).type = type
    BY <1>1, <1>2, <1>5 DEF Create, Closing
  <2> QED
    BY <2>1, <2>2 DEF Closing, StatusAfter, Closed, TerminalEvents
<1>6. CASE CreateConflict(p)
  BY <1>1, <1>6 DEF CreateConflict, Closing, Transaction, TypeOK
<1>7. CASE Skip(p)
  <2>1. /\ txn'[p].phase = "held" /\ txn'[p].status = t.status /\ t.phase = "held"
        /\ t.todo # << >> /\ Redundant(Head(t.todo), t.status, t.events)
    BY <1>1, <1>7 DEF Skip, Transaction, TypeOK
  <2>2. ASSUME t.status \notin Closed PROVE FALSE
    <3>1. Head(t.todo).op = "ingest" /\ Head(t.todo).type = type
      BY <1>2, <2>1, <2>2 DEF Closing
    <3>2. t.status = "active"
      BY <1>1, <2>1, <2>2 DEF Transaction, RowStatus, Closed, Draft
    <3> QED
      BY <2>1, <3>1, <3>2 DEF Redundant, Ignored, IngestDrops, Recorded, MarkerConflict, TerminalEvents
  <2> QED
    BY <2>1, <2>2 DEF Closing
<1>8. CASE Record(p)
  <2>1. /\ txn'[p].phase = "held" /\ t.phase = "held" /\ t.todo # << >>
        /\ txn'[p].status = IF Head(t.todo).op = "ingest" THEN StatusAfter(t.status, Head(t.todo).type)
                            ELSE t.status
    BY <1>1, <1>8 DEF Record, Transaction, TypeOK
  <2>2. CASE t.status \in Closed
    BY <2>1, <2>2 DEF Closing, StatusAfter, Closed
  <2>3. CASE t.status \notin Closed
    <3>1. Head(t.todo).op = "ingest" /\ Head(t.todo).type = type
      BY <1>2, <2>1, <2>3 DEF Closing
    <3> QED
      BY <2>1, <3>1 DEF Closing, StatusAfter, Closed, TerminalEvents
  <2> QED
    BY <2>2, <2>3
<1> QED
  BY <1>3, <1>4, <1>5, <1>6, <1>7, <1>8 DEF Work

\* A draft that is not of a held row stays empty.
LEMMA DraftStaysEmpty ==
  ASSUME TypeOK, NEW p \in Process, Work(p), txn[p].phase # "held" => txn[p].events = {}
  PROVE  txn'[p].phase # "held" => txn'[p].events = {}
<1>1. ASSUME LoadForUpdate(p) \/ Create(p) PROVE txn'[p].phase = "held"
  BY <1>1 DEF TypeOK, Transaction, LoadForUpdate, Create
<1>2. ASSUME Skip(p) \/ Record(p) PROVE txn'[p].phase = "held"
  BY <1>2 DEF TypeOK, Transaction, Skip, Record
<1>3. ASSUME LoadMiss(p) PROVE txn[p].phase # "held" /\ txn'[p].events = txn[p].events
  BY <1>3 DEF TypeOK, Transaction, LoadMiss
<1>4. ASSUME CreateConflict(p) PROVE txn[p].phase # "held" /\ txn'[p].events = txn[p].events
  BY <1>4 DEF TypeOK, Transaction, CreateConflict
<1> QED
  BY <1>1, <1>2, <1>3, <1>4 DEF Work

\* What a commit leaves as the row of its call.
LEMMA CommittedRow ==
  ASSUME Inv, NEW p \in Process, Commit(p), txn[p].phase = "held"
  PROVE  /\ sessionRow'[txn[p].call] = txn[p].status /\ trace'[txn[p].call] = txn[p].events
         /\ Types(txn[p].events) \intersect TerminalEvents # {} => txn[p].status \in Closed
<1>1. TypeOK /\ Draft(p) /\ txn[p] \in Transaction
  BY DEF Inv, TypeOK
<1>2. sessionRow'[txn[p].call] = txn[p].status /\ trace'[txn[p].call] = txn[p].events
  BY <1>1, CommitIsDraft DEF TypeOK
<1>3. ASSUME Types(txn[p].events) \intersect TerminalEvents # {} PROVE txn[p].status \in Closed
  <2>1. txn[p].status # "active"
    BY <1>1, <1>3 DEF Draft, Sound, LawfulLife
  <2> QED
    BY <1>1, <2>1 DEF Draft, Transaction, RowStatus, Closed
<1> QED
  BY <1>2, <1>3

\* A step of a request moves no other request, and keeps the types.
LEMMA OwnRequest ==
  ASSUME Inv, HandlerTypes, NEW h \in Handler, HandlerSound(h), HandlerStep(h) \/ Crash(h)
  PROVE  /\ pc' \in [Handler -> Stage] /\ msg' \in [Handler -> Message \union {None}]
         /\ seen' \in [Handler -> RowStatus]
         /\ \A g \in Handler \ {h} : pc'[g] = pc[g] /\ msg'[g] = msg[g] /\ seen'[g] = seen[g]
         /\ governed' = governed /\ delivered' = delivered
         /\ pc'[h] # "idle" => msg'[h] = msg[h] /\ pc[h] # "idle"
<1> DEFINE Moved ==
             /\ pc' \in [Handler -> Stage] /\ msg' \in [Handler -> Message \union {None}]
             /\ seen' \in [Handler -> RowStatus]
             /\ \A g \in Handler \ {h} : pc'[g] = pc[g] /\ msg'[g] = msg[g] /\ seen'[g] = seen[g]
             /\ pc'[h] # "idle" => msg'[h] = msg[h] /\ pc[h] # "idle"
<1>1. ASSUME NEW s \in Stage, Goto(h, s), msg' = msg, pc[h] # "idle",
             seen' = seen \/ \E status \in RowStatus : seen' = [seen EXCEPT ![h] = status]
      PROVE  Moved
  BY <1>1 DEF HandlerTypes, Goto
<1>2. ASSUME Respond(h) PROVE Moved
  BY <1>2 DEF HandlerTypes, Respond, Goto, Stage, RowStatus
<1>3. ASSUME NEW recorded \in BOOLEAN PROVE AfterPersist(msg[h], recorded) \in Stage
  BY DEF AfterPersist, Stage
<1>4. RecordedTerminal(h) \in BOOLEAN
  BY DEF RecordedTerminal
<1>5. {"persist", "latency", "latencyTxn", "enqueue", "live", "upsert"} \subseteq Stage
  BY DEF Stage
<1>6. ASSUME Persist(h) PROVE Moved
  BY <1>1, <1>3, <1>5, <1>6 DEF Persist
<1>7. ASSUME Statement(h) PROVE Moved
  BY <1>7 DEF Statement, webhookVars, HandlerTypes, InTransaction
<1>8. ASSUME PersistCommit(h) PROVE Moved
  BY <1>1, <1>3, <1>4, <1>8 DEF PersistCommit
<1>9. ASSUME PersistFails(h) \/ Upsert(h) \/ UpdateLive(h) \/ LiveFails(h) \/ Crash(h) PROVE Moved
  BY <1>2, <1>9 DEF PersistFails, Upsert, UpdateLive, LiveFails, Crash
<1>10. ASSUME RecordLatency(h) \/ LatencyDone(h) \/ EnqueueTask(h) \/ EnqueueFails(h) PROVE Moved
  BY <1>1, <1>5, <1>10 DEF RecordLatency, LatencyDone, EnqueueTask, EnqueueFails
<1>11. ASSUME ReadSession(h) PROVE Moved
  <2>1. sessionRow[CallOf(h)] \in RowStatus
    BY <1>11, HandlerPlans DEF ReadSession, HandlerSound, Serving, CallOf, Inv, TypeOK
  <2> QED
    BY <1>1, <1>5, <1>11, <2>1 DEF ReadSession
<1>12. Moved
  BY <1>6, <1>7, <1>8, <1>9, <1>10, <1>11 DEF HandlerStep
<1>13. governed' = governed /\ delivered' = delivered
  BY DEF HandlerStep, Crash, Persist, Statement, PersistCommit, PersistFails, RecordLatency,
         LatencyDone, EnqueueTask, EnqueueFails, ReadSession, Upsert, UpdateLive, LiveFails,
         webhookVars
<1> QED
  BY <1>12, <1>13

\* A request that has been answered promises nothing any more.
LEMMA Answered ==
  ASSUME NEW h \in Handler, pc'[h] = "idle", txn'[h].phase = "idle"
  PROVE  HandlerSound(h)'
  BY DEF HandlerSound, Serving, SeenRow, ClosesSession, LatencyAfterEnd, InTransaction

\* A request keeps its own promises in each of its steps.
LEMMA OwnPromises ==
  ASSUME Inv, HandlerTypes, NEW h \in Handler, HandlerSound(h), HandlerStep(h) \/ Crash(h)
  PROVE  HandlerSound(h)'
<1> DEFINE m == msg[h]
           c == CallOf(h)
<1>1. h \in Process /\ StepOf(h) /\ TypeOK
  BY HandlerAssumption, HandlerIsProcess DEF Inv
<1>2. [Next]_vars
  BY <1>1, StepIsNext
<1>3. /\ pc[h] # "idle" => m \in Message /\ c \in Call /\ c = m.call /\ Advances(c)
      /\ InTransaction(h) => txn[h].phase # "idle" /\ txn[h].call = c
      /\ ~ InTransaction(h) => txn[h].phase = "idle"
  BY <1>2, HandlerPlans, StoreAdvances DEF HandlerSound, Serving, CallOf
<1>4. /\ pc' \in [Handler -> Stage] /\ governed' = governed
      /\ pc'[h] # "idle" => msg'[h] = m /\ pc[h] # "idle" /\ CallOf(h)' = c
  BY OwnRequest DEF CallOf
<1>5. ASSUME NEW s \in Stage, Goto(h, s) PROVE pc'[h] = s
  BY <1>5 DEF Goto, HandlerTypes
<1>6. /\ "remove" \notin Fault /\ pc[h] # "idle" => AgentOf[c] \in governed
      /\ "remove" \notin Fault /\ pc[h] = "enqueue" => sessionRow[c] \in Closed
  BY DEF HandlerSound, ClosesSession
<1> HIDE DEF m, c
<1>7. ASSUME Respond(h) PROVE pc'[h] = "idle"
  BY <1>5, <1>7 DEF Respond, Stage
<1>8. ASSUME txn'[h].phase = "idle", pc'[h] \in {"live", "latency", "enqueue"},
             pc[h] # "idle",
             pc'[h] = "latency" => sessionRow'[c] \in Closed,
             pc'[h] = "enqueue" /\ "remove" \notin Fault => sessionRow'[c] \in Closed
      PROVE  HandlerSound(h)'
  BY <1>3, <1>4, <1>6, <1>8
     DEF HandlerSound, Serving, SeenRow, ClosesSession, LatencyAfterEnd, InTransaction
<1>9. CASE Persist(h)
  <2>1. CASE PlanOf(m) = << >>
    <3>1. pc[h] = "gated" /\ Goto(h, AfterPersist(m, FALSE)) /\ UNCHANGED vars
      BY <1>9, <2>1 DEF Persist, m
    <3>2. pc'[h] = AfterPersist(m, FALSE) /\ txn'[h].phase = "idle"
      BY <1>3, <1>5, <3>1 DEF AfterPersist, Stage, vars, InTransaction
    <3>3. pc'[h] \in {"live", "enqueue"} /\ (pc'[h] = "enqueue" => IsTerminal(m))
      BY <3>2 DEF AfterPersist
    <3>4. "remove" \notin Fault => ~ IsTerminal(m)
      BY <1>3, <1>6, <2>1, <3>1, PlanOfKnown
    <3> QED
      BY <1>8, <3>1, <3>2, <3>3, <3>4
  <2>2. CASE PlanOf(m) # << >>
    <3>1. pc[h] = "gated" /\ Begin(h, c, PlanOf(m)) /\ pc'[h] = "persist" /\ m \in Message
      BY <1>3, <1>5, <1>9, <2>2 DEF Persist, Stage, m
    <3>2. /\ txn'[h].phase = "load" /\ txn'[h].call = c /\ txn'[h].todo = PlanOf(m)
          /\ txn'[h].events = {}
      BY <1>1, <3>1 DEF Begin, TypeOK
    <3>3. "remove" \notin Fault /\ IsTerminal(m) => Closing(txn'[h], Resolve(m))
      BY <1>3, <1>6, <3>1, <3>2, PlanOfKnown DEF Closing
    <3> QED
      BY <1>3, <1>4, <1>6, <3>1, <3>2, <3>3
         DEF HandlerSound, Serving, SeenRow, ClosesSession, LatencyAfterEnd, InTransaction, IsTerminal
  <2> QED
    BY <2>1, <2>2
<1>10. CASE Statement(h)
  <2>1. Work(h) /\ InTransaction(h) /\ pc'[h] = pc[h]
    BY <1>10 DEF Statement, webhookVars
  <2>2. txn'[h].phase # "idle" /\ txn'[h].call = c
    BY <1>1, <1>3, <2>1, OwnTransaction
  <2>3. ASSUME "remove" \notin Fault, pc[h] = "persist", IsTerminal(m)
        PROVE  Closing(txn'[h], Resolve(m))
    BY <1>1, <2>1, <2>3, ClosingWorks DEF HandlerSound, ClosesSession, IsTerminal, m
  <2>4. pc[h] = "persist" /\ txn'[h].phase # "held" => txn'[h].events = {}
    BY <1>1, <2>1, DraftStaysEmpty DEF HandlerSound, LatencyAfterEnd
  <2>5. pc[h] \in {"persist", "latencyTxn"}
    BY <2>1 DEF InTransaction
  <2>6. pc[h] = "latencyTxn" => sessionRow'[c] \in Closed
    BY <1>3, <2>5 DEF HandlerSound, LatencyAfterEnd, Advances, c
  <2> QED
    BY <1>3, <1>4, <1>6, <2>1, <2>2, <2>3, <2>4, <2>5, <2>6
       DEF HandlerSound, Serving, SeenRow, ClosesSession, LatencyAfterEnd, InTransaction, IsTerminal
<1>11. CASE PersistCommit(h)
  <2>1. /\ pc[h] = "persist" /\ Commit(h) /\ txn'[h].phase = "idle" /\ txn[h].call = c
        /\ pc'[h] = AfterPersist(m, RecordedTerminal(h))
    <3>1. AfterPersist(m, RecordedTerminal(h)) \in Stage
      BY DEF AfterPersist, RecordedTerminal, Stage
    <3> QED
      BY <1>1, <1>3, <1>5, <1>11, <3>1, OwnTransaction DEF PersistCommit, InTransaction, m
  <2>2. pc'[h] = "latency" => sessionRow'[c] \in Closed
    <3>1. SUFFICES ASSUME RecordedTerminal(h) PROVE sessionRow'[c] \in Closed
      BY <2>1 DEF AfterPersist
    <3>2. txn[h].phase = "held" /\ Types(txn[h].events) \intersect TerminalEvents # {}
      BY <2>1, <3>1 DEF RecordedTerminal, HandlerSound, LatencyAfterEnd, Types
    <3> QED
      BY <1>1, <2>1, <3>2, CommittedRow
  <2>3. pc'[h] = "enqueue" /\ "remove" \notin Fault => sessionRow'[c] \in Closed
    <3>1. SUFFICES ASSUME IsTerminal(m), "remove" \notin Fault PROVE sessionRow'[c] \in Closed
      BY <2>1 DEF AfterPersist
    <3>2. Closing(txn[h], Resolve(m)) /\ txn[h].todo = << >>
      BY <2>1, <3>1 DEF HandlerSound, ClosesSession, Commit, m
    <3>3. txn[h].phase = "held" /\ txn[h].status \in Closed
      BY <3>2 DEF Closing
    <3> QED
      BY <1>1, <2>1, <3>3, CommittedRow
  <2>4. pc'[h] \in {"live", "latency", "enqueue"}
    BY <2>1 DEF AfterPersist
  <2> QED
    BY <1>8, <2>1, <2>2, <2>3, <2>4
<1>12. CASE \/ PersistFails(h) \/ Upsert(h) \/ UpdateLive(h) \/ LiveFails(h) \/ Crash(h)
  <2>1. pc'[h] = "idle"
    BY <1>7, <1>12 DEF PersistFails, Upsert, UpdateLive, LiveFails, Crash
  <2>2. txn'[h].phase = "idle"
    <3>1. CASE UNCHANGED vars /\ ~ InTransaction(h)
      BY <1>3, <3>1 DEF vars
    <3>2. CASE Refuse(h) \/ Abort(h)
      BY <1>1, <3>2, OwnTransaction
    <3>3. CASE UNCHANGED vars /\ txn[h].phase = "idle"
      BY <3>3 DEF vars
    <3> QED
      BY <1>12, <3>1, <3>2, <3>3 DEF PersistFails, Upsert, UpdateLive, LiveFails, Crash, InTransaction
  <2> QED
    BY <2>1, <2>2, Answered
<1>13. CASE RecordLatency(h)
  <2>1. pc[h] = "latency" /\ pc'[h] = "latencyTxn" /\ Begin(h, c, LatencyPlan)
    BY <1>5, <1>13 DEF RecordLatency, Stage, c
  <2>2. txn'[h].phase = "load" /\ txn'[h].call = c
    BY <1>1, <2>1 DEF Begin, TypeOK
  <2>3. sessionRow'[c] \in Closed
    BY <1>3, <2>1 DEF HandlerSound, LatencyAfterEnd, Advances, c
  <2> QED
    BY <1>3, <1>4, <1>6, <2>1, <2>2, <2>3
       DEF HandlerSound, Serving, SeenRow, ClosesSession, LatencyAfterEnd, InTransaction
<1>14. CASE LatencyDone(h)
  <2>1. pc[h] = "latencyTxn" /\ pc'[h] = "enqueue" /\ txn'[h].phase = "idle"
    BY <1>1, <1>5, <1>14, OwnTransaction DEF LatencyDone, Stage
  <2>2. sessionRow'[c] \in Closed
    BY <1>3, <2>1 DEF HandlerSound, LatencyAfterEnd, Advances, c
  <2> QED
    BY <1>8, <2>1, <2>2
<1>15. CASE EnqueueTask(h) \/ EnqueueFails(h)
  <2>1. pc[h] = "enqueue" /\ pc'[h] = "live" /\ txn'[h].phase = "idle"
    BY <1>3, <1>5, <1>15 DEF EnqueueTask, EnqueueFails, Stage, vars, InTransaction
  <2> QED
    BY <1>8, <2>1
<1>16. CASE ReadSession(h)
  <2>1. /\ pc[h] = "live" /\ pc'[h] = "upsert" /\ txn'[h].phase = "idle"
        /\ sessionRow[c] # "absent" /\ seen'[h] = sessionRow[c] /\ sessionRow' = sessionRow
    BY <1>3, <1>5, <1>16 DEF ReadSession, Stage, vars, InTransaction, HandlerTypes, c
  <2> QED
    BY <1>3, <1>4, <1>6, <2>1
       DEF HandlerSound, Serving, SeenRow, ClosesSession, LatencyAfterEnd, InTransaction
<1> QED
  BY <1>9, <1>10, <1>11, <1>12, <1>13, <1>14, <1>15, <1>16 DEF HandlerStep

------------------------------------------------------------------------------
(* The live store.                                                             *)

\* What one step of a request may do to the entry of a call: nothing, remove it, write
\* the status of a session it read, or change a live field of an entry that is there.
EntryStep(h, c) ==
  \/ live'[c] = live[c]
  \/ live'[c] = None
  \/ /\ pc[h] = "upsert" /\ CallOf(h) = c
     /\ live[c] # None => /\ live'[c].interrupted = live[c].interrupted
                          /\ live'[c].speaking = live[c].speaking
  \/ /\ pc[h] = "live" /\ CallOf(h) = c /\ live[c] # None
     /\ live[c].interrupted => live'[c].interrupted
     /\ live'[c].speaking # live[c].speaking => Resolve(msg[h]) \in LiveOnlyEvents

\* Every step of a request does one of these, and leaves an entry of its type.
LEMMA HandlerEntry ==
  ASSUME HandlerTypes, NEW h \in Handler, HandlerSound(h), HandlerStep(h) \/ Crash(h)
  PROVE  LiveTypeOK' /\ \A c \in Call : EntryStep(h, c)
<1> DEFINE d == CallOf(h)
           old == live[d]
<1>1. CASE UNCHANGED live
  BY <1>1 DEF HandlerTypes, LiveTypeOK, EntryStep
<1>2. pc[h] # "idle" => d \in Call
  BY HandlerPlans DEF HandlerSound, Serving, CallOf
<1>3. ASSUME NEW c \in Call PROVE live[c] # None => live[c] \in LiveEntry
  BY DEF HandlerTypes, LiveTypeOK
<1>4. ASSUME NEW e \in LiveEntry \union {None}, live' = [live EXCEPT ![d] = e]
      PROVE  /\ LiveTypeOK'
             /\ \A c \in Call : live'[c] = IF c = d THEN e ELSE live[c]
  BY <1>4 DEF HandlerTypes, LiveTypeOK
<1>5. CASE Upsert(h)
  <2> DEFINE s == seen[h]
             e == IF old = None THEN [status |-> s, speaking |-> None, interrupted |-> FALSE]
                  ELSE [old EXCEPT !.status = s]
  <2>1. pc[h] = "upsert" /\ d \in Call /\ s \in {"active", "ended", "failed"}
    BY <1>2, <1>5 DEF Upsert, HandlerSound, SeenRow, HandlerTypes, RowStatus
  <2>2. live' = [live EXCEPT ![d] = e]
    BY <1>5 DEF Upsert, UpsertLifecycle
  <2>3. /\ e \in LiveEntry
        /\ old # None => e.interrupted = old.interrupted /\ e.speaking = old.speaking
    BY <1>3, <2>1 DEF LiveEntry, LiveRole
  <2> HIDE DEF e, old
  <2>4. LiveTypeOK' /\ \A c \in Call : live'[c] = IF c = d THEN e ELSE live[c]
    BY <1>4, <2>2, <2>3
  <2> QED
    BY <2>1, <2>3, <2>4 DEF EntryStep, old
<1>6. CASE Close(h)
  <2>1. live' = [live EXCEPT ![d] = None]
    BY <1>6 DEF Close, MarkEnded
  <2> QED
    BY <1>4, <2>1 DEF EntryStep
<1>7. ASSUME NEW role \in LiveRole, SetSpeakingRole(d, role), pc[h] = "live",
             Resolve(msg[h]) \in LiveOnlyEvents
      PROVE  LiveTypeOK' /\ \A c \in Call : EntryStep(h, c)
  <2>1. CASE old = None
    BY <1>1, <1>7, <2>1 DEF SetSpeakingRole
  <2>2. CASE old # None
    <3> DEFINE e == [old EXCEPT !.speaking = role]
    <3>1. live' = [live EXCEPT ![d] = e] /\ old \in LiveEntry
      BY <1>2, <1>3, <1>7, <2>2 DEF SetSpeakingRole
    <3>2. e \in LiveEntry /\ e.interrupted = old.interrupted
      BY <1>7, <3>1 DEF LiveEntry
    <3> HIDE DEF e, old
    <3>3. LiveTypeOK' /\ \A c \in Call : live'[c] = IF c = d THEN e ELSE live[c]
      BY <1>4, <3>1, <3>2
    <3> QED
      BY <1>7, <2>2, <3>2, <3>3 DEF EntryStep, old
  <2> QED
    BY <2>1, <2>2
<1>8. CASE Interrupt(h) /\ pc[h] = "live"
  <2>1. CASE old = None
    BY <1>1, <1>8, <2>1 DEF Interrupt, MarkInterruption
  <2>2. CASE old # None
    <3> DEFINE e == [old EXCEPT !.interrupted = TRUE]
    <3>1. live' = [live EXCEPT ![d] = e] /\ old \in LiveEntry
      BY <1>2, <1>3, <1>8, <2>2 DEF Interrupt, MarkInterruption
    <3>2. e \in LiveEntry /\ e.interrupted /\ e.speaking = old.speaking
      BY <3>1 DEF LiveEntry
    <3> HIDE DEF e, old
    <3>3. LiveTypeOK' /\ \A c \in Call : live'[c] = IF c = d THEN e ELSE live[c]
      BY <1>4, <3>1, <3>2
    <3> QED
      BY <1>8, <2>2, <3>2, <3>3 DEF EntryStep, old
  <2> QED
    BY <2>1, <2>2
<1>9. CASE UpdateLive(h)
  <2>1. ASSUME Speak(h) PROVE LiveTypeOK' /\ \A c \in Call : EntryStep(h, c)
    <3> DEFINE role == IF msg[h].role = "assistant" THEN "agent" ELSE "user"
    <3>1. role \in LiveRole /\ SetSpeakingRole(d, role) /\ Resolve(msg[h]) \in LiveOnlyEvents
      BY <2>1 DEF Speak, LiveRole, LiveOnlyEvents
    <3> QED
      BY <1>7, <1>9, <3>1 DEF UpdateLive
  <2>2. ASSUME Hush(h) PROVE LiveTypeOK' /\ \A c \in Call : EntryStep(h, c)
    <3>1. None \in LiveRole /\ SetSpeakingRole(d, None) /\ Resolve(msg[h]) \in LiveOnlyEvents
      BY <2>2 DEF Hush, LiveRole, LiveOnlyEvents
    <3> QED
      BY <1>7, <1>9, <3>1 DEF UpdateLive
  <2> QED
    BY <1>1, <1>6, <1>8, <1>9, <2>1, <2>2 DEF UpdateLive, NothingLive
<1>10. ASSUME ~ Upsert(h), ~ UpdateLive(h) PROVE UNCHANGED live
  BY <1>10 DEF HandlerStep, Crash, Persist, Statement, PersistCommit, PersistFails, RecordLatency,
               LatencyDone, EnqueueTask, EnqueueFails, ReadSession, LiveFails
<1> QED
  BY <1>1, <1>5, <1>9, <1>10

------------------------------------------------------------------------------
(* The handlers' invariant under every step of the system.                     *)

\* It holds when nothing has happened yet, whatever agents are registered.
LEMMA HandlerInit ==
  ASSUME NEW registered \in SUBSET Agent, WebhookStart(registered)
  PROVE  Inv /\ HandlerInv
<1>1. Inv
  BY InitInv DEF WebhookStart
<1>2. HandlerTypes
  BY HandlerAssumption DEF WebhookStart, HandlerTypes, LiveInit, LiveTypeOK, Stage, RowStatus
<1>3. ASSUME NEW h \in Handler PROVE HandlerSound(h)
  BY HandlerAssumption DEF WebhookStart, Init, Idle, HandlerSound, Serving, SeenRow, ClosesSession,
                           LatencyAfterEnd, InTransaction
<1>4. LiveHasSession
  BY DEF WebhookStart, LiveInit, LiveHasSession
<1> QED
  BY <1>1, <1>2, <1>3, <1>4 DEF HandlerInv

\* A step of a request keeps it.
LEMMA RequestInv ==
  ASSUME Inv, HandlerInv, NEW h \in Handler, HandlerStep(h) \/ Crash(h)
  PROVE  StepOf(h) /\ HandlerInv'
<1>1. h \in Process /\ HandlerTypes /\ HandlerSound(h) /\ StepOf(h) /\ TypeOK /\ Handler \subseteq Process
  BY HandlerAssumption, HandlerIsProcess DEF HandlerInv, Inv
<1>2. [Next]_vars
  BY <1>1, StepIsNext
<1>3. LiveTypeOK' /\ \A c \in Call : EntryStep(h, c)
  BY <1>1, HandlerEntry
<1>4. HandlerTypes'
  BY <1>1, <1>3, OwnRequest DEF HandlerTypes
<1>5. ASSUME NEW g \in Handler PROVE HandlerSound(g)'
  <2>1. CASE g = h
    BY <1>1, <2>1, OwnPromises
  <2>2. CASE g # h
    <3>1. pc'[g] = pc[g] /\ msg'[g] = msg[g] /\ seen'[g] = seen[g] /\ governed' = governed
      BY <1>1, <2>2, OwnRequest
    <3>2. txn'[g] = txn[g]
      BY <1>1, <2>2, OthersUntouched
    <3> QED
      BY <1>2, <3>1, <3>2, Bystander DEF HandlerInv
  <2> QED
    BY <2>1, <2>2
<1>6. LiveHasSession'
  <2>1. ASSUME NEW c \in Call, live'[c] # None PROVE sessionRow'[c] # "absent"
    <3>1. Advances(c)
      BY <1>2, StoreAdvances
    <3>2. sessionRow[c] # "absent"
      BY <1>1, <1>3, <2>1 DEF EntryStep, HandlerInv, LiveHasSession, HandlerSound, SeenRow
    <3> QED
      BY <3>1, <3>2 DEF Advances
  <2> QED
    BY <2>1 DEF LiveHasSession
<1> QED
  BY <1>1, <1>4, <1>5, <1>6 DEF HandlerInv

\* So does a step of a process that is no handler.
LEMMA ElsewhereInv ==
  ASSUME Inv, HandlerInv, [Next]_vars, UNCHANGED <<live, webhookVars>>,
         \A h \in Handler : txn'[h] = txn[h]
  PROVE  HandlerInv'
<1>1. HandlerTypes'
  BY DEF HandlerInv, HandlerTypes, LiveTypeOK, webhookVars
<1>2. \A h \in Handler : HandlerSound(h)'
  BY Bystander DEF HandlerInv, webhookVars
<1>3. LiveHasSession'
  BY StoreAdvances DEF HandlerInv, LiveHasSession, Advances
<1> QED
  BY <1>1, <1>2, <1>3 DEF HandlerInv

\* What Vapi and the operators do to the handlers.
Outside ==
  \/ \E m \in Message : Discard(m) \/ \E h \in Handler : Receive(h, m)
  \/ \E a \in Agent : RemoveAgent(a) \/ RegisterAgent(a)

\* So does a delivery, a removal or a registration.
LEMMA OutsideInv ==
  ASSUME Inv, HandlerInv, Outside
  PROVE  UNCHANGED <<vars, queue, live>> /\ HandlerInv'
<1>1. UNCHANGED <<vars, queue, live>>
  BY DEF Outside, Discard, Receive, RemoveAgent, RegisterAgent
<1>2. [Next]_vars /\ \A h \in Handler : txn'[h] = txn[h]
  BY <1>1 DEF vars
<1>3. LiveHasSession' /\ LiveTypeOK'
  BY <1>1 DEF HandlerInv, HandlerTypes, LiveTypeOK, LiveHasSession, vars
<1>4. ASSUME NEW h \in Handler, NEW m \in Message, Receive(h, m) PROVE HandlerInv'
  <2>1. /\ pc'[h] = "gated" /\ msg'[h] = m /\ governed' = governed
        /\ AgentOf[m.call] \in governed /\ pc[h] = "idle"
        /\ \A g \in Handler \ {h} : pc'[g] = pc[g] /\ msg'[g] = msg[g]
        /\ seen' = seen
    BY <1>4 DEF Receive, Goto, HandlerInv, HandlerTypes
  <2>2. HandlerTypes'
    <3>1. delivered' \in [Message -> 0..MaxDelivery]
      BY <1>4, HandlerAssumption DEF Receive, HandlerInv, HandlerTypes
    <3>2. pc' \in [Handler -> Stage] /\ msg' \in [Handler -> Message \union {None}]
      BY <1>4 DEF Receive, Goto, HandlerInv, HandlerTypes, Stage
    <3> QED
      BY <1>3, <2>1, <3>1, <3>2 DEF HandlerInv, HandlerTypes
  <2>3. HandlerSound(h)'
    BY <1>2, <2>1 DEF HandlerInv, HandlerSound, Serving, SeenRow, ClosesSession, LatencyAfterEnd,
                      InTransaction, CallOf
  <2>4. \A g \in Handler \ {h} : HandlerSound(g)'
    BY <1>2, <2>1, Bystander DEF HandlerInv
  <2> QED
    BY <1>3, <2>2, <2>3, <2>4 DEF HandlerInv
<1>5. ASSUME UNCHANGED <<pc, msg, seen>>, governed' \subseteq Agent,
             delivered' \in [Message -> 0..MaxDelivery],
             "remove" \notin Fault => governed \subseteq governed'
      PROVE  HandlerInv'
  <2>1. HandlerTypes'
    BY <1>3, <1>5 DEF HandlerInv, HandlerTypes
  <2>2. \A h \in Handler : HandlerSound(h)'
    BY <1>2, <1>5, Bystander DEF HandlerInv
  <2> QED
    BY <1>3, <2>1, <2>2 DEF HandlerInv
<1>6. ASSUME NEW m \in Message, Discard(m) PROVE HandlerInv'
  <2>1. delivered' \in [Message -> 0..MaxDelivery]
    BY <1>6, HandlerAssumption DEF Discard, HandlerInv, HandlerTypes
  <2> QED
    BY <1>5, <1>6, <2>1 DEF Discard, HandlerInv, HandlerTypes
<1>7. ASSUME NEW a \in Agent, RemoveAgent(a) \/ RegisterAgent(a) PROVE HandlerInv'
  BY <1>5, <1>7 DEF RemoveAgent, RegisterAgent, HandlerInv, HandlerTypes
<1> QED
  BY <1>1, <1>4, <1>6, <1>7 DEF Outside

------------------------------------------------------------------------------
(* What the steps of a request may never do.                                   *)

\* A request changes the queue only by one task, for the call it is about, at "enqueue".
LEMMA HandlerQueue ==
  ASSUME QueueTypeOK, NEW h \in Handler, HandlerSound(h), HandlerStep(h) \/ Crash(h)
  PROVE  /\ QueueTypeOK'
         /\ \A c \in Call : queue'[c] > queue[c] => pc[h] = "enqueue" /\ CallOf(h) = c
<1>1. CASE UNCHANGED queue
  BY <1>1 DEF QueueTypeOK
<1>2. CASE EnqueueTask(h)
  <2>1. CallOf(h) \in Call /\ pc[h] = "enqueue" /\ queue' = [queue EXCEPT ![CallOf(h)] = @ + 1]
    BY <1>2, HandlerPlans DEF EnqueueTask, Enqueue, HandlerSound, Serving, CallOf
  <2> QED
    BY <2>1 DEF QueueTypeOK
<1>3. ASSUME ~ EnqueueTask(h) PROVE UNCHANGED queue
  BY <1>3 DEF HandlerStep, Crash, Persist, Statement, PersistCommit, PersistFails, RecordLatency,
              LatencyDone, EnqueueFails, ReadSession, Upsert, UpdateLive, LiveFails
<1> QED
  BY <1>1, <1>2, <1>3

\* What LiveFieldsKept says of one step.
FieldsKept ==
  \A c \in Call :
    live[c] # None /\ live'[c] # None =>
      /\ live[c].interrupted => live'[c].interrupted
      /\ live'[c].speaking # live[c].speaking =>
           \E h \in Handler : pc[h] = "live" /\ CallOf(h) = c /\ Resolve(msg[h]) \in LiveOnlyEvents

\* No step of a request loses a live field.
LEMMA RequestKeepsFields ==
  ASSUME HandlerInv, NEW h \in Handler, HandlerStep(h) \/ Crash(h)
  PROVE  FieldsKept
<1>1. \A c \in Call : EntryStep(h, c)
  BY HandlerEntry DEF HandlerInv
<1> QED
  BY <1>1 DEF EntryStep, FieldsKept

\* What TaskOnlyForClosed says of one step.
AskedForClosed == \A c \in Call : queue'[c] > queue[c] => sessionRow[c] \in Closed

\* While agents stay, a request asks for the evaluation of a closed session only.
LEMMA RequestAsksForClosed ==
  ASSUME HandlerInv, QueueTypeOK, "remove" \notin Fault, NEW h \in Handler,
         HandlerStep(h) \/ Crash(h)
  PROVE  AskedForClosed
<1>1. HandlerSound(h)
  BY DEF HandlerInv
<1> QED
  BY <1>1, HandlerQueue DEF AskedForClosed, HandlerSound, ClosesSession

------------------------------------------------------------------------------
(* Theorems.                                                                   *)

WebhookInv == Inv /\ HandlerInv /\ QueueTypeOK

\* Every step of the webhook is one of the trace store's and keeps the invariant.
LEMMA WebhookStep ==
  ASSUME WebhookInv, [WebhookNext]_allWebhookVars
  PROVE  [Next]_vars /\ WebhookInv'
<1>1. CASE UNCHANGED allWebhookVars
  <2>1. UNCHANGED vars /\ UNCHANGED <<live, webhookVars>> /\ UNCHANGED queue
    BY <1>1 DEF allWebhookVars
  <2>2. Inv' /\ HandlerInv'
    BY <2>1, NextInv, ElsewhereInv DEF WebhookInv, vars
  <2> QED
    BY <2>1, <2>2 DEF WebhookInv, QueueTypeOK
<1>2. ASSUME NEW h \in Handler, HandlerStep(h) \/ Crash(h) PROVE [Next]_vars /\ WebhookInv'
  <2>1. StepOf(h) /\ HandlerInv' /\ h \in Process
    BY <1>2, RequestInv, HandlerAssumption DEF WebhookInv
  <2>2. [Next]_vars /\ Inv'
    BY <2>1, StepIsNext, NextInv DEF WebhookInv
  <2>3. QueueTypeOK'
    BY <1>2, HandlerQueue DEF WebhookInv, HandlerInv
  <2> QED
    BY <2>1, <2>2, <2>3 DEF WebhookInv
<1>3. ASSUME Outside PROVE [Next]_vars /\ WebhookInv'
  <2>1. UNCHANGED <<vars, queue, live>> /\ HandlerInv'
    BY <1>3, OutsideInv DEF WebhookInv
  <2>2. Inv'
    BY <2>1, NextInv DEF WebhookInv
  <2> QED
    BY <2>1, <2>2 DEF WebhookInv, QueueTypeOK
<1> QED
  BY <1>1, <1>2, <1>3 DEF WebhookNext, Outside

\* The webhook's invariant holds in every reachable state.
THEOREM WebhookInvariance == WebhookSpec => []WebhookInv
<1>1. WebhookInit => WebhookInv
  BY HandlerInit DEF WebhookInit, WebhookInv, WebhookStart, QueueInit, QueueTypeOK
<1>2. WebhookInv /\ [WebhookNext]_allWebhookVars => WebhookInv'
  BY WebhookStep
<1> QED
  BY <1>1, <1>2, PTL DEF WebhookSpec

\* Every variable of the webhook keeps its type.
THEOREM WebhookTypeCorrect == WebhookSpec => []WebhookTypeOK
<1>1. WebhookInv => WebhookTypeOK
  BY DEF WebhookInv, Inv, HandlerInv, HandlerTypes, WebhookTypeOK
<1> QED
  BY <1>1, WebhookInvariance, PTL

\* The webhook implements the trace store: whatever the handlers, Vapi, the operators
\* and the faults do, the store sees only the transactions it allows, so that every
\* theorem about it holds behind the webhook.
THEOREM WebhookKeepsTrace == WebhookSpec => Spec
<1>1. WebhookInit => Init
  BY DEF WebhookInit, WebhookStart
<1>2. WebhookInv /\ [WebhookNext]_allWebhookVars => [Next]_vars
  BY WebhookStep
<1> QED
  BY <1>1, <1>2, WebhookInvariance, PTL DEF WebhookSpec, Spec

\* The supervision view never shows a call without a session.
THEOREM LiveEntriesHaveSessions == WebhookSpec => []LiveHasSession
<1>1. WebhookInv => LiveHasSession
  BY DEF WebhookInv, HandlerInv
<1> QED
  BY <1>1, WebhookInvariance, PTL

\* A resent start, or anything else, loses no interruption and no speaking role.
THEOREM LiveFieldsAreKept == WebhookSpec => LiveFieldsKept
<1>1. ASSUME WebhookInv, WebhookNext PROVE FieldsKept
  <2>1. CASE UNCHANGED live
    BY <2>1 DEF FieldsKept
  <2>2. ASSUME NEW h \in Handler, HandlerStep(h) \/ Crash(h) PROVE FieldsKept
    BY <1>1, <2>2, RequestKeepsFields DEF WebhookInv
  <2> QED
    BY <1>1, <2>1, <2>2 DEF WebhookNext, Receive, Discard, RemoveAgent, RegisterAgent
<1>2. WebhookInv /\ [WebhookNext]_allWebhookVars => [FieldsKept]_allWebhookVars
  BY <1>1
<1> QED
  BY <1>2, WebhookInvariance, PTL DEF WebhookSpec, LiveFieldsKept, FieldsKept

\* While no agent is removed, an evaluation is requested for a closed session only,
\* whichever of the deliveries of a call closed it.
THEOREM OnlyClosedAreEvaluated ==
  ASSUME "remove" \notin Fault
  PROVE  WebhookSpec => TaskOnlyForClosed
<1>1. ASSUME WebhookInv, WebhookNext PROVE AskedForClosed
  <2>1. CASE UNCHANGED queue
    BY <1>1, <2>1 DEF AskedForClosed, WebhookInv, QueueTypeOK
  <2>2. ASSUME NEW h \in Handler, HandlerStep(h) \/ Crash(h) PROVE AskedForClosed
    BY <1>1, <2>2, RequestAsksForClosed DEF WebhookInv
  <2> QED
    BY <1>1, <2>1, <2>2 DEF WebhookNext, Receive, Discard, RemoveAgent, RegisterAgent
<1>2. WebhookInv /\ [WebhookNext]_allWebhookVars => [AskedForClosed]_allWebhookVars
  BY <1>1
<1> QED
  BY <1>2, WebhookInvariance, PTL DEF WebhookSpec, TaskOnlyForClosed, AskedForClosed
===============================================================================
