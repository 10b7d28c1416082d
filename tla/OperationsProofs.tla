--------------------------- MODULE OperationsProofs ---------------------------
(* The platform's promises for any number of calls, handlers, workers, agents  *)
(* and readers.  The invariants of WebhookProofs and TaskProofs hold together, *)
(* because a step of one role is, for the other, a step of the store that      *)
(* leaves its transactions alone; the registry and the readers add theirs.     *)
EXTENDS Operations, WebhookProofs, TaskProofs, FunctionTheorems

PlatformInv == Inv /\ HandlerInv /\ TaskInv /\ EnrichmentInv /\ SnapshotInv /\ QueueTypeOK

\* What a worker does, in any of its steps.
Moves(w) == TaskStep(w) \/ Kill(w) \/ \E c \in Call : Accept(w, c)

------------------------------------------------------------------------------
(* What handlers begin.                                                        *)

\* The observations of a message are recorded as such.
LEMMA ObservationsObserve ==
  ASSUME NEW m \in Message
  PROVE  \A i \in 1..Len(ObserveCommands(m)) : ObserveCommands(m)[i].op = "observe"
<1> DEFINE S == {[op |-> "observe", type |-> o[1], key |-> o[2]] : o \in SystemObservations(m)}
           n == Cardinality(S)
<1>1. \A x \in S : x.op = "observe"
  OBVIOUS
<1>2. IsFiniteSet(S)
  <2> DEFINE O == SystemObservations(m)
             F == [o \in O |-> [op |-> "observe", type |-> o[1], key |-> o[2]]]
  <2>1. F \in [O -> S] /\ \A x \in S : \E o \in O : F[o] = x
    OBVIOUS
  <2>2. F \in Surjection(O, S)
    BY <2>1, Fun_IsSurj
  <2>3. IsFiniteSet(O)
    BY HandlerPlans
  <2> HIDE DEF O, F, S
  <2> QED
    BY <2>2, <2>3, FS_Surjection
<1>3. n \in Nat /\ ExistsBijection(1..n, S)
  BY <1>2, FS_CardinalityType
<1>4. \E f \in [1..n -> S] : Seqs!IsInjective(f)
  BY <1>3 DEF ExistsBijection, Bijection, Injection, Seqs!IsInjective, IsInjective
<1> HIDE DEF S
<1>5. Seqs!SetToSeq(S) \in [1..n -> S]
  <2>1. Seqs!Cardinality(S) = Cardinality(S)
    BY DEF Seqs!Cardinality, Cardinality
  <2> QED
    BY <1>4, <2>1 DEF Seqs!SetToSeq
<1>6. ObserveCommands(m) = Seqs!SetToSeq(S)
  BY DEF ObserveCommands, S
<1>7. ObserveCommands(m) \in Seq(Command)
  BY ObserveCommandsType
<1>8. Len(ObserveCommands(m)) = n
  BY <1>3, <1>5, <1>6, <1>7
<1> QED
  BY <1>1, <1>5, <1>6, <1>8

\* What a handler runs for a message is well told.
LEMMA MessagesAreQuiet ==
  ASSUME NEW m \in Message, PlanOf(m) # << >>
  PROVE  WellTold(PlanOf(m)) /\ PlanOf(m) \in Plan
<1> DEFINE own == IngestCommands(m)
           observed == ObserveCommands(m)
           cmd == [op |-> "ingest", type |-> Resolve(m), key |-> "none"]
           S == Command \union {cmd}
<1>1. observed \in Seq(Command) /\ Quiet(observed)
  BY ObserveCommandsType, ObservationsObserve DEF Quiet
<1>2. own \in {<< >>, <<cmd>>}
  BY DEF IngestCommands, OwnCommand
<1>3. cmd.op = "ingest" /\ cmd \in S
  OBVIOUS
<1>4. observed \in Seq(S)
  BY <1>1
<1> HIDE DEF observed, cmd, S, own
<1>5. own \in Seq(S) /\ Quiet(own)
  <2>1. CASE own = << >>
    BY <2>1 DEF Quiet
  <2>2. CASE own = <<cmd>>
    BY <1>3, <2>2 DEF Quiet
  <2> QED
    BY <1>2, <2>1, <2>2
<1>6. Quiet(own \o observed)
  BY <1>1, <1>4, <1>5, QuietConcat
<1>7. PlanOf(m) = own \o observed
  BY DEF PlanOf, own, observed
<1>8. PlanOf(m) \in Plan
  BY PlanOfKnown
<1> QED
  BY <1>6, <1>7, <1>8, QuietIsWellTold

\* Every step of a request that begins a transaction begins it with a well told plan.
LEMMA HandlerTells ==
  ASSUME NEW h \in Handler, HandlerSound(h), HandlerStep(h) \/ Crash(h)
  PROVE  TellingStep(h)
<1>1. CASE Persist(h)
  <2>1. msg[h] \in Message /\ msg[h].call \in Call
    BY <1>1, HandlerPlans DEF Persist, HandlerSound, Serving
  <2>2. UNCHANGED vars \/ (PlanOf(msg[h]) # << >> /\ Begin(h, msg[h].call, PlanOf(msg[h])))
    BY <1>1 DEF Persist
  <2> QED
    BY <2>1, <2>2, MessagesAreQuiet DEF TellingStep
<1>2. CASE RecordLatency(h)
  <2>1. CallOf(h) \in Call /\ LatencyPlan \in Plan
    BY <1>2, HandlerPlans DEF RecordLatency, HandlerSound, Serving, CallOf
  <2>2. WellTold(LatencyPlan)
    BY <2>1, QuietIsWellTold DEF Quiet, LatencyPlan
  <2> QED
    BY <1>2, <2>1, <2>2 DEF RecordLatency, TellingStep
<1>3. CASE \/ Statement(h) \/ PersistCommit(h) \/ PersistFails(h) \/ LatencyDone(h) \/ Crash(h)
  BY <1>3 DEF Statement, PersistCommit, PersistFails, LatencyDone, Crash, TellingStep
<1>4. CASE \/ EnqueueTask(h) \/ EnqueueFails(h) \/ ReadSession(h) \/ Upsert(h)
           \/ UpdateLive(h) \/ LiveFails(h)
  BY <1>4 DEF EnqueueTask, EnqueueFails, ReadSession, Upsert, UpdateLive, LiveFails, TellingStep
<1> QED
  BY <1>1, <1>2, <1>3, <1>4 DEF HandlerStep

------------------------------------------------------------------------------
(* Composition.                                                                *)

\* The invariant holds when nothing has happened, whatever agents are registered.
LEMMA PlatformStart ==
  ASSUME NEW registered \in SUBSET Agent, WebhookStart(registered), TaskInit
  PROVE  PlatformInv
<1>1. Inv /\ HandlerInv
  BY HandlerInit
<1>2. TaskInv /\ EnrichmentInv /\ SnapshotInv
  BY TaskInitInv, EnrichmentInit, SnapshotInit DEF WebhookStart
<1>3. QueueTypeOK
  BY DEF WebhookStart, QueueInit, QueueTypeOK
<1> QED
  BY <1>1, <1>2, <1>3 DEF PlatformInv

\* A step of the store that touches no worker's transaction keeps the workers' part.
LEMMA WorkersKept ==
  ASSUME PlatformInv, [Next]_vars, UNCHANGED taskVars, \A w \in Worker : txn'[w] = txn[w]
  PROVE  TaskInv' /\ EnrichmentInv'
  BY TasksElsewhereInv, EnrichmentElsewhere DEF PlatformInv

\* A step of a request.
LEMMA RequestOnPlatform ==
  ASSUME PlatformInv, NEW h \in Handler, HandlerStep(h) \/ Crash(h), UNCHANGED taskVars
  PROVE  StepOf(h) /\ PlatformInv'
<1>1. StepOf(h) /\ HandlerInv'
  BY RequestInv DEF PlatformInv
<1>2. h \in Process /\ Worker \subseteq Process /\ h \notin Worker /\ TypeOK
  BY HandlerAssumption, TaskAssumption, RolesDisjoint DEF PlatformInv, Inv
<1>3. [Next]_vars /\ Inv'
  BY <1>1, <1>2, StepIsNext, NextInv DEF PlatformInv
<1>4. \A w \in Worker : txn'[w] = txn[w]
  BY <1>1, <1>2, OthersUntouched
<1>5. TaskInv' /\ EnrichmentInv'
  BY <1>3, <1>4, WorkersKept
<1>6. QueueTypeOK'
  BY HandlerQueue DEF PlatformInv, HandlerInv
<1>7. SnapshotInv'
  BY <1>2, <1>3, HandlerTells, SnapshotsElsewhere DEF PlatformInv, HandlerInv
<1> QED
  BY <1>1, <1>3, <1>5, <1>6, <1>7 DEF PlatformInv

\* A step of a worker.
LEMMA WorkerOnPlatform ==
  ASSUME PlatformInv, NEW w \in Worker, Moves(w), UNCHANGED <<live, webhookVars>>
  PROVE  StepOf(w) /\ PlatformInv'
<1>1. StepOf(w) /\ TaskInv' /\ EnrichmentInv'
  BY WorkerInv, WorkerEnriches DEF PlatformInv, Moves
<1>2. w \in Process /\ Handler \subseteq Process /\ w \notin Handler /\ TypeOK
  BY HandlerAssumption, TaskAssumption, RolesDisjoint DEF PlatformInv, Inv
<1>3. [Next]_vars /\ Inv'
  BY <1>1, <1>2, StepIsNext, NextInv DEF PlatformInv
<1>4. \A h \in Handler : txn'[h] = txn[h]
  BY <1>1, <1>2, OthersUntouched
<1>5. HandlerInv'
  BY <1>3, <1>4, ElsewhereInv DEF PlatformInv
<1>6. QueueTypeOK'
  BY WorkerQueue DEF PlatformInv, Moves
<1>7. SnapshotInv'
  BY <1>3, WorkerSnapshots DEF PlatformInv, Moves
<1> QED
  BY <1>1, <1>3, <1>5, <1>6, <1>7 DEF PlatformInv

\* A delivery, a removal, a registration, or nothing.
LEMMA OutsideOnPlatform ==
  ASSUME PlatformInv, Outside \/ UNCHANGED <<vars, queue, live, webhookVars>>, UNCHANGED taskVars
  PROVE  UNCHANGED <<vars, queue>> /\ PlatformInv'
<1>1. UNCHANGED vars /\ UNCHANGED queue
  BY OutsideInv DEF PlatformInv
<1>2. [Next]_vars /\ Inv' /\ \A p \in Process : txn'[p] = txn[p]
  BY <1>1, NextInv DEF PlatformInv, vars
<1>3. Handler \subseteq Process /\ Worker \subseteq Process
  BY HandlerAssumption, TaskAssumption
<1>4. HandlerInv'
  BY <1>2, <1>3, OutsideInv, ElsewhereInv DEF PlatformInv
<1>5. TaskInv' /\ EnrichmentInv'
  BY <1>2, <1>3, WorkersKept
<1>6. SnapshotInv'
  BY <1>1, StillSnapshots DEF PlatformInv
<1> QED
  BY <1>1, <1>2, <1>4, <1>5, <1>6 DEF PlatformInv, QueueTypeOK

\* The steps of the platform are these.
LEMMA PlatformSteps ==
  ASSUME [PlatformNext]_allVars
  PROVE  \/ \E h \in Handler : (HandlerStep(h) \/ Crash(h)) /\ UNCHANGED taskVars
         \/ \E w \in Worker : Moves(w) /\ UNCHANGED <<live, webhookVars>>
         \/ (Outside \/ UNCHANGED <<vars, queue, live, webhookVars>>) /\ UNCHANGED taskVars
<1>1. CASE UNCHANGED allVars
  BY <1>1 DEF allVars
<1>2. CASE PlatformNext
  BY <1>2 DEF PlatformNext, Environment, HandlerMoves, WorkerMoves, WorkerAccepts, Moves, Outside
<1> QED
  BY <1>1, <1>2

\* Every step of the platform is one of the trace store's and keeps the invariant.
LEMMA PlatformStep ==
  ASSUME PlatformInv, [PlatformNext]_allVars
  PROVE  [Next]_vars /\ PlatformInv'
<1>1. ASSUME NEW h \in Handler, HandlerStep(h) \/ Crash(h), UNCHANGED taskVars
      PROVE  [Next]_vars /\ PlatformInv'
  BY <1>1, RequestOnPlatform, StepIsNext, HandlerAssumption
<1>2. ASSUME NEW w \in Worker, Moves(w), UNCHANGED <<live, webhookVars>>
      PROVE  [Next]_vars /\ PlatformInv'
  BY <1>2, WorkerOnPlatform, StepIsNext, TaskAssumption
<1>3. ASSUME Outside \/ UNCHANGED <<vars, queue, live, webhookVars>>, UNCHANGED taskVars
      PROVE  [Next]_vars /\ PlatformInv'
  BY <1>3, OutsideOnPlatform
<1> QED
  BY <1>1, <1>2, <1>3, PlatformSteps

\* The platform's invariant holds in every reachable state.
THEOREM PlatformInvariance == PlatformSpec => []PlatformInv
<1>1. PlatformInit => PlatformInv
  BY PlatformStart DEF PlatformInit, WebhookInit
<1>2. PlatformInv /\ [PlatformNext]_allVars => PlatformInv'
  BY PlatformStep
<1> QED
  BY <1>1, <1>2, PTL DEF PlatformSpec

------------------------------------------------------------------------------
(* What holds of the platform.                                                 *)

\* The platform implements the trace store: whatever handlers and workers do together,
\* the store sees only the transactions it allows.
THEOREM PlatformKeepsTrace == PlatformSpec => Spec
<1>1. PlatformInit => Init
  BY DEF PlatformInit, WebhookInit, WebhookStart
<1>2. PlatformInv /\ [PlatformNext]_allVars => [Next]_vars
  BY PlatformStep
<1> QED
  BY <1>1, <1>2, PlatformInvariance, PTL DEF PlatformSpec, Spec

\* Handlers and workers together give every call a serial history: each of their
\* transactions takes effect in one step, or not at all.
THEOREM PlatformIsSerial == PlatformSpec => Serializable
  BY PlatformKeepsTrace, TransactionsAreSerial

\* The trace stays sound under the plans that handlers and workers really run.
THEOREM PlatformIsSound == PlatformSpec => []PlatformSound
<1>1. PlatformInv => PlatformSound
  BY DEF PlatformInv, Inv, CommittedSound, Sound, Once, PlatformSound, SequenceIntact,
         LifecycleOrdered, OncePerSession
<1> QED
  BY <1>1, PlatformInvariance, PTL

\* Every variable of the evaluation task keeps its type.
THEOREM TaskTypeCorrect == PlatformSpec => []TaskTypeOK
<1>1. PlatformInv => TaskTypeOK
  BY DEF PlatformInv, Inv, TaskInv, TaskTypes, TaskTypeOK
<1> QED
  BY <1>1, PlatformInvariance, PTL

\* A session has one report, however many workers evaluate it at once.
THEOREM OneReportOnly == PlatformSpec => []OneReport
<1>1. PlatformInv => OneReport
  BY DEF PlatformInv, TaskInv, ReportsSound
<1> QED
  BY <1>1, PlatformInvariance, PTL

\* A report is only there with its evidences, on a closed session with the marker.
THEOREM ReportsCanBeAudited == PlatformSpec => []ReportAuditable
<1>1. PlatformInv => ReportAuditable
  BY DEF PlatformInv, TaskInv, ReportsSound
<1> QED
  BY <1>1, PlatformInvariance, PTL

\* A report says what the trace said at one moment, when every enrichment was there whole
\* or not at all.
THEOREM ReportsAreOfTrace == PlatformSpec => []ReportOfTrace
<1>1. PlatformInv => ReportOfTrace
  BY DEF PlatformInv, SnapshotInv
<1> QED
  BY <1>1, PlatformInvariance, PTL

\* With one worker the evidences of a session are those of one evaluation.
THEOREM EvidencesAreReplaced ==
  ASSUME Alone
  PROVE  PlatformSpec => []EvidencesReplaced
<1>1. PlatformInv => EvidencesReplaced
  BY DEF PlatformInv, TaskInv, ReportsSound
<1> QED
  BY <1>1, PlatformInvariance, PTL

\* When no enrichment is aborted, no report misses the turns and the silence recorded.
THEOREM ReportsSeeEnrichment ==
  ASSUME "abort" \notin TaskFault
  PROVE  PlatformSpec => []ReportSeesEnrichment
<1>1. PlatformInv => ReportSeesEnrichment
  BY DEF PlatformInv, EnrichmentInv
<1> QED
  BY <1>1, PlatformInvariance, PTL

\* A report, once written, is never withdrawn.
THEOREM ReportsAreKept == PlatformSpec => ReportStays
<1>1. ASSUME PlatformInv, [PlatformNext]_allVars PROVE ReportsKept
  <2>1. CASE UNCHANGED taskVars
    BY <2>1 DEF taskVars, ReportsKept
  <2>2. ASSUME NEW w \in Worker, Moves(w) PROVE ReportsKept
    BY <1>1, <2>2, WorkerKeepsReports DEF PlatformInv, Moves
  <2> QED
    BY <1>1, <2>1, <2>2, PlatformSteps
<1>2. PlatformInv /\ [PlatformNext]_allVars => [ReportsKept]_allVars
  BY <1>1
<1> QED
  BY <1>2, PlatformInvariance, PTL DEF PlatformSpec, ReportStays, ReportsKept

\* While no agent is removed, an evaluation is requested for a closed session only.
THEOREM ClosedOnPlatform ==
  ASSUME "remove" \notin Fault
  PROVE  PlatformSpec => TaskOnlyForClosed
<1>1. ASSUME PlatformInv, [PlatformNext]_allVars PROVE AskedForClosed
  <2>1. ASSUME NEW h \in Handler, HandlerStep(h) \/ Crash(h) PROVE AskedForClosed
    BY <1>1, <2>1, RequestAsksForClosed DEF PlatformInv
  <2>2. ASSUME NEW w \in Worker, Moves(w) PROVE AskedForClosed
    BY <1>1, <2>2, WorkerQueue DEF PlatformInv, Moves, AskedForClosed
  <2>3. ASSUME UNCHANGED queue PROVE AskedForClosed
    BY <1>1, <2>3 DEF PlatformInv, QueueTypeOK, AskedForClosed
  <2> QED
    BY <1>1, <2>1, <2>2, <2>3, PlatformSteps, OutsideInv DEF PlatformInv
<1>2. PlatformInv /\ [PlatformNext]_allVars => [AskedForClosed]_allWebhookVars
  BY <1>1
<1> QED
  BY <1>2, PlatformInvariance, PTL DEF PlatformSpec, TaskOnlyForClosed, AskedForClosed

------------------------------------------------------------------------------
(* The registry.                                                               *)

Registered(a) == agents[a] # None

KeyOf(c) == agents[AgentOf[c]].id

RegistryTypes ==
  /\ agents \in [Agent -> AgentRow \union {None}]
  /\ owner \in [Call -> AgentId \union {None}]
  /\ bound \in [Handler -> AgentId \union {None}]

\* No two agents share a key, and the agents that the webhook lets in are the rows that
\* are not deleted.
RegistrySound ==
  /\ \A a, b \in Agent : Registered(a) /\ Registered(b) /\ agents[a].id = agents[b].id => a = b
  /\ governed = {a \in Agent : Registered(a) /\ ~ agents[a].deleted}

\* A session belongs to the agent its assistant is registered as.
Owned(c) == sessionRow[c] # "absent" => Registered(AgentOf[c]) /\ owner[c] = KeyOf(c)

\* A transaction that can no longer create a session: it has nothing to ingest, or works
\* on one that is there.
NeverCreates(t) ==
  \/ t.phase = "load" /\ \A i \in 1..Len(t.todo) : t.todo[i].op # "ingest"
  \/ t.phase = "held" /\ sessionRow[t.call] # "absent"

\* The main transaction of a request holds the key of its call's agent as long as it may
\* create the session.
Keyed(h) ==
  pc[h] = "persist" =>
    \/ Registered(AgentOf[CallOf(h)]) /\ bound[h] = KeyOf(CallOf(h))
    \/ NeverCreates(txn[h])

RegistryInv ==
  /\ RegistryTypes
  /\ RegistrySound
  /\ \A c \in Call : Owned(c)
  /\ \A h \in Handler : Keyed(h)

------------------------------------------------------------------------------
(* The readers.                                                                *)

\* What a reader was told stays true: a session whose report it saw is closed, and the
\* session it is about to read the events of is there, and closed if it was told so.
ViewSound(r) ==
  LET v == viewed[r] IN
  /\ \A c \in v.reported : sessionRow[c] \in Closed
  /\ v.part = "row" =>
       /\ v.call \in Call /\ v.status # "absent"
       /\ v.status \in Closed => sessionRow[v.call] \in Closed
       /\ v.call \in v.reported => v.status \in Closed
  /\ v.part = "all" =>
       /\ v.status \in Closed => v.events # {}
       /\ v.status = "absent" => v.events = {}
       /\ v.call \in v.reported => v.status \in Closed

ViewInv == viewed \in [Reader -> View] /\ \A r \in Reader : ViewSound(r)

\* OneReport without counting.
SingleReports == \A c \in Call : \A r, s \in reports[c] : r = s

OperationsInv == PlatformInv /\ SingleReports /\ RegistryInv /\ ViewInv

------------------------------------------------------------------------------
(* Which transactions create sessions.                                         *)

\* A request is at its main transaction because it began it or because it goes on.
LEMMA AtPersist ==
  ASSUME HandlerTypes, NEW h \in Handler, HandlerSound(h), HandlerStep(h) \/ Crash(h),
         pc'[h] = "persist"
  PROVE  \/ Persist(h) /\ pc[h] = "gated" /\ Begin(h, CallOf(h), PlanOf(msg[h]))
         \/ Statement(h) /\ pc[h] = "persist" /\ Work(h)
<1>1. ASSUME NEW s, Goto(h, s) PROVE s = "persist"
  BY <1>1 DEF Goto, HandlerTypes
<1>2. \A b \in BOOLEAN : AfterPersist(msg[h], b) # "persist"
  BY DEF AfterPersist
<1>3. ~ Respond(h)
  BY <1>1 DEF Respond
<1>4. RecordedTerminal(h) \in BOOLEAN
  BY DEF RecordedTerminal
<1>5. ~ PersistCommit(h)
  BY <1>1, <1>2, <1>4 DEF PersistCommit
<1>6. ~ (\/ PersistFails(h) \/ Upsert(h) \/ UpdateLive(h) \/ LiveFails(h) \/ Crash(h))
  BY <1>3 DEF PersistFails, Upsert, UpdateLive, LiveFails, Crash
<1>7. ~ (RecordLatency(h) \/ LatencyDone(h) \/ EnqueueTask(h) \/ EnqueueFails(h) \/ ReadSession(h))
  BY <1>1 DEF RecordLatency, LatencyDone, EnqueueTask, EnqueueFails, ReadSession
<1>8. CASE Persist(h)
  <2>1. PlanOf(msg[h]) # << >>
    BY <1>1, <1>2, <1>8 DEF Persist
  <2> QED
    BY <1>8, <2>1 DEF Persist, CallOf
<1>9. CASE Statement(h)
  BY <1>9 DEF Statement, webhookVars
<1> QED
  BY <1>5, <1>6, <1>7, <1>8, <1>9 DEF HandlerStep

\* A session is created by the commit of a request's main transaction, which holds its row.
LEMMA Creation ==
  ASSUME PlatformInv, [PlatformNext]_allVars, NEW c \in Call,
         sessionRow[c] = "absent", sessionRow'[c] # "absent"
  PROVE  /\ rowLock[c] \in Handler
         /\ LET h == rowLock[c] IN pc[h] = "persist" /\ CallOf(h) = c /\ ~ NeverCreates(txn[h])
<1>1. [Next]_vars /\ TypeOK
  BY PlatformStep DEF PlatformInv, Inv
<1>2. PICK p \in Process : Commit(p) /\ txn[p].phase = "held"
  BY <1>1, OnlyCommitsWrite
<1>3. txn[p].call = c /\ rowLock[c] = p
  BY <1>1, <1>2, CommitIsDraft DEF TypeOK, PlatformInv, Inv, Draft
<1>4. txn'[p].phase = "idle"
  BY <1>1, <1>2, OwnTransaction
<1>5. ASSUME NEW q \in Process, StepOf(q) PROVE q = p
  BY <1>1, <1>2, <1>4, <1>5, OthersUntouched
<1>6. ASSUME NEW h \in Handler, HandlerStep(h) \/ Crash(h), UNCHANGED taskVars
      PROVE  h = p /\ pc[h] = "persist" /\ CallOf(h) = c /\ ~ NeverCreates(txn[h])
  <2>1. h = p /\ HandlerSound(h)
    BY <1>5, <1>6, RequestOnPlatform, HandlerAssumption DEF PlatformInv, HandlerInv
  <2>2. InTransaction(h) /\ CallOf(h) = c
    BY <1>2, <1>3, <2>1 DEF HandlerSound, Serving
  <2>3. pc[h] = "persist"
    BY <2>1, <2>2 DEF HandlerSound, LatencyAfterEnd, InTransaction, Closed
  <2> QED
    BY <1>2, <1>3, <2>1, <2>2, <2>3 DEF NeverCreates
<1>7. ASSUME NEW w \in Worker, Moves(w), UNCHANGED <<live, webhookVars>> PROVE FALSE
  <2>1. w = p /\ WorkerSound(w)
    BY <1>5, <1>7, WorkerOnPlatform, TaskAssumption DEF PlatformInv, TaskInv
  <2>2. step[w] \in TraceTxn /\ task[w].call = c
    BY <1>2, <1>3, <2>1 DEF WorkerSound, Working
  <2> QED
    BY <2>1, <2>2 DEF WorkerSound, Entitled, TraceTxn, Closed
<1>8. ~ UNCHANGED vars
  BY DEF vars
<1> QED
  BY <1>3, <1>6, <1>7, <1>8, PlatformSteps, OutsideOnPlatform

------------------------------------------------------------------------------
(* The registry under every step.                                              *)

\* A transaction that can no longer create a session never can again.
LEMMA NeverCreatesStays ==
  ASSUME Inv, NEW p \in Process, Work(p), NeverCreates(txn[p])
  PROVE  NeverCreates(txn[p])'
<1> DEFINE t == txn[p]
<1>1. TypeOK /\ t \in Transaction /\ t.todo \in Seq(Command) /\ sessionRow' = sessionRow
      /\ txn'[p].call = t.call /\ t.phase # "create"
  BY OwnTransaction DEF Inv, TypeOK, Transaction, NeverCreates
<1>2. CASE LoadForUpdate(p)
  BY <1>1, <1>2 DEF LoadForUpdate, NeverCreates, TypeOK, Transaction
<1>3. CASE LoadMiss(p)
  <2>1. t.phase = "load" /\ t.todo # << >> /\ \A i \in 1..Len(t.todo) : t.todo[i].op # "ingest"
    BY <1>3 DEF LoadMiss, NeverCreates
  <2>2. Head(t.todo).op # "ingest" /\ 1 <= Len(t.todo)
    BY <1>1, <2>1
  <2>3. txn'[p].phase = "load" /\ txn'[p].todo \in {Tail(t.todo), << >>}
    BY <1>1, <1>3, <2>2 DEF LoadMiss, TypeOK, Transaction
  <2>4. \A i \in 1..Len(Tail(t.todo)) : Tail(t.todo)[i].op # "ingest"
    BY <1>1, <2>1
  <2>5. \A i \in 1..Len(txn'[p].todo) : txn'[p].todo[i].op # "ingest"
    <3>1. CASE txn'[p].todo = Tail(t.todo)
      BY <2>4, <3>1
    <3>2. CASE txn'[p].todo = << >>
      BY <3>2
    <3> QED
      BY <2>3, <3>1, <3>2
  <2> QED
    BY <2>3, <2>5 DEF NeverCreates
<1>4. CASE Skip(p) \/ Record(p)
  <2>1. t.phase = "held" /\ txn'[p].phase = "held"
    BY <1>1, <1>4 DEF Skip, Record, TypeOK, Transaction
  <2> QED
    BY <1>1, <2>1 DEF NeverCreates
<1>5. ~ (Create(p) \/ CreateConflict(p))
  BY <1>1 DEF Create, CreateConflict
<1> QED
  BY <1>2, <1>3, <1>4, <1>5 DEF Work

\* Such a transaction is one while others act.
LEMMA NeverCreatesBystander ==
  ASSUME Inv, [Next]_vars, NEW p \in Process, NeverCreates(txn[p]), txn'[p] = txn[p]
  PROVE  NeverCreates(txn[p])'
<1>1. txn[p].phase = "held" => txn[p].call \in Call
  BY DEF Inv, Pending
<1> QED
  BY <1>1, StoreAdvances DEF NeverCreates, Advances

\* A request begins with the key of its agent, or with a plan that creates nothing.
LEMMA BeginsKeyed ==
  ASSUME PlatformInv, RegistryInv, NEW h \in Handler, pc[h] = "gated", pc'[h] = "persist",
         Begin(h, CallOf(h), PlanOf(msg[h])), bound' = [g \in Handler |-> Resolved(g)],
         msg'[h] = msg[h], UNCHANGED agents
  PROVE  Keyed(h)'
<1> DEFINE a == AgentOf[CallOf(h)]
           m == msg[h]
<1>1. m \in Message /\ h \in Process /\ TypeOK /\ a \in Agent
  BY HandlerAssumption, HandlerPlans
     DEF PlatformInv, Inv, HandlerInv, HandlerSound, Serving, CallOf
<1>2. CASE a \in governed
  <2>1. Registered(a) /\ bound'[h] = agents[a].id
    BY <1>2 DEF Resolved, RegistryInv, RegistrySound
  <2> QED
    BY <2>1 DEF Keyed, Registered, KeyOf, CallOf
<1>3. CASE a \notin governed
  <2>1. PlanOf(m) = << >> \o ObserveCommands(m)
    BY <1>3 DEF PlanOf, IngestCommands, CallOf
  <2>2. PlanOf(m) = ObserveCommands(m)
    BY <1>1, <2>1, ObserveCommandsType
  <2>3. txn'[h].phase = "load" /\ txn'[h].todo = ObserveCommands(m)
    BY <1>1, <2>2 DEF Begin, TypeOK
  <2> QED
    BY <1>1, <2>3, ObservationsObserve DEF Keyed, NeverCreates
<1> QED
  BY <1>2, <1>3

\* A request that goes on keeps the key.
LEMMA StaysKeyed ==
  ASSUME PlatformInv, RegistryInv, [Next]_vars, NEW h \in Handler, pc[h] = "persist", pc'[h] = "persist",
         msg'[h] = msg[h], txn'[h] = txn[h] \/ Work(h),
         bound' = [g \in Handler |-> Resolved(g)], UNCHANGED agents
  PROVE  Keyed(h)'
<1>1. h \in Process /\ Inv
  BY HandlerAssumption DEF PlatformInv
<1>2. CallOf(h)' = CallOf(h) /\ KeyOf(CallOf(h))' = KeyOf(CallOf(h))
  BY DEF CallOf, KeyOf
<1>3. bound'[h] = bound[h]
  BY DEF Resolved
<1>4. CASE Registered(AgentOf[CallOf(h)]) /\ bound[h] = KeyOf(CallOf(h))
  BY <1>2, <1>3, <1>4 DEF Keyed, Registered
<1>5. CASE NeverCreates(txn[h])
  <2>1. NeverCreates(txn[h])'
    BY <1>1, <1>5, NeverCreatesStays, NeverCreatesBystander
  <2> QED
    BY <2>1 DEF Keyed
<1> QED
  BY <1>4, <1>5 DEF RegistryInv, Keyed

\* A step of a handler or a worker keeps the registry's invariant.
LEMMA IngestKeepsRegistry ==
  ASSUME PlatformInv, RegistryInv, Ingest
  PROVE  RegistryInv'
<1>1. /\ [Next]_vars /\ PlatformInv' /\ TypeOK
      /\ governed' = governed /\ agents' = agents
      /\ bound' = [h \in Handler |-> Resolved(h)]
      /\ owner' = [c \in Call |-> IF sessionRow[c] = "absent" /\ sessionRow'[c] # "absent"
                                  THEN bound[rowLock[c]] ELSE owner[c]]
  BY PlatformStep DEF Ingest, PlatformInv, Inv
<1>2. RegistrySound'
  BY <1>1 DEF RegistryInv, RegistrySound, Registered
<1>3. ASSUME NEW c \in Call, sessionRow[c] = "absent", sessionRow'[c] # "absent"
      PROVE  Registered(AgentOf[c]) /\ bound[rowLock[c]] = KeyOf(c) /\ rowLock[c] \in Handler
  BY <1>3, Creation DEF Ingest, RegistryInv, Keyed
<1>4. ASSUME NEW c \in Call PROVE Owned(c)'
  <2>1. Registered(AgentOf[c])' <=> Registered(AgentOf[c])
    BY <1>1 DEF Registered
  <2>2. KeyOf(c)' = KeyOf(c)
    BY <1>1 DEF KeyOf
  <2> QED
    BY <1>1, <1>3, <2>1, <2>2 DEF Owned, RegistryInv
<1>5. RegistryTypes'
  <2>1. owner' \in [Call -> AgentId \union {None}]
    BY <1>1, <1>3 DEF RegistryInv, RegistryTypes
  <2>2. ASSUME NEW h \in Handler PROVE Resolved(h) \in AgentId \union {None}
    <3>1. CASE pc[h] = "gated" /\ AgentOf[CallOf(h)] \in governed
      BY <3>1 DEF Resolved, RegistryInv, RegistryTypes, RegistrySound, Registered, AgentRow
    <3>2. CASE ~ (pc[h] = "gated" /\ AgentOf[CallOf(h)] \in governed)
      BY <3>2 DEF Resolved, RegistryInv, RegistryTypes
    <3> QED
      BY <3>1, <3>2
  <2>3. agents' \in [Agent -> AgentRow \union {None}]
    BY <1>1 DEF RegistryInv, RegistryTypes
  <2> QED
    BY <1>1, <2>1, <2>2, <2>3 DEF RegistryTypes
<1>6. ASSUME NEW h \in Handler PROVE Keyed(h)'
  <2> SUFFICES ASSUME pc'[h] = "persist" PROVE Keyed(h)'
    BY DEF Keyed
  <2>1. CASE pc'[h] = pc[h] /\ msg'[h] = msg[h] /\ txn'[h] = txn[h]
    BY <1>1, <2>1, StaysKeyed
  <2>2. ASSUME NEW g \in Handler, HandlerStep(g) \/ Crash(g), UNCHANGED taskVars PROVE Keyed(h)'
    <3>1. StepOf(g) /\ HandlerTypes /\ HandlerSound(g) /\ HandlerSound(h) /\ Handler \subseteq Process
      BY <2>2, RequestOnPlatform, HandlerAssumption DEF PlatformInv, HandlerInv
    <3>2. CASE g # h
      BY <1>1, <2>1, <2>2, <3>1, <3>2, OwnRequest, OthersUntouched DEF PlatformInv
    <3>3. CASE g = h
      <4>1. msg'[h] = msg[h]
        BY <2>2, <3>1, <3>3, OwnRequest DEF PlatformInv
      <4>2. CASE pc[h] = "gated" /\ Begin(h, CallOf(h), PlanOf(msg[h]))
        BY <1>1, <4>1, <4>2, BeginsKeyed
      <4>3. CASE pc[h] = "persist" /\ Work(h)
        BY <1>1, <4>1, <4>3, StaysKeyed
      <4> QED
        BY <2>2, <3>1, <3>3, <4>2, <4>3, AtPersist
    <3> QED
      BY <3>2, <3>3
  <2>3. ASSUME NEW w \in Worker, Moves(w), UNCHANGED <<live, webhookVars>> PROVE Keyed(h)'
    <3>1. StepOf(w) /\ w \in Process /\ h \in Process /\ h # w
      BY <2>3, WorkerOnPlatform, HandlerAssumption, TaskAssumption, RolesDisjoint
    <3>2. txn'[h] = txn[h] /\ pc' = pc /\ msg' = msg
      BY <1>1, <2>3, <3>1, OthersUntouched DEF webhookVars
    <3> QED
      BY <2>1, <3>2
  <2>4. ASSUME Outside \/ UNCHANGED <<vars, queue, live, webhookVars>>, UNCHANGED taskVars
        PROVE  Keyed(h)'
    <3>1. UNCHANGED vars
      BY <2>4, OutsideOnPlatform
    <3>2. ASSUME NEW g \in Handler, NEW m \in Message, Receive(g, m)
          PROVE  pc'[h] = pc[h] /\ msg'[h] = msg[h]
      <4>1. pc'[g] = "gated" /\ \A k \in Handler \ {g} : pc'[k] = pc[k] /\ msg'[k] = msg[k]
        BY <3>2 DEF Receive, Goto, PlatformInv, HandlerInv, HandlerTypes
      <4> QED
        BY <4>1
    <3>3. pc'[h] = pc[h] /\ msg'[h] = msg[h]
      BY <2>4, <3>2 DEF Outside, Discard, RemoveAgent, RegisterAgent, webhookVars
    <3> QED
      BY <2>1, <3>1, <3>3 DEF vars
  <2> QED
    BY <2>2, <2>3, <2>4, PlatformSteps DEF Ingest
<1> QED
  BY <1>2, <1>4, <1>5, <1>6 DEF RegistryInv

\* A registration keeps it: a key that is new is nobody's, and one that is there stays.
LEMMA RegisterKeepsRegistry ==
  ASSUME PlatformInv, RegistryInv, NEW a \in Agent, Register(a)
  PROVE  RegistryInv'
<1>1. /\ UNCHANGED <<vars, pc, msg, owner, bound>> /\ a \notin governed
      /\ governed' = governed \union {a}
  BY DEF Register, RegisterAgent
<1>2. /\ agents \in [Agent -> AgentRow \union {None}] /\ None \notin AgentRow
      /\ \A b \in Agent : Registered(b) => agents[b] \in AgentRow
  BY OperationsAssumption DEF RegistryInv, RegistryTypes, Registered
<1>3. PICK row \in AgentRow :
        /\ agents' = [agents EXCEPT ![a] = row] /\ ~ row.deleted
        /\ Registered(a) => row.id = agents[a].id
        /\ ~ Registered(a) => row.id \notin UsedIds
  <2>1. CASE agents[a] = None
    <3>1. PICK i \in AgentId \ UsedIds : agents' = [agents EXCEPT ![a] = [id |-> i, deleted |-> FALSE]]
      BY <2>1 DEF Register, UpsertAgent
    <3> DEFINE row == [id |-> i, deleted |-> FALSE]
    <3>2. row \in AgentRow /\ row.id = i /\ ~ row.deleted
      BY DEF AgentRow
    <3> HIDE DEF row
    <3> QED
      BY <2>1, <3>1, <3>2 DEF Registered, row
  <2>2. CASE agents[a] # None
    <3>1. agents' = [agents EXCEPT ![a] = [agents[a] EXCEPT !.deleted = FALSE]]
      BY <2>2 DEF Register, UpsertAgent
    <3>2. agents[a] \in AgentRow
      BY <1>2, <2>2 DEF Registered
    <3>3. [agents[a] EXCEPT !.deleted = FALSE] \in AgentRow
          /\ [agents[a] EXCEPT !.deleted = FALSE].id = agents[a].id
          /\ ~ [agents[a] EXCEPT !.deleted = FALSE].deleted
      BY <3>2 DEF AgentRow
    <3> QED
      BY <2>2, <3>1, <3>3 DEF Registered
  <2> QED
    BY <2>1, <2>2
<1>4. /\ agents' \in [Agent -> AgentRow \union {None}]
      /\ agents'[a] = row /\ row # None
      /\ \A b \in Agent \ {a} : agents'[b] = agents[b]
  BY <1>2, <1>3
<1>5. /\ Registered(a)'
      /\ \A b \in Agent : Registered(b) => Registered(b)' /\ agents'[b].id = agents[b].id
      /\ \A b \in Agent \ {a} : Registered(b)' <=> Registered(b)
  BY <1>3, <1>4 DEF Registered
<1>6. \A b, d \in Agent : Registered(b)' /\ Registered(d)' /\ agents'[b].id = agents'[d].id => b = d
  <2>1. ASSUME NEW b \in Agent \ {a}, Registered(b), agents[b].id = row.id PROVE FALSE
    <3>1. CASE Registered(a)
      BY <1>3, <2>1, <3>1 DEF RegistryInv, RegistrySound
    <3>2. CASE ~ Registered(a)
      BY <1>3, <2>1, <3>2 DEF UsedIds, Registered
    <3> QED
      BY <3>1, <3>2
  <2>2. ASSUME NEW b \in Agent \ {a}, NEW d \in Agent \ {a}, Registered(b), Registered(d),
               agents[b].id = agents[d].id
        PROVE  b = d
    BY <2>2 DEF RegistryInv, RegistrySound
  <2> QED
    BY <1>4, <1>5, <2>1, <2>2
<1>7. governed' = {b \in Agent : Registered(b)' /\ ~ agents'[b].deleted}
  BY <1>1, <1>3, <1>4, <1>5 DEF RegistryInv, RegistrySound
<1>8. ASSUME NEW c \in Call PROVE Owned(c)'
  BY <1>1, <1>5, HandlerAssumption DEF Owned, RegistryInv, KeyOf, vars
<1>9. ASSUME NEW h \in Handler PROVE Keyed(h)'
  <2>1. pc[h] = "persist" => AgentOf[CallOf(h)] \in Agent
    BY HandlerAssumption, HandlerPlans DEF PlatformInv, HandlerInv, HandlerSound, Serving, CallOf
  <2>2. CallOf(h)' = CallOf(h) /\ txn'[h] = txn[h] /\ sessionRow' = sessionRow
    BY <1>1 DEF CallOf, vars
  <2>3. NeverCreates(txn[h]) => NeverCreates(txn[h])'
    BY <2>2 DEF NeverCreates
  <2> QED
    BY <1>1, <1>5, <2>1, <2>2, <2>3 DEF RegistryInv, Keyed, KeyOf
<1>10. RegistrySound'
  BY <1>6, <1>7 DEF RegistrySound
<1> QED
  BY <1>1, <1>4, <1>8, <1>9, <1>10 DEF RegistryInv, RegistryTypes

\* So does a removal, which keeps the row with its key.
LEMMA RemoveKeepsRegistry ==
  ASSUME PlatformInv, RegistryInv, NEW a \in Agent, Remove(a)
  PROVE  RegistryInv'
<1>1. /\ UNCHANGED <<vars, pc, msg, owner, bound>> /\ a \in governed
      /\ governed' = governed \ {a}
      /\ agents' = [agents EXCEPT ![a] = [agents[a] EXCEPT !.deleted = TRUE]]
  BY DEF Remove, RemoveAgent
<1>2. agents \in [Agent -> AgentRow \union {None}] /\ Registered(a) /\ agents[a] \in AgentRow
  BY <1>1 DEF RegistryInv, RegistryTypes, RegistrySound, Registered
<1>3. PICK row \in AgentRow :
        agents' = [agents EXCEPT ![a] = row] /\ row.id = agents[a].id /\ row.deleted
  <2>1. /\ [agents[a] EXCEPT !.deleted = TRUE] \in AgentRow
        /\ [agents[a] EXCEPT !.deleted = TRUE].id = agents[a].id
        /\ [agents[a] EXCEPT !.deleted = TRUE].deleted
    BY <1>2 DEF AgentRow
  <2> QED
    BY <1>1, <2>1
<1>4. /\ agents' \in [Agent -> AgentRow \union {None}]
      /\ agents'[a] = row /\ row # None
      /\ \A b \in Agent \ {a} : agents'[b] = agents[b]
  BY <1>2, <1>3, OperationsAssumption
<1>5. \A b \in Agent : (Registered(b)' <=> Registered(b)) /\ agents'[b].id = agents[b].id
  BY <1>2, <1>3, <1>4 DEF Registered
<1>6. RegistrySound'
  <2>1. governed' = {b \in Agent : Registered(b)' /\ ~ agents'[b].deleted}
    BY <1>1, <1>3, <1>4, <1>5 DEF RegistryInv, RegistrySound
  <2> QED
    BY <1>5, <2>1 DEF RegistryInv, RegistrySound
<1>7. ASSUME NEW c \in Call PROVE Owned(c)'
  BY <1>1, <1>5, HandlerAssumption DEF Owned, RegistryInv, KeyOf, vars
<1>8. ASSUME NEW h \in Handler PROVE Keyed(h)'
  <2>1. pc[h] = "persist" => AgentOf[CallOf(h)] \in Agent
    BY HandlerAssumption, HandlerPlans DEF PlatformInv, HandlerInv, HandlerSound, Serving, CallOf
  <2>2. CallOf(h)' = CallOf(h) /\ txn'[h] = txn[h] /\ sessionRow' = sessionRow
    BY <1>1 DEF CallOf, vars
  <2>3. NeverCreates(txn[h]) => NeverCreates(txn[h])'
    BY <2>2 DEF NeverCreates
  <2> QED
    BY <1>1, <1>5, <2>1, <2>2, <2>3 DEF RegistryInv, Keyed, KeyOf
<1> QED
  BY <1>1, <1>4, <1>6, <1>7, <1>8 DEF RegistryInv, RegistryTypes

------------------------------------------------------------------------------
(* The readers under every step.                                               *)

\* What readers were told stays true while the store goes on.
LEMMA ViewsStay ==
  ASSUME Inv, ViewInv, [Next]_vars, UNCHANGED viewed
  PROVE  ViewInv'
<1>1. \A c \in Call : Advances(c)
  BY StoreAdvances
<1>2. ASSUME NEW r \in Reader PROVE ViewSound(r)'
  <2>1. ViewSound(r) /\ viewed[r].reported \subseteq Call
    BY DEF ViewInv, View
  <2> QED
    BY <1>1, <2>1 DEF ViewSound, Advances
<1> QED
  BY <1>2 DEF ViewInv

\* A reader that is answered leaves the other readers alone.
LEMMA OtherViews ==
  ASSUME ViewInv, UNCHANGED vars, NEW r \in Reader, NEW v \in View,
         viewed' = [viewed EXCEPT ![r] = v], ViewSound(r)'
  PROVE  ViewInv'
<1>1. \A q \in Reader \ {r} : viewed'[q] = viewed[q]
  BY DEF ViewInv
<1>2. ASSUME NEW q \in Reader \ {r} PROVE ViewSound(q)'
  BY <1>1 DEF ViewInv, ViewSound, vars
<1> QED
  BY <1>2 DEF ViewInv

\* A session is shown as its row was before its events are read, and those of a closed
\* session hold the event that closed it.
LEMMA SessionShown ==
  ASSUME Inv, ViewInv, NEW r \in Reader, NEW c \in Call, GetSession(r, c)
  PROVE  ViewInv'
<1> DEFINE old == viewed[r]
<1>1. /\ UNCHANGED vars /\ TypeOK /\ old \in View /\ ViewSound(r)
      /\ \A v : [viewed EXCEPT ![r] = v][r] = v
  BY DEF GetSession, allVars, Inv, ViewInv
<1>2. EventsOut(c) \in SUBSET TerminalEvents /\ sessionRow[c] \in RowStatus
  BY <1>1 DEF EventsOut, TypeOK
<1>3. ASSUME old.part # "row",
             viewed' = [viewed EXCEPT ![r].part = IF sessionRow[c] = "absent" THEN "all" ELSE "row",
                                      ![r].call = c, ![r].status = sessionRow[c], ![r].events = {}]
      PROVE  ViewInv'
  <2> DEFINE part == IF sessionRow[c] = "absent" THEN "all" ELSE "row"
             v == [old EXCEPT !.part = part, !.call = c, !.status = sessionRow[c], !.events = {}]
  <2>1. /\ v \in View /\ v.part = part /\ v.call = c /\ v.status = sessionRow[c] /\ v.events = {}
        /\ v.reported = old.reported
    BY <1>1, <1>2 DEF View
  <2>2. viewed' = [viewed EXCEPT ![r] = v]
    BY <1>3
  <2> HIDE DEF v
  <2>3. viewed'[r] = v /\ sessionRow' = sessionRow
    BY <1>1, <2>2 DEF vars
  <2>4. \A d \in v.reported : sessionRow[d] \in Closed
    BY <1>1, <2>1 DEF ViewSound
  <2>5. ViewSound(r)'
    BY <2>1, <2>3, <2>4 DEF ViewSound, Closed
  <2> QED
    BY <1>1, <2>1, <2>2, <2>5, OtherViews
<1>4. ASSUME old.part = "row", old.call = c,
             viewed' = [viewed EXCEPT ![r].part = "all", ![r].events = EventsOut(c)]
      PROVE  ViewInv'
  <2> DEFINE v == [old EXCEPT !.part = "all", !.events = EventsOut(c)]
  <2>1. /\ v \in View /\ v.part = "all" /\ v.call = c /\ v.status = old.status
        /\ v.events = EventsOut(c) /\ v.reported = old.reported
    BY <1>1, <1>2, <1>4 DEF View
  <2>2. viewed' = [viewed EXCEPT ![r] = v]
    BY <1>4
  <2> HIDE DEF v
  <2>3. viewed'[r] = v /\ sessionRow' = sessionRow
    BY <1>1, <2>2 DEF vars
  <2>4. /\ \A d \in v.reported : sessionRow[d] \in Closed
        /\ v.status # "absent" /\ (v.status \in Closed => sessionRow[c] \in Closed)
        /\ c \in v.reported => v.status \in Closed
    BY <1>1, <1>4, <2>1 DEF ViewSound
  <2>5. v.status \in Closed => v.events # {}
    BY <2>1, <2>4, ClosedHasTerminal DEF EventsOut
  <2>6. ViewSound(r)'
    BY <2>1, <2>3, <2>4, <2>5 DEF ViewSound
  <2> QED
    BY <1>1, <2>1, <2>2, <2>6, OtherViews
<1> QED
  BY <1>3, <1>4 DEF GetSession

\* A report is shown of closed sessions only.
LEMMA ReportShown ==
  ASSUME PlatformInv, ViewInv, NEW r \in Reader, NEW c \in Call, GetReport(r, c)
  PROVE  ViewInv'
<1> DEFINE old == viewed[r]
           v == [Unread EXCEPT !.reported = old.reported \union {c}]
<1>1. UNCHANGED vars /\ old \in View /\ ViewSound(r) /\ viewed' = [viewed EXCEPT ![r] = v]
  BY DEF GetReport, allVars, ViewInv
<1>2. v \in View /\ v.part = "none" /\ v.reported = old.reported \union {c}
  BY <1>1 DEF View, Unread, RowStatus
<1>3. sessionRow[c] \in Closed
  BY DEF GetReport, PlatformInv, TaskInv, ReportsSound, ReportAuditable
<1> HIDE DEF v
<1>4. viewed'[r] = v /\ sessionRow' = sessionRow
  BY <1>1 DEF ViewInv, vars
<1>5. ViewSound(r)'
  BY <1>1, <1>2, <1>3, <1>4 DEF ViewSound
<1> QED
  BY <1>1, <1>2, <1>5, OtherViews

------------------------------------------------------------------------------
(* The operators' view under every step.                                       *)

\* A session has at most one report after each step of the platform.
LEMMA SingleStays ==
  ASSUME PlatformInv, SingleReports, [PlatformNext]_allVars
  PROVE  SingleReports'
<1>1. ASSUME NEW w \in Worker, Moves(w) PROVE SingleReports'
  <2>1. CASE CommitEvaluation(w)
    BY <2>1, Published DEF PlatformInv, TaskInv, SingleReports
  <2>2. CASE UNCHANGED reports
    BY <2>2 DEF SingleReports
  <2> QED
    BY <1>1, <2>1, <2>2, OnlyEvaluationsPublish DEF Moves
<1>2. ASSUME UNCHANGED taskVars PROVE SingleReports'
  BY <1>2 DEF taskVars, SingleReports
<1> QED
  BY <1>1, <1>2, PlatformSteps

\* What an operator does or sees is a step of the platform or leaves it alone.
LEMMA OperationsSteps ==
  ASSUME [OperationsNext]_operationsVars
  PROVE  [PlatformNext]_allVars
<1>1. ASSUME NEW a \in Agent, Register(a) \/ Remove(a) PROVE PlatformNext
  BY <1>1 DEF Register, Remove, PlatformNext, Environment
<1> QED
  BY <1>1 DEF OperationsNext, operationsVars, Ingest, GetSession, GetReport

\* Every step that an operator can see keeps the invariant.
LEMMA OperationsStep ==
  ASSUME OperationsInv, [OperationsNext]_operationsVars
  PROVE  OperationsInv'
<1>1. [PlatformNext]_allVars /\ PlatformInv /\ Inv /\ RegistryInv /\ ViewInv /\ SingleReports
  BY OperationsSteps DEF OperationsInv, PlatformInv
<1>2. [Next]_vars /\ PlatformInv' /\ SingleReports'
  BY <1>1, PlatformStep, SingleStays
<1>3. CASE Ingest
  <2>1. RegistryInv'
    BY <1>1, <1>3, IngestKeepsRegistry
  <2>2. ViewInv'
    BY <1>1, <1>2, <1>3, ViewsStay DEF Ingest
  <2> QED
    BY <1>2, <2>1, <2>2 DEF OperationsInv
<1>4. ASSUME NEW a \in Agent, Register(a) \/ Remove(a) PROVE OperationsInv'
  <2>1. RegistryInv'
    BY <1>1, <1>4, RegisterKeepsRegistry, RemoveKeepsRegistry
  <2>2. ViewInv'
    BY <1>1, <1>2, <1>4, ViewsStay DEF Register, Remove
  <2> QED
    BY <1>2, <2>1, <2>2 DEF OperationsInv
<1>5. ASSUME UNCHANGED <<allVars, registryVars>> PROVE RegistryInv'
  <2>1. /\ UNCHANGED <<sessionRow, txn, governed, pc, msg>>
        /\ UNCHANGED <<agents, owner, bound>>
    BY <1>5 DEF allVars, registryVars, vars, webhookVars
  <2> QED
    BY <1>1, <2>1 DEF RegistryInv, RegistryTypes, RegistrySound, Owned, Keyed, NeverCreates,
                      Registered, KeyOf, CallOf
<1>6. ASSUME NEW r \in Reader, NEW c \in Call, GetSession(r, c) \/ GetReport(r, c)
      PROVE  OperationsInv'
  <2>1. RegistryInv'
    BY <1>5, <1>6 DEF GetSession, GetReport
  <2>2. ViewInv'
    BY <1>1, <1>6, SessionShown, ReportShown
  <2> QED
    BY <1>2, <2>1, <2>2 DEF OperationsInv
<1>7. CASE UNCHANGED operationsVars
  <2>1. UNCHANGED viewed /\ UNCHANGED <<allVars, registryVars>>
    BY <1>7 DEF operationsVars
  <2>2. RegistryInv' /\ ViewInv'
    BY <1>1, <1>2, <1>5, <2>1, ViewsStay
  <2> QED
    BY <1>2, <2>2 DEF OperationsInv
<1> QED
  BY <1>3, <1>4, <1>6, <1>7 DEF OperationsNext

\* It holds at the start, when no agent is registered.
LEMMA OperationsStart == OperationsInit => OperationsInv
<1> SUFFICES ASSUME OperationsInit PROVE OperationsInv
  OBVIOUS
<1>1. PlatformInv
  BY PlatformStart DEF OperationsInit
<1>2. /\ governed = {} /\ sessionRow = [c \in Call |-> "absent"] /\ pc = [h \in Handler |-> "idle"]
      /\ reports = [c \in Call |-> {}]
  BY DEF OperationsInit, WebhookStart, Init, TaskInit
<1>3. RegistryInv
  BY <1>2 DEF OperationsInit, RegistryInv, RegistryTypes, RegistrySound, Owned, Keyed, Registered
<1>4. ViewInv
  BY DEF OperationsInit, ViewInv, ViewSound, View, Unread, RowStatus
<1>5. SingleReports
  BY <1>2 DEF SingleReports
<1> QED
  BY <1>1, <1>3, <1>4, <1>5 DEF OperationsInv

\* The operators' invariant holds in every reachable state.
THEOREM OperationsInvariance == OperationsSpec => []OperationsInv
  BY OperationsStart, OperationsStep, PTL DEF OperationsSpec

\* The list of sessions shows every session once, under its agent, with a result only
\* when it is closed, and the list of agents those that the webhook lets in.
THEOREM SessionsAreListed == OperationsSpec => []SessionsListed
<1>1. ASSUME OperationsInv PROVE SessionsListed
  <2>1. RegistrySound /\ PlatformInv /\ SingleReports /\ \A c \in Call : Owned(c)
    BY <1>1 DEF OperationsInv, RegistryInv
  <2>2. ASSUME NEW c \in Call, sessionRow[c] # "absent"
        PROVE  \E s \in ListSessions :
                 /\ {t \in ListSessions : t.call = c} = {s}
                 /\ s \in ListAgentSessions(agents[AgentOf[c]].id)
                 /\ s.report # None => s.status \in Closed
    <3> DEFINE a == AgentOf[c]
               result == IF reports[c] = {} THEN {None} ELSE reports[c]
    <3>1. a \in Agent /\ agents[a] # None /\ owner[c] = agents[a].id
      BY <2>1, <2>2, HandlerAssumption DEF Owned, Registered, KeyOf
    <3>2. {b \in Agent : agents[b] # None /\ agents[b].id = owner[c]} = {a}
      BY <2>1, <3>1 DEF RegistrySound, Registered
    <3>3. PICK x : result = {x}
      BY <2>1 DEF SingleReports
    <3> DEFINE s == [call |-> c, agent |-> agents[a].id, status |-> sessionRow[c], report |-> x]
    <3>4. Summary(c) = {s}
      BY <3>2, <3>3 DEF Summary
    <3>5. \A d \in Call : \A t \in Summary(d) : t.call = d
      BY DEF Summary
    <3>6. s \in ListSessions /\ {t \in ListSessions : t.call = c} = {s}
      BY <3>4, <3>5 DEF ListSessions
    <3>7. s \in ListAgentSessions(agents[a].id)
      BY <3>6 DEF ListAgentSessions
    <3>8. s.report # None => s.status \in Closed
      <4>1. x # None => x \in reports[c]
        BY <3>3
      <4> QED
        BY <2>1, <4>1 DEF PlatformInv, TaskInv, ReportsSound, ReportAuditable
    <3> QED
      BY <3>6, <3>7, <3>8
  <2>3. ListAgents = {agents[a].id : a \in governed}
    BY <2>1 DEF ListAgents, RegistrySound, Registered
  <2> QED
    BY <2>2, <2>3 DEF SessionsListed
<1> QED
  BY <1>1, OperationsInvariance, PTL

\* What a reader is told hangs together, without a lock and whatever commits between its
\* statements.
THEOREM ViewsAreConsistent == OperationsSpec => []ViewsHangTogether
<1>1. OperationsInv => ViewsHangTogether
  BY DEF OperationsInv, ViewInv, ViewSound, ViewsHangTogether
<1> QED
  BY <1>1, OperationsInvariance, PTL

\* Registration, removal and readers leave standing what holds of handlers and workers.
THEOREM OperatorsDisturbNothing ==
  ASSUME "abort" \notin TaskFault
  PROVE  OperationsSpec => /\ []PlatformSound /\ []OneReport /\ []ReportAuditable
                           /\ []ReportSeesEnrichment
<1>1. OperationsInv => PlatformSound
  BY DEF OperationsInv, PlatformInv, Inv, CommittedSound, Sound, Once, PlatformSound,
         SequenceIntact, LifecycleOrdered, OncePerSession
<1>2. OperationsInv => OneReport /\ ReportAuditable /\ ReportSeesEnrichment
  BY DEF OperationsInv, PlatformInv, TaskInv, ReportsSound, EnrichmentInv
<1> QED
  BY <1>1, <1>2, OperationsInvariance, PTL
===============================================================================
