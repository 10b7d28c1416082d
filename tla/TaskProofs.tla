------------------------------- MODULE TaskProofs -------------------------------
(* The evaluation task's promises for every number of workers, tasks and       *)
(* evaluations: TaskInv, with the trace store's Inv, is inductive.  Like the   *)
(* handlers' it is stated for one worker at a time.                            *)
EXTENDS EvaluationTask, TraceStoreProofs

Marker == "SESSION_EVALUATION_TRIGGERED"

\* A worker at work has a call, and its open transaction is on it.
Working(w) ==
  /\ step[w] # "idle" => task[w].call \in Call
  /\ step[w] \in TraceTxn => txn[w].phase # "idle" /\ txn[w].call = task[w].call
  /\ step[w] \notin TraceTxn => txn[w].phase = "idle"
  /\ IsFiniteSet(task[w].loaded)
  /\ step[w] \in Evaluating \union {"observe"} => task[w].run # 0

\* The marker is still to be recorded, or is in the draft.
Marking(t) ==
  \/ t.phase \in {"load", "held"} /\ t.todo = MarkerPlan
  \/ t.phase = "held" /\ Marker \in Types(t.events)

\* A task goes on only with a closed session, and past its first stage only with the
\* marker.
Entitled(w) ==
  /\ step[w] \notin {"idle", "taken"} => sessionRow[task[w].call] \in Closed
  /\ step[w] = "marker" => Marking(txn[w])
  /\ step[w] \notin {"idle", "taken", "marker"} => Marker \in Types(trace[task[w].call])

\* The report that a worker is about to commit replaces all there are, and no other
\* worker is about to commit one for the same call.
Replaces(w) ==
  step[w] = "commit" =>
    /\ reports[task[w].call] \subseteq task[w].oldReports
    /\ \A v \in Worker \ {w} : ~ (step[v] = "commit" /\ task[v].call = task[w].call)

\* So do its evidences, when it is the only worker.
Alone == \A v, w \in Worker : v = w

ReplacesEvidences(w) ==
  Alone /\ step[w] \in {"dropEvidences"} \union HoldsEvidences =>
    evidences[task[w].call] \subseteq task[w].oldEvidences

WorkerSound(w) == Working(w) /\ Entitled(w) /\ Replaces(w) /\ ReplacesEvidences(w)

TaskTypes ==
  /\ evidences \in [Call -> SUBSET Rows]
  /\ reports \in [Call -> SUBSET Rows]
  /\ keyShare \in [Call -> SUBSET Worker]
  /\ step \in [Worker -> Steps]
  /\ task \in [Worker -> [call : Call \union {None}, loaded : SUBSET Event, run : Nat,
                          oldEvidences : SUBSET Rows, oldReports : SUBSET Rows]]
  /\ runs \in 0..MaxRun

\* Every report is alone, and auditable; the evidences are those of one evaluation when
\* there is one worker.
ReportsSound == OneReport /\ ReportAuditable /\ (Alone => EvidencesReplaced)

TaskInv ==
  /\ TaskTypes
  /\ \A w \in Worker : WorkerSound(w)
  /\ ReportsSound

------------------------------------------------------------------------------
(* Enrichment, when no transaction of a task fails.                            *)

HasTurns(E) == \A i \in 1..Len(Turns) : TurnId(i) \in Ids(E)
HasSilences(E) == HasSilence => "CONVERSATION_SILENCE_DETECTED" \in Types(E)

\* Every turn is still to be recorded, or is in the draft; so is the silence.
Speaking(t) ==
  /\ t.phase \in {"load", "held"}
  /\ t.phase = "load" => t.todo = Turns
  /\ t.phase = "held" =>
       \A i \in 1..Len(Turns) :
         TurnId(i) \in Ids(t.events) \/ \E j \in 1..Len(t.todo) : t.todo[j] = Turns[i]

Falling(t) ==
  /\ t.phase \in {"load", "held"}
  /\ t.phase = "load" => t.todo = SilencePlan
  /\ t.phase = "held" =>
       t.todo = SilencePlan \/ "CONVERSATION_SILENCE_DETECTED" \in Types(t.events)

\* Each stage leaves in the trace what it had to record, and the reload finds it.
Enriching(w) ==
  LET E == trace[task[w].call] IN
  /\ step[w] \notin {"idle", "taken"} => HasTerminal(w)
  /\ step[w] = "contentTxn" => Speaking(txn[w])
  /\ step[w] \in {"silence", "silenceTxn", "judge", "judgeTxn", "reload"} => HasTurns(E)
  /\ step[w] = "silenceTxn" => Falling(txn[w])
  /\ step[w] \in {"judge", "judgeTxn", "reload"} => HasSilences(E)
  /\ step[w] \in Evaluating => HasTurns(task[w].loaded) /\ HasSilences(task[w].loaded)

EnrichmentInv ==
  "abort" \notin TaskFault => (\A w \in Worker : Enriching(w)) /\ ReportSeesEnrichment

------------------------------------------------------------------------------
(* Plans and rows.                                                             *)

\* Whatever a worker does to the store is a step of its own transaction.
LEMMA WorkerIsProcess ==
  ASSUME NEW w \in Worker, Working(w),
         TaskStep(w) \/ Kill(w) \/ \E c \in Call : Accept(w, c)
  PROVE  StepOf(w)
<1>1. step[w] # "idle" => task[w].call \in Call
  BY DEF Working
<1>2. CASE Mark(w)
  BY <1>1, <1>2, TaskPlans DEF Mark, StepOf
<1>3. CASE Enrich(w)
  <2>1. step[w] \in {"content", "silence", "judge"} /\ task[w].call \in Call
    BY <1>1, <1>3 DEF Enrich
  <2>2. PICK plan \in StagePlans(step[w]) :
          UNCHANGED vars \/ (plan # << >> /\ Begin(w, task[w].call, plan))
    BY <1>3 DEF Enrich
  <2> QED
    BY <2>1, <2>2, TaskPlans DEF StepOf
<1>4. CASE RecordError(w)
  <2>1. step[w] \in Failures /\ step[w] # "idle"
    BY <1>4 DEF RecordError, Failures
  <2> QED
    BY <1>1, <1>4, <2>1, TaskPlans DEF RecordError, StepOf
<1>5. CASE RecordObservations(w)
  <2>1. BlockingFlags(Row(w).findings) \in
          SUBSET {"session_failed", "goal_not_completed", "unrecovered_error"}
    BY DEF BlockingFlags
  <2> QED
    BY <1>1, <1>5, <2>1, TaskPlans DEF RecordObservations, StepOf
<1>6. CASE TaskStatement(w) \/ Marked(w) \/ Enriched(w) \/ Observed(w) \/ Kill(w)
  BY <1>6 DEF TaskStatement, Marked, Enriched, Observed, Kill, StepOf
<1>7. CASE \/ NotEvaluable(w) \/ Reload(w) \/ FindEvidences(w) \/ DropEvidences(w) \/ AddEvidences(w)
           \/ FindReport(w) \/ DropReport(w) \/ AddReport(w) \/ CommitEvaluation(w)
           \/ EvaluationFails(w) \/ \E c \in Call : Accept(w, c)
  BY <1>7 DEF NotEvaluable, Reload, FindEvidences, DropEvidences, AddEvidences, FindReport,
              DropReport, AddReport, CommitEvaluation, EvaluationFails, Accept, StepOf
<1> QED
  BY <1>2, <1>3, <1>4, <1>5, <1>6, <1>7 DEF TaskStep

\* What an evaluation concludes from a finite trace is a row's findings.
LEMMA FindingsType ==
  ASSUME NEW E \in SUBSET Event, IsFiniteSet(E), NEW run \in Nat \ {0}
  PROVE  [run |-> run, findings |-> Findings(E)] \in Rows
<1>1. ASSUME NEW types PROVE Count(E, types) \in Nat
  <2>1. IsFiniteSet({e \in E : e.type \in types})
    BY FS_Subset
  <2> QED
    BY <2>1, FS_CardinalityType DEF Count
<1>2. GoalOutcome(E) \in {"achieved", "failed", "unknown"}
  BY DEF GoalOutcome
<1>3. (Count(E, {"CONVERSATION_SILENCE_DETECTED"}) > 0) \in BOOLEAN
      /\ ("SESSION_FAILED" \in Types(E)) \in BOOLEAN
  OBVIOUS
<1> QED
  BY <1>1, <1>2, <1>3 DEF Findings, Rows

\* A committed trace is finite, and a part of Event.
LEMMA TraceFinite ==
  ASSUME Inv, NEW c \in Call
  PROVE  trace[c] \in SUBSET Event /\ IsFiniteSet(trace[c])
  BY DEF Inv, TypeOK, CommittedSound, Sound, Numbered

------------------------------------------------------------------------------
(* Steps.                                                                      *)

\* What a step of a worker does to the workers: it moves no other, and keeps the types.
LEMMA OwnTask ==
  ASSUME Inv, TaskTypes, NEW w \in Worker, Working(w),
         TaskStep(w) \/ Kill(w) \/ \E c \in Call : Accept(w, c)
  PROVE  /\ TaskTypes'
         /\ \A v \in Worker \ {w} : step'[v] = step[v] /\ task'[v] = task[v]
         /\ step'[w] # "idle" /\ step[w] # "idle" => task'[w].call = task[w].call
         /\ step'[w] # "idle" => task'[w].call \in Call
<1> DEFINE Record0 == [call : Call \union {None}, loaded : SUBSET Event, run : Nat,
                      oldEvidences : SUBSET Rows, oldReports : SUBSET Rows]
           c == task[w].call
           Moved == /\ step' \in [Worker -> Steps] /\ task' \in [Worker -> Record0]
                    /\ \A v \in Worker \ {w} : step'[v] = step[v] /\ task'[v] = task[v]
                    /\ step'[w] # "idle" /\ step[w] # "idle" => task'[w].call = task[w].call
                    /\ step'[w] # "idle" => task'[w].call \in Call
           Kept == /\ evidences' \in [Call -> SUBSET Rows] /\ reports' \in [Call -> SUBSET Rows]
                   /\ runs' \in 0..MaxRun
<1>1. step \in [Worker -> Steps] /\ task \in [Worker -> Record0] /\ task[w] \in Record0
  BY DEF TaskTypes
<1>2. step[w] # "idle" => c \in Call
  BY DEF Working
<1>3. ASSUME NEW s \in Steps, GoOn(w, s), step[w] # "idle",
             task' = task \/ \E t \in Record0 : t.call = c /\ task' = [task EXCEPT ![w] = t]
      PROVE  Moved
  BY <1>1, <1>2, <1>3 DEF GoOn
<1>4. ASSUME EndTask(w) PROVE Moved
  <2>1. NoWork \in Record0 /\ "idle" \in Steps
    BY DEF NoWork, Steps
  <2> QED
    BY <1>1, <1>4, <2>1 DEF EndTask, GoOn
<1>5. Steps = {"idle", "taken", "marker", "content", "contentTxn", "silence", "silenceTxn",
               "judge", "judgeTxn", "reload", "evaluate", "dropEvidences", "addEvidences",
               "replaceReport", "dropReport", "addReport", "commit", "conflict", "failed",
               "errorTxn", "observe", "observeTxn"}
  BY DEF Steps
<1>6. /\ evidences \in [Call -> SUBSET Rows] /\ reports \in [Call -> SUBSET Rows]
      /\ keyShare \in [Call -> SUBSET Worker] /\ runs \in 0..MaxRun /\ MaxRun \in Nat
  BY TaskAssumption DEF TaskTypes
<1>7. ASSUME NEW d \in Call, Accept(w, d) PROVE Moved
  <2>1. step' = [step EXCEPT ![w] = "taken"] /\ task' = [task EXCEPT ![w].call = d] /\ step[w] = "idle"
    BY <1>7 DEF Accept, GoOn
  <2>2. [task[w] EXCEPT !.call = d] \in Record0 /\ [task[w] EXCEPT !.call = d].call = d
    BY <1>1
  <2>3. task' = [task EXCEPT ![w] = [task[w] EXCEPT !.call = d]]
    BY <2>1
  <2> QED
    BY <1>1, <1>5, <2>1, <2>2, <2>3
<1>8. ASSUME NotEvaluable(w) \/ Observed(w) \/ Kill(w) PROVE Moved
  BY <1>4, <1>8 DEF NotEvaluable, Observed, Kill
<1>9. ASSUME Mark(w) PROVE Moved
  <2>1. GoOn(w, "marker") /\ task' = [task EXCEPT ![w].loaded = trace[c]] /\ step[w] = "taken" /\ c \in Call
    BY <1>2, <1>9 DEF Mark
  <2>2. /\ [task[w] EXCEPT !.loaded = trace[c]] \in Record0
        /\ [task[w] EXCEPT !.loaded = trace[c]].call = c
    BY <1>1, <2>1, TraceFinite
  <2>3. task' = [task EXCEPT ![w] = [task[w] EXCEPT !.loaded = trace[c]]]
    BY <2>1
  <2> QED
    BY <1>3, <1>5, <2>1, <2>2, <2>3
<1>10. ASSUME TaskStatement(w) PROVE Moved
  BY <1>1, <1>2, <1>10 DEF TaskStatement, taskVars, TraceTxn
<1>11. ASSUME Marked(w) \/ AddEvidences(w) \/ AddReport(w) \/ CommitEvaluation(w)
              \/ EvaluationFails(w) \/ RecordError(w) \/ RecordObservations(w)
       PROVE  Moved
  BY <1>3, <1>5, <1>11 DEF Marked, AddEvidences, AddReport, CommitEvaluation, EvaluationFails,
                           RecordError, RecordObservations, Evaluating, Failures
<1>12. ASSUME Enrich(w) \/ Enriched(w) PROVE Moved
  <2>1. \A s \in {"content", "silence", "judge"} :
          StageOf(s).next \in Steps /\ StageOf(s).txn \in Steps /\ StageOf(s).txn # "idle"
    BY DEF StageOf, Steps
  <2> QED
    BY <1>3, <1>12, <2>1 DEF Enrich, Enriched
<1>13. ASSUME NEW E \in SUBSET Event, NEW run \in Nat,
              task' = [task EXCEPT ![w].loaded = E, ![w].run = run],
              GoOn(w, "evaluate"), step[w] # "idle"
       PROVE  Moved
  <2>1. /\ [task[w] EXCEPT !.loaded = E, !.run = run] \in Record0
        /\ [task[w] EXCEPT !.loaded = E, !.run = run].call = c
    BY <1>1
  <2>2. task' = [task EXCEPT ![w] = [task[w] EXCEPT !.loaded = E, !.run = run]]
    BY <1>13
  <2> QED
    BY <1>3, <1>5, <1>13, <2>1, <2>2
<1>14. ASSUME Reload(w) PROVE Moved
  <2>1. step[w] = "reload" /\ c \in Call /\ trace[c] \in SUBSET Event /\ runs + 1 \in Nat
    BY <1>2, <1>6, <1>14, TraceFinite DEF Reload
  <2>2. /\ task' = [task EXCEPT ![w].loaded = trace[c], ![w].run = runs + 1]
        /\ GoOn(w, "evaluate")
    BY <1>14 DEF Reload
  <2> QED
    BY <1>13, <2>1, <2>2
<1>15. ASSUME NEW R \in SUBSET Rows, NEW s \in Steps, GoOn(w, s), step[w] # "idle",
              \/ task' = [task EXCEPT ![w].oldEvidences = R]
              \/ task' = [task EXCEPT ![w].oldReports = R]
       PROVE  Moved
  <2>1. /\ [task[w] EXCEPT !.oldEvidences = R] \in Record0 /\ [task[w] EXCEPT !.oldEvidences = R].call = c
        /\ [task[w] EXCEPT !.oldReports = R] \in Record0 /\ [task[w] EXCEPT !.oldReports = R].call = c
    BY <1>1
  <2>2. \/ task' = [task EXCEPT ![w] = [task[w] EXCEPT !.oldEvidences = R]]
        \/ task' = [task EXCEPT ![w] = [task[w] EXCEPT !.oldReports = R]]
    BY <1>15
  <2> QED
    BY <1>3, <1>15, <2>1, <2>2
<1>16. ASSUME FindEvidences(w) \/ DropEvidences(w) \/ FindReport(w) \/ DropReport(w) PROVE Moved
  <2>1. task[w].oldEvidences \in SUBSET Rows /\ task[w].oldReports \in SUBSET Rows
    BY <1>1
  <2>2. /\ c \in Call /\ evidences[c] \in SUBSET Rows /\ reports[c] \in SUBSET Rows
        /\ task[w].oldEvidences \intersect evidences[c] \in SUBSET Rows
        /\ task[w].oldReports \intersect reports[c] \in SUBSET Rows
    BY <1>2, <1>6, <1>16, <2>1 DEF FindEvidences, DropEvidences, FindReport, DropReport
  <2> QED
    BY <1>5, <1>15, <1>16, <2>2 DEF FindEvidences, DropEvidences, FindReport, DropReport
<1>17. Moved
  BY <1>7, <1>8, <1>9, <1>10, <1>11, <1>12, <1>14, <1>16 DEF TaskStep
<1>18. keyShare' \in [Call -> SUBSET Worker]
  <2>1. ASSUME Kill(w) PROVE keyShare' \in [Call -> SUBSET Worker]
    BY <1>6, <2>1 DEF Kill
  <2>2. ASSUME AddEvidences(w) \/ CommitEvaluation(w) \/ RecordError(w)
        PROVE  keyShare' \in [Call -> SUBSET Worker]
    BY <1>6, <2>2 DEF AddEvidences, CommitEvaluation, RecordError
  <2>3. ASSUME ~ Kill(w), ~ AddEvidences(w), ~ CommitEvaluation(w), ~ RecordError(w)
        PROVE  keyShare' = keyShare
    BY <2>3 DEF TaskStep, Accept, Mark, NotEvaluable, TaskStatement, taskVars, Marked, Enrich, Enriched,
                Reload, FindEvidences, DropEvidences, FindReport, DropReport, AddReport,
                EvaluationFails, RecordObservations, Observed
  <2> QED
    BY <1>6, <2>1, <2>2, <2>3
<1>19. Kept
  <2>1. CASE CommitEvaluation(w)
    <3>1. step[w] = "commit" /\ c \in Call /\ runs' = runs
      BY <1>2, <2>1 DEF CommitEvaluation
    <3>2. Row(w) \in Rows
      BY <1>1, <3>1, FindingsType DEF Working, Evaluating, Row
    <3> QED
      BY <1>6, <2>1, <3>1, <3>2 DEF CommitEvaluation
  <2>2. CASE Reload(w)
    BY <1>6, <2>2 DEF Reload
  <2>3. ASSUME ~ CommitEvaluation(w), ~ Reload(w)
        PROVE  UNCHANGED <<evidences, reports, runs>>
    BY <2>3 DEF TaskStep, Kill, Accept, Mark, NotEvaluable, TaskStatement, taskVars, Marked, Enrich,
                Enriched, FindEvidences, DropEvidences, AddEvidences, FindReport, DropReport,
                AddReport, EvaluationFails, RecordError, RecordObservations, Observed
  <2> QED
    BY <1>6, <2>1, <2>2, <2>3
<1> QED
  BY <1>17, <1>18, <1>19 DEF TaskTypes

\* A worker keeps its task and its title to it while others act.
LEMMA WorkerBystander ==
  ASSUME Inv, [Next]_vars, NEW w \in Worker, Working(w), Entitled(w),
         step'[w] = step[w], task'[w] = task[w], txn'[w] = txn[w]
  PROVE  Working(w)' /\ Entitled(w)'
<1>1. step[w] # "idle" => Advances(task[w].call)
  BY StoreAdvances DEF Working
<1> QED
  BY <1>1 DEF Working, Entitled, Advances, Types

\* The statements of the marker's transaction lose the marker nowhere.
LEMMA MarkingWorks ==
  ASSUME Inv, NEW p \in Process, Work(p), Marking(txn[p]), sessionRow[txn[p].call] \in Closed
  PROVE  Marking(txn'[p])
<1> DEFINE t == txn[p]
<1>1. TypeOK /\ t \in Transaction /\ t.todo \in Seq(Command) /\ t.events \in SUBSET Event
  BY DEF Inv, TypeOK, Transaction
<1>2. /\ MarkerPlan # << >> /\ Head(MarkerPlan).op = "marker" /\ Head(MarkerPlan).type = Marker
      /\ Tail(MarkerPlan) = << >> /\ MarkerPlan[1] = Head(MarkerPlan)
  BY DEF MarkerPlan, Marker
<1>3. CASE LoadForUpdate(p)
  <2>1. t.phase = "load" /\ txn'[p].phase = "held" /\ txn'[p].todo = t.todo
    BY <1>1, <1>3 DEF LoadForUpdate, TypeOK, Transaction
  <2> QED
    BY <2>1 DEF Marking
<1>4. CASE LoadMiss(p) \/ Create(p) \/ CreateConflict(p)
  BY <1>4 DEF LoadMiss, Create, CreateConflict, Marking, Closed
<1>5. CASE Skip(p)
  <2>1. /\ txn'[p].phase = "held" /\ txn'[p].events = t.events
        /\ Redundant(Head(t.todo), t.status, t.events)
    BY <1>1, <1>5 DEF Skip, TypeOK, Transaction
  <2>2. t.todo = MarkerPlan => Marker \in Types(t.events)
    BY <1>2, <2>1 DEF Redundant, Ignored, IngestDrops, Recorded, MarkerConflict
  <2> QED
    BY <2>1, <2>2 DEF Marking
<1>6. CASE Record(p)
  <2> DEFINE e == NewEvent(Head(t.todo), t.nonce, t.events)
  <2>1. txn'[p].phase = "held" /\ txn'[p].events = t.events \union {e} /\ e.type = Head(t.todo).type
    BY <1>1, <1>6 DEF Record, TypeOK, Transaction, NewEvent
  <2>2. t.todo = MarkerPlan => e.type = Marker
    BY <1>2, <2>1
  <2> HIDE DEF e
  <2> QED
    BY <2>1, <2>2 DEF Marking, Types
<1> QED
  BY <1>3, <1>4, <1>5, <1>6 DEF Work

\* A worker keeps its own task and title in each of its steps.
LEMMA OwnTitle ==
  ASSUME Inv, TaskTypes, NEW w \in Worker, Working(w), Entitled(w),
         TaskStep(w) \/ Kill(w) \/ \E c \in Call : Accept(w, c)
  PROVE  Working(w)' /\ Entitled(w)'
<1> DEFINE c == task[w].call
<1>1. w \in Process /\ StepOf(w) /\ [Next]_vars /\ TypeOK
  BY TaskAssumption, WorkerIsProcess, StepIsNext DEF Inv
<1>2. /\ step[w] # "idle" => c \in Call /\ Advances(c)
      /\ step'[w] # "idle" /\ step[w] # "idle" => task'[w].call = c
      /\ step'[w] # "idle" => task'[w].call \in Call
      /\ step'[w] \in Steps
  BY <1>1, StoreAdvances, OwnTask DEF Working, TaskTypes
<1>3. /\ step[w] \in TraceTxn => txn[w].phase # "idle" /\ txn[w].call = c
      /\ step[w] \notin TraceTxn => txn[w].phase = "idle"
      /\ IsFiniteSet(task[w].loaded)
      /\ step[w] \in Evaluating \union {"observe"} => task[w].run # 0
      /\ task[w] \in [call : Call \union {None}, loaded : SUBSET Event, run : Nat,
                      oldEvidences : SUBSET Rows, oldReports : SUBSET Rows]
  BY DEF Working, TaskTypes
<1>4. ASSUME NEW s, GoOn(w, s) PROVE step'[w] = s
  BY <1>4 DEF GoOn, TaskTypes
\* Past the marker, the title is never lost.
<1>5. ASSUME step[w] \notin {"idle", "taken", "marker"}, step'[w] \notin {"idle", "taken", "marker"}
      PROVE  Entitled(w)'
  BY <1>2, <1>5 DEF Entitled, Advances, Types
<1> HIDE DEF c
<1>6. CASE \E d \in Call : Accept(w, d)
  <2>1. /\ step[w] = "idle" /\ step'[w] = "taken" /\ txn' = txn
        /\ task'[w].loaded = task[w].loaded
    BY <1>3, <1>4, <1>6 DEF Accept, vars, TaskTypes
  <2> QED
    BY <1>2, <1>3, <2>1 DEF Working, Entitled, TraceTxn, Evaluating
<1>7. CASE NotEvaluable(w) \/ Observed(w) \/ Kill(w)
  <2>1. step'[w] = "idle" /\ task'[w].loaded = {}
    BY <1>4, <1>7 DEF NotEvaluable, Observed, Kill, EndTask, NoWork, TaskTypes
  <2>2. txn'[w].phase = "idle"
    <3>1. CASE NotEvaluable(w)
      BY <1>3, <3>1 DEF NotEvaluable, vars, TraceTxn
    <3>2. CASE Observed(w)
      BY <1>1, <3>2, OwnTransaction DEF Observed
    <3>3. CASE Kill(w)
      BY <1>1, <3>3, OwnTransaction DEF Kill, vars
    <3> QED
      BY <1>7, <3>1, <3>2, <3>3
  <2>3. IsFiniteSet({})
    BY FS_EmptySet
  <2> QED
    BY <2>1, <2>2, <2>3 DEF Working, Entitled, TraceTxn, Evaluating
<1>8. CASE Mark(w)
  <2>1. /\ step[w] = "taken" /\ step'[w] = "marker" /\ Begin(w, c, MarkerPlan)
        /\ sessionRow[c] \in Closed /\ task'[w].loaded = trace[c] /\ c \in Call
    BY <1>2, <1>4, <1>8 DEF Mark, TaskTypes, c
  <2>2. txn'[w].phase = "load" /\ txn'[w].call = c /\ txn'[w].todo = MarkerPlan
    BY <1>1, <2>1 DEF Begin, TypeOK
  <2>3. IsFiniteSet(trace[c])
    BY <2>1, TraceFinite
  <2>4. sessionRow'[c] \in Closed
    BY <1>2, <2>1 DEF Advances
  <2> QED
    BY <1>2, <2>1, <2>2, <2>3, <2>4 DEF Working, Entitled, Marking, TraceTxn, Evaluating
<1>9. CASE TaskStatement(w)
  <2>1. step[w] \in TraceTxn /\ Work(w) /\ step' = step /\ task' = task
    BY <1>9 DEF TaskStatement, taskVars
  <2>2. txn'[w].phase # "idle" /\ txn'[w].call = c
    BY <1>1, <1>3, <2>1, OwnTransaction
  <2>3. Working(w)'
    BY <1>2, <1>3, <2>1, <2>2 DEF Working, c
  <2>4. CASE step[w] = "marker"
    <3>1. Marking(txn[w]) /\ sessionRow[c] \in Closed
      BY <2>4 DEF Entitled, c
    <3>2. Marking(txn'[w])
      BY <1>1, <1>3, <2>1, <3>1, MarkingWorks
    <3>3. sessionRow'[c] \in Closed
      BY <1>2, <2>4, <3>1 DEF Advances
    <3> QED
      BY <2>1, <2>3, <2>4, <3>2, <3>3 DEF Entitled, c
  <2>5. CASE step[w] # "marker"
    BY <1>5, <2>1, <2>3, <2>5 DEF TraceTxn
  <2> QED
    BY <2>4, <2>5
<1>10. CASE Marked(w)
  <2>1. /\ step[w] = "marker" /\ step'[w] = "content" /\ Commit(w) /\ task' = task
        /\ txn[w].call = c /\ sessionRow[c] \in Closed /\ Marking(txn[w]) /\ c \in Call
    BY <1>2, <1>3, <1>4, <1>10 DEF Marked, Entitled, TraceTxn, c
  <2>2. txn[w].todo = << >> /\ MarkerPlan # << >>
    BY <2>1 DEF Commit, MarkerPlan
  <2>3. txn[w].phase = "held" /\ Marker \in Types(txn[w].events)
    BY <2>1, <2>2 DEF Marking
  <2>4. trace' = [trace EXCEPT ![c] = txn[w].events]
    BY <1>1, <2>1, <2>3, CommitIsDraft
  <2>5. Marker \in Types(trace'[c])
    BY <1>1, <2>1, <2>3, <2>4 DEF TypeOK
  <2>6. txn'[w].phase = "idle" /\ sessionRow'[c] \in Closed
    BY <1>1, <1>2, <2>1, OwnTransaction DEF Advances
  <2> QED
    BY <1>3, <2>1, <2>5, <2>6 DEF Working, Entitled, TraceTxn, Evaluating, c
\* Steps that begin a transaction, end one, or leave the store alone.
<1>11. ASSUME step[w] \notin {"idle", "taken", "marker"}, step'[w] \notin {"idle", "taken", "marker"},
              IsFiniteSet(task'[w].loaded),
              step'[w] \in Evaluating \union {"observe"} => task'[w].run # 0,
              \/ step'[w] \in TraceTxn /\ txn'[w].phase # "idle" /\ txn'[w].call = c
              \/ step'[w] \notin TraceTxn /\ txn'[w].phase = "idle"
       PROVE  Working(w)' /\ Entitled(w)'
  BY <1>2, <1>5, <1>11 DEF Working, Entitled
<1>12. ASSUME NEW plan \in Plan, Begin(w, c, plan), c \in Call
       PROVE  txn'[w].phase # "idle" /\ txn'[w].call = c
  BY <1>1, <1>12 DEF Begin, TypeOK
<1>13. /\ Evaluating \intersect TraceTxn = {} /\ "observe" \notin TraceTxn
       /\ Failures \intersect TraceTxn = {}
       /\ {"idle", "taken", "marker"} \intersect Evaluating = {}
  BY DEF Evaluating, TraceTxn, Failures
<1>14. CASE Enrich(w)
  <2>1. step[w] \in {"content", "silence", "judge"} /\ task' = task /\ c \in Call
    BY <1>2, <1>14 DEF Enrich
  <2>2. PICK plan \in StagePlans(step[w]) :
          IF plan = << >> \/ ~ HasTerminal(w)
          THEN GoOn(w, StageOf(step[w]).next) /\ UNCHANGED vars
          ELSE Begin(w, c, plan) /\ GoOn(w, StageOf(step[w]).txn)
    BY <1>14 DEF Enrich, c
  <2>3. /\ StageOf(step[w]).next \in {"silence", "judge", "reload"}
        /\ StageOf(step[w]).txn \in {"contentTxn", "silenceTxn", "judgeTxn"}
    BY <2>1 DEF StageOf
  <2>4. CASE plan = << >> \/ ~ HasTerminal(w)
    <3>1. step'[w] \in {"silence", "judge", "reload"} /\ txn' = txn
      BY <1>4, <2>2, <2>3, <2>4 DEF vars
    <3> QED
      BY <1>3, <1>11, <2>1, <3>1 DEF TraceTxn, Evaluating
  <2>5. CASE ~ (plan = << >> \/ ~ HasTerminal(w))
    <3>1. Begin(w, c, plan) /\ step'[w] \in {"contentTxn", "silenceTxn", "judgeTxn"} /\ plan \in Plan
      BY <1>4, <2>1, <2>2, <2>3, <2>5, TaskPlans
    <3>2. txn'[w].phase # "idle" /\ txn'[w].call = c
      BY <1>12, <2>1, <3>1
    <3> QED
      BY <1>3, <1>11, <2>1, <3>1, <3>2 DEF TraceTxn, Evaluating
  <2> QED
    BY <2>4, <2>5
<1>15. CASE Enriched(w)
  <2>1. PICK s \in {"content", "silence", "judge"} : step[w] = StageOf(s).txn /\ GoOn(w, StageOf(s).next)
    BY <1>15 DEF Enriched
  <2>2. /\ step[w] \in {"contentTxn", "silenceTxn", "judgeTxn"} /\ task' = task
        /\ step'[w] \in {"silence", "judge", "reload"}
    BY <1>4, <1>15, <2>1 DEF Enriched, StageOf
  <2>3. txn'[w].phase = "idle"
    BY <1>1, <1>15, OwnTransaction DEF Enriched
  <2> QED
    BY <1>3, <1>11, <2>2, <2>3 DEF TraceTxn, Evaluating
<1>16. CASE Reload(w)
  <2>1. step[w] = "reload" /\ step'[w] = "evaluate" /\ txn' = txn /\ c \in Call
    BY <1>2, <1>4, <1>16 DEF Reload, vars
  <2>2. task'[w].loaded = trace[c] /\ task'[w].run = runs + 1
    BY <1>3, <1>16 DEF Reload, TaskTypes, c
  <2>3. IsFiniteSet(trace[c]) /\ runs + 1 # 0
    BY <2>1, TraceFinite, TaskAssumption DEF TaskTypes
  <2> QED
    BY <1>3, <1>11, <2>1, <2>2, <2>3 DEF TraceTxn, Evaluating
<1>17. CASE \/ FindEvidences(w) \/ DropEvidences(w) \/ AddEvidences(w) \/ FindReport(w)
            \/ DropReport(w) \/ AddReport(w) \/ CommitEvaluation(w) \/ EvaluationFails(w)
  <2>1. step[w] \in Evaluating /\ txn' = txn /\ step'[w] \in Evaluating \union {"observe"} \union Failures
    BY <1>4, <1>17 DEF FindEvidences, DropEvidences, AddEvidences, FindReport, DropReport, AddReport,
                       CommitEvaluation, EvaluationFails, Evaluating, Failures, vars
  <2>2. task'[w].loaded = task[w].loaded /\ task'[w].run = task[w].run
    BY <1>3, <1>17 DEF FindEvidences, DropEvidences, AddEvidences, FindReport, DropReport, AddReport,
                       CommitEvaluation, EvaluationFails, TaskTypes
  <2> QED
    BY <1>3, <1>11, <1>13, <2>1, <2>2 DEF Failures, Evaluating, TraceTxn
<1>18. CASE RecordError(w) \/ RecordObservations(w)
  <2>1. step[w] \in Failures \union {"observe"} /\ step'[w] \in {"errorTxn", "observeTxn"} /\ task' = task
    BY <1>4, <1>18 DEF RecordError, RecordObservations
  <2>2. txn'[w].phase = "load" /\ txn'[w].call = c
    BY <1>1, <1>18 DEF RecordError, RecordObservations, Begin, TypeOK, c
  <2> QED
    BY <1>3, <1>11, <2>1, <2>2 DEF TraceTxn, Evaluating, Failures
<1> QED
  BY <1>6, <1>7, <1>8, <1>9, <1>10, <1>14, <1>15, <1>16, <1>17, <1>18 DEF TaskStep

------------------------------------------------------------------------------
(* Replacing evidences and report.                                             *)

\* Only the commit of an evaluation changes what readers see of it.
LEMMA OnlyEvaluationsPublish ==
  ASSUME NEW w \in Worker, TaskStep(w) \/ Kill(w) \/ \E c \in Call : Accept(w, c)
  PROVE  CommitEvaluation(w) \/ UNCHANGED <<evidences, reports>>
  BY DEF TaskStep, Kill, Accept, Mark, NotEvaluable, TaskStatement, taskVars, Marked, Enrich, Enriched,
         Reload, FindEvidences, DropEvidences, AddEvidences, FindReport, DropReport, AddReport,
         EvaluationFails, RecordError, RecordObservations, Observed

\* What the commit of an evaluation makes of its call: its one report, and that
\* evaluation's row among the evidences, alone when it is the only worker's.
LEMMA Published ==
  ASSUME TaskTypes, NEW w \in Worker, WorkerSound(w), CommitEvaluation(w)
  PROVE  LET c == task[w].call IN
         /\ c \in Call
         /\ reports'[c] = {Row(w)} /\ Row(w) \in evidences'[c]
         /\ Alone => evidences'[c] = {Row(w)}
         /\ \A d \in Call \ {c} : reports'[d] = reports[d] /\ evidences'[d] = evidences[d]
<1> DEFINE c == task[w].call
<1>1. step[w] = "commit" /\ c \in Call
  BY DEF CommitEvaluation, WorkerSound, Working
<1>2. /\ reports'[c] = (reports[c] \ task[w].oldReports) \union {Row(w)}
      /\ evidences'[c] = (evidences[c] \ task[w].oldEvidences) \union {Row(w)}
      /\ \A d \in Call \ {c} : reports'[d] = reports[d] /\ evidences'[d] = evidences[d]
  BY <1>1 DEF CommitEvaluation, TaskTypes
<1>3. reports[c] \subseteq task[w].oldReports /\ (Alone => evidences[c] \subseteq task[w].oldEvidences)
  BY <1>1 DEF WorkerSound, Replaces, ReplacesEvidences, HoldsEvidences
<1> QED
  BY <1>1, <1>2, <1>3

\* No two workers are about to commit reports of one call, and whoever is replaces what
\* is there: kept by every step of a worker.
LEMMA ReplacementKept ==
  ASSUME Inv, TaskTypes, \A v \in Worker : WorkerSound(v), NEW w \in Worker,
         TaskStep(w) \/ Kill(w) \/ \E c \in Call : Accept(w, c)
  PROVE  \A v \in Worker : Replaces(v)' /\ ReplacesEvidences(v)'
<1>1. /\ \A v \in Worker \ {w} : step'[v] = step[v] /\ task'[v] = task[v]
      /\ step'[w] # "idle" /\ step[w] # "idle" => task'[w].call = task[w].call
  BY OwnTask DEF WorkerSound
<1>2. ASSUME NEW s, GoOn(w, s) PROVE step'[w] = s
  BY <1>2 DEF GoOn, TaskTypes
<1>3. /\ task[w] \in [call : Call \union {None}, loaded : SUBSET Event, run : Nat,
                      oldEvidences : SUBSET Rows, oldReports : SUBSET Rows]
      /\ step[w] # "idle" => task[w].call \in Call
  BY DEF TaskTypes, WorkerSound, Working
\* Alone, the other workers are this one.
<1>4. Alone' = Alone /\ (Alone => \A v \in Worker : v = w)
  BY DEF Alone
<1>5. CASE CommitEvaluation(w)
  <2>1. step[w] = "commit" /\ step'[w] = "observe" /\ task[w].call \in Call
    BY <1>2, <1>3, <1>5 DEF CommitEvaluation
  <2>2. \A d \in Call \ {task[w].call} : reports'[d] = reports[d]
    BY <1>5, Published
  <2>3. ASSUME NEW v \in Worker, step'[v] = "commit" PROVE Replaces(v)'
    <3>1. v # w /\ step[v] = "commit" /\ task'[v] = task[v] /\ task[v].call \in Call
      BY <1>1, <2>1, <2>3 DEF WorkerSound, Working
    <3>2. task[v].call # task[w].call
      BY <2>1, <3>1 DEF WorkerSound, Replaces
    <3>3. reports'[task[v].call] \subseteq task'[v].oldReports
      BY <2>2, <3>1, <3>2 DEF WorkerSound, Replaces
    <3>4. \A u \in Worker \ {v} : ~ (step'[u] = "commit" /\ task'[u].call = task'[v].call)
      BY <1>1, <2>1, <3>1 DEF WorkerSound, Replaces
    <3> QED
      BY <3>1, <3>3, <3>4 DEF Replaces
  <2> QED
    BY <1>4, <2>1, <2>3 DEF Replaces, ReplacesEvidences, HoldsEvidences
<1>6. CASE ~ CommitEvaluation(w)
  <2>1. reports' = reports /\ evidences' = evidences
    BY <1>6, OnlyEvaluationsPublish
  <2>2. CASE AddReport(w)
    <3>1. /\ step[w] = "addReport" /\ task' = task
          /\ step'[w] = IF reports[task[w].call] \subseteq task[w].oldReports THEN "commit" ELSE "conflict"
          /\ \A v \in Worker \ {w} : ~ (step[v] = "commit" /\ task[v].call = task[w].call)
      BY <1>2, <2>2 DEF AddReport
    <3>2. \A v \in Worker : Replaces(v)'
      BY <1>1, <2>1, <3>1 DEF WorkerSound, Replaces
    <3>3. \A v \in Worker : ReplacesEvidences(v)'
      BY <1>4, <2>1, <3>1 DEF WorkerSound, ReplacesEvidences, HoldsEvidences
    <3> QED
      BY <3>2, <3>3
  <2>3. ASSUME step'[w] # "commit"
        PROVE  \A v \in Worker : Replaces(v)'
    BY <1>1, <2>1, <2>3 DEF WorkerSound, Replaces
  <2>4. ASSUME step'[w] \notin {"dropEvidences"} \union HoldsEvidences
        PROVE  \A v \in Worker : Replaces(v)' /\ ReplacesEvidences(v)'
    BY <1>4, <2>3, <2>4 DEF ReplacesEvidences, HoldsEvidences
  <2>5. CASE FindEvidences(w)
    <3>1. /\ step'[w] = "dropEvidences" /\ task'[w].oldEvidences = evidences[task[w].call]
          /\ task'[w].call = task[w].call
      BY <1>2, <1>3, <2>5 DEF FindEvidences, TaskTypes
    <3> QED
      BY <1>4, <2>1, <2>3, <3>1 DEF ReplacesEvidences
  <2>6. CASE DropEvidences(w)
    <3>1. /\ step[w] = "dropEvidences" /\ step'[w] = "addEvidences" /\ task'[w].call = task[w].call
          /\ task'[w].oldEvidences = task[w].oldEvidences \intersect evidences[task[w].call]
      BY <1>2, <1>3, <2>6 DEF DropEvidences, TaskTypes
    <3> QED
      BY <1>4, <2>1, <2>3, <3>1 DEF ReplacesEvidences, WorkerSound
  <2>7. CASE AddEvidences(w) \/ FindReport(w) \/ DropReport(w)
    <3>1. /\ step[w] \in HoldsEvidences /\ step'[w] \in HoldsEvidences \ {"commit"}
          /\ task'[w].call = task[w].call /\ task'[w].oldEvidences = task[w].oldEvidences
      BY <1>2, <1>3, <2>7 DEF AddEvidences, FindReport, DropReport, TaskTypes, HoldsEvidences
    <3> QED
      BY <1>4, <2>1, <2>3, <3>1 DEF ReplacesEvidences, WorkerSound
  <2>8. CASE \/ Mark(w) \/ Marked(w) \/ Reload(w) \/ EvaluationFails(w) \/ RecordError(w)
             \/ RecordObservations(w) \/ \E c \in Call : Accept(w, c)
    <3>1. step'[w] \in {"marker", "content", "evaluate", "conflict", "failed", "errorTxn", "observeTxn", "taken"}
      BY <1>2, <2>8 DEF Mark, Marked, Reload, EvaluationFails, RecordError, RecordObservations, Accept
    <3> QED
      BY <2>4, <3>1 DEF HoldsEvidences
  <2>9. CASE NotEvaluable(w) \/ Observed(w) \/ Kill(w)
    <3>1. step'[w] = "idle"
      BY <1>2, <2>9 DEF NotEvaluable, Observed, Kill, EndTask
    <3> QED
      BY <2>4, <3>1 DEF HoldsEvidences
  <2>10. CASE TaskStatement(w)
    <3>1. step'[w] \in TraceTxn
      BY <2>10 DEF TaskStatement, taskVars
    <3> QED
      BY <2>4, <3>1 DEF HoldsEvidences, TraceTxn
  <2>11. CASE Enrich(w) \/ Enriched(w)
    <3>1. PICK s \in {"content", "silence", "judge"} :
            GoOn(w, StageOf(s).next) \/ GoOn(w, StageOf(s).txn)
      BY <2>11 DEF Enrich, Enriched
    <3>2. step'[w] \in {"silence", "judge", "reload", "contentTxn", "silenceTxn", "judgeTxn"}
      BY <1>2, <3>1 DEF StageOf
    <3> QED
      BY <2>4, <3>2 DEF HoldsEvidences
  <2> QED
    BY <1>6, <2>2, <2>5, <2>6, <2>7, <2>8, <2>9, <2>10, <2>11 DEF TaskStep
<1> QED
  BY <1>5, <1>6

\* Reports stay sound while the store advances and nobody publishes.
LEMMA ReportsStaySound ==
  ASSUME Inv, [Next]_vars, TaskTypes, ReportsSound, NEW c \in Call,
         reports'[c] = reports[c], evidences'[c] = evidences[c]
  PROVE  /\ Cardinality(reports'[c]) <= 1
         /\ \A r \in reports'[c] :
              /\ \E e \in evidences'[c] : e = r
              /\ sessionRow'[c] \in Closed
              /\ Marker \in Types(trace'[c])
         /\ Alone => Cardinality(evidences'[c]) <= 1
<1>1. Advances(c)
  BY StoreAdvances
<1> QED
  BY <1>1 DEF ReportsSound, OneReport, ReportAuditable, EvidencesReplaced, Advances, Types, Marker

------------------------------------------------------------------------------
(* The workers' invariant under every step of the system.                      *)

\* It holds when no task has been taken.
LEMMA TaskInitInv ==
  ASSUME Init, TaskInit
  PROVE  TaskInv
<1>1. TaskTypes
  BY TaskAssumption DEF TaskInit, TaskTypes, NoWork, Steps
<1>2. ASSUME NEW w \in Worker PROVE WorkerSound(w)
  <2>1. txn[w] = Idle /\ step[w] = "idle" /\ task[w].loaded = {}
    BY TaskAssumption DEF Init, TaskInit, NoWork
  <2>2. IsFiniteSet({})
    BY FS_EmptySet
  <2> QED
    BY <2>1, <2>2 DEF WorkerSound, Working, Entitled, Replaces, ReplacesEvidences, Idle, TraceTxn,
                      Evaluating, HoldsEvidences
<1>3. ReportsSound
  BY FS_EmptySet DEF TaskInit, ReportsSound, OneReport, ReportAuditable, EvidencesReplaced
<1> QED
  BY <1>1, <1>2, <1>3 DEF TaskInv

\* A step of a worker keeps it.
LEMMA WorkerInv ==
  ASSUME Inv, TaskInv, NEW w \in Worker, TaskStep(w) \/ Kill(w) \/ \E c \in Call : Accept(w, c)
  PROVE  StepOf(w) /\ TaskInv'
<1>1. /\ TaskTypes /\ WorkerSound(w) /\ StepOf(w) /\ TypeOK /\ Worker \subseteq Process
      /\ Working(w) /\ Entitled(w)
  BY TaskAssumption, WorkerIsProcess DEF TaskInv, WorkerSound, Inv
<1>2. [Next]_vars
  BY <1>1, StepIsNext
<1>3. TaskTypes' /\ \A v \in Worker \ {w} : step'[v] = step[v] /\ task'[v] = task[v]
  BY <1>1, OwnTask
<1>4. ASSUME NEW v \in Worker PROVE Working(v)' /\ Entitled(v)'
  <2>1. CASE v = w
    BY <1>1, <2>1, OwnTitle
  <2>2. CASE v # w
    <3>1. txn'[v] = txn[v]
      BY <1>1, <2>2, OthersUntouched
    <3> QED
      BY <1>2, <1>3, <2>2, <3>1, WorkerBystander DEF TaskInv, WorkerSound
  <2> QED
    BY <2>1, <2>2
<1>5. \A v \in Worker : Replaces(v)' /\ ReplacesEvidences(v)'
  BY <1>1, ReplacementKept DEF TaskInv
<1>6. ASSUME NEW c \in Call
      PROVE  /\ Cardinality(reports'[c]) <= 1
             /\ \A r \in reports'[c] :
                  /\ \E e \in evidences'[c] : e = r
                  /\ sessionRow'[c] \in Closed
                  /\ Marker \in Types(trace'[c])
             /\ Alone => Cardinality(evidences'[c]) <= 1
  <2>1. CASE reports'[c] = reports[c] /\ evidences'[c] = evidences[c]
    BY <1>2, <2>1, ReportsStaySound DEF TaskInv
  <2>2. CASE ~ (reports'[c] = reports[c] /\ evidences'[c] = evidences[c])
    <3>1. CommitEvaluation(w) /\ task[w].call = c
      BY <1>1, <2>2, OnlyEvaluationsPublish, Published
    <3>2. reports'[c] = {Row(w)} /\ Row(w) \in evidences'[c] /\ (Alone => evidences'[c] = {Row(w)})
      BY <1>1, <3>1, Published
    <3>3. Cardinality({Row(w)}) = 1
      BY FS_Singleton
    <3>4. step[w] = "commit"
      BY <3>1 DEF CommitEvaluation
    <3>5. sessionRow[c] \in Closed /\ Marker \in Types(trace[c]) /\ Advances(c)
      BY <1>1, <1>2, <3>1, <3>4, StoreAdvances DEF Entitled
    <3> QED
      BY <3>2, <3>3, <3>5 DEF Advances, Types
  <2> QED
    BY <2>1, <2>2
<1>7. ReportsSound'
  BY <1>6 DEF ReportsSound, OneReport, ReportAuditable, EvidencesReplaced, Alone, Marker
<1> QED
  BY <1>1, <1>3, <1>4, <1>5, <1>7 DEF TaskInv, WorkerSound

\* So does a step of a process that is no worker.
LEMMA TasksElsewhereInv ==
  ASSUME Inv, TaskInv, [Next]_vars, UNCHANGED taskVars, \A w \in Worker : txn'[w] = txn[w]
  PROVE  TaskInv'
<1>1. TaskTypes'
  BY DEF TaskInv, TaskTypes, taskVars
<1>2. \A w \in Worker : Working(w)' /\ Entitled(w)'
  BY WorkerBystander DEF TaskInv, WorkerSound, taskVars
<1>3. \A w \in Worker : Replaces(w)' /\ ReplacesEvidences(w)'
  BY DEF TaskInv, WorkerSound, Replaces, ReplacesEvidences, taskVars, Alone
<1>4. ReportsSound'
  BY ReportsStaySound DEF TaskInv, ReportsSound, OneReport, ReportAuditable, EvidencesReplaced,
                          taskVars, Alone, Marker
<1> QED
  BY <1>1, <1>2, <1>3, <1>4 DEF TaskInv, WorkerSound

\* What ReportStays says of one step.
ReportsKept == \A c \in Call : reports[c] # {} => reports'[c] # {}

\* No step of a worker withdraws a report.
LEMMA WorkerKeepsReports ==
  ASSUME TaskInv, NEW w \in Worker, TaskStep(w) \/ Kill(w) \/ \E c \in Call : Accept(w, c)
  PROVE  ReportsKept
<1>1. CASE CommitEvaluation(w)
  BY <1>1, Published DEF TaskInv, ReportsKept
<1>2. CASE UNCHANGED reports
  BY <1>2 DEF ReportsKept
<1> QED
  BY <1>1, <1>2, OnlyEvaluationsPublish

\* A worker takes tasks that are there and adds none.
LEMMA WorkerQueue ==
  ASSUME QueueTypeOK, NEW w \in Worker, TaskStep(w) \/ Kill(w) \/ \E c \in Call : Accept(w, c)
  PROVE  QueueTypeOK' /\ \A c \in Call : ~ queue'[c] > queue[c]
<1>1. CASE UNCHANGED queue
  BY <1>1 DEF QueueTypeOK
<1>2. ASSUME NEW c \in Call, Accept(w, c) PROVE QueueTypeOK' /\ \A d \in Call : ~ queue'[d] > queue[d]
  BY <1>2 DEF Accept, Take, QueueTypeOK
<1> QED
  BY <1>1, <1>2
     DEF TaskStep, Kill, Mark, NotEvaluable, TaskStatement, taskVars, Marked, Enrich, Enriched,
         Reload, FindEvidences, DropEvidences, AddEvidences, FindReport, DropReport, AddReport,
         CommitEvaluation, EvaluationFails, RecordError, RecordObservations, Observed

------------------------------------------------------------------------------
(* Enrichment.                                                                 *)

\* The turns are commands that append content events, told apart by type and key.
LEMMA TurnsAreContent ==
  ASSUME NEW i \in 1..Len(Turns)
  PROVE  /\ Turns[i] \in Command /\ Turns[i].op = "content"
         /\ Turns[i].type \in ConversationContentEvents
         /\ \A j \in 1..Len(Turns) : TurnId(i) = TurnId(j) => i = j
<1>1. \A j \in 1..Len(Turns) : Turns[j] \in Command /\ Turns[j].op = "content"
  BY TaskAssumption
<1>2. Turns # << >>
  OBVIOUS
<1>3. Turns \in Plan
  BY <1>2, TaskPlans DEF StagePlans
<1>4. Turns[i].type \in ConversationContentEvents
  BY <1>1, <1>3, PlanAssumption DEF Admits
<1>5. ASSUME NEW j \in 1..Len(Turns), TurnId(i) = TurnId(j) PROVE i = j
  <2>1. Turns[i].type = Turns[j].type /\ Turns[i].key = Turns[j].key /\ Turns[i].op = Turns[j].op
    BY <1>1, <1>5 DEF TurnId
  <2>2. Turns[i] = Turns[j]
    BY <1>1, <2>1 DEF Command
  <2> QED
    BY <2>2, TaskAssumption
<1> QED
  BY <1>1, <1>4, <1>5

\* A trace that holds every turn counts at least as many.
LEMMA TurnsCounted ==
  ASSUME NEW E \in SUBSET Event, IsFiniteSet(E), HasTurns(E)
  PROVE  Count(E, ConversationContentEvents) >= Len(Turns)
<1> DEFINE S == {e \in E : e.type \in ConversationContentEvents}
           n == Len(Turns)
           f == [i \in 1..n |-> CHOOSE e \in S : Id(e) = TurnId(i)]
<1>1. IsFiniteSet(S) /\ Cardinality(S) \in Nat /\ n \in Nat
  BY FS_Subset, FS_CardinalityType, TaskAssumption
<1>2. ASSUME NEW i \in 1..n PROVE \E e \in S : Id(e) = TurnId(i)
  <2>1. PICK e \in E : Id(e) = TurnId(i)
    BY <1>2 DEF HasTurns, Ids
  <2>2. e.type = Turns[i].type
    BY <2>1 DEF Id, TurnId
  <2> QED
    BY <2>1, <2>2, TurnsAreContent
<1>3. ASSUME NEW i \in 1..n PROVE f[i] \in S /\ Id(f[i]) = TurnId(i)
  BY <1>2
<1>4. f \in [1..n -> S]
  BY <1>3
<1> HIDE DEF f
<1>5. SUFFICES ASSUME Cardinality(S) < n PROVE FALSE
  BY <1>1 DEF Count
<1>6. IsFiniteSet(1..n) /\ Cardinality(1..n) = n
  <2> HIDE DEF n
  <2>1. 1 \in Int /\ n \in Int
    BY <1>1
  <2>2. IsFiniteSet(1..n) /\ Cardinality(1..n) = IF 1 > n THEN 0 ELSE n - 1 + 1
    BY <2>1, FS_Interval
  <2> QED
    BY <1>1, <2>2
<1> HIDE DEF S
<1>7. \E i, j \in 1..n : i # j /\ f[i] = f[j]
  BY <1>1, <1>4, <1>5, <1>6, FS_PigeonHole
<1> QED
  BY <1>3, <1>7, TurnsAreContent

\* The trace only gains turns and silences.
LEMMA FactsStay ==
  ASSUME NEW E, NEW F, E \subseteq F
  PROVE  /\ HasTurns(E) => HasTurns(F)
         /\ HasSilences(E) => HasSilences(F)
         /\ Types(E) \intersect TerminalEvents # {} => Types(F) \intersect TerminalEvents # {}
  BY DEF HasTurns, HasSilences, Ids, Types

\* On a closed session nothing that a worker records is refused.
LEMMA NothingRefused ==
  ASSUME Inv, NEW p \in Process, sessionRow[txn[p].call] \in Closed
  PROVE  ~ Refuse(p)
  BY DEF Inv, Draft, Refuse, Refused, Redundant, Ignored, IngestDrops, Recorded, Closed

\* The statements of the content transaction lose no turn.
LEMMA SpeakingWorks ==
  ASSUME Inv, NEW p \in Process, Work(p), Speaking(txn[p]),
         sessionRow[txn[p].call] # "absent" \/ txn[p].phase = "held"
  PROVE  Speaking(txn'[p])
<1> DEFINE t == txn[p]
<1>1. TypeOK /\ t \in Transaction /\ t.todo \in Seq(Command) /\ t.events \in SUBSET Event
  BY DEF Inv, TypeOK, Transaction
<1>2. CASE LoadForUpdate(p)
  <2>1. t.phase = "load" /\ txn'[p].phase = "held" /\ txn'[p].todo = t.todo
    BY <1>1, <1>2 DEF LoadForUpdate, TypeOK, Transaction
  <2> QED
    BY <2>1 DEF Speaking
<1>3. CASE LoadMiss(p) \/ Create(p) \/ CreateConflict(p)
  BY <1>3 DEF LoadMiss, Create, CreateConflict, Speaking
<1>4. ASSUME NEW E, t.phase = "held", t.todo # << >>, t.events \subseteq E,
             txn'[p].phase = "held", txn'[p].todo = Tail(t.todo), txn'[p].events = E,
             Head(t.todo).op = "content" => <<Head(t.todo).type, Head(t.todo).key, 0>> \in Ids(E)
      PROVE  Speaking(txn'[p])
  <2>1. Head(t.todo) = t.todo[1] /\ Len(Tail(t.todo)) = Len(t.todo) - 1
    BY <1>1, <1>4
  <2>2. \A j \in 2..Len(t.todo) : j - 1 \in 1..Len(Tail(t.todo)) /\ Tail(t.todo)[j - 1] = t.todo[j]
    BY <1>1, <1>4
  <2>3. ASSUME NEW i \in 1..Len(Turns)
        PROVE  TurnId(i) \in Ids(E) \/ \E j \in 1..Len(Tail(t.todo)) : Tail(t.todo)[j] = Turns[i]
    <3>1. CASE TurnId(i) \in Ids(t.events)
      BY <1>4, <3>1 DEF Ids
    <3>2. ASSUME NEW j \in 1..Len(t.todo), t.todo[j] = Turns[i]
          PROVE  TurnId(i) \in Ids(E) \/ \E k \in 1..Len(Tail(t.todo)) : Tail(t.todo)[k] = Turns[i]
      <4>1. CASE j = 1
        BY <1>4, <2>1, <3>2, <4>1, TurnsAreContent DEF TurnId
      <4>2. CASE j # 1
        <5>1. j \in 2..Len(t.todo)
          BY <1>1, <4>2
        <5> QED
          BY <2>2, <3>2, <5>1
      <4> QED
        BY <4>1, <4>2
    <3> QED
      BY <1>4, <3>1, <3>2 DEF Speaking
  <2> QED
    BY <1>4, <2>3 DEF Speaking
<1>5. CASE Skip(p)
  <2>1. /\ t.phase = "held" /\ t.todo # << >> /\ Redundant(Head(t.todo), t.status, t.events)
        /\ txn'[p].phase = "held" /\ txn'[p].todo = Tail(t.todo) /\ txn'[p].events = t.events
    BY <1>1, <1>5 DEF Skip, TypeOK, Transaction
  <2>2. Head(t.todo).op = "content" => <<Head(t.todo).type, Head(t.todo).key, 0>> \in Ids(t.events)
    BY <2>1 DEF Redundant, Ignored, IngestDrops, Recorded, MarkerConflict
  <2> QED
    BY <1>4, <2>1, <2>2
<1>6. CASE Record(p)
  <2> DEFINE e == NewEvent(Head(t.todo), t.nonce, t.events)
  <2>1. /\ t.phase = "held" /\ t.todo # << >>
        /\ txn'[p].phase = "held" /\ txn'[p].todo = Tail(t.todo)
        /\ txn'[p].events = t.events \union {e}
    BY <1>1, <1>6 DEF Record, TypeOK, Transaction
  <2>2. Head(t.todo).op = "content" => Id(e) = <<Head(t.todo).type, Head(t.todo).key, 0>>
    BY DEF NewEvent, Id, Fresh
  <2> HIDE DEF e
  <2>3. Head(t.todo).op = "content" =>
          <<Head(t.todo).type, Head(t.todo).key, 0>> \in Ids(t.events \union {e})
    BY <2>2 DEF Ids
  <2> QED
    BY <1>4, <2>1, <2>3
<1> QED
  BY <1>2, <1>3, <1>4, <1>5, <1>6 DEF Work

\* The statements of the silence transaction do not lose the silence.
LEMMA FallingWorks ==
  ASSUME Inv, NEW p \in Process, Work(p), Falling(txn[p]),
         sessionRow[txn[p].call] # "absent"
  PROVE  Falling(txn'[p])
<1> DEFINE t == txn[p]
<1>1. TypeOK /\ t \in Transaction /\ t.todo \in Seq(Command) /\ t.events \in SUBSET Event
  BY DEF Inv, TypeOK, Transaction
<1>2. /\ SilencePlan # << >> /\ Head(SilencePlan).op = "signal"
      /\ Head(SilencePlan).type = "CONVERSATION_SILENCE_DETECTED"
  BY DEF SilencePlan
<1>3. CASE LoadForUpdate(p)
  <2>1. t.phase = "load" /\ txn'[p].phase = "held" /\ txn'[p].todo = t.todo
    BY <1>1, <1>3 DEF LoadForUpdate, TypeOK, Transaction
  <2> QED
    BY <2>1 DEF Falling
<1>4. CASE LoadMiss(p) \/ Create(p) \/ CreateConflict(p)
  BY <1>4 DEF LoadMiss, Create, CreateConflict, Falling
<1>5. CASE Skip(p)
  <2>1. /\ t.phase = "held" /\ txn'[p].phase = "held" /\ txn'[p].events = t.events
        /\ Redundant(Head(t.todo), t.status, t.events)
    BY <1>1, <1>5 DEF Skip, TypeOK, Transaction
  <2>2. t.todo = SilencePlan => "CONVERSATION_SILENCE_DETECTED" \in Types(t.events)
    BY <1>2, <2>1 DEF Redundant, Ignored, IngestDrops, Recorded, MarkerConflict
  <2> QED
    BY <2>1, <2>2 DEF Falling
<1>6. CASE Record(p)
  <2> DEFINE e == NewEvent(Head(t.todo), t.nonce, t.events)
  <2>1. /\ t.phase = "held" /\ txn'[p].phase = "held" /\ txn'[p].events = t.events \union {e}
        /\ e.type = Head(t.todo).type
    BY <1>1, <1>6 DEF Record, TypeOK, Transaction, NewEvent
  <2>2. t.todo = SilencePlan => e.type = "CONVERSATION_SILENCE_DETECTED"
    BY <1>2, <2>1
  <2> HIDE DEF e
  <2> QED
    BY <2>1, <2>2 DEF Falling, Types
<1> QED
  BY <1>3, <1>4, <1>5, <1>6 DEF Work

\* A committed transaction of the two enrichments leaves its facts in the trace.
LEMMA EnrichmentCommitted ==
  ASSUME Inv, NEW p \in Process, Commit(p)
  PROVE  /\ Speaking(txn[p]) => HasTurns(trace'[txn[p].call])
         /\ Falling(txn[p]) => HasSilences(trace'[txn[p].call])
<1> DEFINE t == txn[p]
<1>1. t.phase \in {"load", "held"} /\ t.todo = << >> /\ Len(t.todo) = 0
  BY DEF Commit
<1>2. ASSUME t.phase = "held" PROVE trace'[t.call] = t.events
  BY <1>2, CommitIsDraft DEF Inv, TypeOK
<1>3. ASSUME Speaking(t) PROVE HasTurns(trace'[t.call])
  <2>1. CASE t.phase = "held"
    BY <1>1, <1>2, <1>3, <2>1 DEF Speaking, HasTurns
  <2>2. CASE t.phase = "load"
    BY <1>1, <1>3, <2>2 DEF Speaking, HasTurns
  <2> QED
    BY <1>1, <2>1, <2>2
<1>4. ASSUME Falling(t) PROVE HasSilences(trace'[t.call])
  BY <1>1, <1>2, <1>4 DEF Falling, HasSilences, SilencePlan
<1> QED
  BY <1>3, <1>4

\* A worker keeps its enrichment while others act.
LEMMA EnrichingBystander ==
  ASSUME Inv, [Next]_vars, NEW w \in Worker, Working(w), Enriching(w),
         step'[w] = step[w], task'[w] = task[w], txn'[w] = txn[w]
  PROVE  Enriching(w)'
<1>1. step[w] # "idle" => trace[task[w].call] \subseteq trace'[task[w].call]
  BY StoreAdvances DEF Working, Advances
<1> QED
  BY <1>1, FactsStay DEF Enriching, HasTerminal, Evaluating

\* A closed session's trace holds the event that closed it.
LEMMA ClosedHasTerminal ==
  ASSUME Inv, NEW c \in Call, sessionRow[c] \in Closed
  PROVE  Types(trace[c]) \intersect TerminalEvents # {}
  BY DEF Inv, CommittedSound, Sound, LawfulLife, Types, TerminalEvents

\* Each stage of a worker leaves what it had to record, unless a transaction fails.
LEMMA OwnEnrichment ==
  ASSUME Inv, TaskTypes, NEW w \in Worker, Working(w), Entitled(w), Enriching(w),
         "abort" \notin TaskFault,
         TaskStep(w) \/ Kill(w) \/ \E c \in Call : Accept(w, c)
  PROVE  Enriching(w)'
<1> DEFINE c == task[w].call
<1>1. w \in Process /\ StepOf(w) /\ [Next]_vars /\ TypeOK
  BY TaskAssumption, WorkerIsProcess, StepIsNext DEF Inv
<1>2. /\ step[w] # "idle" => c \in Call /\ trace[c] \subseteq trace'[c]
      /\ step'[w] # "idle" /\ step[w] # "idle" => task'[w].call = c
  BY <1>1, StoreAdvances, OwnTask DEF Working, Advances
<1>3. ASSUME NEW s, GoOn(w, s) PROVE step'[w] = s
  BY <1>3 DEF GoOn, TaskTypes
<1>4. /\ step[w] \in TraceTxn => txn[w].phase # "idle" /\ txn[w].call = c
      /\ task[w] \in [call : Call \union {None}, loaded : SUBSET Event, run : Nat,
                      oldEvidences : SUBSET Rows, oldReports : SUBSET Rows]
      /\ step[w] \notin {"idle", "taken"} => sessionRow[c] \in Closed
  BY DEF Working, Entitled, TaskTypes
<1>5. /\ step[w] \notin {"idle", "taken"} => Types(task[w].loaded) \intersect TerminalEvents # {}
      /\ step[w] = "contentTxn" => Speaking(txn[w])
      /\ step[w] \in {"silence", "silenceTxn", "judge", "judgeTxn", "reload"} => HasTurns(trace[c])
      /\ step[w] = "silenceTxn" => Falling(txn[w])
      /\ step[w] \in {"judge", "judgeTxn", "reload"} => HasSilences(trace[c])
      /\ step[w] \in Evaluating => HasTurns(task[w].loaded) /\ HasSilences(task[w].loaded)
  BY DEF Enriching, HasTerminal
<1> HIDE DEF c
<1>6. /\ step[w] \in {"silence", "silenceTxn", "judge", "judgeTxn", "reload"} => HasTurns(trace'[c])
      /\ step[w] \in {"judge", "judgeTxn", "reload"} => HasSilences(trace'[c])
  BY <1>2, <1>5, FactsStay
<1>7. CASE \/ NotEvaluable(w) \/ Observed(w) \/ Kill(w) \/ \E d \in Call : Accept(w, d)
  <2>1. step'[w] \in {"idle", "taken"}
    BY <1>3, <1>7 DEF NotEvaluable, Observed, Kill, Accept, EndTask
  <2> QED
    BY <2>1 DEF Enriching, Evaluating
<1>8. CASE Mark(w)
  <2>1. step'[w] = "marker" /\ task'[w].loaded = trace[c] /\ c \in Call /\ sessionRow[c] \in Closed
    BY <1>2, <1>3, <1>8 DEF Mark, TaskTypes, c
  <2> QED
    BY <2>1, ClosedHasTerminal DEF Enriching, HasTerminal, Evaluating
<1>9. CASE TaskStatement(w)
  <2>1. step[w] \in TraceTxn /\ Work(w) /\ step' = step /\ task' = task
    BY <1>9 DEF TaskStatement, taskVars
  <2>2. sessionRow[c] # "absent" /\ txn[w].call = c
    BY <1>4, <2>1 DEF TraceTxn, Closed
  <2>3. step[w] = "contentTxn" => Speaking(txn'[w])
    BY <1>1, <1>5, <2>1, <2>2, SpeakingWorks
  <2>4. step[w] = "silenceTxn" => Falling(txn'[w])
    BY <1>1, <1>5, <2>1, <2>2, FallingWorks
  <2> QED
    BY <1>5, <1>6, <2>1, <2>3, <2>4 DEF Enriching, HasTerminal, Evaluating, TraceTxn, c
<1>10. ASSUME step[w] \notin {"idle", "taken"}, task'[w] = task[w],
              step'[w] \notin {"contentTxn", "silence", "silenceTxn", "judge", "judgeTxn", "reload"},
              step'[w] \in Evaluating => step[w] \in Evaluating
       PROVE  Enriching(w)'
  BY <1>5, <1>10 DEF Enriching, HasTerminal
<1>11. CASE Marked(w) \/ RecordError(w) \/ RecordObservations(w)
  <2>1. /\ step[w] \in {"marker", "observe"} \union Failures /\ task' = task
        /\ step'[w] \in {"content", "errorTxn", "observeTxn"}
    BY <1>3, <1>11 DEF Marked, RecordError, RecordObservations
  <2> QED
    BY <1>10, <2>1 DEF Evaluating, Failures
<1>12. CASE Enrich(w)
  <2>1. step[w] \in {"content", "silence", "judge"} /\ task' = task
    BY <1>12 DEF Enrich
  <2>2. PICK plan \in StagePlans(step[w]) :
          IF plan = << >> \/ ~ HasTerminal(w)
          THEN GoOn(w, StageOf(step[w]).next) /\ UNCHANGED vars
          ELSE Begin(w, c, plan) /\ GoOn(w, StageOf(step[w]).txn)
    BY <1>12 DEF Enrich, c
  <2>3. HasTerminal(w)
    BY <1>5, <2>1 DEF HasTerminal
  <2>4. ASSUME plan # << >> PROVE txn'[w].phase = "load" /\ txn'[w].todo = plan
    BY <1>1, <2>2, <2>3, <2>4 DEF Begin, TypeOK
  <2>5. CASE step[w] = "content"
    <3>1. plan = Turns /\ step'[w] = IF plan = << >> THEN "silence" ELSE "contentTxn"
      BY <1>3, <2>2, <2>3, <2>5 DEF StagePlans, StageOf
    <3>2. plan # << >> => Speaking(txn'[w])
      BY <2>4, <3>1 DEF Speaking
    <3>3. plan = << >> => HasTurns(trace'[c])
      BY <3>1 DEF HasTurns
    <3> QED
      BY <1>5, <2>1, <2>3, <3>1, <3>2, <3>3 DEF Enriching, HasTerminal, Evaluating, c
  <2>6. CASE step[w] = "silence"
    <3>1. /\ plan = IF HasSilence THEN SilencePlan ELSE << >>
          /\ step'[w] = IF plan = << >> THEN "judge" ELSE "silenceTxn"
      BY <1>3, <2>2, <2>3, <2>6 DEF StagePlans, StageOf
    <3>2. plan # << >> => Falling(txn'[w])
      BY <2>4, <3>1 DEF Falling
    <3>3. plan = << >> => HasSilences(trace'[c])
      BY <3>1 DEF HasSilences, SilencePlan
    <3> QED
      BY <1>5, <1>6, <2>1, <2>3, <2>6, <3>1, <3>2, <3>3 DEF Enriching, HasTerminal, Evaluating, c
  <2>7. CASE step[w] = "judge"
    <3>1. step'[w] \in {"reload", "judgeTxn"}
      BY <1>3, <2>2, <2>7 DEF StageOf
    <3> QED
      BY <1>5, <1>6, <2>1, <2>3, <2>7, <3>1 DEF Enriching, HasTerminal, Evaluating, c
  <2> QED
    BY <2>1, <2>5, <2>6, <2>7
<1>13. CASE Enriched(w)
  <2>1. PICK s \in {"content", "silence", "judge"} : step[w] = StageOf(s).txn /\ GoOn(w, StageOf(s).next)
    BY <1>13 DEF Enriched
  <2>2. /\ step'[w] = StageOf(s).next /\ task' = task
        /\ StageOf(s).txn \in {"contentTxn", "silenceTxn", "judgeTxn"}
    BY <1>3, <1>13, <2>1 DEF Enriched, StageOf
  <2>3. txn[w].call = c /\ sessionRow[c] \in Closed
    BY <1>4, <2>1, <2>2 DEF TraceTxn
  <2>4. Commit(w)
    BY <1>1, <1>13, <2>3, NothingRefused DEF Enriched
  <2>5. CASE s = "content"
    <3>1. step[w] = "contentTxn" /\ step'[w] = "silence"
      BY <2>1, <2>2, <2>5 DEF StageOf
    <3>2. HasTurns(trace'[c])
      BY <1>1, <1>5, <2>3, <2>4, <3>1, EnrichmentCommitted
    <3> QED
      BY <1>5, <2>2, <3>1, <3>2 DEF Enriching, HasTerminal, Evaluating, c
  <2>6. CASE s = "silence"
    <3>1. step[w] = "silenceTxn" /\ step'[w] = "judge"
      BY <2>1, <2>2, <2>6 DEF StageOf
    <3>2. HasSilences(trace'[c])
      BY <1>1, <1>5, <2>3, <2>4, <3>1, EnrichmentCommitted
    <3> QED
      BY <1>5, <1>6, <2>2, <3>1, <3>2 DEF Enriching, HasTerminal, Evaluating, c
  <2>7. CASE s = "judge"
    <3>1. step[w] = "judgeTxn" /\ step'[w] = "reload"
      BY <2>1, <2>2, <2>7 DEF StageOf
    <3> QED
      BY <1>5, <1>6, <2>2, <3>1 DEF Enriching, HasTerminal, Evaluating, c
  <2> QED
    BY <2>5, <2>6, <2>7
<1>14. CASE Reload(w)
  <2>1. step[w] = "reload" /\ step'[w] = "evaluate" /\ task'[w].loaded = trace[c] /\ c \in Call
    BY <1>2, <1>3, <1>4, <1>14 DEF Reload, TaskTypes, c
  <2>2. Types(trace[c]) \intersect TerminalEvents # {}
    BY <1>4, <2>1, ClosedHasTerminal
  <2> QED
    BY <1>5, <2>1, <2>2 DEF Enriching, HasTerminal, Evaluating
<1>15. CASE \/ FindEvidences(w) \/ DropEvidences(w) \/ AddEvidences(w) \/ FindReport(w)
            \/ DropReport(w) \/ AddReport(w) \/ CommitEvaluation(w) \/ EvaluationFails(w)
  <2>1. step[w] \in Evaluating /\ step'[w] \in Evaluating \union {"observe"} \union Failures
    BY <1>3, <1>15 DEF FindEvidences, DropEvidences, AddEvidences, FindReport, DropReport, AddReport,
                       CommitEvaluation, EvaluationFails, Evaluating, Failures
  <2>2. task'[w].loaded = task[w].loaded
    BY <1>4, <1>15 DEF FindEvidences, DropEvidences, AddEvidences, FindReport, DropReport, AddReport,
                       CommitEvaluation, EvaluationFails, TaskTypes
  <2> QED
    BY <1>5, <2>1, <2>2 DEF Enriching, HasTerminal, Evaluating, Failures
<1> QED
  BY <1>7, <1>8, <1>9, <1>11, <1>12, <1>13, <1>14, <1>15 DEF TaskStep

\* What a worker is about to publish sees the turns and the silence it recorded.
LEMMA RowSeesEnrichment ==
  ASSUME TaskTypes, NEW w \in Worker, Working(w), Enriching(w), step[w] = "commit"
  PROVE  /\ HasSilence => Row(w).findings.silence
         /\ Row(w).findings.turns >= Len(Turns)
<1> DEFINE E == task[w].loaded
<1>1. E \in SUBSET Event /\ IsFiniteSet(E) /\ HasTurns(E) /\ HasSilences(E)
  BY DEF TaskTypes, Working, Enriching, Evaluating
<1>2. Row(w).findings = Findings(E)
  BY DEF Row
<1>3. Findings(E).turns >= Len(Turns)
  BY <1>1, TurnsCounted DEF Findings
<1>4. ASSUME HasSilence PROVE Findings(E).silence
  <2> DEFINE S == {e \in E : e.type \in {"CONVERSATION_SILENCE_DETECTED"}}
  <2>1. S # {} /\ IsFiniteSet(S)
    BY <1>1, <1>4, FS_Subset DEF HasSilences, Types
  <2>2. Cardinality(S) \in Nat /\ Cardinality(S) # 0
    BY <2>1, FS_EmptySet, FS_CardinalityType
  <2>3. Count(E, {"CONVERSATION_SILENCE_DETECTED"}) > 0
    BY <2>2 DEF Count
  <2> HIDE DEF E, S
  <2> QED
    BY <2>3 DEF Findings
<1> QED
  BY <1>2, <1>3, <1>4

\* The enrichment's invariant holds at the start ...
LEMMA EnrichmentInit ==
  ASSUME TaskInit
  PROVE  EnrichmentInv
  BY DEF TaskInit, EnrichmentInv, Enriching, ReportSeesEnrichment, Evaluating

\* ... a step of a worker keeps it ...
LEMMA WorkerEnriches ==
  ASSUME Inv, TaskInv, EnrichmentInv, NEW w \in Worker,
         TaskStep(w) \/ Kill(w) \/ \E c \in Call : Accept(w, c)
  PROVE  EnrichmentInv'
<1> SUFFICES ASSUME "abort" \notin TaskFault
             PROVE  (\A v \in Worker : Enriching(v)') /\ ReportSeesEnrichment'
  BY DEF EnrichmentInv
<1>1. /\ TaskTypes /\ WorkerSound(w) /\ Working(w) /\ Entitled(w) /\ StepOf(w) /\ TypeOK
      /\ Worker \subseteq Process /\ \A v \in Worker : Enriching(v)
      /\ ReportSeesEnrichment
  BY TaskAssumption, WorkerIsProcess DEF TaskInv, WorkerSound, EnrichmentInv, Inv
<1>2. [Next]_vars /\ \A v \in Worker \ {w} : step'[v] = step[v] /\ task'[v] = task[v]
  BY <1>1, StepIsNext, OwnTask
<1>3. ASSUME NEW v \in Worker PROVE Enriching(v)'
  <2>1. CASE v = w
    BY <1>1, <2>1, OwnEnrichment
  <2>2. CASE v # w
    <3>1. txn'[v] = txn[v]
      BY <1>1, <2>2, OthersUntouched
    <3> QED
      BY <1>1, <1>2, <2>2, <3>1, EnrichingBystander DEF TaskInv, WorkerSound
  <2> QED
    BY <2>1, <2>2
<1>4. ReportSeesEnrichment'
  <2>1. CASE UNCHANGED <<evidences, reports>>
    BY <1>1, <2>1 DEF ReportSeesEnrichment
  <2>2. CASE CommitEvaluation(w)
    <3>1. step[w] = "commit"
      BY <2>2 DEF CommitEvaluation
    <3>2. /\ reports'[task[w].call] = {Row(w)}
          /\ \A d \in Call \ {task[w].call} : reports'[d] = reports[d]
      BY <1>1, <2>2, Published
    <3>3. /\ HasSilence => Row(w).findings.silence
          /\ Row(w).findings.turns >= Len(Turns)
      BY <1>1, <3>1, RowSeesEnrichment
    <3> HIDE DEF Row
    <3> QED
      BY <1>1, <3>2, <3>3 DEF ReportSeesEnrichment
  <2> QED
    BY <2>1, <2>2, OnlyEvaluationsPublish
<1> QED
  BY <1>3, <1>4

\* ... and so does a step of a process that is no worker.
LEMMA EnrichmentElsewhere ==
  ASSUME Inv, TaskInv, EnrichmentInv, [Next]_vars, UNCHANGED taskVars,
         \A w \in Worker : txn'[w] = txn[w]
  PROVE  EnrichmentInv'
<1>1. "abort" \notin TaskFault => \A w \in Worker : Enriching(w)'
  BY EnrichingBystander DEF EnrichmentInv, TaskInv, WorkerSound, taskVars
<1>2. "abort" \notin TaskFault => ReportSeesEnrichment'
  BY DEF EnrichmentInv, ReportSeesEnrichment, taskVars
<1> QED
  BY <1>1, <1>2 DEF EnrichmentInv

------------------------------------------------------------------------------
(* Whole enrichments.                                                          *)

Topic == "CONVERSATION_TOPIC_CHANGE"
Goals == {"CONVERSATION_GOAL_ACHIEVED", "CONVERSATION_GOAL_FAILED"}

\* The two halves of Whole.
TurnsWhole(E) == \A i, j \in 1..Len(Turns) : TurnId(i) \in Ids(E) => TurnId(j) \in Ids(E)
TopicWhole(E) == Topic \in Types(E) => Types(E) \intersect Goals # {}

\* Commands that record no turn; commands that follow every topic change by a goal.
Wordless(todo) == \A k \in 1..Len(todo) : todo[k].op # "content"
Concluding(todo) ==
  \A k \in 1..Len(todo) : todo[k].type = Topic => \E l \in 1..Len(todo) : l > k /\ todo[l].type \in Goals

\* Plans that record all turns or none, and no topic change without a goal after it.
WellTold(plan) == (plan = Turns \/ Wordless(plan)) /\ Concluding(plan)

\* An open transaction will leave whole what it has begun.
Telling(t) ==
  t.phase # "idle" =>
    /\ Speaking(t) \/ (Wordless(t.todo) /\ (t.phase = "held" => TurnsWhole(t.events)))
    /\ Concluding(t.todo)
    /\ t.phase = "held" =>
         TopicWhole(t.events) \/ \E l \in 1..Len(t.todo) : t.todo[l].type \in Goals

WholeInv == (\A c \in Call : Whole(trace[c])) /\ (\A p \in Process : Telling(txn[p]))

\* A step of a transaction that begins with a well told plan only.
TellingStep(p) ==
  \/ \E c \in Call, plan \in Plan : WellTold(plan) /\ Begin(p, c, plan)
  \/ Work(p) \/ Commit(p) \/ Refuse(p) \/ Abort(p)
  \/ UNCHANGED vars

\* Whole is its two halves.
LEMMA WholeHalves ==
  ASSUME NEW E
  PROVE  Whole(E) <=> TurnsWhole(E) /\ TopicWhole(E)
  BY DEF Whole, TurnsWhole, TopicWhole, Topic, Goals

\* The rest of a concluding list concludes, and holds the goal of the topic before it.
LEMMA RestConcludes ==
  ASSUME NEW todo \in Seq(Command), todo # << >>, Concluding(todo)
  PROVE  /\ Concluding(Tail(todo))
         /\ Head(todo).type = Topic => \E l \in 1..Len(Tail(todo)) : Tail(todo)[l].type \in Goals
         /\ \A l \in 1..Len(todo) : todo[l].type \in Goals =>
              \/ Head(todo).type \in Goals
              \/ \E m \in 1..Len(Tail(todo)) : Tail(todo)[m].type \in Goals
         /\ Wordless(todo) => Wordless(Tail(todo)) /\ Head(todo).op # "content"
<1>1. Head(todo) = todo[1] /\ Len(Tail(todo)) = Len(todo) - 1 /\ Len(todo) \in Nat \ {0}
  OBVIOUS
<1>2. \A k \in 1..Len(Tail(todo)) : Tail(todo)[k] = todo[k + 1] /\ k + 1 \in 1..Len(todo)
  OBVIOUS
<1>3. ASSUME NEW l \in 1..Len(todo), l > 1, todo[l].type \in Goals
      PROVE  l - 1 \in 1..Len(Tail(todo)) /\ Tail(todo)[l - 1].type \in Goals
  <2>1. l - 1 \in 1..Len(Tail(todo)) /\ (l - 1) + 1 = l
    BY <1>1, <1>3
  <2> QED
    BY <1>2, <1>3, <2>1
<1>4. Concluding(Tail(todo))
  <2> SUFFICES ASSUME NEW k \in 1..Len(Tail(todo)), Tail(todo)[k].type = Topic
               PROVE  \E l \in 1..Len(Tail(todo)) : l > k /\ Tail(todo)[l].type \in Goals
    BY DEF Concluding
  <2>1. PICK l \in 1..Len(todo) : l > k + 1 /\ todo[l].type \in Goals
    BY <1>2 DEF Concluding
  <2>2. l > 1 /\ l - 1 > k
    BY <2>1
  <2> QED
    BY <1>3, <2>1, <2>2
<1>5. ASSUME Head(todo).type = Topic
      PROVE  \E l \in 1..Len(Tail(todo)) : Tail(todo)[l].type \in Goals
  <2>1. 1 \in 1..Len(todo)
    BY <1>1
  <2>2. PICK l \in 1..Len(todo) : l > 1 /\ todo[l].type \in Goals
    BY <1>1, <1>5, <2>1 DEF Concluding
  <2> QED
    BY <1>3, <2>2
<1>6. ASSUME NEW l \in 1..Len(todo), todo[l].type \in Goals, Head(todo).type \notin Goals
      PROVE  \E m \in 1..Len(Tail(todo)) : Tail(todo)[m].type \in Goals
  <2>1. l # 1
    BY <1>1, <1>6
  <2>2. l > 1
    BY <1>1, <2>1
  <2> QED
    BY <1>3, <1>6, <2>2
<1>7. Wordless(todo) => Wordless(Tail(todo)) /\ Head(todo).op # "content"
  BY <1>1, <1>2 DEF Wordless
<1> QED
  BY <1>4, <1>5, <1>6, <1>7

\* Turns are recorded by content commands alone, topics and goals by signals alone.
LEMMA WhoTells ==
  ASSUME NEW cmd \in Command, cmd.type \in Admits(cmd.op)
  PROVE  /\ cmd.type \in ConversationContentEvents /\ ~ Fresh(cmd) => cmd.op = "content"
         /\ cmd.type \in Goals \union {Topic} => cmd.op = "signal"
  BY DEF Admits, Command, Op, Fresh, Goals, Topic, SignalEvents, MarkerEvents, LiveOnlyEvents,
         SystemObservationEvents, ConversationContentEvents

\* What a command that records no turn adds leaves the turns as whole as they are.
LEMMA TurnsStayWhole ==
  ASSUME NEW cmd \in Command, cmd.type \in Admits(cmd.op), cmd.op # "content",
         NEW nonce \in Nat \ {0}, NEW E, NEW F, TurnsWhole(F)
  PROVE  TurnsWhole(F \union {NewEvent(cmd, nonce, E)})
<1> DEFINE e == NewEvent(cmd, nonce, E)
<1>1. e.type = cmd.type /\ e.nonce = IF Fresh(cmd) THEN nonce ELSE 0
  BY DEF NewEvent
<1>2. ASSUME NEW i \in 1..Len(Turns) PROVE Id(e) # TurnId(i)
  BY <1>1, <1>2, WhoTells, TurnsAreContent DEF Id, TurnId
<1> HIDE DEF e
<1>3. \A i \in 1..Len(Turns) : TurnId(i) \in Ids(F \union {e}) <=> TurnId(i) \in Ids(F)
  BY <1>2 DEF Ids
<1> QED
  BY <1>3 DEF TurnsWhole, e

\* An open transaction goes on telling: the turns ...
LEMMA TurnsTold ==
  ASSUME Inv, WholeInv, NEW p \in Process, Work(p)
  PROVE  LET t == txn'[p] IN
         Speaking(t) \/ (Wordless(t.todo) /\ (t.phase = "held" => TurnsWhole(t.events)))
<1> DEFINE t == txn[p]
           u == txn'[p]
<1>1. /\ TypeOK /\ t \in Transaction /\ t.todo \in Seq(Command) /\ t.phase # "idle" /\ t.call \in Call
      /\ Remaining(t.todo) /\ t.nonce \in Nat \ {0}
  BY OwnTransaction DEF Inv, Pending, Nonces, TypeOK, Transaction
<1>2. /\ Speaking(t) \/ (Wordless(t.todo) /\ (t.phase = "held" => TurnsWhole(t.events)))
      /\ Concluding(t.todo) /\ TurnsWhole(trace[t.call])
  BY <1>1, WholeHalves DEF WholeInv, Telling
<1>3. t.todo # << >> => /\ Head(t.todo) \in Command /\ Head(t.todo).type \in Admits(Head(t.todo).op)
                        /\ Wordless(t.todo) => Wordless(Tail(t.todo)) /\ Head(t.todo).op # "content"
  BY <1>1, <1>2, RestOfPlan, RestConcludes
<1>4. Wordless(<< >>)
  BY DEF Wordless
<1>5. CASE LoadMiss(p)
  <2>1. /\ t.phase = "load" /\ t.todo # << >> /\ u.phase \in {"load", "create"}
        /\ \/ u.phase = "create" /\ u.todo = t.todo /\ Head(t.todo).op = "ingest"
           \/ u.phase = "load" /\ u.todo = << >>
           \/ u.phase = "load" /\ u.todo = Tail(t.todo) /\ Head(t.todo).op = "observe"
    BY <1>1, <1>5 DEF LoadMiss, TypeOK, Transaction
  <2>2. Speaking(t) => Head(t.todo).op = "content"
    <3>1. Speaking(t) => t.todo = Turns /\ 1 \in 1..Len(Turns)
      BY <1>1, <2>1 DEF Speaking
    <3> QED
      BY <3>1, TurnsAreContent
  <2> QED
    BY <1>2, <1>3, <1>4, <2>1, <2>2
<1>6. CASE Speaking(t) /\ ~ LoadMiss(p)
  <2>1. sessionRow[t.call] # "absent" \/ t.phase = "held"
    BY <1>6 DEF Work, LoadForUpdate, Create, CreateConflict, Skip, Record, Speaking
  <2> QED
    BY <1>6, <2>1, SpeakingWorks
<1>7. CASE LoadForUpdate(p) /\ ~ Speaking(t)
  <2>1. u.todo = t.todo /\ u.events = trace[t.call] /\ u.phase = "held"
    BY <1>1, <1>7 DEF LoadForUpdate, TypeOK, Transaction
  <2> QED
    BY <1>2, <1>7, <2>1
<1>8. CASE Create(p) /\ ~ Speaking(t)
  <2> DEFINE e == NewEvent(Head(t.todo), t.nonce, {})
  <2>1. t.todo # << >> /\ u.todo = Tail(t.todo) /\ u.events = {e} /\ u.phase = "held"
    BY <1>1, <1>8 DEF Create, TypeOK, Transaction, Inv, Pending
  <2>2. TurnsWhole({}) /\ {} \union {e} = {e}
    BY DEF TurnsWhole, Ids
  <2>3. TurnsWhole({} \union {e})
    BY <1>1, <1>2, <1>3, <1>8, <2>1, <2>2, TurnsStayWhole
  <2> HIDE DEF e
  <2> QED
    BY <1>2, <1>3, <1>8, <2>1, <2>2, <2>3
<1>9. CASE CreateConflict(p) /\ ~ Speaking(t)
  <2>1. u.todo = t.todo /\ u.phase = "load"
    BY <1>1, <1>9 DEF CreateConflict, TypeOK, Transaction
  <2> QED
    BY <1>2, <1>9, <2>1
<1>10. CASE Skip(p) /\ ~ Speaking(t)
  <2>1. t.todo # << >> /\ u.todo = Tail(t.todo) /\ u.events = t.events /\ u.phase = "held" /\ t.phase = "held"
    BY <1>1, <1>10 DEF Skip, TypeOK, Transaction
  <2> QED
    BY <1>2, <1>3, <1>10, <2>1
<1>11. CASE Record(p) /\ ~ Speaking(t)
  <2>1. /\ t.todo # << >> /\ u.todo = Tail(t.todo) /\ u.phase = "held" /\ t.phase = "held"
        /\ u.events = t.events \union {NewEvent(Head(t.todo), t.nonce, t.events)}
    BY <1>1, <1>11 DEF Record, TypeOK, Transaction
  <2>2. TurnsWhole(t.events) /\ Head(t.todo).op # "content" /\ t.nonce \in Nat \ {0}
    BY <1>1, <1>2, <1>3, <1>11, <2>1
  <2>3. TurnsWhole(t.events \union {NewEvent(Head(t.todo), t.nonce, t.events)})
    <3> HIDE DEF t
    <3> QED
      BY <1>3, <2>1, <2>2, TurnsStayWhole
  <2> QED
    BY <1>2, <1>3, <1>11, <2>1, <2>3
<1> QED
  BY <1>5, <1>6, <1>7, <1>8, <1>9, <1>10, <1>11 DEF Work

\* ... and the topic.
LEMMA TopicTold ==
  ASSUME Inv, WholeInv, NEW p \in Process, Work(p)
  PROVE  LET t == txn'[p] IN
         /\ Concluding(t.todo)
         /\ t.phase = "held" =>
              TopicWhole(t.events) \/ \E l \in 1..Len(t.todo) : t.todo[l].type \in Goals
<1> DEFINE t == txn[p]
           u == txn'[p]
<1>1. /\ TypeOK /\ t \in Transaction /\ t.todo \in Seq(Command) /\ t.phase # "idle" /\ t.call \in Call
      /\ Remaining(t.todo)
  BY OwnTransaction DEF Inv, Pending, TypeOK, Transaction
<1>2. /\ Concluding(t.todo) /\ TopicWhole(trace[t.call])
      /\ t.phase = "held" =>
           TopicWhole(t.events) \/ \E l \in 1..Len(t.todo) : t.todo[l].type \in Goals
  BY <1>1, WholeHalves DEF WholeInv, Telling
<1>3. t.todo # << >> =>
        /\ Head(t.todo) \in Command /\ Head(t.todo).type \in Admits(Head(t.todo).op)
        /\ Concluding(Tail(t.todo))
        /\ Head(t.todo).type = Topic => \E l \in 1..Len(Tail(t.todo)) : Tail(t.todo)[l].type \in Goals
        /\ \A l \in 1..Len(t.todo) : t.todo[l].type \in Goals =>
             \/ Head(t.todo).type \in Goals
             \/ \E m \in 1..Len(Tail(t.todo)) : Tail(t.todo)[m].type \in Goals
  BY <1>1, <1>2, RestOfPlan, RestConcludes
<1>4. CASE LoadForUpdate(p)
  <2>1. u.todo = t.todo /\ u.events = trace[t.call]
    BY <1>1, <1>4 DEF LoadForUpdate, TypeOK, Transaction
  <2> QED
    BY <1>2, <2>1
<1>5. CASE LoadMiss(p) \/ CreateConflict(p)
  <2>1. u.phase \in {"load", "create"} /\ (u.todo = t.todo \/ u.todo = << >>
                                            \/ (t.todo # << >> /\ u.todo = Tail(t.todo)))
    BY <1>1, <1>5 DEF LoadMiss, CreateConflict, TypeOK, Transaction
  <2>2. Concluding(<< >>)
    BY DEF Concluding
  <2> QED
    BY <1>2, <1>3, <2>1, <2>2
<1>6. CASE Create(p)
  <2> DEFINE e == NewEvent(Head(t.todo), t.nonce, {})
  <2>1. /\ t.todo # << >> /\ Head(t.todo) = t.todo[1] /\ t.todo[1].op = "ingest"
        /\ u.todo = Tail(t.todo) /\ u.events = {e} /\ u.phase = "held"
    BY <1>1, <1>6 DEF Create, TypeOK, Transaction, Inv, Pending
  <2>2. e.type = Head(t.todo).type
    BY DEF NewEvent
  <2>3. e.type # Topic
    BY <1>3, <2>1, <2>2, WhoTells
  <2> HIDE DEF e
  <2> QED
    BY <1>3, <2>1, <2>3 DEF TopicWhole, Types
<1>7. CASE Skip(p)
  <2>1. /\ t.todo # << >> /\ t.phase = "held" /\ Redundant(Head(t.todo), t.status, t.events)
        /\ u.todo = Tail(t.todo) /\ u.events = t.events
    BY <1>1, <1>7 DEF Skip, TypeOK, Transaction
  <2>2. Head(t.todo).type \in Goals => TopicWhole(t.events)
    <3>1. SUFFICES ASSUME Head(t.todo).type \in Goals PROVE TopicWhole(t.events)
      OBVIOUS
    <3>2. Head(t.todo).op = "signal" /\ Head(t.todo).type # "CONVERSATION_SILENCE_DETECTED"
      BY <1>3, <2>1, <3>1, WhoTells DEF Goals
    <3>3. <<Head(t.todo).type, Head(t.todo).key, 0>> \in Ids(t.events)
      BY <2>1, <3>2 DEF Redundant, Ignored, IngestDrops, Recorded, MarkerConflict
    <3>4. Head(t.todo).type \in Types(t.events)
      BY <3>3 DEF Ids, Id, Types
    <3> QED
      BY <3>1, <3>4 DEF TopicWhole
  <2> QED
    BY <1>2, <1>3, <2>1, <2>2
<1>8. CASE Record(p)
  <2> DEFINE e == NewEvent(Head(t.todo), t.nonce, t.events)
  <2>1. /\ t.todo # << >> /\ t.phase = "held" /\ u.todo = Tail(t.todo)
        /\ u.events = t.events \union {e}
    BY <1>1, <1>8 DEF Record, TypeOK, Transaction
  <2>2. e.type = Head(t.todo).type
    BY DEF NewEvent
  <2> HIDE DEF e
  <2>3. Types(t.events \union {e}) = Types(t.events) \union {e.type}
    BY DEF Types
  <2>4. CASE e.type = Topic
    BY <1>3, <2>1, <2>2, <2>4
  <2>5. CASE e.type # Topic
    <3>1. TopicWhole(t.events) => TopicWhole(u.events)
      BY <2>1, <2>3, <2>5 DEF TopicWhole
    <3>2. Head(t.todo).type \in Goals => TopicWhole(u.events)
      BY <2>1, <2>2, <2>3 DEF TopicWhole
    <3> QED
      BY <1>2, <1>3, <2>1, <3>1, <3>2
  <2> QED
    BY <2>4, <2>5
<1> QED
  BY <1>4, <1>5, <1>6, <1>7, <1>8 DEF Work

\* A commit leaves a whole trace.
LEMMA CommitWhole ==
  ASSUME Inv, WholeInv, NEW p \in Process, Commit(p), NEW c \in Call
  PROVE  Whole(trace'[c])
<1> DEFINE t == txn[p]
<1>1. t.todo = << >> /\ Len(t.todo) = 0 /\ TypeOK /\ Whole(trace[c])
  BY DEF Commit, Inv, WholeInv
<1>2. CASE t.phase # "held" \/ t.call # c
  <2>1. trace'[c] = trace[c]
    BY <1>1, <1>2 DEF Commit, TypeOK
  <2> QED
    BY <1>1, <2>1
<1>3. CASE t.phase = "held" /\ t.call = c
  <2>1. trace'[c] = t.events
    BY <1>1, <1>3, CommitIsDraft DEF TypeOK
  <2>2. TopicWhole(t.events)
    BY <1>1, <1>3 DEF WholeInv, Telling
  <2>3. TurnsWhole(t.events)
    <3>1. Speaking(t) => TurnsWhole(t.events)
      BY <1>1, <1>3 DEF Speaking, TurnsWhole
    <3> QED
      BY <1>3, <3>1 DEF WholeInv, Telling
  <2> QED
    BY <2>1, <2>2, <2>3, WholeHalves
<1> QED
  BY <1>2, <1>3

\* Traces stay whole, and transactions go on telling, under steps that begin well.
LEMMA StaysWhole ==
  ASSUME Inv, WholeInv, NEW p \in Process, TellingStep(p)
  PROVE  WholeInv'
<1>1. TypeOK /\ \A q \in Process : Telling(txn[q])
  BY DEF Inv, WholeInv
<1>2. StepOf(p)
  BY DEF TellingStep, StepOf
<1>3. \A q \in Process \ {p} : txn'[q] = txn[q]
  BY <1>1, <1>2, OthersUntouched
<1>4. ASSUME Telling(txn'[p]) PROVE \A q \in Process : Telling(txn'[q])
  BY <1>1, <1>3, <1>4
<1>5. CASE UNCHANGED vars
  BY <1>5 DEF vars, WholeInv
<1>6. CASE Commit(p)
  <2>1. Telling(txn'[p])
    BY <1>1, <1>6, OwnTransaction DEF Telling
  <2> QED
    BY <1>4, <1>6, <2>1, CommitWhole DEF WholeInv
<1>7. CASE Refuse(p) \/ Abort(p)
  <2>1. Telling(txn'[p]) /\ trace' = trace
    BY <1>1, <1>7, OwnTransaction DEF Telling, Refuse, Abort
  <2> QED
    BY <1>4, <2>1 DEF WholeInv
<1>8. CASE Work(p)
  <2>1. Telling(txn'[p]) /\ trace' = trace
    BY <1>1, <1>8, OwnTransaction, TurnsTold, TopicTold DEF Telling
  <2> QED
    BY <1>4, <2>1 DEF WholeInv
<1>9. ASSUME NEW c \in Call, NEW plan \in Plan, WellTold(plan), Begin(p, c, plan) PROVE WholeInv'
  <2>1. txn'[p].phase = "load" /\ txn'[p].todo = plan /\ trace' = trace
    BY <1>1, <1>9, OwnTransaction
  <2>2. Telling(txn'[p])
    BY <1>9, <2>1 DEF WellTold, Telling, Speaking
  <2> QED
    BY <1>4, <2>1, <2>2 DEF WholeInv
<1> QED
  BY <1>5, <1>6, <1>7, <1>8, <1>9 DEF TellingStep

\* Commands other than turns and signals.
Quiet(todo) == \A k \in 1..Len(todo) : todo[k].op \notin {"content", "signal"}

\* Quiet lists make a quiet list.
LEMMA QuietConcat ==
  ASSUME NEW S, NEW s \in Seq(S), NEW t \in Seq(S), Quiet(s), Quiet(t)
  PROVE  Quiet(s \o t) /\ s \o t \in Seq(S)
<1>1. ASSUME NEW k \in 1..Len(s \o t)
      PROVE  (s \o t)[k].op \notin {"content", "signal"}
  <2>1. CASE k \in 1..Len(s)
    BY <2>1 DEF Quiet
  <2>2. CASE k \notin 1..Len(s)
    <3>1. k - Len(s) \in 1..Len(t) /\ (s \o t)[k] = t[k - Len(s)]
      BY <2>2
    <3> QED
      BY <3>1 DEF Quiet
  <2> QED
    BY <2>1, <2>2
<1> QED
  BY <1>1 DEF Quiet

\* A quiet plan is well told: only signals change the topic.
LEMMA QuietIsWellTold ==
  ASSUME NEW plan \in Plan, Quiet(plan)
  PROVE  WellTold(plan)
<1>1. \A k \in 1..Len(plan) : plan[k] \in Command /\ plan[k].type \in Admits(plan[k].op)
  BY PlanAssumption
<1>2. \A k \in 1..Len(plan) : plan[k].type # Topic
  BY <1>1, WhoTells DEF Quiet
<1>3. Wordless(plan)
  BY DEF Wordless, Quiet
<1> QED
  BY <1>2, <1>3 DEF WellTold, Concluding

\* What an evaluation records of itself is quiet.
LEMMA ObservationsAreQuiet ==
  ASSUME NEW codes
  PROVE  Quiet(ObservationPlan(codes))
<1> DEFINE S == {[op |-> "observe", type |-> type, key |-> key] :
                   type \in {"SYSTEM_LATENCY_MEASURED", "SYSTEM_FLAG_RAISED"},
                   key \in {"evidence_evaluation", "session_failed", "goal_not_completed",
                            "unrecovered_error"}}
           latency == <<[op |-> "observe", type |-> "SYSTEM_LATENCY_MEASURED",
                         key |-> "evidence_evaluation"]>>
<1>1. ASSUME NEW code \in {"session_failed", "goal_not_completed", "unrecovered_error"}
      PROVE  FlagPlan(code, codes) \in Seq(S) /\ Quiet(FlagPlan(code, codes))
  <2>1. CASE code \in codes
    <3> DEFINE cmd == [op |-> "observe", type |-> "SYSTEM_FLAG_RAISED", key |-> code]
    <3>1. FlagPlan(code, codes) = <<cmd>> /\ cmd \in S /\ cmd.op = "observe"
      BY <2>1 DEF FlagPlan
    <3> HIDE DEF cmd, S
    <3> QED
      BY <3>1 DEF Quiet
  <2>2. CASE code \notin codes
    <3>1. FlagPlan(code, codes) = << >>
      BY <2>2 DEF FlagPlan
    <3> HIDE DEF S
    <3> QED
      BY <3>1 DEF Quiet
  <2> QED
    BY <2>1, <2>2
<1>2. latency \in Seq(S) /\ Quiet(latency)
  BY DEF Quiet
<1> HIDE DEF S, latency
<1> DEFINE last == FlagPlan("goal_not_completed", codes) \o FlagPlan("unrecovered_error", codes)
           flags == FlagPlan("session_failed", codes) \o last
<1>3. last \in Seq(S) /\ Quiet(last)
  BY <1>1, QuietConcat
<1> HIDE DEF last
<1>4. flags \in Seq(S) /\ Quiet(flags)
  BY <1>1, <1>3, QuietConcat
<1> HIDE DEF flags
<1>5. Quiet(latency \o flags)
  BY <1>2, <1>4, QuietConcat
<1> QED
  BY <1>5 DEF ObservationPlan, latency, flags, last

\* A verdict tells its topic change before its goal.
LEMMA VerdictsConclude ==
  ASSUME NEW v
  PROVE  WellTold(VerdictPlan(v))
<1> DEFINE change == [op |-> "signal", type |-> "CONVERSATION_TOPIC_CHANGE", key |-> "two"]
           goal == IF v.goal = "achieved"
                   THEN [op |-> "signal", type |-> "CONVERSATION_GOAL_ACHIEVED", key |-> "achieved"]
                   ELSE [op |-> "signal", type |-> "CONVERSATION_GOAL_FAILED", key |-> "failed"]
<1>1. change.op = "signal" /\ goal.op = "signal" /\ goal.type \in Goals /\ goal.type # Topic
  BY DEF Goals, Topic
<1>2. VerdictPlan(v) = (IF v.topics = 0 THEN << >> ELSE <<change>>) \o <<goal>>
  BY DEF VerdictPlan
<1> HIDE DEF change, goal
<1>3. CASE v.topics = 0
  <2>1. VerdictPlan(v) = << >> \o <<goal>>
    BY <1>2, <1>3
  <2>2. Len(VerdictPlan(v)) = 1 /\ VerdictPlan(v)[1] = goal
    BY <2>1
  <2> QED
    BY <1>1, <2>2 DEF WellTold, Wordless, Concluding
<1>4. CASE v.topics # 0
  <2>1. VerdictPlan(v) = <<change>> \o <<goal>>
    BY <1>2, <1>4
  <2>2. /\ Len(VerdictPlan(v)) = 2
        /\ VerdictPlan(v)[1] = change /\ VerdictPlan(v)[2] = goal
    BY <2>1
  <2> QED
    BY <1>1, <2>2 DEF WellTold, Wordless, Concluding
<1> QED
  BY <1>3, <1>4

\* Every step of a worker that begins a transaction begins it with a well told plan.
LEMMA WorkerTells ==
  ASSUME NEW w \in Worker, Working(w),
         TaskStep(w) \/ Kill(w) \/ \E c \in Call : Accept(w, c)
  PROVE  TellingStep(w)
<1>1. step[w] # "idle" => task[w].call \in Call
  BY DEF Working
<1>2. CASE Mark(w)
  <2>1. Quiet(MarkerPlan) /\ MarkerPlan \in Plan
    BY TaskPlans DEF Quiet, MarkerPlan
  <2> QED
    BY <1>1, <1>2, <2>1, QuietIsWellTold DEF Mark, TellingStep
<1>3. CASE Enrich(w)
  <2>1. step[w] \in {"content", "silence", "judge"} /\ task[w].call \in Call
    BY <1>1, <1>3 DEF Enrich
  <2>2. PICK plan \in StagePlans(step[w]) :
          UNCHANGED vars \/ (plan # << >> /\ Begin(w, task[w].call, plan))
    BY <1>3 DEF Enrich
  <2>3. plan # << >> => plan \in Plan
    BY <2>1, <2>2, TaskPlans
  <2>4. plan # << >> => WellTold(plan)
    <3>1. CASE step[w] = "content"
      <4>1. plan = Turns
        BY <2>2, <3>1 DEF StagePlans
      <4>2. \A k \in 1..Len(plan) : plan[k].type # Topic
        BY <4>1, TurnsAreContent DEF ConversationContentEvents, Topic
      <4> QED
        BY <4>1, <4>2 DEF WellTold, Concluding
    <3>2. CASE step[w] = "silence"
      <4>1. plan # << >> => plan = SilencePlan
        BY <2>2, <3>2 DEF StagePlans
      <4>2. WellTold(SilencePlan)
        BY DEF SilencePlan, WellTold, Wordless, Concluding, Topic
      <4> QED
        BY <4>1, <4>2
    <3>3. CASE step[w] = "judge"
      <4>1. plan # << >> => \E v \in Verdict : plan = VerdictPlan(v)
        BY <2>2, <3>3 DEF StagePlans
      <4> QED
        BY <4>1, VerdictsConclude
    <3> QED
      BY <2>1, <3>1, <3>2, <3>3
  <2> QED
    BY <2>1, <2>2, <2>3, <2>4 DEF TellingStep
<1>4. CASE RecordError(w)
  <2>1. step[w] \in Failures /\ step[w] # "idle"
    BY <1>4 DEF RecordError, Failures
  <2>2. Quiet(ErrorPlan(step[w])) /\ ErrorPlan(step[w]) \in Plan
    BY <2>1, TaskPlans DEF Quiet, ErrorPlan
  <2> QED
    BY <1>1, <1>4, <2>1, <2>2, QuietIsWellTold DEF RecordError, TellingStep
<1>5. CASE RecordObservations(w)
  <2> DEFINE plan == ObservationPlan(BlockingFlags(Row(w).findings))
  <2>1. BlockingFlags(Row(w).findings) \in
          SUBSET {"session_failed", "goal_not_completed", "unrecovered_error"}
    BY DEF BlockingFlags
  <2>2. plan \in Plan /\ Quiet(plan)
    BY <2>1, TaskPlans, ObservationsAreQuiet
  <2>3. Begin(w, task[w].call, plan) /\ step[w] # "idle"
    BY <1>5 DEF RecordObservations
  <2> HIDE DEF plan
  <2> QED
    BY <1>1, <2>2, <2>3, QuietIsWellTold DEF TellingStep
<1>6. CASE TaskStatement(w) \/ Marked(w) \/ Enriched(w) \/ Observed(w) \/ Kill(w)
  BY <1>6 DEF TaskStatement, Marked, Enriched, Observed, Kill, TellingStep
<1>7. CASE \/ NotEvaluable(w) \/ Reload(w) \/ FindEvidences(w) \/ DropEvidences(w) \/ AddEvidences(w)
           \/ FindReport(w) \/ DropReport(w) \/ AddReport(w) \/ CommitEvaluation(w)
           \/ EvaluationFails(w) \/ \E c \in Call : Accept(w, c)
  BY <1>7 DEF NotEvaluable, Reload, FindEvidences, DropEvidences, AddEvidences, FindReport,
              DropReport, AddReport, CommitEvaluation, EvaluationFails, Accept, TellingStep
<1> QED
  BY <1>2, <1>3, <1>4, <1>5, <1>6, <1>7 DEF TaskStep

------------------------------------------------------------------------------
(* Reports and the trace.                                                      *)

\* E is the trace of a call at one moment after its marker, and whole.
Moment(c, E) ==
  \E last \in trace[c] :
    E = UpTo(trace[c], last.seq) /\ Marker \in Types(E) /\ Whole(E)

\* What a worker evaluates is such a moment.
Snapshot(w) == step[w] \in Evaluating => Moment(task[w].call, task[w].loaded)

SnapshotInv == WholeInv /\ (\A w \in Worker : Snapshot(w)) /\ ReportOfTrace

\* Reports are of the trace when each has the findings of a moment.
LEMMA ReportsAndMoments ==
  ReportOfTrace <=>
    \A c \in Call : \A r \in reports[c] : \E E : Moment(c, E) /\ r.findings = Findings(E)
  BY DEF ReportOfTrace, Moment, Marker

\* The trace as it stands is a moment of itself.
LEMMA MomentNow ==
  ASSUME Inv, WholeInv, NEW c \in Call, Marker \in Types(trace[c])
  PROVE  Moment(c, trace[c])
<1> DEFINE E == trace[c]
           n == Cardinality(E)
<1>1. Numbered(E) /\ Whole(E) /\ E # {}
  BY DEF Inv, CommittedSound, Sound, WholeInv, Types
<1>2. IsFiniteSet(E) /\ n \in Nat /\ {e.seq : e \in E} = 1..n
  BY <1>1, FS_CardinalityType DEF Numbered
<1>3. \A e \in E : e.seq \in 1..n
  BY <1>2
<1>4. n \in 1..n
  BY <1>1, <1>2, <1>3
<1>5. PICK last \in E : last.seq = n
  BY <1>2, <1>4
<1>6. E = UpTo(E, last.seq)
  BY <1>2, <1>3, <1>5 DEF UpTo
<1> QED
  BY <1>1, <1>5, <1>6 DEF Moment

\* A moment stays one while the trace grows at its end.
LEMMA MomentStays ==
  ASSUME Inv, Inv', NEW c \in Call, Advances(c), NEW E, Moment(c, E)
  PROVE  Moment(c, E)'
<1>1. PICK last \in trace[c] : E = UpTo(trace[c], last.seq) /\ Marker \in Types(E) /\ Whole(E)
  BY DEF Moment
<1>2. /\ trace[c] \subseteq trace'[c]
      /\ \A f \in trace'[c] \ trace[c] : last.seq < f.seq
      /\ \A f \in trace'[c] : f.seq \in Nat
  BY <1>1 DEF Advances, Inv, TypeOK, Event
<1>3. last.seq \in Nat
  BY <1>1, <1>2
<1>4. UpTo(trace'[c], last.seq) = UpTo(trace[c], last.seq)
  BY <1>2, <1>3 DEF UpTo
<1> QED
  BY <1>1, <1>2, <1>4 DEF Moment, Marker

\* Reports stay of the trace while the store advances and nobody publishes.
LEMMA ReportsStayOfTrace ==
  ASSUME Inv, Inv', [Next]_vars, ReportOfTrace, NEW c \in Call, NEW r \in reports[c]
  PROVE  \E E : Moment(c, E)' /\ r.findings = Findings(E)
<1>1. PICK E : Moment(c, E) /\ r.findings = Findings(E)
  BY ReportsAndMoments
<1>2. Moment(c, E)'
  BY <1>1, StoreAdvances, MomentStays
<1> QED
  BY <1>1, <1>2

\* At the start there are no transactions, no events and no reports.
LEMMA SnapshotInit ==
  ASSUME Init, TaskInit
  PROVE  SnapshotInv
<1>1. \A c \in Call : Whole(trace[c])
  BY DEF Init, Whole, Ids, Types
<1>2. \A p \in Process : Telling(txn[p])
  BY DEF Init, Idle, Telling
<1>3. (\A w \in Worker : Snapshot(w)) /\ ReportOfTrace
  BY DEF TaskInit, Snapshot, Evaluating, ReportOfTrace
<1> QED
  BY <1>1, <1>2, <1>3 DEF SnapshotInv, WholeInv

\* A worker evaluates the moment it reloaded until it has published.
LEMMA OwnSnapshot ==
  ASSUME Inv, Inv', TaskTypes, WholeInv, NEW w \in Worker, Working(w), Entitled(w), Snapshot(w),
         TaskStep(w) \/ Kill(w) \/ \E c \in Call : Accept(w, c)
  PROVE  Snapshot(w)'
<1> DEFINE c == task[w].call
<1>1. w \in Process /\ StepOf(w) /\ [Next]_vars
  BY TaskAssumption, WorkerIsProcess, StepIsNext
<1>2. step[w] # "idle" => c \in Call /\ Advances(c)
  BY <1>1, StoreAdvances DEF Working
<1>3. ASSUME NEW s, GoOn(w, s) PROVE step'[w] = s
  BY <1>3 DEF GoOn, TaskTypes
<1>4. task[w] \in [call : Call \union {None}, loaded : SUBSET Event, run : Nat,
                   oldEvidences : SUBSET Rows, oldReports : SUBSET Rows]
  BY DEF TaskTypes
<1>5. CASE Reload(w)
  <2>1. step[w] = "reload" /\ trace' = trace
    BY <1>5 DEF Reload, vars
  <2>2. c \in Call /\ Marker \in Types(trace[c])
    BY <1>2, <2>1 DEF Entitled
  <2>3. task'[w].loaded = trace[c] /\ task'[w].call = c
    BY <1>4, <1>5 DEF Reload, TaskTypes
  <2>4. Moment(c, trace[c])
    BY <2>2, MomentNow
  <2> QED
    BY <2>1, <2>3, <2>4 DEF Snapshot, Moment
<1>6. CASE \/ FindEvidences(w) \/ DropEvidences(w) \/ AddEvidences(w) \/ FindReport(w)
           \/ DropReport(w) \/ AddReport(w) \/ CommitEvaluation(w) \/ EvaluationFails(w)
  <2>1. step[w] \in Evaluating /\ step[w] # "idle"
    BY <1>6 DEF FindEvidences, DropEvidences, AddEvidences, FindReport, DropReport, AddReport,
                CommitEvaluation, EvaluationFails, Evaluating
  <2>2. task'[w].loaded = task[w].loaded /\ task'[w].call = c
    BY <1>4, <1>6 DEF FindEvidences, DropEvidences, AddEvidences, FindReport, DropReport, AddReport,
                      CommitEvaluation, EvaluationFails, TaskTypes
  <2>3. Moment(c, task[w].loaded)'
    BY <1>2, <2>1, <2>2, MomentStays DEF Snapshot
  <2> QED
    BY <2>2, <2>3 DEF Snapshot, Moment
<1>7. CASE ~ \/ Reload(w) \/ FindEvidences(w) \/ DropEvidences(w) \/ AddEvidences(w) \/ FindReport(w)
             \/ DropReport(w) \/ AddReport(w) \/ CommitEvaluation(w) \/ EvaluationFails(w)
  <2>1. CASE \/ NotEvaluable(w) \/ Observed(w) \/ Kill(w) \/ \E d \in Call : Accept(w, d)
    <3>1. step'[w] \in {"idle", "taken"}
      BY <1>3, <2>1 DEF NotEvaluable, Observed, Kill, Accept, EndTask
    <3> QED
      BY <3>1 DEF Snapshot, Evaluating
  <2>2. CASE TaskStatement(w)
    <3>1. step'[w] \in TraceTxn
      BY <2>2 DEF TaskStatement, taskVars
    <3> QED
      BY <3>1 DEF Snapshot, Evaluating, TraceTxn
  <2>3. CASE Mark(w) \/ Marked(w) \/ RecordError(w) \/ RecordObservations(w)
    <3>1. step'[w] \in {"marker", "content", "errorTxn", "observeTxn"}
      BY <1>3, <2>3 DEF Mark, Marked, RecordError, RecordObservations
    <3> QED
      BY <3>1 DEF Snapshot, Evaluating
  <2>4. CASE Enrich(w) \/ Enriched(w)
    <3>1. PICK s \in {"content", "silence", "judge"} :
            GoOn(w, StageOf(s).next) \/ GoOn(w, StageOf(s).txn)
      BY <2>4 DEF Enrich, Enriched
    <3>2. step'[w] \in {"silence", "judge", "reload", "contentTxn", "silenceTxn", "judgeTxn"}
      BY <1>3, <3>1 DEF StageOf
    <3> QED
      BY <3>2 DEF Snapshot, Evaluating
  <2> QED
    BY <1>7, <2>1, <2>2, <2>3, <2>4 DEF TaskStep
<1> QED
  BY <1>5, <1>6, <1>7

\* While others act, a worker's moment stays one.
LEMMA SnapshotBystander ==
  ASSUME Inv, Inv', [Next]_vars, NEW w \in Worker, Working(w), Snapshot(w),
         step'[w] = step[w], task'[w] = task[w]
  PROVE  Snapshot(w)'
<1>1. step[w] \in Evaluating => task[w].call \in Call /\ Advances(task[w].call)
  BY StoreAdvances DEF Working, Evaluating
<1>2. step[w] \in Evaluating => Moment(task[w].call, task[w].loaded)'
  BY <1>1, MomentStays DEF Snapshot
<1> QED
  BY <1>2 DEF Snapshot, Moment

\* A step of a worker keeps reports, and what workers evaluate, moments of the trace ...
LEMMA WorkerSnapshots ==
  ASSUME Inv, Inv', TaskInv, SnapshotInv, NEW w \in Worker,
         TaskStep(w) \/ Kill(w) \/ \E c \in Call : Accept(w, c)
  PROVE  SnapshotInv'
<1>1. /\ TaskTypes /\ Working(w) /\ Entitled(w) /\ StepOf(w) /\ w \in Process
      /\ WholeInv /\ ReportOfTrace /\ WorkerSound(w)
      /\ \A v \in Worker : Snapshot(v) /\ Working(v)
  BY TaskAssumption, WorkerIsProcess DEF TaskInv, WorkerSound, SnapshotInv
<1>2. [Next]_vars /\ \A v \in Worker \ {w} : step'[v] = step[v] /\ task'[v] = task[v]
  BY <1>1, StepIsNext, OwnTask
<1>3. WholeInv'
  BY <1>1, WorkerTells, StaysWhole
<1>4. \A v \in Worker : Snapshot(v)'
  BY <1>1, <1>2, OwnSnapshot, SnapshotBystander
<1>5. ReportOfTrace'
  <2>1. CASE UNCHANGED <<evidences, reports>>
    <3>1. \A c \in Call : \A r \in reports[c] : \E E : Moment(c, E)' /\ r.findings = Findings(E)
      BY <1>1, <1>2, ReportsStayOfTrace
    <3> QED
      BY <2>1, <3>1 DEF ReportOfTrace, Moment, Marker
  <2>2. CASE CommitEvaluation(w)
    <3>1. step[w] = "commit" /\ task[w].call \in Call /\ trace' = trace
      BY <1>1, <2>2 DEF CommitEvaluation, Working, vars
    <3>2. /\ reports'[task[w].call] = {Row(w)}
          /\ \A d \in Call \ {task[w].call} : reports'[d] = reports[d]
      BY <1>1, <2>2, Published
    <3>3. Moment(task[w].call, task[w].loaded) /\ Row(w).findings = Findings(task[w].loaded)
      BY <1>1, <3>1 DEF Snapshot, Evaluating, Row
    <3> HIDE DEF Row
    <3> QED
      BY <1>1, <3>1, <3>2, <3>3 DEF ReportOfTrace, Moment, Marker
  <2> QED
    BY <2>1, <2>2, OnlyEvaluationsPublish
<1> QED
  BY <1>3, <1>4, <1>5 DEF SnapshotInv

\* ... and so does a step of another process that tells well.
LEMMA SnapshotsElsewhere ==
  ASSUME Inv, Inv', TaskInv, SnapshotInv, NEW p \in Process, TellingStep(p), UNCHANGED taskVars
  PROVE  SnapshotInv'
<1>1. WholeInv'
  BY StaysWhole DEF SnapshotInv
<1>2. [Next]_vars
  <2>1. StepOf(p)
    BY DEF TellingStep, StepOf
  <2> QED
    BY <2>1, StepIsNext
<1>3. \A w \in Worker : Snapshot(w)'
  BY <1>2, SnapshotBystander DEF SnapshotInv, TaskInv, WorkerSound, taskVars
<1>4. \A c \in Call : \A r \in reports[c] : \E E : Moment(c, E)' /\ r.findings = Findings(E)
  BY <1>2, ReportsStayOfTrace DEF SnapshotInv
<1>5. ReportOfTrace'
  BY <1>4 DEF ReportOfTrace, Moment, Marker, taskVars
<1> QED
  BY <1>1, <1>3, <1>5 DEF SnapshotInv

\* Nothing changes them while store and workers rest.
LEMMA StillSnapshots ==
  ASSUME SnapshotInv, UNCHANGED vars, UNCHANGED taskVars
  PROVE  SnapshotInv'
  BY DEF SnapshotInv, WholeInv, Snapshot, Moment, ReportOfTrace, vars, taskVars
===============================================================================
