# Verification of the voice-agent governance platform

The platform watches phone calls that Vapi voice agents hold. Vapi sends a
webhook for everything that happens in a call; the backend lands it, promotes
it into an append-only **governance trace** in Postgres, keeps a live view of
the calls in progress in Redis, and, when a call ends, evaluates its trace in a
Celery task whose **report** the dashboard shows.

Its users sign in to the dashboard with one account; several tabs may share one
session.

This directory holds TLA+ specifications of that path and of the sign-in, the TLC
configurations that check them, and TLAPS proofs of every safety property that the
passing runs check, for any number of calls, processes, agents, tabs and rows.

    tlasany Platform.tla                                   # parse
    tlc -workers 2 -config MCTraceStore.cfg MCTraceStore   # model-check
    tlapm TraceStoreProofs.tla                             # check the proofs
    tlapm WebhookProofs.tla                                # and TaskProofs.tla,
    tlapm OperationsProofs.tla                             # which OperationsProofs extends
    tlapm ReportPipelineProofs.tla                         # and ScoringProofs.tla
    tlapm AuthProofs.tla
    tlapm DashboardProofs.tla

`PROJECT.json` lists the runs, the mutants that show each property can fail,
the source lines behind every definition, the hazards and the findings.
Paths below are relative to `src/backend/src/`.

## 1. Inventory

| Component | State | Operations | Talks to |
|---|---|---|---|
| Session aggregate `domain/session.py` | status, events of one call | `record`, `append_marker`, `append_system_observation`, `append_conversation_content`, `append_conversation_signal` | used by the use cases |
| Trace use cases `application/use_cases/` | none | `IngestEvent`, `RecordSystemObservation`, `RecordConversationContent`, `RecordConversationSignals`, `RecordEvaluationTriggered` | aggregate, repository |
| Governance repository `infrastructure/repositories/governance_repository.py` | tables sessions, events, evidences, evaluation_reports, agents | row-locked loads, `create_session`, `save_session`, `append_event`, `append_marker_event`, `add_evidences`, `add_report`, `upsert_agent`, `soft_delete_agent` | Postgres, one transaction per caller |
| Vapi mapping `adapters/rest/vapi_mapping.py` | none | message to event, to observations, to turns; verdict to signals | webhook, task |
| Webhook `adapters/rest/vapi.py` | one request at a time per handler | gate, ingest, latency, enqueue, live update | repository, broker, Redis |
| Live store `infrastructure/redis/active_sessions.py` | a Redis hash, an entry per call | `upsert_lifecycle`, `mark_ended`, `set_speaking_role`, `mark_interruption`, `list_active` | webhook writes, WebSocket reads |
| Broker `infrastructure/celery/app.py` | pending tasks | `delay`, delivery to a worker | webhook to task |
| Evaluation task `infrastructure/celery/tasks.py` | what one task holds in memory | marker, content, silence, judge, evaluation, observations | repository, LLM judge |
| Evidence builder, scoring `domain/evidence_builder.py`, `domain/scoring/` | none | trace to evidences to metrics to report | task |
| Silence detector `application/use_cases/detect_conversation_silence.py` | none | timed turns to a silence aggregate | task |
| Agent registry `adapters/rest/agent_routes.py` | table agents | register (verified in Vapi), list, remove | webhook gate |
| Authentication `adapters/rest/auth.py` | singleton credentials row with an epoch | status, setup, login, refresh, logout, verify | dashboard client, WebSocket |
| Query API `adapters/rest/query_routes.py`, WebSocket `adapters/rest/ws.py` | none | read | repository, live store |
| Dashboard `src/frontend/` | access token, one refresh in flight | requests with retry, views | REST, WebSocket |

What makes it hard:

* **Concurrency.** Requests run concurrently in several processes and worker
  tasks run beside them. They share session rows, whose events are numbered by
  the writer from its own copy. Only a row lock orders them.
* **Ordering and repetition.** Vapi repeats messages and sends them out of
  order: a transcript before the start, a start after the report, two reports.
* **Several stores, no common transaction.** Postgres, the broker and Redis are
  written one after the other by a request that may die in between.
* **Best-effort steps.** Latency, enrichment, enqueueing, live updates and
  observations may each fail and must leave the rest right.
* **Re-evaluation.** A second report enqueues a second task; two tasks may run
  at once, on the trace the first one extended.
* **Inference from gaps.** Turns, silences and scores are concluded from messages
  that repeat, lack times or disagree, and from evidences that may be missing; a
  metric that is omitted must not count for or against a session.
* **Readers without locks.** The query API reads in several statements while rows
  change, and lists sessions of agents that were removed meanwhile.

What makes each component correct is stated by the properties below; what could
go wrong where is listed under `hazards` in `PROJECT.json`.

## 2. Modules

    Taxonomy        event types, message promotion             (no state)
    Aggregate       Session + use-case decisions               (no state)   EXTENDS Taxonomy
    Identifiers     calls, None
    TraceStore      rows, events, locks, transactions          EXTENDS Aggregate, Identifiers
    SerialTrace     what TraceStore promises                   EXTENDS Aggregate, Identifiers
    TraceStoreInvariant, TraceStoreProofs                      EXTENDS TraceStore
    TaskQueue       pending tasks                              EXTENDS Identifiers
    ActiveSessions  live entries                               EXTENDS Identifiers
    Webhook         handlers                                   EXTENDS TraceStore, TaskQueue, ActiveSessions
    WebhookProofs                                              EXTENDS Webhook, TraceStoreProofs
    EvaluationTask  workers                                    EXTENDS TraceStore, TaskQueue
    TaskProofs                                                 EXTENDS EvaluationTask, TraceStoreProofs
    Platform        handlers and workers together              EXTENDS Webhook, EvaluationTask
    Operations      agent registry and read side               EXTENDS Platform
    OperationsProofs                                           EXTENDS Operations, WebhookProofs, TaskProofs
    ConversationTurns  report rows to turns and silences       (no state)
    Scoring         facts to evidences, scores and result      (no state)
    ReportPipeline  the way of one session to its report       EXTENDS ConversationTurns, Scoring
    ScoringProofs                                              EXTENDS Scoring
    ReportPipelineProofs                                       EXTENDS ReportPipeline, ScoringProofs
    Auth            credentials row, tokens, requests          (the server alone)
    AuthClients     any clients of it                          EXTENDS Auth
    AuthProofs                                                 EXTENDS AuthClients
    Dashboard       the tabs of one browser                    EXTENDS Auth
    DashboardProofs                                            EXTENDS Dashboard

`Taxonomy` has the three families of events of `domain/enums.py`, the sets that
the append methods admit, and `Resolve` and `SystemObservations`, which turn a
message into the event it promotes and the observations it carries. A message is
a record of the fields the translation looks at. The lists of failure reasons are
abstracted to the class (`error`, `clean`, `none`) they put a reason in, and the types
with a warning prefix (`chat.`, `session.`) to one of each (`SystemWarningTypes`).

`Aggregate` states what each use case does with a loaded aggregate. A *command*
names the use case (`op`), the event type and the stable identity (`key`) that a
derived id is computed from. `Ignored` are the calls that a use case ends without
appending: `IngestDrops` the boundary events, `Recorded` the derived events that are
there. `MarkerConflict` is the marker's insert that meets the partial unique index and
does nothing; `RecordEvaluationTriggered` itself always appends, under a random id.
`Redundant` are both, the calls that change nothing. `Refused` are those that raise
`SessionClosedError`, `NewEvent` is the event any other appends. An id is a triple of
type, key and nonce: a UUID5 has nonce 0, so that equal identities give equal ids; a
UUID4 carries its transaction's nonce.

`TraceStore` is the trace in Postgres. A transaction runs a *plan*, the commands
one handler or task step issues before its commit. Its phases are the statements
that others can observe or wait for: `LoadForUpdate` takes the row lock and
copies the trace, `LoadMiss`, `Create` and `CreateConflict` are the creation race
of `IngestEvent`, `Skip` and `Record` work on the copy, `Commit` publishes it,
`Refuse` and `Abort` roll back. Between any two of them other processes run.
Two constraints of the events table are there because they silently drop events: the
unique event id, in `Commit`, and the index that admits one marker, `MarkerConflict`.
The index is needed: two tasks mark one session from reads without a lock, and without
it `OncePerSession` fails (the mutant `NoConflict`). The unique constraint on (session,
sequence number) is deliberately absent: that no execution would need it is a result
(`SequenceIntact`), not an assumption. So is the other half of the index, one
`session.failed` (`LifecycleOrdered`).

`SerialTrace` is the abstract specification: each transaction happens in one step
or not at all, on the trace as it is. `Serializable` is the refinement of it by
`TraceStore`. `Call1` is one use-case call on an aggregate, in three disjoint cases
(ignored, refused, recorded); `Outcome` runs a plan of them. The one weakness of the
code it names (`Remainders`): observations that arrive before their session may be
recorded from the second one on, because each looks for the session anew.

`Webhook` follows `vapi_webhook` step by step. A handler's program counter is the
point between two externally visible effects: `gated` (the agent was found),
`persist` (main transaction open), `latency`, `latencyTxn`, `enqueue`, `live`,
`upsert` (session read back, entry not yet written). The agent is read twice, at
the gate and in `IngestEvent`, and may be removed in between. `Fault` selects
which faults may happen: a failing transaction, a dead process, a failing broker,
a failing Redis, a removal.

`ActiveSessions` keeps of an entry the status and the two live fields; every
operation is one Redis command or one Lua script, so one step.

`EvaluationTask` follows `build_session_evidences_async`. Evidences and reports
are sets of rows per call; all evidences of one evaluation are one row. A row
carries `Findings`, the part of the evidences that a later evaluation can see
differently: turns, flags, errors, silence, failure, goal (`unknown` without a signal,
where the code leaves the evidence out). An error observation is identified by the kind of
failure: the report that another task had inserted (`conflict`), or any other (`failed`).
The judge answers with one of `Verdict` or not at all. Postgres runs at READ
COMMITTED: a DELETE first determines its rows (`FindEvidences`), then waits for
the other deleter of one of them (`DropEvidences`), and never sees rows inserted
meanwhile; inserting a row that references the session shares its key until the
commit (`keyShare`), which `SELECT ... FOR UPDATE` waits for, and the reverse.
What Postgres, the broker and process death do is modelled from how the code uses
them and marked external.

`Platform` puts handlers and workers on one store.

`Operations` adds those who run the platform. `Register` is `POST /agents` after Vapi
has confirmed the assistant: the question reads no state of this system, so only its
upsert is a step, which gives a new row a key and reactivates a removed one under the
key it has. `Remove` is the soft delete. The code tells a governed agent by its row;
`governed`, the set that `Webhook` gates by, is kept equal to that (the second conjunct
of `SessionsListed`). A handler resolves the agent's key in `IngestEvent` and its commit
stores it, so `bound` carries the key in between, and `owner` is what the session's row
holds. `ListSessions` is the join of `governance_query.py`, one statement on the
committed rows. `GetSession` is two, the row and then its events, and any step of
anyone may come between; `GetReport` is one more request of the same reader.

`ConversationTurns`, `Scoring` and `ReportPipeline` say what is concluded from what was
written, and leave to `EvaluationTask` who writes when. `TakeRow` is one round of the
loop that consolidates the rows of `messages` into turns; `Aligned` the comparison with
the turns of `messagesOpenAIFormatted` without which there is no silence; `Qualifies` the
guards of a gap. The dates of turns and the text of an entry are reduced to what decides:
a time is a second or absent, a text is there or not. What consolidation should find is
stated without it, over the rows alone: `Starts` and `Ends` are the first and last rows of
the longest runs of one role, `RunOf` numbers the runs, `AreRuns` compares a list of turns
with them, and `Gaps` are the user rows before which the user was silent.

`Scoring` computes on the *facts* of a trace: how often each type of event occurs, the
silences counted in its one silence event, latencies and duration of its terminal
event. `Evidences` is `build_evidences`, `Score` the catalogue's metrics with their
normalisation, then come weighted means, blocking flags and the result, in the code's
order and with its numbers. The code computes in floats and does not round a mean; here a
point is `Unit` parts and a quotient is rounded down to a part. `Unit` is 352800, a
multiple of every number of turns up to 10 and of the sums of weights the catalogue
can produce, so that in the checked instance only the last division loses anything. The
code's `round` of the latency scores (half to even) is modelled as it is.

`ReportPipeline` is one session on its way: `Observe` and `End` record what the webhook
would, `ReadRow` and `Derive` read the report, `RecordContent`, `RecordSilence`,
`RecordVerdict` and `RecordFlags` add what a task adds, each once per identity, and any
best-effort step may record nothing. `EvaluationRaises` is an evaluation that leaves an
error in the trace instead of a report; `Reevaluate` a redelivered report. The judge is
asked three times at most, and every attempt fails or gives either verdict.

`Auth` is `adapters/rest/auth.py` over the singleton row. A request is an *exchange*
of a connection: sent, having read the row, having created it, answered. It decides
on the copy it read, so that a logout may commit in between; only the access check of
a protected route, one read and no write, is one step. A token is the record of its
claims. `session`, `start`, `stale`, `sessions` and `revoked` are history: they say
which session a token descends from and whether it had been ended when it was sent,
and no guard reads them. The clock counts ticks; the three life times are constants.

`AuthClients` lets clients do whatever they can without making up a token. `Dashboard`
is the browser: tabs that share the access token in localStorage and the refresh cookie,
each with its own `refreshInFlight`. The answer of a request is one task of a tab's
event loop and runs every continuation that waits for it, so `Renew`, `Renewed` and
`RenewalRefused` are each one step: what `request` does between two network accesses.
`redirectToLogin` takes effect later (`Unload`), and until then views may ask on. A call
that joins a refresh that is over would in JavaScript get its old outcome at once; here it
would wait for good, which is what `WaitersAreServed` rules out.
`ClientsOnly` is the refinement of `AuthClients` by `Dashboard`, where the tokens held
are the stored one and the cookie.

## 3. What is checked

| Run | Instance | Shows |
|---|---|---|
| `trace_store` | 3 connections, 1 call, 4 transactions out of 10 plans | `SequenceIntact`, `LifecycleOrdered`, `OncePerSession`, `AppendOnly`, `DraftCommitted`, `Serializable`, and `Inv`, the invariant of the proofs |
| `trace_start` | 2 connections, 2 transactions | **violated:** a dropped `session.started` is a duplicate |
| `webhook` | 2 handlers, 6 messages once each, aborts, Redis failures, removal | `LiveHasSession`, `LiveFieldsKept` |
| `webhook_zombie` | 2 handlers, start and report | **violated:** only calls in progress are in the live store |
| `task` | 2 workers, 2 tasks, two turns, either verdict or none, every initial status, kills and aborts | `OneReport`, `ReportAuditable`, `ReportOfTrace` |
| `task_duplicates` | 2 workers, 2 tasks | **violated:** the evidences of a session come from one evaluation |
| `task_rescore` | 1 worker, 2 tasks | **violated:** a re-evaluation that finds the same goal says the same |
| `platform` | 2 handlers, 1 worker, failed report and early threat twice each, crashes, broker failures | `PlatformSound`, `EvidencesReplaced`, `ReportStays`, `TaskOnlyForClosed` |
| `platform_fair` | the same with registry and a reader: 2 handlers, 1 worker, start and report, an agent that comes, goes and returns | `ReportSeesEnrichment`, `ClosedIsEvaluated`, `NobodyStuck`, `EndCloses`, `SessionsListed`, `ViewsHangTogether` |
| `report` | every call of up to 4 live events and report rows (7 rows, 4 transcripts, 2 timings), two evaluations with any verdicts | `TurnsAreRuns`, `SilencesAreGaps`, `PassIsEarned`, `ScoresAreMeans`, `BadNewsNeverHelps`, `AchievedStands` |
| `dashboard` | 2 tabs, the first with 2 calls and a flaky network, another client that logs out | `RevokedStaysOut`, `SessionCapped`, `ShownSecretIsStored`, `OneRefresh`, `WaitersAreServed`, `RefusedForAReason`, `ClientsOnly`, and `AuthInv`, the invariant of the proofs |
| `dashboard_tabs` | 2 tabs, 1 call, no faults | **violated:** a tab that shows the app is signed in |

The violated properties are what a comment or a docstring of the code says and
the code does not do; `findings` quotes the line of each.

**Bounds.** `MaxTxn` bounds the transactions begun; it is 4 in `trace_store` (a
creation race, an end and a derived append fit, and a fourth transaction meets
what they left), and in the other runs it is larger than what the messages and
tasks can begin, so that it never disables a step. `MaxDelivery` bounds the
deliveries of a message and `MaxRun` the evaluations; with two tasks in the queue
two evaluations are all there can be. One call is enough: no action touches the
state of two calls, and the only thing they share, processes, are more numerous
than what can work on one call usefully. The theorems hold for any number.
Symmetry is used over processes and calls in runs without liveness properties.

In `platform_fair` each message comes once; the agent may be registered, removed and
reactivated any number of times, at any moment, and the second key in `AgentId` would
show a reactivation that changes it. The reader asks for the session and its report in
any order as often as it likes. The judge stays silent there: what it records is one more
derived transaction like that of the silences, the order of which the `task` runs check.

In `report`, `MaxSize` 4 bounds the events of the call and the rows of its report together.
Two turns of two rows fit into it, and a row of an unknown role between two of the same
one; the longest transcript has four turns. The threshold is 6 and the rows' times
give gaps of 5, 6 and 7, a turn that ends before it starts, and a time that does not parse. The timings
put the latencies between the limits, with a negative one that does not count, and the duration at
its limit and past it. `MaxRuns` 2 has the second evaluation see what the first one left.

In the `dashboard` runs an access token lives for one tick (a quarter of an hour), the
sliding window is two ticks, as in the code, and the cap is two ticks (eight hours in
the code), so that it ends a session that the window would continue. `MaxClock` 2 lets
both tokens expire and the cap pass; `MaxSession` 2 allows a setup and a login, or two
setups at once; the other client logs out once; `Flaky` names the tabs the network fails
(a lost request leaves no more behind than a lost answer, so only answers get lost).
`Later` lets time pass only while no handler is half done and no answer is on its way: both take milliseconds of the tick, while a request may wait unserved for
any time. `RefusedForAReason` depends on this (an answer that takes as long as a token
lives brings a dead token), the theorems about sessions do not: `AuthClients` has no
such restriction.
When every exchange is over at the last tick the run rests (`Rest`).

**Fairness** (`platform_fair` only). A handler or worker that has a step keeps
taking steps, strongly fair, because a step that waits for a row lock is enabled
and disabled by others, and Postgres grants locks in queue order; an idle worker
takes a pending task, weakly fair, because Celery workers poll. Nothing is assumed
about the environment: no delivery, registration, query or fault has to happen.
`EndCloses` says of a report that passed the gate that its session is closed in the end
or its agent is not governed: the one way in which a call is left open is a removal, since
`IngestEvent`, which looks the agent up again, then records nothing and the request succeeds.

**Mutants.** Each checked property has a mutant: a definition of the model as a
plausible bug would leave it (the lock not taken, the reload forgotten, the guard
dropped), under which TLC finds the property violated; `OncePerSession` has one for each
of its two defences, the marker's index and the check of the silence's type. They stand
before the definitions they replace, marked `Mutant`.

**A verdict and its re-evaluation.** The judge may stay silent in one evaluation and answer
in the next, and the two reports then rightly differ. `ScoringIdempotent` therefore
compares reports of the same goal only; the counterexample of `task_rescore` is a second
report that counts the flags which the first evaluation recorded.

## 4. What is proved

### The trace

`TraceStoreProofs` proves, for every set of calls and processes, every set of plans
that satisfies `PlanAssumption` and every `MaxTxn`:

| Theorem | States |
|---|---|
| `Invariance` | `Spec => []Inv` |
| `TypeCorrect` | `Spec => []TypeOK` |
| `SequenceIsIntact` | numbers of a call are 1..n |
| `LifecycleIsOrdered` | row status and terminal event agree; live before, derived after |
| `RecordedOnce` | marker (by the index) and silence (by the check under the lock) at most once, start only first |
| `TraceIsAppendOnly` | a committed event is never changed, removed or preceded by a later one |
| `DraftIsCommitted` | a commit stores exactly what the transaction worked on |

Assumptions: `None` is neither a call nor a process; a plan ingests at most once, as
its first command, issues only types the use case is called with, and a marker alone.
These are properties of the callers, `vapi.py` and `tasks.py`, and TLC evaluates them
for the plans of every run. The assumption on `Plan` says nothing of its length.
`TransactionsAreSerial`, below, rests on the same assumptions.

`SequenceIntact` is not inductive: a transaction that commits must have numbered its
draft right, and a draft is right only because of the lock. The invariant `Inv` of
`TraceStoreInvariant` adds

* `Draft`: a transaction in phase `held` owns the row, and its draft is the committed
  trace with its own events behind it; as a trace it is `Sound`, with the status it is
  about to write;
* `Pending`: what remains of an open plan is still lawful, and a marker is only
  pending on a closed session (closed sessions stay closed, so the unlocked read
  of the task remains true);
* `Nonces`: no two open transactions share a nonce and none is in the trace yet,
  so that fresh ids never collide;
* `CommittedSound`: every committed trace is numbered, identified by its ids, a
  `LawfulLife` of its row's status, and holds the single events once.

`InitInv` establishes it; one lemma per action (`BeginInv` ... `CommitInv`) preserves
it; `OwnStep` carries over what concerns the other processes. The lemmas `NumberedAppend`,
`NextIsCount`, `LifeGoesOn`, `OnceRemains` and `RecordSound` say that appending one
event keeps a trace sound: the heart of the argument. `NextIsCount` shows that the
aggregate's `len + 1` and the marker's `max + 1` are the same number on a sound trace.

### The trace as its users see it

`TransactionsAreSerial` is the refinement `Spec => Serializable`: with all its locks,
private copies, merges and creation races the store does what `SerialTrace` does in
single steps. A commit is a `Transact` of a remainder of its plan on the committed
trace, any other step a stutter. The refinement needs to know where an open transaction
stands in its plan, which no variable tells. `SerialInv` says it through `History`: a
transaction that has not got the row still has a whole remainder before it, and the
draft of one that has is the `Outcome` of the commands it has run on the trace *as it
is committed now*. That this trace cannot have moved meanwhile is what the lock is for
(`HeldRowsKept`). One lemma for each action (`HistoryOfMiss` ... `HistoryOfCommand`)
extends the history by a command, and `CommitIsTransact` closes it.

A plan may have any length, so `Outcome` is a recursive function, and the proof needs to
know what it yields for one command more. The library's induction theorems take
operators that the provers cannot instantiate; `SetInduction` states the principle for a
*set* of naturals, from the well-foundedness of `<`, and `RunExists`, `RunsAgree` and
`OutcomeStep` get from it that the function exists, is unique, and takes one step per
command.

### Handlers, workers, operators

`WebhookProofs`, `TaskProofs` and `OperationsProofs` prove, for any number of handlers,
workers, readers, calls, agents and messages, and whichever faults occur unless a row
says otherwise:

| Theorem | States |
|---|---|
| `WebhookInvariance`, `WebhookTypeCorrect` | `WebhookSpec => []WebhookInv`; types |
| `WebhookKeepsTrace`, `PlatformKeepsTrace` | `WebhookSpec => Spec`, `PlatformSpec => Spec`: handlers and workers do to the store what its transactions may, so that the theorems above hold of them |
| `PlatformIsSerial`, `PlatformIsSound` | so their transactions are serial, and the trace stays sound |
| `LiveEntriesHaveSessions` | an entry of the live store has a session row |
| `LiveFieldsAreKept` | an interruption shown is not forgotten; only live messages change who speaks |
| `OnlyClosedAreEvaluated`, `ClosedOnPlatform` | an evaluation is requested for closed sessions only, *if no agent is removed* |
| `PlatformInvariance`, `TaskTypeCorrect` | `PlatformSpec => []PlatformInv`; types |
| `OneReportOnly`, `ReportsAreKept` | a session has one report, which is replaced but never lost |
| `ReportsCanBeAudited` | a report comes with its evidences, on a closed session with its marker |
| `ReportsAreOfTrace` | a report says what the trace said at one moment after its marker, with every enrichment there as a whole or not at all |
| `EvidencesAreReplaced` | the evidences come from one evaluation, *if there is one worker* |
| `ReportsSeeEnrichment` | no report misses turns or silence of its session, *if no transaction of a task is aborted* |
| `OperationsInvariance` | `OperationsSpec => []OperationsInv` |
| `SessionsAreListed` | every session is listed once, under its agent, whatever is registered, removed or reactivated; the listed agents are those the gate lets in |
| `ViewsAreConsistent` | what a reader is told in several statements hangs together |
| `OperatorsDisturbNothing` | registry and readers leave standing what holds of handlers and workers |

Assumptions: handlers and workers are different processes (`RolesDisjoint`); `Plan` holds
the plans they run, and a message makes finitely many observations (`HandlerPlans`,
`TaskPlans`, which tie `vapi.py` and `tasks.py` to `PlanAssumption`); the content commands
of a report differ from one another, since their identity contains the index of the turn;
no key of an agent is `None`.

The three conditions in italics are needed: without them the statement is false of the
code. An agent removed between gate and ingest leaves the session open and has its
evaluation requested all the same; two workers leave evidences of two evaluations (the
run `task_duplicates`); an enrichment that is rolled back is not repeated before the
evaluation. The runs that check these properties fulfil the condition.

The invariants are written for one process: `HandlerSound(h)` and `WorkerSound(w)`. A step
of `h` is held against its own conjunct (`OwnRequest`, `OwnPromises`, `OwnTask`,
`OwnTitle`); any other step is only known not to touch the transaction of `h` (`Bystander`,
`WorkerBystander`) and to let committed rows grow and close (`StoreAdvances`). That makes
composition cheap: to a handler a worker's step is one of some process of the store, and
`PlatformStep` needs no argument of its own.

* `HandlerInv`: an open transaction works on the call of the handler's message (`Serving`);
  what a pending `upsert` is about to write was read from a row that is still there
  (`SeenRow`); a terminal event is the next command of its transaction or has closed its
  draft (`ClosesSession`); latencies are recorded on closed sessions (`LatencyAfterEnd`).
* `TaskInv`: past its first read a worker's session is closed, past its first transaction
  marked (`Entitled`); a worker about to commit an evaluation has every report there is
  among those it deletes, and no other is about to commit one (`Replaces`). Without it
  `OneReport` is not inductive; it comes from the unique key of the report, since an
  evaluation shares the key of the session row and excludes nobody.
* `EnrichmentInv`: every turn is still to be recorded by the content transaction or in its
  draft (`Speaking`), likewise the silence (`Falling`), and the copy that an evaluation
  works on holds both (`Enriching`).
* `SnapshotInv`: every committed trace is `Whole`, and an open transaction will leave it so
  (`Telling`: its draft is whole, or what makes it whole is still to be recorded); what a
  worker evaluates was such a trace at some number (`Moment`), and stays one because a trace
  only grows behind its last number. Handlers keep it because they record neither turns nor
  verdicts (`HandlerTells`).
* `RegistryInv`: keys are unique; a handler's main transaction holds the key of its call's
  agent (`Keyed`) as long as it may create the session (`NeverCreates`). `ViewInv`: what a
  reader was shown closed is closed.

### The report

`ScoringProofs` and `ReportPipelineProofs` prove, for all calls of any length, all reports,
any number of evaluations and every `Unit`:

| Theorem | States |
|---|---|
| `ReportInvariant`, `ReportTypes` | `ReportSpec => []ReportInv`; facts stay counts, every report is one |
| `PassesAreEarned` | a session that passed has ended in good order, and a turn was heard or the goal achieved |
| `ReportsAreMeans` | scores lie in 0..100, a dimension between two of its metrics' scores, the total between two dimensions |
| `BadNewsHurts` | no event that speaks against a session raises a score or lifts a flag |
| `AchievedForGood` | after an achieved goal a contrary verdict changes nothing |
| `ConsolidationIsRuns` | turns are the longest runs of rows of one role, with their boundaries |
| `SilencesAreCounted` | silences are the gaps between rows, each counted once, and none if the lists disagree |

Assumptions: `Unit` is positive and `Absent` no number; what a report may hold is well
formed (`ReportAssumption`): its transcripts are lists of entries, its duration is a
natural number, and the latencies kept from it add up to one. The threshold is positive
and `NoTime` is no time (`ThresholdAssumption`). Nothing is assumed of a row.

`PassIsEarned` is not inductive, since after an evaluation the trace goes on changing;
`ReportInv` adds that the report at hand is that of the facts (until flags are recorded)
and that there is none before the call has ended, and `EarnedStays` shows that nothing a
task adds takes from a trace what earned the pass. Its core is `SilentCallFails`: without a turn and
without a goal, engagement and turn completion score 0 with 5 of the 6 weights of their
dimension, and the best possible rest stays below 75 points. `Quotient` says where an
integer quotient lies; from it follow the mean of each dimension and of the total
(`DimensionMean`, `GlobalMean`), whose weights are never zero (`GroupWeight`,
`AlwaysScored`). For monotony, `Worse` relates evidences; `ScoresFall` shows that no measured
metric gains and that one measured for the first time scores 0, `DimensionFalls` that the
mean falls although its weights may grow. The sums are finite and written out, so that
no induction is needed.

`ReadingInv` adds to `ReportInv` that the turns in hand are the runs of the rows in hand.
Rows are taken one at a time, so the induction is over the behaviour, and `RunsStay` is its
step: a row of another role changes nothing (`RunsOfOther`), a row that counts lengthens
the last run or starts the next and leaves the numbers of all others alone (`RunsOfNext`,
`RunNumbers`, `LastRun`). For the silences, `RunsNumbered` shows that runs are numbered
without a gap, `SilentQualifies` and `QualifiesSilent` that a gap between two rows is one
between their turns and the reverse, and `GapsAreIntervals` has the bijection that makes the
counts equal. `NaturalInduction`, `Greatest` and `Least` are again stated for sets.

### Sessions of the dashboard

`AuthProofs` and `DashboardProofs` prove, for every set of connections, tabs and calls
and all life times:

| Theorem | States |
|---|---|
| `AuthInvariance` | `ClientSpec => []AuthInv` |
| `LogoutRevokes` | a token there was when a logout committed, and what is rotated from it, is refused in every request sent later |
| `CapHolds` | no chain of refreshes outlives the cap by more than an access token |
| `OneSetup` | one setup wins, and the secret shown is the stored one |
| `BrowserIsAClient` | `DashboardSpec => ClientsOnly` |
| `SessionsInBrowser` | so the three hold of the browser |
| `BrowserInvariance`, `BrowserTypeCorrect` | `DashboardSpec => [](BrowserInv /\ AuthInv)`; types |
| `RefreshIsShared` | a tab has at most one refresh under way |
| `NobodyWaitsInVain` | a call that waits for a refresh waits for one under way |
| `RefusalsHaveReasons` | a call is refused only if somebody logged out or an access token's life has passed since it was made |

Assumptions: life times are natural numbers and the cap is not zero; `None` is neither a
connection, a row nor a token; a tab's and a call's exchanges are connections.

`RevokedStaysOut` is not inductive: a login or refresh that read the row before a logout
answers after it, with tokens of a session that the logout ended. They are harmless
because they bear the epoch of the row that was read. `AuthInv` therefore says of every
token, wherever it is (`Known`), that its epoch is at most the row's, and below it if its
session is among the revoked, and that its cap is that of its session's start; and of
every request (`Sound`) that the row it copied is a past state of the row, past a revoked
token's epoch if it was sent with one. `KnownStays` shows that no step of the server
unsays what is known of a token; one lemma per action does the rest. `HeldInv` adds the
tokens that clients hold. In `DashboardProofs`, `ByClients` says when a step is one of
`AuthClients`, there is a lemma for each group of browser actions, and `SameServe` shows
that the server's steps are the same on both sides; the theorems of `AuthProofs` are
then instantiated with the browser's tokens for `held`.

`BrowserInv` relates, for each tab, `inflight` to the exchange of the call that began the
refresh (`Flying`), that exchange to the token it renews (`Renewing`), and every call to
the refresh it waits for (`Calling`). The history fields `asked` and `epoch` of a call say
when and under which epoch it was made; a retry bears a token of that epoch that lives past
`asked + AccessTTL`, so that only a logout or the clock can have it refused. That a fresh
token has the epoch of the one it replaces is `AuthInv`, which `AuthInBrowser` carries over.

### Only model-checked

* The liveness properties `ClosedIsEvaluated`, `NobodyStuck` and `EndCloses`: fairness
  and ENABLED are out of the provers' reach.
* The counterexamples of the runs that expect a violation.

## 5. Not modelled

* Payloads and texts, and timestamps where nothing but the order of arrival depends on
  them. The parsing of a report's times is modelled by its outcome: a number or none.
* The raw landing table, written once in the main transaction and never read by this code.
* The Vapi credential check in front of the gate, and a registration Vapi does not
  confirm, which changes nothing. An agent's name, prompt and other texts.
* The HTTP exchange with the judge: what went wrong in an attempt makes no difference
  to what the code does next.
* Evidences' wording and their lists of source events; a silence policy other than the
  default.
* Order, limits, filters and the redaction of payloads in the query API's answers: they
  shape an answer and read no more state. The live WebSocket: it sends the live store as
  one `HGETALL` finds it, so that all it can show is what `LiveHasSession` and
  `LiveFieldsKept` say of the store; its handshake makes the access check of `Query`.
* `mark_active`, which nothing calls; password policy, cookie flags and signatures, and
  the environment override of the secrets.
* Views, schemas, configuration, logging and migrations, which have no behaviour of
  this kind.

## 6. Plan

Done: the trace store and its refinement; webhook, live store, task, platform, registry and
read side; turns, silences, scoring and report; the sessions of the dashboard and the
browser; the proofs of the safety properties of all of them.

Left:

1. An abstract specification of a session's way through the platform (open, closed,
   evaluated, evaluated again), which `Operations` implements as the trace store
   implements `SerialTrace`, proved from `OperationsInv`.
2. The two views of an evaluation put together: what `EvaluationTask` leaves in a trace are
   facts of `ReportPipeline`, so that the theorems about reports hold of the platform's.
3. The least covered code: the polling and the handshake of the live WebSocket.
