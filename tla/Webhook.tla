------------------------------- MODULE Webhook --------------------------------
(* The webhook handler (adapters/rest/vapi.py): concurrent requests, each of   *)
(* which gates its message on a governed agent, promotes it into the trace in  *)
(* one transaction, records the ingestion latency of a terminal event in       *)
(* another, enqueues the evaluation task and updates the live store.  Nothing  *)
(* but the trace transactions is atomic: another handler, a removal of the     *)
(* agent, a failure or a crash may come between any two steps.                 *)
EXTENDS TraceStore, TaskQueue, ActiveSessions

CONSTANTS
  Handler,       \* the processes that serve webhook requests
  Agent,         \* the governed assistants
  AgentOf,       \* call -> the assistant it belongs to
  Message,       \* the messages Vapi sends
  MaxDelivery,   \* bound on the deliveries of one message
  Fault          \* which faults may happen: "crash", "abort", "broker", "redis", "remove"

ASSUME HandlerAssumption ==
  /\ Handler \subseteq Process
  /\ AgentOf \in [Call -> Agent]
  /\ MaxDelivery \in Nat
  /\ Fault \subseteq {"crash", "abort", "broker", "redis", "remove"}

Seqs == INSTANCE SequencesExt

VARIABLES
  governed,   \* the agents that are registered and not soft-deleted
  delivered,  \* message -> how often it was delivered
  pc,         \* handler -> the step its request is at
  msg,        \* handler -> the message it serves, or None
  seen        \* handler -> the status update_active_state read, or "absent"

webhookVars == <<governed, delivered, pc, msg, seen>>
allWebhookVars == <<vars, queue, live, webhookVars>>

Stage == {"idle", "gated", "persist", "latency", "latencyTxn", "enqueue", "live", "upsert"}

CallOf(h) == msg[h].call

IsTerminal(m) == Resolve(m) \in TerminalEvents

\* The command that a message's own event is ingested with, if it has one that is kept.
OwnCommand(m) ==
  IF Resolve(m) \in {"none"} \union LiveOnlyEvents THEN << >>
  ELSE <<[op |-> "ingest", type |-> Resolve(m), key |-> "none"]>>

\* What one delivery asks of the trace: its own event, unless the second look at the
\* agent finds it removed, and then its observations.
IngestCommands(m) == IF AgentOf[m.call] \in governed THEN OwnCommand(m) ELSE << >>

ObserveCommands(m) ==
  Seqs!SetToSeq({[op |-> "observe", type |-> o[1], key |-> o[2]] : o \in SystemObservations(m)})

PlanOf(m) == IngestCommands(m) \o ObserveCommands(m)

LatencyPlan == <<[op |-> "observe", type |-> "SYSTEM_LATENCY_MEASURED", key |-> "ingestion"]>>

\* A message names its call and makes finitely many observations, and Plan holds every
\* plan a handler runs.
ASSUME HandlerPlans ==
  /\ LatencyPlan \in Plan
  /\ \A m \in Message :
       /\ m.call \in Call
       /\ IsFiniteSet(SystemObservations(m))
       /\ {OwnCommand(m) \o ObserveCommands(m), ObserveCommands(m)} \ {<< >>} \subseteq Plan

WebhookStart(registered) ==
  /\ Init /\ QueueInit /\ LiveInit
  /\ governed = registered
  /\ delivered = [m \in Message |-> 0]
  /\ pc = [h \in Handler |-> "idle"]
  /\ msg = [h \in Handler |-> None]
  /\ seen = [h \in Handler |-> "absent"]

WebhookInit == WebhookStart(Agent)

------------------------------------------------------------------------------
(* The steps of a request.                                                     *)

Goto(h, stage) == pc' = [pc EXCEPT ![h] = stage]

\* The response is sent.
Respond(h) ==
  /\ Goto(h, "idle")
  /\ msg' = [msg EXCEPT ![h] = None]
  /\ seen' = [seen EXCEPT ![h] = "absent"]

\* A delivery for a governed agent is accepted ...
Receive(h, m) ==
  /\ pc[h] = "idle"
  /\ delivered[m] < MaxDelivery
  /\ AgentOf[m.call] \in governed
  /\ delivered' = [delivered EXCEPT ![m] = @ + 1]
  /\ msg' = [msg EXCEPT ![h] = m]
  /\ Goto(h, "gated")
  /\ UNCHANGED <<vars, queue, live, governed, seen>>

\* ... and any other is answered "ignored".
Discard(m) ==
  /\ delivered[m] < MaxDelivery
  /\ AgentOf[m.call] \notin governed
  /\ delivered' = [delivered EXCEPT ![m] = @ + 1]
  /\ UNCHANGED <<vars, queue, live, governed, pc, msg, seen>>

\* Mutant: the evaluation is requested after every event.
EnqueueAlways(m, recorded) == IF recorded THEN "latency" ELSE "enqueue"

AfterPersist(m, recorded) ==
  CASE recorded           -> "latency"
    [] IsTerminal(m)      -> "enqueue"
    [] OTHER              -> "live"

\* The main transaction, which reads the agent again before it touches the session.
Persist(h) ==
  LET m == msg[h] IN
  /\ pc[h] = "gated"
  /\ IF PlanOf(m) = << >>
     THEN Goto(h, AfterPersist(m, FALSE)) /\ UNCHANGED vars
     ELSE Begin(h, m.call, PlanOf(m)) /\ Goto(h, "persist")
  /\ UNCHANGED <<queue, live, governed, delivered, msg, seen>>

InTransaction(h) == pc[h] \in {"persist", "latencyTxn"}

Statement(h) ==
  /\ InTransaction(h)
  /\ Work(h)
  /\ UNCHANGED <<queue, live, webhookVars>>

\* canonical_event is a terminal event this very delivery recorded.
RecordedTerminal(h) ==
  \E e \in txn[h].events : e.nonce = txn[h].nonce /\ e.type \in TerminalEvents

PersistCommit(h) ==
  /\ pc[h] = "persist"
  /\ Commit(h)
  /\ Goto(h, AfterPersist(msg[h], RecordedTerminal(h)))
  /\ UNCHANGED <<queue, live, governed, delivered, msg, seen>>

\* An exception in the main transaction is answered with an error: nothing later runs.
PersistFails(h) ==
  /\ \/ pc[h] = "persist" /\ Refuse(h)
     \/ pc[h] = "persist" /\ "abort" \in Fault /\ Abort(h)
     \/ pc[h] = "gated" /\ "abort" \in Fault /\ UNCHANGED vars
  /\ Respond(h)
  /\ UNCHANGED <<queue, live, governed, delivered>>

RecordLatency(h) ==
  /\ pc[h] = "latency"
  /\ Begin(h, CallOf(h), LatencyPlan)
  /\ Goto(h, "latencyTxn")
  /\ UNCHANGED <<queue, live, governed, delivered, msg, seen>>

\* Mutant: the handler goes straight to the live store after the latency.
LatencyEndsRequest(h) ==
  /\ pc[h] = "latencyTxn"
  /\ Commit(h) \/ Refuse(h) \/ ("abort" \in Fault /\ Abort(h))
  /\ Goto(h, "live")
  /\ UNCHANGED <<queue, live, governed, delivered, msg, seen>>

\* The latency transaction is best effort: whatever comes of it, the handler goes on.
LatencyDone(h) ==
  /\ pc[h] = "latencyTxn"
  /\ Commit(h) \/ Refuse(h) \/ ("abort" \in Fault /\ Abort(h))
  /\ Goto(h, "enqueue")
  /\ UNCHANGED <<queue, live, governed, delivered, msg, seen>>

\* Decided by the type of the command, not by whether its event was recorded.
EnqueueTask(h) ==
  /\ pc[h] = "enqueue"
  /\ Enqueue(CallOf(h))
  /\ Goto(h, "live")
  /\ UNCHANGED <<vars, live, governed, delivered, msg, seen>>

EnqueueFails(h) ==
  /\ "broker" \in Fault
  /\ pc[h] = "enqueue"
  /\ Goto(h, "live")
  /\ UNCHANGED <<vars, queue, live, governed, delivered, msg, seen>>

------------------------------------------------------------------------------
(* update_active_state.                                                        *)

\* Mutant: the entry is built although the session was not found.
ReadSessionUnchecked(h) ==
  /\ pc[h] = "live"
  /\ Resolve(msg[h]) = "SESSION_STARTED"
  /\ seen' = [seen EXCEPT ![h] = sessionRow[CallOf(h)]]
  /\ Goto(h, "upsert")
  /\ UNCHANGED <<vars, queue, live, governed, delivered, msg>>

\* A session start reads the session first ...
ReadSession(h) ==
  /\ pc[h] = "live"
  /\ Resolve(msg[h]) = "SESSION_STARTED"
  /\ sessionRow[CallOf(h)] # "absent"
  /\ seen' = [seen EXCEPT ![h] = sessionRow[CallOf(h)]]
  /\ Goto(h, "upsert")
  /\ UNCHANGED <<vars, queue, live, governed, delivered, msg>>

\* ... and writes the entry from what it read.
Upsert(h) ==
  /\ pc[h] = "upsert"
  /\ UpsertLifecycle(CallOf(h), seen[h])
  /\ Respond(h)
  /\ UNCHANGED <<vars, queue, governed, delivered>>

Close(h) ==
  /\ IsTerminal(msg[h])
  /\ MarkEnded(CallOf(h))

Speak(h) ==
  /\ Resolve(msg[h]) = "CONVERSATION_TURN_STARTED"
  /\ msg[h].role # "other"
  /\ SetSpeakingRole(CallOf(h), IF msg[h].role = "assistant" THEN "agent" ELSE "user")

Hush(h) ==
  /\ Resolve(msg[h]) = "CONVERSATION_TURN_ENDED"
  /\ SetSpeakingRole(CallOf(h), None)

Interrupt(h) ==
  /\ Resolve(msg[h]) = "CONVERSATION_INTERRUPTION_DETECTED"
  /\ MarkInterruption(CallOf(h))

\* Messages the live store has no use for.
NothingLive(h) ==
  /\ \/ Resolve(msg[h]) \notin TerminalEvents \union LiveOnlyEvents \union
          {"SESSION_STARTED", "CONVERSATION_INTERRUPTION_DETECTED"}
     \/ Resolve(msg[h]) = "CONVERSATION_TURN_STARTED" /\ msg[h].role = "other"
     \/ Resolve(msg[h]) = "SESSION_STARTED" /\ sessionRow[CallOf(h)] = "absent"
  /\ UNCHANGED live

UpdateLive(h) ==
  /\ pc[h] = "live"
  /\ Close(h) \/ Speak(h) \/ Hush(h) \/ Interrupt(h) \/ NothingLive(h)
  /\ Respond(h)
  /\ UNCHANGED <<vars, queue, governed, delivered>>

LiveFails(h) ==
  /\ "redis" \in Fault
  /\ pc[h] \in {"live", "upsert"}
  /\ Respond(h)
  /\ UNCHANGED <<vars, queue, live, governed, delivered>>

------------------------------------------------------------------------------
(* The environment.                                                            *)

\* The API process dies: the open transaction is rolled back, the request is lost.
Crash(h) ==
  /\ "crash" \in Fault
  /\ pc[h] # "idle"
  /\ IF txn[h].phase = "idle" THEN UNCHANGED vars ELSE Abort(h)
  /\ Respond(h)
  /\ UNCHANGED <<queue, live, governed, delivered>>

\* DELETE /agents/{id} and a registration that reactivates the agent.
RemoveAgent(a) ==
  /\ "remove" \in Fault
  /\ a \in governed
  /\ governed' = governed \ {a}
  /\ UNCHANGED <<vars, queue, live, delivered, pc, msg, seen>>

RegisterAgent(a) ==
  /\ a \notin governed
  /\ governed' = governed \union {a}
  /\ UNCHANGED <<vars, queue, live, delivered, pc, msg, seen>>

HandlerStep(h) ==
  \/ Persist(h) \/ Statement(h) \/ PersistCommit(h) \/ PersistFails(h)
  \/ RecordLatency(h) \/ LatencyDone(h) \/ EnqueueTask(h) \/ EnqueueFails(h)
  \/ ReadSession(h) \/ Upsert(h) \/ UpdateLive(h) \/ LiveFails(h)

WebhookNext ==
  \/ \E h \in Handler :
       \/ \E m \in Message : Receive(h, m)
       \/ HandlerStep(h)
       \/ Crash(h)
  \/ \E m \in Message : Discard(m)
  \/ \E a \in Agent : RemoveAgent(a) \/ RegisterAgent(a)

WebhookSpec == WebhookInit /\ [][WebhookNext]_allWebhookVars

------------------------------------------------------------------------------
(* Properties.                                                                 *)

WebhookTypeOK ==
  /\ TypeOK /\ QueueTypeOK /\ LiveTypeOK
  /\ governed \subseteq Agent
  /\ delivered \in [Message -> 0..MaxDelivery]
  /\ pc \in [Handler -> Stage]
  /\ msg \in [Handler -> Message \union {None}]
  /\ seen \in [Handler -> RowStatus]

\* The supervision view never shows a call that has no session row: the entry is
\* created from a session read back after the commit (update_active_state).
LiveHasSession == \A c \in Call : live[c] # None => sessionRow[c] # "absent"

\* "Session closed: build its evidences asynchronously" (adapters/rest/vapi.py:141): a
\* task is enqueued for a session that is closed, whichever delivery closed it.
TaskOnlyForClosed ==
  [][\A c \in Call : queue'[c] > queue[c] => sessionRow[c] \in Closed]_allWebhookVars

\* A resent session start never loses what another request wrote to the live fields of
\* the entry (upsert_lifecycle): an interruption shown stays shown while the entry lives,
\* and the speaking role changes only by a speech update.
LiveFieldsKept ==
  [][\A c \in Call :
       live[c] # None /\ live'[c] # None =>
         /\ live[c].interrupted => live'[c].interrupted
         /\ live'[c].speaking # live[c].speaking =>
              \E h \in Handler : pc[h] = "live" /\ CallOf(h) = c /\ Resolve(msg[h]) \in LiveOnlyEvents]_allWebhookVars

\* The live store holds "the sessions currently in progress"
\* (application/ports/active_sessions.py): when no request is under way, a call with an
\* entry is active.
LiveOnlyInProgress ==
  (\A h \in Handler : pc[h] = "idle") =>
     \A c \in Call : live[c] # None => sessionRow[c] = "active"
===============
