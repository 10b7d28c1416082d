------------------------------- MODULE Platform -------------------------------
(* The whole ingestion path: webhook handlers and evaluation workers over one  *)
(* trace store, one broker and one live store.  A handler's and a worker's     *)
(* transactions meet on the session row: appenders hold it, the evaluation     *)
(* shares its key.                                                             *)
EXTENDS Webhook, EvaluationTask

ASSUME RolesDisjoint == Handler \intersect Worker = {}

allVars == <<vars, queue, live, webhookVars, taskVars>>

PlatformInit == WebhookInit /\ TaskInit

HandlerMoves(h) == HandlerStep(h) /\ KeyRespected /\ UNCHANGED taskVars

WorkerMoves(w) == TaskStep(w) /\ UNCHANGED <<live, webhookVars>>

WorkerAccepts(w) == \E c \in Call : Accept(w, c) /\ UNCHANGED <<live, webhookVars>>

Environment ==
  \/ \E m \in Message : Discard(m) \/ \E h \in Handler : Receive(h, m)
  \/ \E h \in Handler : Crash(h)
  \/ \E a \in Agent : RemoveAgent(a) \/ RegisterAgent(a)

PlatformNext ==
  \/ Environment /\ UNCHANGED taskVars
  \/ \E h \in Handler : HandlerMoves(h)
  \/ \E w \in Worker : WorkerAccepts(w) \/ WorkerMoves(w)
  \/ \E w \in Worker : Kill(w) /\ UNCHANGED <<live, webhookVars>>

PlatformSpec == PlatformInit /\ [][PlatformNext]_allVars

PlatformFairness ==
  /\ \A h \in Handler : SF_allVars(HandlerMoves(h))
  /\ \A w \in Worker : SF_allVars(WorkerMoves(w)) /\ WF_allVars(WorkerAccepts(w))

PlatformFairSpec == PlatformSpec /\ PlatformFairness

------------------------------------------------------------------------------
(* Properties.                                                                 *)

\* The plans that handlers and workers really run keep the trace sound, whatever is
\* delivered twice, late or out of order, and wherever a request dies.
PlatformSound == SequenceIntact /\ LifecycleOrdered /\ OncePerSession

\* The path across processes from a call's last event to its report works: a session that
\* closes is evaluated, when no fault, removal or kill loses the request on the way.
ClosedIsEvaluated == \A c \in Call : sessionRow[c] \in Closed ~> reports[c] # {}

\* Handlers and workers never wait for each other for ever.
NobodyStuck ==
  /\ \A h \in Handler : pc[h] # "idle" ~> pc[h] = "idle"
  /\ \A w \in Worker : step[w] # "idle" ~> step[w] = "idle"

\* A report, once written, is never withdrawn and never fades: replacing it is atomic.
ReportStays == [][\A c \in Call : reports[c] # {} => reports'[c] # {}]_allVars
===============================================================================
