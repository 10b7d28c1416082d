------------------------------- MODULE Aggregate -------------------------------
(* The Session aggregate and the use cases that append to it, as functions of  *)
(* the loaded aggregate: domain/session.py (record and the append methods) and *)
(* the application/use_cases that decide to append, to ignore or to refuse.    *)
EXTENDS Taxonomy, Integers, Sequences, FiniteSets

CONSTANT Key  \* the stable identities that derived event ids are computed from

Op == {"ingest", "observe", "content", "signal", "marker"}

Command == [op : Op, type : EventType, key : Key]

\* What each use case is ever called with: IngestEvent with the types the webhook
\* promotes, the others with the set their aggregate method admits.
Admits(op) ==
  CASE op = "ingest"  -> EventType \ (SignalEvents \union MarkerEvents \union LiveOnlyEvents
                                        \union SystemObservationEvents)
    [] op = "observe" -> SystemObservationEvents
    [] op = "content" -> ConversationContentEvents
    [] op = "signal"  -> SignalEvents
    [] op = "marker"  -> MarkerEvents

RowStatus == {"absent", "active", "ended", "failed"}
Closed == {"ended", "failed"}

\* key and nonce stand for event_id: derived ids (UUID5) have nonce 0 and are equal
\* exactly when type and key are; a random id (UUID4) carries the nonce of its transaction.
Event == [seq : Nat \ {0}, type : EventType, key : Key, nonce : Nat]

\* Mutant: the id of an ingested event is derived from its type too.
DerivedId(e) == <<e.type, e.key>>

Id(e) == <<e.type, e.key, e.nonce>>
Ids(E) == {Id(e) : e \in E}
Types(E) == {e.type : e \in E}

------------------------------------------------------------------------------
\* The aggregate numbers by the length of its list; the marker's insert by max + 1.
LastSequence(E) == CHOOSE n \in {0} \union {e.seq : e \in E} : \A e \in E : e.seq <= n

\* Mutant: the first event gets number 0.
ZeroBased(op, E) == IF op = "marker" THEN LastSequence(E) + 1 ELSE Cardinality(E)

NextSequence(op, E) == IF op = "marker" THEN LastSequence(E) + 1 ELSE Cardinality(E) + 1

StatusAfter(status, type) ==
  CASE type = "SESSION_ENDED"  -> "ended"
    [] type = "SESSION_FAILED" -> "failed"
    [] OTHER                   -> status

Fresh(cmd) == cmd.op \in {"ingest", "marker"}

\* The event a command appends to the events E of the loaded aggregate.
NewEvent(cmd, nonce, E) ==
  [seq |-> NextSequence(cmd.op, E), type |-> cmd.type, key |-> cmd.key,
   nonce |-> IF Fresh(cmd) THEN nonce ELSE 0]

\* IngestEvent drops a start that is not the first event, and whatever comes after the end.
IngestDrops(cmd, status) == cmd.type = "SESSION_STARTED" \/ status # "active"

\* Mutant: the silence aggregate is recognised by its id, which names its detector.
RecordedById(cmd, E) == <<cmd.type, cmd.key, 0>> \in Ids(E)

\* A derived event is recorded when its id is; the silence aggregate, whatever its detector.
Recorded(cmd, E) ==
  IF cmd.op = "signal" /\ cmd.type = "CONVERSATION_SILENCE_DETECTED" THEN cmd.type \in Types(E)
  ELSE <<cmd.type, cmd.key, 0>> \in Ids(E)

\* A call that its use case ends without appending.  RecordEvaluationTriggered always appends.
Ignored(cmd, status, E) ==
  CASE cmd.op = "ingest" -> IngestDrops(cmd, status)
    [] cmd.op = "marker" -> FALSE
    [] OTHER             -> Recorded(cmd, E)

\* Mutant: the partial unique index on (session_id, event_type) is missing.
NoConflict(cmd, E) == FALSE

\* The marker's insert meets the index on (session_id, event_type) and does nothing.
MarkerConflict(cmd, E) == cmd.op = "marker" /\ cmd.type \in Types(E)

\* A call that leaves the trace as it is, by its use case's check or by the index.
Redundant(cmd, status, E) == Ignored(cmd, status, E) \/ MarkerConflict(cmd, E)

\* Mutant: nothing is refused on an active session.
RefusedNever(cmd, status) == FALSE

\* SessionClosedError: a live event on a closed session; a marker or a derived event,
\* other than a threat flag, on an active one.
Refused(cmd, status) ==
  IF cmd.op = "ingest" THEN status # "active"
  ELSE status = "active" /\ cmd.type # "SYSTEM_FLAG_RAISED"
===============================================================================
