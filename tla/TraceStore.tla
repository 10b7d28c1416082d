------------------------------ MODULE TraceStore ------------------------------
(* The governance trace in Postgres: the sessions row of every call, its       *)
(* events, and the transactions that append to them (webhook handlers and      *)
(* evaluation tasks).  A transaction runs a plan, the use-case calls it makes  *)
(* before its commit.  The first call that finds the row takes the row lock    *)
(* (SELECT ... FOR UPDATE) and works on the aggregate it loaded; a plan that   *)
(* ingests for a call without a row creates it (INSERT ... ON CONFLICT DO      *)
(* NOTHING).  Only Commit makes anything visible to others.                    *)
(*                                                                             *)
(* Of the constraints of the events table, the unique event_id (Commit) and the *)
(* index that admits one marker (MarkerConflict) are modelled, because they     *)
(* drop events silently.  The unique (session_id, sequence_number) is left out  *)
(* on purpose: SequenceIntact shows that the row lock makes it a second line of *)
(* defence; so is the index's other half, one session.failed (LifecycleOrdered). *)
EXTENDS Aggregate, Identifiers

CONSTANTS
  Process,  \* database connections: webhook handlers and worker tasks
  Plan,     \* the command sequences a transaction may run
  MaxTxn    \* bound on the number of transactions begun

ASSUME ProcessAssumption == None \notin Process

\* A transaction ingests at most once, before anything else, and appends the marker alone.
ASSUME PlanAssumption ==
  /\ Plan \subseteq Seq(Command)
  /\ \A plan \in Plan : \A i \in 1..Len(plan) :
       /\ plan[i].type \in Admits(plan[i].op)
       /\ plan[i].op = "ingest" => i = 1
       /\ plan[i].op = "marker" => Len(plan) = 1

ASSUME BoundAssumption == MaxTxn \in Nat

VARIABLES
  sessionRow,  \* call -> status column of its committed sessions row, or "absent"
  trace,       \* call -> its committed events
  rowLock,     \* call -> the process whose open transaction holds the row, or None
  txn,         \* process -> its open transaction
  begun        \* number of transactions begun: the source of fresh event ids

vars == <<sessionRow, trace, rowLock, txn, begun>>

Transaction ==
  [phase : {"idle", "load", "create", "held"}, call : Call \union {None}, nonce : Nat,
   todo : Seq(Command), status : RowStatus, events : SUBSET Event]

Idle == [phase |-> "idle", call |-> None, nonce |-> 0, todo |-> << >>,
         status |-> "absent", events |-> {}]

Init ==
  /\ sessionRow = [c \in Call |-> "absent"]
  /\ trace = [c \in Call |-> {}]
  /\ rowLock = [c \in Call |-> None]
  /\ txn = [p \in Process |-> Idle]
  /\ begun = 0

------------------------------------------------------------------------------
(* Transactions.                                                               *)

\* The first statement of a transaction.  The evaluation task reads the session
\* without a lock, and goes on to its marker only when it saw a closed session.
Begin(p, c, plan) ==
  /\ txn[p].phase = "idle"
  /\ begun < MaxTxn
  /\ plan # << >> /\ plan[1].op = "marker" => sessionRow[c] \in Closed
  /\ begun' = begun + 1
  /\ txn' = [txn EXCEPT ![p] = [phase |-> "load", call |-> c, nonce |-> begun + 1, todo |-> plan,
                                status |-> "absent", events |-> {}]]
  /\ UNCHANGED <<sessionRow, trace, rowLock>>

\* Mutant: the session is read with get_session, which takes no lock.
LoadWithoutLock(p) ==
  /\ txn[p].phase = "load"
  /\ txn[p].todo # << >>
  /\ sessionRow[txn[p].call] # "absent"
  /\ txn' = [txn EXCEPT ![p].phase = "held", ![p].status = sessionRow[txn[p].call],
                        ![p].events = trace[txn[p].call]]
  /\ UNCHANGED <<sessionRow, trace, rowLock, begun>>

\* Mutant: the loaded aggregate has the default status instead of the row's.
LoadAsActive(p) ==
  LET c == txn[p].call IN
  /\ txn[p].phase = "load"
  /\ txn[p].todo # << >>
  /\ sessionRow[c] # "absent"
  /\ rowLock[c] = None
  /\ rowLock' = [rowLock EXCEPT ![c] = p]
  /\ txn' = [txn EXCEPT ![p].phase = "held", ![p].status = "active", ![p].events = trace[c]]
  /\ UNCHANGED <<sessionRow, trace, begun>>

\* get_session_for_update finds the row and waits until no other transaction holds it.
LoadForUpdate(p) ==
  LET c == txn[p].call IN
  /\ txn[p].phase = "load"
  /\ txn[p].todo # << >>
  /\ sessionRow[c] # "absent"
  /\ rowLock[c] = None
  /\ rowLock' = [rowLock EXCEPT ![c] = p]
  /\ txn' = [txn EXCEPT ![p].phase = "held", ![p].status = sessionRow[c],
                        ![p].events = trace[c]]
  /\ UNCHANGED <<sessionRow, trace, begun>>

\* Mutant: whatever comes for an unknown call is dropped.
DropUnknown(p) ==
  /\ txn[p].phase = "load"
  /\ txn[p].todo # << >>
  /\ sessionRow[txn[p].call] = "absent"
  /\ txn' = [txn EXCEPT ![p].todo = << >>]
  /\ UNCHANGED <<sessionRow, trace, rowLock, begun>>

\* get_session_for_update finds no committed row: IngestEvent goes on to create it, an
\* observation stays raw-only, a list of content or signals is dropped as a whole.
LoadMiss(p) ==
  LET t == txn[p]
      rest == IF Head(t.todo).op = "observe" THEN Tail(t.todo) ELSE << >> IN
  /\ t.phase = "load"
  /\ t.todo # << >>
  /\ sessionRow[t.call] = "absent"
  /\ txn' = IF Head(t.todo).op = "ingest"
            THEN [txn EXCEPT ![p].phase = "create"]
            ELSE [txn EXCEPT ![p].todo = rest]
  /\ UNCHANGED <<sessionRow, trace, rowLock, begun>>

\* The INSERT of create_session succeeds, after any concurrent insert was rolled back;
\* the new session records the command's event, whatever its type.
Create(p) ==
  LET t   == txn[p]
      cmd == Head(t.todo) IN
  /\ t.phase = "create"
  /\ sessionRow[t.call] = "absent"
  /\ rowLock[t.call] = None
  /\ rowLock' = [rowLock EXCEPT ![t.call] = p]
  /\ txn' = [txn EXCEPT ![p].phase = "held", ![p].todo = Tail(t.todo),
                        ![p].status = StatusAfter("active", cmd.type),
                        ![p].events = {NewEvent(cmd, t.nonce, {})}]
  /\ UNCHANGED <<sessionRow, trace, begun>>

\* Mutant: the loser of the creation race goes on with its own new session.
KeepOwnSession(p) ==
  LET t == txn[p] IN
  /\ t.phase = "create"
  /\ sessionRow[t.call] # "absent"
  /\ rowLock[t.call] = None
  /\ rowLock' = [rowLock EXCEPT ![t.call] = p]
  /\ txn' = [txn EXCEPT ![p].phase = "held", ![p].todo = Tail(t.todo),
                        ![p].status = StatusAfter("active", Head(t.todo).type),
                        ![p].events = {NewEvent(Head(t.todo), t.nonce, {})}]
  /\ UNCHANGED <<sessionRow, trace, begun>>

\* The INSERT meets a row committed meanwhile: reload it under the lock.
CreateConflict(p) ==
  /\ txn[p].phase = "create"
  /\ sessionRow[txn[p].call] # "absent"
  /\ txn' = [txn EXCEPT ![p].phase = "load"]
  /\ UNCHANGED <<sessionRow, trace, rowLock, begun>>

\* The next command changes nothing.
Skip(p) ==
  LET t == txn[p] IN
  /\ t.phase = "held"
  /\ t.todo # << >>
  /\ Redundant(Head(t.todo), t.status, t.events)
  /\ txn' = [txn EXCEPT ![p].todo = Tail(t.todo)]
  /\ UNCHANGED <<sessionRow, trace, rowLock, begun>>

\* Mutant: every append is committed at once.
RecordAndCommit(p) ==
  LET t   == txn[p]
      cmd == Head(t.todo)
      new == NewEvent(cmd, t.nonce, t.events)
      status == IF cmd.op = "ingest" THEN StatusAfter(t.status, cmd.type) ELSE t.status IN
  /\ t.phase = "held"
  /\ t.todo # << >>
  /\ ~ Redundant(cmd, t.status, t.events)
  /\ ~ Refused(cmd, t.status)
  /\ txn' = [txn EXCEPT ![p].todo = Tail(t.todo), ![p].status = status,
                        ![p].events = @ \union {new}]
  /\ sessionRow' = [sessionRow EXCEPT ![t.call] = status]
  /\ trace' = [trace EXCEPT ![t.call] = @ \union {new}]
  /\ UNCHANGED <<rowLock, begun>>

\* The next command appends its event, and closes the session if it is terminal.
Record(p) ==
  LET t   == txn[p]
      cmd == Head(t.todo) IN
  /\ t.phase = "held"
  /\ t.todo # << >>
  /\ ~ Redundant(cmd, t.status, t.events)
  /\ ~ Refused(cmd, t.status)
  /\ txn' = [txn EXCEPT ![p].todo = Tail(t.todo),
                        ![p].status = IF cmd.op = "ingest" THEN StatusAfter(t.status, cmd.type)
                                      ELSE t.status,
                        ![p].events = @ \union {NewEvent(cmd, t.nonce, t.events)}]
  /\ UNCHANGED <<sessionRow, trace, rowLock, begun>>

Release(p) ==
  /\ rowLock' = [c \in Call |-> IF rowLock[c] = p THEN None ELSE rowLock[c]]
  /\ txn' = [txn EXCEPT ![p] = Idle]

\* Mutant: append_event without the save_session that stores the status.
CommitEventsOnly(p) ==
  LET t == txn[p] IN
  /\ t.phase \in {"load", "held"}
  /\ t.todo = << >>
  /\ sessionRow' = IF t.phase = "held" /\ sessionRow[t.call] = "absent"
                   THEN [sessionRow EXCEPT ![t.call] = "active"] ELSE sessionRow
  /\ trace' = IF t.phase = "held"
              THEN [trace EXCEPT ![t.call] = @ \union {e \in t.events : Id(e) \notin Ids(@)}]
              ELSE trace
  /\ Release(p)
  /\ UNCHANGED begun

\* COMMIT: the events whose id is not yet stored become part of the trace, and the
\* status that save_session merged becomes the row's.
Commit(p) ==
  LET t == txn[p] IN
  /\ t.phase \in {"load", "held"}
  /\ t.todo = << >>
  /\ IF t.phase = "held"
     THEN /\ sessionRow' = [sessionRow EXCEPT ![t.call] = t.status]
          /\ trace' = [trace EXCEPT ![t.call] =
                         @ \union {e \in t.events : Id(e) \notin Ids(@)}]
     ELSE UNCHANGED <<sessionRow, trace>>
  /\ Release(p)
  /\ UNCHANGED begun

\* The aggregate refuses the next command and the exception rolls the transaction back.
Refuse(p) ==
  LET t == txn[p] IN
  /\ t.phase = "held"
  /\ t.todo # << >>
  /\ ~ Redundant(Head(t.todo), t.status, t.events)
  /\ Refused(Head(t.todo), t.status)
  /\ Release(p)
  /\ UNCHANGED <<sessionRow, trace, begun>>

\* A lost connection, a killed process or any other error before the commit.
Abort(p) ==
  /\ txn[p].phase # "idle"
  /\ Release(p)
  /\ UNCHANGED <<sessionRow, trace, begun>>

\* The statements of an open transaction.
Work(p) ==
  \/ LoadForUpdate(p) \/ LoadMiss(p) \/ Create(p) \/ CreateConflict(p)
  \/ Skip(p) \/ Record(p)

\* The steps a transaction takes on its own once begun.
Advance(p) == Work(p) \/ Commit(p) \/ Refuse(p)

Next ==
  \E p \in Process :
    \/ \E c \in Call, plan \in Plan : Begin(p, c, plan)
    \/ Advance(p)
    \/ Abort(p)

Spec == Init /\ [][Next]_vars

------------------------------------------------------------------------------
(* Properties.                                                                 *)

\* Every variable has its type.
TypeOK ==
  /\ sessionRow \in [Call -> RowStatus]
  /\ trace \in [Call -> SUBSET Event]
  /\ rowLock \in [Call -> Process \union {None}]
  /\ txn \in [Process -> Transaction]
  /\ begun \in Nat

\* The sequence numbers of E are 1..n, each used once.
Numbered(E) ==
  /\ IsFiniteSet(E)
  /\ {e.seq : e \in E} = 1..Cardinality(E)
  /\ \A e, f \in E : e.seq = f.seq => e = f

\* The trace of a call has no gap and no repeated sequence number, although every
\* appender computes the number from its own copy of the aggregate
\* (repositories/governance_repository.py, uq_events_session_sequence).
SequenceIntact == \A c \in Call : Numbered(trace[c])

\* What a transaction worked on is what it commits: no event it counted is dropped by
\* ON CONFLICT (event_id) DO NOTHING for an id that another event already has, and none
\* of another transaction slips in between (append_event and its row lock).
DraftCommitted ==
  [][\A p \in Process :
       Commit(p) /\ txn[p].phase = "held" =>
         trace' = [trace EXCEPT ![txn[p].call] = txn[p].events]]_vars

\* Events that are recorded on closed sessions only.
PostTerminalOnly ==
  MarkerEvents \union SignalEvents \union {"SYSTEM_LATENCY_MEASURED", "SYSTEM_ERROR"}

PostTerminal ==
  MarkerEvents \union SignalEvents \union SystemObservationEvents
    \union ConversationContentEvents

\* E is a lawful life of a session with the given status: the status says which
\* terminal event E holds, live events precede it, derived ones follow it.
LawfulLife(status, E) ==
  /\ status = "absent" => E = {}
  /\ status = "active" => Types(E) \intersect (TerminalEvents \union PostTerminalOnly) = {}
  /\ status \in Closed =>
       \E t \in E :
         /\ t.type = IF status = "ended" THEN "SESSION_ENDED" ELSE "SESSION_FAILED"
         /\ \A e \in E :
              /\ e.seq > t.seq => e.type \in PostTerminal
              /\ e.seq < t.seq => e.type \notin TerminalEvents \union PostTerminalOnly

\* The sessions row and the events table tell one story: a row is closed exactly when
\* its trace holds the matching terminal event, nothing live follows that event and
\* nothing derived precedes it (domain/session.py, record and the append methods).
LifecycleOrdered == \A c \in Call : LawfulLife(sessionRow[c], trace[c])

AtMostOne(E, type) == \A e, f \in E : e.type = type /\ f.type = type => e = f

\* The marker (by its index) and the silence aggregate (by the check of its type under the
\* row lock) are recorded once per session, and a session start only as its first event,
\* however many deliveries and tasks race.
OncePerSession ==
  \A c \in Call :
    /\ AtMostOne(trace[c], "SESSION_EVALUATION_TRIGGERED")
    /\ AtMostOne(trace[c], "CONVERSATION_SILENCE_DETECTED")
    /\ \A e \in trace[c] : e.type = "SESSION_STARTED" => e.seq = 1

\* The trace is an audit log: a committed event is never changed, removed or preceded
\* by a later one, and a closed session keeps its status.
AppendOnly ==
  [][\A c \in Call :
       /\ trace[c] \subseteq trace'[c]
       /\ \A e \in trace[c], f \in trace'[c] \ trace[c] : e.seq < f.seq
       /\ sessionRow[c] \in Closed => sessionRow'[c] = sessionRow[c]]_vars

\* Transactions are atomic and serial: what every commit adds is what the transaction's
\* plan yields when it runs alone on the trace as the commit finds it (SerialTrace names
\* the one exception, observations that arrive before their session).
Serial == INSTANCE SerialTrace
Serializable == Serial!Spec

\* IngestEvent calls a dropped session.started a duplicate ("idempotent: duplicate
\* session start"): one is only dropped when the session has one.
OnlyDuplicateStartsDropped ==
  [][\A p \in Process :
       LET t == txn[p] IN
       (Skip(p) /\ Head(t.todo).type = "SESSION_STARTED") => "SESSION_STARTED" \in Types(t.events)]_vars
===============================================================================
