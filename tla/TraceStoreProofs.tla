--------------------------- MODULE TraceStoreProofs ---------------------------
(* The trace store keeps its promises for every number of calls, processes,    *)
(* plans and transactions: Inv of TraceStoreInvariant is inductive, and the     *)
(* safety properties that the runs check on small instances follow from it.    *)
EXTENDS TraceStoreInvariant, FiniteSetTheorems, WellFoundedInduction, TLAPS

------------------------------------------------------------------------------
(* Numbering.                                                                  *)

\* The empty trace is numbered.
LEMMA NumberedEmpty == Numbered({})
  BY FS_EmptySet DEF Numbered

\* An event that takes the next number keeps a trace numbered, and comes last.
LEMMA NumberedAppend ==
  ASSUME NEW E, Numbered(E), NEW e, e.seq = Cardinality(E) + 1
  PROVE  /\ Numbered(E \union {e})
         /\ \A f \in E : f.seq < e.seq
         /\ e \notin E
<1> DEFINE n == Cardinality(E)
<1>1. IsFiniteSet(E) /\ n \in Nat
  BY FS_CardinalityType DEF Numbered
<1>2. \A f \in E : f.seq \in 1..n
  BY DEF Numbered
<1>3. \A f \in E : f.seq < e.seq
  BY <1>1, <1>2
<1>4. e \notin E
  BY <1>1, <1>2
<1>5. IsFiniteSet(E \union {e}) /\ Cardinality(E \union {e}) = n + 1
  BY <1>1, <1>4, FS_AddElement
<1>6. {f.seq : f \in E \union {e}} = 1..(n + 1)
  <2>1. {f.seq : f \in E \union {e}} = {f.seq : f \in E} \union {n + 1}
    OBVIOUS
  <2>2. {f.seq : f \in E} = 1..n
    BY DEF Numbered
  <2>3. (1..n) \union {n + 1} = 1..(n + 1)
    BY <1>1
  <2> QED
    BY <2>1, <2>2, <2>3
<1>7. \A f, g \in E \union {e} : f.seq = g.seq => f = g
  BY <1>1, <1>3, <1>2 DEF Numbered
<1> QED
  BY <1>3, <1>4, <1>5, <1>6, <1>7 DEF Numbered

\* Counting the events and looking for the largest number agree on a numbered trace:
\* the marker's insert and the aggregate compute the same next number.
LEMMA NextIsCount ==
  ASSUME NEW E, Numbered(E), NEW op
  PROVE  NextSequence(op, E) = Cardinality(E) + 1 /\ NextSequence(op, E) \in Nat \ {0}
<1> DEFINE n == Cardinality(E)
           S == {0} \union {e.seq : e \in E}
<1>1. n \in Nat
  BY FS_CardinalityType DEF Numbered
<1>2. S = 0..n
  <2>1. {e.seq : e \in E} = 1..n
    BY DEF Numbered
  <2> QED
    BY <1>1, <2>1
<1>3. \A m \in S : (\A e \in E : e.seq <= m) => m = n
  <2>1. SUFFICES ASSUME NEW m \in S, \A e \in E : e.seq <= m, m # n
                 PROVE  FALSE
    OBVIOUS
  <2>2. m \in 0..n /\ n \in 1..n
    BY <1>1, <1>2, <2>1
  <2>3. PICK e \in E : e.seq = n
    BY <2>2 DEF Numbered
  <2> QED
    BY <1>1, <2>1, <2>2, <2>3
<1>4. n \in S /\ \A e \in E : e.seq <= n
  BY <1>1, <1>2
<1>5. LastSequence(E) = n
  BY <1>3, <1>4 DEF LastSequence
<1> QED
  BY <1>1, <1>5 DEF NextSequence

------------------------------------------------------------------------------
(* Recording: one command on the aggregate.                                    *)

After(cmd, status) == IF cmd.op = "ingest" THEN StatusAfter(status, cmd.type) ELSE status

\* What Record appends: an event with the next number and an id of its own.
LEMMA NewEventType ==
  ASSUME NEW cmd \in Command, NEW nonce \in Nat, NEW E, Numbered(E)
  PROVE  LET e == NewEvent(cmd, nonce, E) IN
         /\ e \in Event /\ e.seq = Cardinality(E) + 1
         /\ e.type = cmd.type /\ e.key = cmd.key
         /\ e.nonce = IF Fresh(cmd) THEN nonce ELSE 0
  BY NextIsCount DEF NewEvent, Event, Command

\* A command that is not redundant gets an id that the trace does not hold.
LEMMA NewId ==
  ASSUME NEW cmd \in Command, NEW nonce \in Nat \ {0}, NEW status, NEW E, Numbered(E),
         ~ Redundant(cmd, status, E),
         Fresh(cmd) => \A e \in E : e.nonce # nonce,
         Identified(E)
  PROVE  Identified(E \union {NewEvent(cmd, nonce, E)})
<1> DEFINE e == NewEvent(cmd, nonce, E)
<1>1. e.type = cmd.type /\ e.key = cmd.key /\ e.nonce = IF Fresh(cmd) THEN nonce ELSE 0
  BY NewEventType
<1>2. \A f \in E : Id(f) # Id(e)
  <2>1. CASE Fresh(cmd)
    BY <1>1, <2>1 DEF Id
  <2>2. CASE ~ Fresh(cmd) /\ cmd.type # "CONVERSATION_SILENCE_DETECTED"
    BY <1>1, <2>2 DEF Id, Ids, Redundant, Ignored, IngestDrops, Recorded,
                      MarkerConflict, Fresh, Command, Op
  <2>3. CASE ~ Fresh(cmd) /\ cmd.type = "CONVERSATION_SILENCE_DETECTED"
    BY <1>1, <2>3 DEF Id, Ids, Types, Redundant, Ignored, IngestDrops, Recorded,
                      MarkerConflict, Fresh, Command, Op
  <2> QED
    BY <2>1, <2>2, <2>3
<1> QED
  BY <1>2 DEF Identified

\* A recorded command keeps the life of a session lawful.
LEMMA LifeGoesOn ==
  ASSUME NEW cmd \in Command, cmd.type \in Admits(cmd.op),
         NEW status \in RowStatus \ {"absent"}, NEW E, Numbered(E), LawfulLife(status, E),
         ~ Redundant(cmd, status, E), ~ Refused(cmd, status),
         cmd.op = "marker" => status \in Closed,
         NEW e, e.type = cmd.type, \A f \in E : f.seq < e.seq, e.seq \in Nat, \A f \in E : f.seq \in Nat
  PROVE  LawfulLife(After(cmd, status), E \union {e})
<1>1. CASE status = "active" /\ cmd.op = "ingest"
  <2>1. cmd.type \notin PostTerminalOnly
    BY <1>1 DEF Admits, PostTerminalOnly, SignalEvents, MarkerEvents, SystemObservationEvents
  <2>2. \A f \in E : f.type \notin TerminalEvents \union PostTerminalOnly
    BY <1>1 DEF LawfulLife, Types
  <2>3. CASE cmd.type \in TerminalEvents
    BY <1>1, <2>1, <2>2, <2>3 DEF LawfulLife, After, StatusAfter, TerminalEvents, Closed
  <2>4. CASE cmd.type \notin TerminalEvents
    BY <1>1, <2>1, <2>2, <2>4 DEF LawfulLife, After, StatusAfter, TerminalEvents, Closed, Types
  <2> QED
    BY <2>3, <2>4
<1>2. CASE status = "active" /\ cmd.op # "ingest"
  <2>1. cmd.type = "SYSTEM_FLAG_RAISED"
    BY <1>2 DEF Refused, Command, Op, Closed
  <2> QED
    BY <1>2, <2>1 DEF LawfulLife, After, Types, Closed, TerminalEvents, PostTerminalOnly,
                      MarkerEvents, SignalEvents
<1>3. CASE status \in Closed
  <2>1. cmd.op # "ingest"
    BY <1>3 DEF Redundant, Ignored, IngestDrops, Recorded, MarkerConflict, Closed
  <2>2. cmd.type \in PostTerminal
    BY <2>1 DEF Admits, PostTerminal, Command, Op
  <2>3. PICK t \in E :
          /\ t.type = IF status = "ended" THEN "SESSION_ENDED" ELSE "SESSION_FAILED"
          /\ \A f \in E :
               /\ f.seq > t.seq => f.type \in PostTerminal
               /\ f.seq < t.seq => f.type \notin TerminalEvents \union PostTerminalOnly
    BY <1>3 DEF LawfulLife
  <2> QED
    BY <1>3, <2>1, <2>2, <2>3 DEF LawfulLife, After, Closed
<1> QED
  BY <1>1, <1>2, <1>3 DEF RowStatus, Closed

\* What is recorded once stays recorded once.
LEMMA OnceRemains ==
  ASSUME NEW cmd \in Command, cmd.type \in Admits(cmd.op),
         NEW status \in RowStatus \ {"absent"}, NEW E, Once(E), ~ Redundant(cmd, status, E),
         NEW e, e.type = cmd.type
  PROVE  Once(E \union {e})
<1>1. cmd.type # "SESSION_STARTED"
  BY DEF Redundant, Ignored, IngestDrops, Recorded,
         MarkerConflict, Admits, Command, Op, SystemObservationEvents,
         ConversationContentEvents, SignalEvents, MarkerEvents
<1>2. ASSUME NEW type \in {"SESSION_EVALUATION_TRIGGERED", "CONVERSATION_SILENCE_DETECTED"},
             AtMostOne(E, type), cmd.type = type
      PROVE  type \notin Types(E)
  BY <1>2 DEF Redundant, Ignored, IngestDrops, Recorded,
              MarkerConflict, Admits, Command, Op, SystemObservationEvents,
              ConversationContentEvents, SignalEvents, MarkerEvents
<1>3. ASSUME NEW type \in {"SESSION_EVALUATION_TRIGGERED", "CONVERSATION_SILENCE_DETECTED"},
             AtMostOne(E, type)
      PROVE  AtMostOne(E \union {e}, type)
  BY <1>2, <1>3 DEF AtMostOne, Types
<1> QED
  BY <1>1, <1>3 DEF Once

\* A command that can be recorded, with a given nonce, on a sound draft.
Recordable(cmd, nonce, status, E) ==
  /\ cmd \in Command /\ cmd.type \in Admits(cmd.op)
  /\ nonce \in Nat \ {0}
  /\ status \in RowStatus \ {"absent"} /\ E \in SUBSET Event /\ Sound(status, E)
  /\ ~ Redundant(cmd, status, E) /\ ~ Refused(cmd, status)
  /\ Fresh(cmd) => \A e \in E : e.nonce # nonce
  /\ cmd.op = "marker" => status \in Closed

\* Recording on a sound draft yields a sound draft with one more event, the last.
LEMMA RecordSound ==
  ASSUME NEW cmd, NEW nonce, NEW status, NEW E, Recordable(cmd, nonce, status, E)
  PROVE  LET e == NewEvent(cmd, nonce, E)
             s == After(cmd, status) IN
         /\ Sound(s, E \union {e})
         /\ s \in RowStatus \ {"absent"}
         /\ status \in Closed => s = status
         /\ e \in Event /\ e.nonce \in {0, nonce} /\ e \notin E
         /\ \A f \in E : f.seq < e.seq
<1> DEFINE e == NewEvent(cmd, nonce, E)
<1> USE DEF Recordable
<1>1. e \in Event /\ e.seq = Cardinality(E) + 1 /\ e.type = cmd.type /\ e.nonce \in {0, nonce}
  BY NewEventType DEF Sound
<1>2. Numbered(E \union {e}) /\ e \notin E /\ \A f \in E : f.seq < e.seq
  BY <1>1, NumberedAppend DEF Sound
<1>3. Identified(E \union {e})
  BY NewId DEF Sound
<1>4. LawfulLife(After(cmd, status), E \union {e})
  <2>1. e.seq \in Nat /\ \A f \in E : f.seq \in Nat
    BY <1>1 DEF Event
  <2> QED
    BY <1>1, <1>2, <2>1, LifeGoesOn DEF Sound
<1>5. Once(E \union {e})
  BY <1>1, OnceRemains DEF Sound
<1>6. After(cmd, status) \in RowStatus \ {"absent"} /\ (status \in Closed => After(cmd, status) = status)
  BY DEF After, StatusAfter, RowStatus, Redundant, Ignored, IngestDrops, Recorded,
         MarkerConflict, Closed
<1> QED
  BY <1>1, <1>2, <1>3, <1>4, <1>5, <1>6 DEF Sound

\* The first event of a new session makes a sound draft, whatever its type.
LEMMA FirstEventSound ==
  ASSUME NEW cmd \in Command, cmd.op = "ingest", cmd.type \in Admits(cmd.op),
         NEW nonce \in Nat \ {0}
  PROVE  LET e == NewEvent(cmd, nonce, {}) IN
         /\ Sound(StatusAfter("active", cmd.type), {e})
         /\ StatusAfter("active", cmd.type) \in RowStatus \ {"absent"}
         /\ e \in Event /\ e.nonce = nonce
<1> DEFINE e == NewEvent(cmd, nonce, {})
<1>1. e \in Event /\ e.seq = Cardinality({}) + 1 /\ e.type = cmd.type /\ e.nonce = nonce
  BY NewEventType, NumberedEmpty DEF Fresh
<1>2. e.seq = 1
  BY <1>1, FS_EmptySet
<1>3. Numbered({} \union {e})
  BY <1>1, NumberedAppend, NumberedEmpty
<1>4. Numbered({e}) /\ Identified({e}) /\ Once({e})
  BY <1>2, <1>3 DEF Identified, Once, AtMostOne
<1>5. cmd.type \notin PostTerminalOnly
  BY DEF Admits, PostTerminalOnly, SignalEvents, MarkerEvents, SystemObservationEvents
<1>6. LawfulLife(StatusAfter("active", cmd.type), {e})
  BY <1>1, <1>2, <1>5 DEF LawfulLife, StatusAfter, Closed, Types, TerminalEvents
<1>7. StatusAfter("active", cmd.type) \in RowStatus \ {"absent"}
  BY DEF StatusAfter, RowStatus
<1> QED
  BY <1>1, <1>4, <1>6, <1>7 DEF Sound

------------------------------------------------------------------------------
(* Steps.                                                                      *)

\* The initial state satisfies the invariant.
LEMMA InitInv == Init => Inv
<1> SUFFICES ASSUME Init PROVE Inv
  OBVIOUS
<1>1. TypeOK
  BY DEF Init, TypeOK, RowStatus, Transaction, Idle
<1>2. CommittedSound
  BY NumberedEmpty DEF Init, CommittedSound, Sound, Identified, LawfulLife, Once, AtMostOne,
                       Types, Closed
<1>3. \A p \in Process : Pending(p) /\ Draft(p)
  BY DEF Init, Pending, Draft, Idle
<1>4. Nonces
  BY DEF Init, Nonces, Idle
<1> QED
  BY <1>1, <1>2, <1>3, <1>4 DEF Inv

\* A step on the transaction of one process, before its commit: the others keep what
\* they had, because nothing committed changes and no lock is taken away.
LEMMA OwnStep ==
  ASSUME Inv, NEW p \in Process, NEW t \in Transaction, txn' = [txn EXCEPT ![p] = t],
         sessionRow' = sessionRow, trace' = trace,
         rowLock' \in [Call -> Process \union {None}],
         \A c \in Call : rowLock[c] # None => rowLock'[c] = rowLock[c],
         begun' \in Nat, begun <= begun',
         t.phase # "idle",
         \/ txn[p].phase # "idle" /\ t.nonce = txn[p].nonce
         \/ t.nonce = begun + 1 /\ begun' = begun + 1,
         Pending(p)', Draft(p)'
  PROVE  Inv'
<1> USE DEF Inv
<1>1. TypeOK'
  BY DEF TypeOK
<1>2. CommittedSound'
  BY DEF CommittedSound
<1>3. txn'[p] = t /\ \A q \in Process \ {p} : txn'[q] = txn[q]
  BY DEF TypeOK
<1>4. ASSUME NEW q \in Process \ {p} PROVE Pending(q)' /\ Draft(q)'
  <2>1. Pending(q) /\ Draft(q) /\ q # None
    BY ProcessAssumption
  <2>2. Pending(q)'
    BY <1>3, <2>1 DEF Pending
  <2>3. txn[q].phase = "held" => rowLock'[txn[q].call] = q
    BY <2>1 DEF Pending, Draft
  <2>4. Draft(q)'
    BY <1>3, <2>1, <2>3 DEF Draft
  <2> QED
    BY <2>2, <2>4
<1>5. Nonces'
  <2>1. \A c \in Call : \A e \in trace[c] : e.nonce \in Nat /\ e.nonce <= begun
    BY DEF TypeOK, Event, Nonces
  <2>2. \A q \in Process : txn[q].phase # "idle" => txn[q].nonce \in 1..begun
    BY DEF Nonces
  <2>3. \A c \in Call : \A e \in trace'[c] : e.nonce <= begun'
    BY <2>1 DEF TypeOK
  <2>4. t.nonce \in 1..begun' /\ \A c \in Call : \A e \in trace[c] : e.nonce # t.nonce
    BY <2>1, <2>2 DEF TypeOK, Nonces
  <2>5. \A q \in Process \ {p} : txn[q].phase # "idle" => txn[q].nonce # t.nonce
    BY <2>2 DEF TypeOK, Nonces
  <2>6. \A q \in Process : txn'[q].phase # "idle" =>
          /\ txn'[q].nonce \in 1..begun'
          /\ \A c \in Call : \A e \in trace'[c] : e.nonce # txn'[q].nonce
    <3> SUFFICES ASSUME NEW q \in Process, txn'[q].phase # "idle"
                 PROVE  /\ txn'[q].nonce \in 1..begun'
                        /\ \A c \in Call : \A e \in trace'[c] : e.nonce # txn'[q].nonce
      OBVIOUS
    <3>1. CASE q = p
      BY <1>3, <2>4, <3>1
    <3>2. CASE q # p
      BY <1>3, <2>2, <3>2 DEF Nonces, TypeOK
    <3> QED
      BY <3>1, <3>2
  <2>7. \A q, r \in Process :
          r # q /\ txn'[q].phase # "idle" /\ txn'[r].phase # "idle" => txn'[r].nonce # txn'[q].nonce
    <3> SUFFICES ASSUME NEW q \in Process, NEW r \in Process, r # q,
                        txn'[q].phase # "idle", txn'[r].phase # "idle"
                 PROVE  txn'[r].nonce # txn'[q].nonce
      OBVIOUS
    <3>1. CASE q = p
      BY <1>3, <2>5, <3>1
    <3>2. CASE r = p
      BY <1>3, <2>5, <3>2
    <3>3. CASE q # p /\ r # p
      BY <1>3, <3>3 DEF Nonces
    <3> QED
      BY <3>1, <3>2, <3>3
  <2> QED
    BY <2>3, <2>6, <2>7 DEF Nonces
<1> QED
  BY <1>1, <1>2, <1>4, <1>5

\* The rest of a plan loses its first command and keeps its shape, without a command
\* that needs a fresh id.
LEMMA RestOfPlan ==
  ASSUME NEW todo \in Seq(Command), todo # << >>, Remaining(todo)
  PROVE  /\ Tail(todo) \in Seq(Command)
         /\ Remaining(Tail(todo))
         /\ Tail(todo) # << >> => ~ Fresh(Tail(todo)[1])
         /\ Head(todo) = todo[1] /\ Head(todo) \in Command
         /\ Head(todo).type \in Admits(Head(todo).op)
<1>1. Tail(todo) \in Seq(Command) /\ Len(Tail(todo)) = Len(todo) - 1
  OBVIOUS
<1>2. \A i \in 1..Len(Tail(todo)) : Tail(todo)[i] = todo[i + 1] /\ i + 1 \in 1..Len(todo) /\ i + 1 # 1
  OBVIOUS
<1>3. \A i \in 1..Len(Tail(todo)) : ~ Fresh(Tail(todo)[i]) /\ Tail(todo)[i].type \in Admits(Tail(todo)[i].op)
  BY <1>2 DEF Remaining
<1>4. Tail(todo) # << >> => 1 \in 1..Len(Tail(todo))
  BY <1>1
<1>5. Head(todo) = todo[1] /\ Head(todo) \in Command /\ 1 \in 1..Len(todo)
  OBVIOUS
<1>6. Head(todo).type \in Admits(Head(todo).op)
  BY <1>5 DEF Remaining
<1> QED
  BY <1>1, <1>3, <1>4, <1>5, <1>6 DEF Remaining

\* A transaction begins.
LEMMA BeginInv ==
  ASSUME Inv, NEW p \in Process, NEW c \in Call, NEW plan \in Plan, Begin(p, c, plan)
  PROVE  Inv'
<1> DEFINE t == [phase |-> "load", call |-> c, nonce |-> begun + 1, todo |-> plan,
                 status |-> "absent", events |-> {}]
<1>1. TypeOK /\ begun \in Nat
  BY DEF Inv, TypeOK
<1>2. plan \in Seq(Command) /\ Remaining(plan)
  BY PlanAssumption DEF Remaining, Fresh
<1>3. t \in Transaction /\ t.phase = "load" /\ t.call = c /\ t.todo = plan
  BY <1>1, <1>2 DEF Transaction, RowStatus
<1>4. txn' = [txn EXCEPT ![p] = t] /\ txn'[p] = t
  BY <1>1 DEF Begin, TypeOK
<1>5. Pending(p)'
  BY <1>2, <1>3, <1>4 DEF Pending, Begin
<1>6. Draft(p)'
  BY <1>3, <1>4 DEF Draft
<1>7. t.nonce = begun + 1 /\ begun' = begun + 1
  BY DEF Begin
<1>8. /\ sessionRow' = sessionRow /\ trace' = trace /\ begun' \in Nat /\ begun <= begun'
      /\ rowLock' \in [Call -> Process \union {None}]
      /\ \A d \in Call : rowLock[d] # None => rowLock'[d] = rowLock[d]
  BY <1>1 DEF Begin, TypeOK
<1> HIDE DEF t
<1> QED
  BY <1>3, <1>4, <1>5, <1>6, <1>7, <1>8, OwnStep

\* A transaction takes the row it found, and with it the committed trace.
LEMMA LoadForUpdateInv ==
  ASSUME Inv, NEW p \in Process, LoadForUpdate(p)
  PROVE  Inv'
<1> DEFINE c == txn[p].call
           t == [txn[p] EXCEPT !.phase = "held", !.status = sessionRow[c], !.events = trace[c]]
<1>1. TypeOK /\ Pending(p) /\ CommittedSound
  BY DEF Inv
<1>2. c \in Call
  BY <1>1 DEF Pending, LoadForUpdate
<1>3. t \in Transaction
  BY <1>1, <1>2 DEF TypeOK, Transaction
<1>4. txn' = [txn EXCEPT ![p] = t] /\ txn'[p] = t
  BY <1>1 DEF LoadForUpdate, TypeOK
<1>5. /\ t.phase = "held" /\ t.call = c /\ t.todo = txn[p].todo /\ t.nonce = txn[p].nonce
      /\ t.status = sessionRow[c] /\ t.events = trace[c]
  BY <1>1 DEF TypeOK, Transaction
<1>6. rowLock' = [rowLock EXCEPT ![c] = p] /\ rowLock[c] = None
  BY DEF LoadForUpdate
<1>7. Pending(p)'
  BY <1>1, <1>4, <1>5 DEF Pending, LoadForUpdate
<1>8. \A e \in t.events : e.nonce # t.nonce
  BY <1>2, <1>5 DEF Inv, Nonces, LoadForUpdate
<1>9. Draft(p)'
  BY <1>1, <1>2, <1>4, <1>5, <1>6, <1>8 DEF Draft, LoadForUpdate, CommittedSound, TypeOK
<1>10. /\ sessionRow' = sessionRow /\ trace' = trace /\ begun' \in Nat /\ begun <= begun'
      /\ rowLock' \in [Call -> Process \union {None}]
      /\ \A d \in Call : rowLock[d] # None => rowLock'[d] = rowLock[d]
  BY <1>1, <1>2, <1>6 DEF LoadForUpdate, TypeOK
<1>11. txn[p].phase # "idle"
  BY DEF LoadForUpdate
<1> HIDE DEF t
<1> QED
  BY <1>3, <1>4, <1>5, <1>7, <1>9, <1>10, <1>11, OwnStep

\* A transaction that finds no row goes on to create it, or drops what needed it.
LEMMA LoadMissInv ==
  ASSUME Inv, NEW p \in Process, LoadMiss(p)
  PROVE  Inv'
<1> DEFINE old == txn[p]
           rest == IF Head(old.todo).op = "observe" THEN Tail(old.todo) ELSE << >>
           t == IF Head(old.todo).op = "ingest" THEN [old EXCEPT !.phase = "create"]
                ELSE [old EXCEPT !.todo = rest]
<1>1. TypeOK /\ Pending(p) /\ old \in Transaction /\ old.phase = "load" /\ old.todo # << >>
  BY DEF Inv, TypeOK, LoadMiss
<1>2. old.call \in Call /\ Remaining(old.todo) /\ old.todo \in Seq(Command)
  BY <1>1 DEF Pending, Transaction
<1>3. /\ Tail(old.todo) \in Seq(Command) /\ Remaining(Tail(old.todo))
      /\ Tail(old.todo) # << >> => ~ Fresh(Tail(old.todo)[1])
      /\ Head(old.todo) = old.todo[1]
  BY <1>1, <1>2, RestOfPlan
<1>4. txn' = [txn EXCEPT ![p] = t] /\ txn'[p] = t
  BY <1>1 DEF LoadMiss, TypeOK
<1>7. /\ sessionRow' = sessionRow /\ trace' = trace /\ begun' \in Nat /\ begun <= begun'
      /\ rowLock' \in [Call -> Process \union {None}]
      /\ \A d \in Call : rowLock[d] # None => rowLock'[d] = rowLock[d]
  BY <1>1 DEF LoadMiss, TypeOK
<1>5. CASE Head(old.todo).op = "ingest"
  <2>1. /\ t \in Transaction /\ t.phase = "create" /\ t.call = old.call
        /\ t.todo = old.todo /\ t.nonce = old.nonce
    BY <1>1, <1>5 DEF Transaction
  <2>2. Pending(p)' /\ Draft(p)'
    BY <1>1, <1>2, <1>3, <1>4, <1>5, <2>1 DEF Pending, Draft
  <2> HIDE DEF t
  <2> QED
    BY <1>1, <1>4, <1>7, <2>1, <2>2, OwnStep
<1>6. CASE Head(old.todo).op # "ingest"
  <2>1. rest \in Seq(Command) /\ Remaining(rest) /\ (rest # << >> => ~ Fresh(rest[1]))
    BY <1>3 DEF Remaining
  <2>2. /\ t \in Transaction /\ t.phase = "load" /\ t.call = old.call
        /\ t.todo = rest /\ t.nonce = old.nonce
    BY <1>1, <1>6, <2>1 DEF Transaction
  <2>3. Pending(p)' /\ Draft(p)'
    BY <1>2, <1>4, <2>1, <2>2 DEF Pending, Draft, Fresh
  <2> HIDE DEF t
  <2> QED
    BY <1>1, <1>4, <1>7, <2>2, <2>3, OwnStep
<1> QED
  BY <1>5, <1>6

\* A transaction creates the row: there was no trace for that call.
LEMMA CreateInv ==
  ASSUME Inv, NEW p \in Process, Create(p)
  PROVE  Inv'
<1> DEFINE old == txn[p]
           c   == old.call
           cmd == Head(old.todo)
           e   == NewEvent(cmd, old.nonce, {})
           t   == [old EXCEPT !.phase = "held", !.todo = Tail(old.todo),
                              !.status = StatusAfter("active", cmd.type), !.events = {e}]
<1>1. TypeOK /\ Pending(p) /\ old \in Transaction /\ old.phase = "create" /\ CommittedSound
  BY DEF Inv, TypeOK, Create
<1>2. c \in Call /\ Remaining(old.todo) /\ old.todo \in Seq(Command) /\ old.todo # << >> /\ old.todo[1].op = "ingest"
  BY <1>1 DEF Pending, Transaction
<1>3. /\ Tail(old.todo) \in Seq(Command) /\ Remaining(Tail(old.todo))
      /\ Tail(old.todo) # << >> => ~ Fresh(Tail(old.todo)[1])
      /\ cmd = old.todo[1] /\ cmd \in Command /\ cmd.type \in Admits(cmd.op)
  BY <1>2, RestOfPlan
<1>4. old.nonce \in Nat \ {0}
  BY <1>1 DEF Inv, Nonces, TypeOK
<1>5. /\ Sound(StatusAfter("active", cmd.type), {e}) /\ e \in Event /\ e.nonce = old.nonce
      /\ StatusAfter("active", cmd.type) \in RowStatus \ {"absent"}
  BY <1>2, <1>3, <1>4, FirstEventSound
<1>6. trace[c] = {} /\ sessionRow[c] \notin Closed
  BY <1>1, <1>2 DEF CommittedSound, Sound, LawfulLife, Create, Closed
<1>7. /\ t \in Transaction /\ t.phase = "held" /\ t.call = c /\ t.todo = Tail(old.todo)
      /\ t.nonce = old.nonce /\ t.status = StatusAfter("active", cmd.type) /\ t.events = {e}
  BY <1>1, <1>3, <1>5 DEF Transaction
<1>8. txn' = [txn EXCEPT ![p] = t] /\ txn'[p] = t
  BY <1>1 DEF Create, TypeOK
<1>9. rowLock' = [rowLock EXCEPT ![c] = p] /\ rowLock[c] = None
  BY DEF Create
<1>10. Pending(p)'
  BY <1>2, <1>3, <1>7, <1>8 DEF Pending, Fresh
<1>11. rowLock'[c] = p
  BY <1>1, <1>2, <1>9 DEF TypeOK
<1>12. Draft(p)'
  BY <1>3, <1>5, <1>6, <1>7, <1>8, <1>11 DEF Draft, Create
<1>13. /\ sessionRow' = sessionRow /\ trace' = trace /\ begun' \in Nat /\ begun <= begun'
      /\ rowLock' \in [Call -> Process \union {None}]
      /\ \A d \in Call : rowLock[d] # None => rowLock'[d] = rowLock[d]
  BY <1>1, <1>2, <1>9 DEF Create, TypeOK
<1> HIDE DEF t
<1> QED
  BY <1>1, <1>7, <1>8, <1>10, <1>12, <1>13, OwnStep

\* The insert meets a row that was committed meanwhile.
LEMMA CreateConflictInv ==
  ASSUME Inv, NEW p \in Process, CreateConflict(p)
  PROVE  Inv'
<1> DEFINE t == [txn[p] EXCEPT !.phase = "load"]
<1>1. TypeOK /\ Pending(p) /\ txn[p] \in Transaction /\ txn[p].phase = "create"
  BY DEF Inv, TypeOK, CreateConflict
<1>2. /\ t \in Transaction /\ t.phase = "load" /\ t.call = txn[p].call
      /\ t.todo = txn[p].todo /\ t.nonce = txn[p].nonce
  BY <1>1 DEF Transaction
<1>3. txn' = [txn EXCEPT ![p] = t] /\ txn'[p] = t
  BY <1>1 DEF CreateConflict, TypeOK
<1>4. Pending(p)' /\ Draft(p)'
  BY <1>1, <1>2, <1>3 DEF Pending, Draft, CreateConflict
<1>5. /\ sessionRow' = sessionRow /\ trace' = trace /\ begun' \in Nat /\ begun <= begun'
      /\ rowLock' \in [Call -> Process \union {None}]
      /\ \A d \in Call : rowLock[d] # None => rowLock'[d] = rowLock[d]
  BY <1>1 DEF CreateConflict, TypeOK
<1> HIDE DEF t
<1> QED
  BY <1>1, <1>2, <1>3, <1>4, <1>5, OwnStep

\* A redundant command leaves the draft as it is.
LEMMA SkipInv ==
  ASSUME Inv, NEW p \in Process, Skip(p)
  PROVE  Inv'
<1> DEFINE old == txn[p]
           t == [old EXCEPT !.todo = Tail(old.todo)]
<1>1. TypeOK /\ Pending(p) /\ Draft(p) /\ old \in Transaction /\ old.phase = "held" /\ old.todo # << >>
  BY DEF Inv, TypeOK, Skip
<1>2. old.call \in Call /\ Remaining(old.todo) /\ old.todo \in Seq(Command)
  BY <1>1 DEF Pending, Transaction
<1>3. /\ Tail(old.todo) \in Seq(Command) /\ Remaining(Tail(old.todo))
      /\ Tail(old.todo) # << >> => ~ Fresh(Tail(old.todo)[1])
  BY <1>1, <1>2, RestOfPlan
<1>4. /\ t \in Transaction /\ t.phase = "held" /\ t.call = old.call /\ t.todo = Tail(old.todo)
      /\ t.nonce = old.nonce /\ t.status = old.status /\ t.events = old.events
  BY <1>1, <1>3 DEF Transaction
<1>5. txn' = [txn EXCEPT ![p] = t] /\ txn'[p] = t
  BY <1>1 DEF Skip, TypeOK
<1>6. /\ sessionRow' = sessionRow /\ trace' = trace /\ begun' \in Nat /\ begun <= begun'
      /\ rowLock' \in [Call -> Process \union {None}]
      /\ \A d \in Call : rowLock[d] # None => rowLock'[d] = rowLock[d]
  BY <1>1 DEF Skip, TypeOK
<1>7. Pending(p)'
  BY <1>2, <1>3, <1>4, <1>5 DEF Pending, Fresh
<1>8. Draft(p)'
  BY <1>1, <1>3, <1>4, <1>5 DEF Draft, Skip
<1> HIDE DEF t
<1> QED
  BY <1>1, <1>4, <1>5, <1>6, <1>7, <1>8, OwnStep

\* A recorded command adds the last event of the draft.
LEMMA RecordInv ==
  ASSUME Inv, NEW p \in Process, Record(p)
  PROVE  Inv'
<1> DEFINE old == txn[p]
           c   == old.call
           cmd == Head(old.todo)
           e   == NewEvent(cmd, old.nonce, old.events)
           s   == After(cmd, old.status)
           t   == [old EXCEPT !.todo = Tail(old.todo), !.status = s,
                              !.events = old.events \union {e}]
<1>1. /\ TypeOK /\ Pending(p) /\ Draft(p) /\ old \in Transaction /\ old.phase = "held"
      /\ old.todo # << >> /\ ~ Redundant(cmd, old.status, old.events) /\ ~ Refused(cmd, old.status)
  BY DEF Inv, TypeOK, Record
<1>2. c \in Call /\ Remaining(old.todo) /\ old.todo \in Seq(Command)
  BY <1>1 DEF Pending, Transaction
<1>3. /\ Tail(old.todo) \in Seq(Command) /\ Remaining(Tail(old.todo))
      /\ Tail(old.todo) # << >> => ~ Fresh(Tail(old.todo)[1])
      /\ cmd = old.todo[1] /\ cmd \in Command /\ cmd.type \in Admits(cmd.op)
  BY <1>1, <1>2, RestOfPlan
<1>4. old.nonce \in Nat \ {0}
  BY <1>1 DEF Inv, Nonces, TypeOK
<1>5. /\ old.status \in RowStatus \ {"absent"} /\ old.events \in SUBSET Event
      /\ Sound(old.status, old.events)
  BY <1>1 DEF Draft, Transaction
<1>6. cmd.op = "marker" => old.status \in Closed
  BY <1>1, <1>3 DEF Pending, Draft
<1>7. Fresh(cmd) => \A f \in old.events : f.nonce # old.nonce
  BY <1>1, <1>3 DEF Draft
<1>8. /\ Sound(s, old.events \union {e}) /\ s \in RowStatus \ {"absent"}
      /\ old.status \in Closed => s = old.status
      /\ e \in Event /\ e.nonce \in {0, old.nonce} /\ \A f \in old.events : f.seq < e.seq
  <2>1. Recordable(cmd, old.nonce, old.status, old.events)
    BY <1>1, <1>3, <1>4, <1>5, <1>6, <1>7 DEF Recordable
  <2> QED
    BY <2>1, RecordSound
<1>9. /\ t \in Transaction /\ t.phase = "held" /\ t.call = c /\ t.todo = Tail(old.todo)
      /\ t.nonce = old.nonce /\ t.status = s /\ t.events = old.events \union {e}
  <2> HIDE DEF s, e
  <2> QED
    BY <1>1, <1>3, <1>5, <1>8 DEF Transaction
<1>10. txn' = [txn EXCEPT ![p] = t] /\ txn'[p] = t
  BY <1>1 DEF Record, TypeOK, After
<1>11. /\ sessionRow' = sessionRow /\ trace' = trace /\ begun' \in Nat /\ begun <= begun'
      /\ rowLock' \in [Call -> Process \union {None}]
      /\ \A d \in Call : rowLock[d] # None => rowLock'[d] = rowLock[d]
  BY <1>1 DEF Record, TypeOK
<1> HIDE DEF t, e, s
<1>12. Pending(p)'
  BY <1>2, <1>3, <1>9, <1>10, <1>11 DEF Pending, Fresh
<1>13. Draft(p)'
  <2>1. /\ rowLock[c] = p /\ rowLock'[c] = p /\ s # "absent"
        /\ sessionRow[c] \in Closed => s = sessionRow[c]
        /\ trace[c] \subseteq old.events \union {e}
    BY <1>1, <1>2, <1>8, <1>11, ProcessAssumption DEF Draft
  <2>2. \A f \in (old.events \union {e}) \ trace[c] :
          /\ f.nonce \in {0, old.nonce}
          /\ \A d \in trace[c] : d.seq < f.seq
    BY <1>1, <1>8 DEF Draft
  <2> QED
    BY <1>3, <1>8, <1>9, <1>10, <1>11, <2>1, <2>2 DEF Draft
<1> QED
  BY <1>1, <1>9, <1>10, <1>11, <1>12, <1>13, OwnStep

\* What a release leaves behind: an idle process, and the locks of the others.
LEMMA Released ==
  ASSUME Inv, NEW p \in Process, Release(p)
  PROVE  /\ txn' \in [Process -> Transaction] /\ rowLock' \in [Call -> Process \union {None}]
         /\ txn'[p].phase = "idle"
         /\ \A q \in Process \ {p} : txn'[q] = txn[q]
         /\ \A q \in Process \ {p} : \A c \in Call : rowLock[c] = q => rowLock'[c] = q
<1>1. TypeOK
  BY DEF Inv
<1>2. Idle \in Transaction /\ Idle.phase = "idle"
  BY DEF Idle, Transaction, RowStatus
<1>3. txn' = [txn EXCEPT ![p] = Idle]
  BY DEF Release
<1>4. txn' \in [Process -> Transaction]
  BY <1>1, <1>2, <1>3 DEF TypeOK
<1>5. txn'[p].phase = "idle" /\ \A q \in Process \ {p} : txn'[q] = txn[q]
  BY <1>1, <1>2, <1>3 DEF TypeOK
<1>6. /\ rowLock' \in [Call -> Process \union {None}]
      /\ \A q \in Process \ {p} : \A c \in Call : rowLock[c] = q => rowLock'[c] = q
  BY <1>1 DEF TypeOK, Release
<1> QED
  BY <1>4, <1>5, <1>6

\* A transaction that ends without a commit leaves no trace.
LEMMA RollbackInv ==
  ASSUME Inv, NEW p \in Process, Release(p), UNCHANGED <<sessionRow, trace, begun>>
  PROVE  Inv'
<1>1. /\ txn' \in [Process -> Transaction] /\ rowLock' \in [Call -> Process \union {None}]
      /\ txn'[p].phase = "idle"
      /\ \A q \in Process \ {p} : txn'[q] = txn[q]
      /\ \A q \in Process \ {p} : \A c \in Call : rowLock[c] = q => rowLock'[c] = q
  BY Released
<1>2. TypeOK'
  BY <1>1 DEF Inv, TypeOK
<1>3. CommittedSound'
  BY DEF Inv, CommittedSound
<1>4. ASSUME NEW q \in Process PROVE Pending(q)' /\ Draft(q)'
  <2>1. CASE q = p
    BY <1>1, <2>1 DEF Pending, Draft
  <2>2. CASE q # p
    <3>1. Pending(q) /\ Draft(q) /\ txn'[q] = txn[q]
      BY <1>1, <2>2 DEF Inv
    <3>2. Pending(q)'
      BY <3>1 DEF Pending
    <3>3. Draft(q)'
      BY <1>1, <2>2, <3>1 DEF Draft, Pending
    <3> QED
      BY <3>2, <3>3
  <2> QED
    BY <2>1, <2>2
<1>5. Nonces'
  <2>1. \A q \in Process : txn'[q].phase # "idle" => q # p /\ txn'[q] = txn[q]
    BY <1>1
  <2> QED
    BY <2>1 DEF Inv, Nonces
<1> QED
  BY <1>2, <1>3, <1>4, <1>5 DEF Inv

\* What a commit makes of the trace: exactly the draft, because every id of the draft is
\* of one event and the trace is part of it.
LEMMA CommitIsDraft ==
  ASSUME Inv, NEW p \in Process, Commit(p), txn[p].phase = "held"
  PROVE  LET t == txn[p] IN
         /\ t.call \in Call
         /\ trace' = [trace EXCEPT ![t.call] = t.events]
         /\ sessionRow' = [sessionRow EXCEPT ![t.call] = t.status]
<1> DEFINE t == txn[p]
           c == t.call
           new == {e \in t.events : Id(e) \notin Ids(trace[c])}
<1>1. Draft(p) /\ c \in Call /\ TypeOK
  BY DEF Inv, Pending
<1>2. trace[c] \subseteq t.events /\ Identified(t.events)
  BY <1>1 DEF Draft, Sound
<1>3. trace[c] \union new = t.events
  <2>1. \A e \in t.events : e \notin trace[c] => Id(e) \notin Ids(trace[c])
    BY <1>2 DEF Identified, Ids
  <2> QED
    BY <1>2, <2>1
<1>4. trace' = [trace EXCEPT ![c] = trace[c] \union new]
  BY DEF Commit
<1> QED
  BY <1>1, <1>3, <1>4 DEF Commit

\* A commit replaces the trace of its call by a sound draft and disturbs no other.
LEMMA CommitInv ==
  ASSUME Inv, NEW p \in Process, Commit(p)
  PROVE  Inv'
<1>1. CASE txn[p].phase # "held"
  BY <1>1, RollbackInv DEF Commit
<1>2. CASE txn[p].phase = "held"
  <2> DEFINE t == txn[p]
             c == t.call
  <2>1. /\ c \in Call /\ trace' = [trace EXCEPT ![c] = t.events]
        /\ sessionRow' = [sessionRow EXCEPT ![c] = t.status]
    BY <1>2, CommitIsDraft
  <2>2. /\ txn' \in [Process -> Transaction] /\ rowLock' \in [Call -> Process \union {None}]
        /\ txn'[p].phase = "idle"
        /\ \A q \in Process \ {p} : txn'[q] = txn[q]
        /\ \A q \in Process \ {p} : \A d \in Call : rowLock[d] = q => rowLock'[d] = q
    BY Released DEF Commit
  <2>3. TypeOK /\ Draft(p) /\ CommittedSound /\ Nonces /\ t \in Transaction /\ begun' = begun
    BY DEF Inv, TypeOK, Commit
  <2>4. /\ rowLock[c] = p /\ Sound(t.status, t.events) /\ trace[c] \subseteq t.events
        /\ sessionRow[c] \in Closed => t.status = sessionRow[c]
        /\ \A f \in t.events \ trace[c] : f.nonce \in {0, t.nonce}
        /\ t.status \in RowStatus /\ t.events \in SUBSET Event
    BY <1>2, <2>3 DEF Draft, Transaction
  <2>5. /\ trace'[c] = t.events /\ sessionRow'[c] = t.status
        /\ \A d \in Call \ {c} : trace'[d] = trace[d] /\ sessionRow'[d] = sessionRow[d]
    BY <2>1, <2>3 DEF TypeOK
  <2>6. TypeOK'
    BY <2>1, <2>2, <2>3, <2>4 DEF TypeOK
  <2>7. CommittedSound'
    BY <2>3, <2>4, <2>5 DEF CommittedSound
  <2>8. ASSUME NEW q \in Process PROVE Pending(q)' /\ Draft(q)'
    <3>1. CASE q = p
      BY <2>2, <3>1 DEF Pending, Draft
    <3>2. CASE q # p
      <4>1. Pending(q) /\ Draft(q) /\ txn'[q] = txn[q]
        BY <2>2, <3>2 DEF Inv
      <4>2. \A d \in Call : sessionRow[d] \in Closed => sessionRow'[d] \in Closed
        BY <2>4, <2>5
      <4>3. Pending(q)'
        BY <4>1, <4>2 DEF Pending
      <4>4. txn[q].phase = "held" => txn[q].call \in Call \ {c} /\ rowLock[txn[q].call] = q
        BY <2>4, <3>2, <4>1 DEF Pending, Draft
      <4>5. Draft(q)'
        BY <2>2, <2>5, <3>2, <4>1, <4>4 DEF Draft
      <4> QED
        BY <4>3, <4>5
    <3> QED
      BY <3>1, <3>2
  <2>9. Nonces'
    <3>1. begun \in Nat /\ t.nonce \in 1..begun
      BY <1>2, <2>3 DEF TypeOK, Nonces
    <3>2. \A d \in Call : \A e \in trace'[d] : e.nonce <= begun
      BY <2>3, <2>4, <2>5, <3>1 DEF Nonces
    <3>3. \A q \in Process : txn'[q].phase # "idle" => q # p /\ txn'[q] = txn[q]
      BY <2>2
    <3>4. \A q \in Process \ {p} : txn[q].phase # "idle" =>
            /\ txn[q].nonce \in 1..begun /\ txn[q].nonce # t.nonce
            /\ \A d \in Call : \A e \in trace[d] : e.nonce # txn[q].nonce
      BY <1>2, <2>3 DEF Nonces
    <3>5. \A q \in Process \ {p} : txn[q].phase # "idle" =>
            \A d \in Call : \A e \in trace'[d] : e.nonce # txn[q].nonce
      BY <2>4, <2>5, <3>1, <3>4
    <3>6. \A q, r \in Process :
            r # q /\ txn'[q].phase # "idle" /\ txn'[r].phase # "idle" => txn'[r].nonce # txn'[q].nonce
      BY <2>3, <3>3 DEF Nonces
    <3> QED
      BY <2>3, <3>2, <3>3, <3>4, <3>5, <3>6 DEF Nonces
  <2> QED
    BY <2>6, <2>7, <2>8, <2>9 DEF Inv
<1> QED
  BY <1>1, <1>2

------------------------------------------------------------------------------
(* Theorems.                                                                   *)

\* Every step of every transaction preserves the invariant.
LEMMA NextInv == Inv /\ [Next]_vars => Inv'
<1> SUFFICES ASSUME Inv, [Next]_vars PROVE Inv'
  OBVIOUS
<1>1. CASE UNCHANGED vars
  BY <1>1 DEF vars, Inv, TypeOK, CommittedSound, Pending, Draft, Nonces
<1>2. ASSUME NEW p \in Process, NEW c \in Call, NEW plan \in Plan, Begin(p, c, plan) PROVE Inv'
  BY <1>2, BeginInv
<1>3. ASSUME NEW p \in Process, Work(p) PROVE Inv'
  BY <1>3, LoadForUpdateInv, LoadMissInv, CreateInv, CreateConflictInv, SkipInv, RecordInv DEF Work
<1>4. ASSUME NEW p \in Process, Commit(p) PROVE Inv'
  BY <1>4, CommitInv
<1>5. ASSUME NEW p \in Process, Refuse(p) \/ Abort(p) PROVE Inv'
  BY <1>5, RollbackInv DEF Refuse, Abort
<1> QED
  BY <1>1, <1>2, <1>3, <1>4, <1>5 DEF Next, Advance

\* The invariant holds in every reachable state.
THEOREM Invariance == Spec => []Inv
  BY InitInv, NextInv, PTL DEF Spec

\* Every variable keeps its type.
THEOREM TypeCorrect == Spec => []TypeOK
<1>1. Inv => TypeOK
  BY DEF Inv
<1> QED
  BY <1>1, Invariance, PTL

\* The numbers of a trace have no gap and no repetition, whoever computed them.
THEOREM SequenceIsIntact == Spec => []SequenceIntact
<1>1. Inv => SequenceIntact
  BY DEF Inv, CommittedSound, Sound, SequenceIntact
<1> QED
  BY <1>1, Invariance, PTL

\* A session row and its trace always tell the same life.
THEOREM LifecycleIsOrdered == Spec => []LifecycleOrdered
<1>1. Inv => LifecycleOrdered
  BY DEF Inv, CommittedSound, Sound, LifecycleOrdered
<1> QED
  BY <1>1, Invariance, PTL

\* Marker and silence aggregate are recorded once, a session start only in front.
THEOREM RecordedOnce == Spec => []OncePerSession
<1>1. Inv => OncePerSession
  BY DEF Inv, CommittedSound, Sound, Once, OncePerSession
<1> QED
  BY <1>1, Invariance, PTL

\* Steps other than a commit leave the committed trace alone.
LEMMA OnlyCommitsWrite ==
  ASSUME [Next]_vars
  PROVE  \/ UNCHANGED <<sessionRow, trace>>
         \/ \E p \in Process : Commit(p) /\ txn[p].phase = "held"
<1>1. CASE UNCHANGED vars
  BY <1>1 DEF vars
<1>2. ASSUME NEW p \in Process, NEW c \in Call, NEW plan \in Plan, Begin(p, c, plan)
      PROVE  UNCHANGED <<sessionRow, trace>>
  BY <1>2 DEF Begin
<1>3. ASSUME NEW p \in Process, Work(p) PROVE UNCHANGED <<sessionRow, trace>>
  BY <1>3 DEF Work, LoadForUpdate, LoadMiss, Create, CreateConflict, Skip, Record
<1>4. ASSUME NEW p \in Process, Refuse(p) \/ Abort(p) PROVE UNCHANGED <<sessionRow, trace>>
  BY <1>4 DEF Refuse, Abort
<1>5. ASSUME NEW p \in Process, Commit(p), txn[p].phase # "held"
      PROVE  UNCHANGED <<sessionRow, trace>>
  BY <1>5 DEF Commit
<1> QED
  BY <1>1, <1>2, <1>3, <1>4, <1>5 DEF Next, Advance

\* What the store of a call may become in a step: its trace grows at the end, its row
\* stays, and stays closed.
Advances(c) ==
  /\ trace[c] \subseteq trace'[c]
  /\ \A e \in trace[c], f \in trace'[c] \ trace[c] : e.seq < f.seq
  /\ sessionRow[c] \in Closed => sessionRow'[c] = sessionRow[c]
  /\ sessionRow[c] # "absent" => sessionRow'[c] # "absent"

\* Every step makes every call's store advance.
LEMMA StoreAdvances ==
  ASSUME Inv, [Next]_vars
  PROVE  \A c \in Call : Advances(c)
<1>1. CASE UNCHANGED <<sessionRow, trace>>
  BY <1>1 DEF Advances
<1>2. ASSUME NEW p \in Process, Commit(p), txn[p].phase = "held" PROVE \A c \in Call : Advances(c)
  <2>1. /\ txn[p].call \in Call /\ trace' = [trace EXCEPT ![txn[p].call] = txn[p].events]
        /\ sessionRow' = [sessionRow EXCEPT ![txn[p].call] = txn[p].status]
    BY <1>2, CommitIsDraft
  <2>2. Draft(p) /\ TypeOK
    BY DEF Inv
  <2>3. /\ trace[txn[p].call] \subseteq txn[p].events
        /\ \A f \in txn[p].events \ trace[txn[p].call] : \A e \in trace[txn[p].call] : e.seq < f.seq
        /\ sessionRow[txn[p].call] \in Closed => txn[p].status = sessionRow[txn[p].call]
        /\ txn[p].status # "absent"
    BY <1>2, <2>2 DEF Draft
  <2> QED
    BY <2>1, <2>2, <2>3 DEF TypeOK, Advances
<1> QED
  BY <1>1, <1>2, OnlyCommitsWrite

\* The trace is an audit log: events stay, new ones come behind them, and a closed
\* session keeps its status.
THEOREM TraceIsAppendOnly == Spec => AppendOnly
<1> DEFINE Appended ==
             \A c \in Call :
               /\ trace[c] \subseteq trace'[c]
               /\ \A e \in trace[c], f \in trace'[c] \ trace[c] : e.seq < f.seq
               /\ sessionRow[c] \in Closed => sessionRow'[c] = sessionRow[c]
<1>1. ASSUME Inv, [Next]_vars PROVE Appended
  BY <1>1, StoreAdvances DEF Advances
<1>2. Inv /\ [Next]_vars => [Appended]_vars
  BY <1>1
<1> QED
  BY <1>2, Invariance, PTL DEF Spec, AppendOnly

\* What a transaction worked on is what it commits.
THEOREM DraftIsCommitted == Spec => DraftCommitted
<1>1. ASSUME Inv, [Next]_vars, NEW p \in Process, Commit(p), txn[p].phase = "held"
      PROVE  trace' = [trace EXCEPT ![txn[p].call] = txn[p].events]
  BY <1>1, CommitIsDraft
<1> DEFINE Kept ==
             \A p \in Process :
               Commit(p) /\ txn[p].phase = "held" =>
                 trace' = [trace EXCEPT ![txn[p].call] = txn[p].events]
<1>2. Inv /\ [Next]_vars => [Kept]_vars
  BY <1>1
<1> QED
  BY <1>2, Invariance, PTL DEF Spec, DraftCommitted

------------------------------------------------------------------------------
(* Modules that compose the store with its users: what they need of a step.    *)

\* What a process may do to the store in one step, for a plan of its own.
StepOf(p) ==
  \/ \E c \in Call, plan \in Plan : Begin(p, c, plan)
  \/ Work(p) \/ Commit(p) \/ Refuse(p) \/ Abort(p)
  \/ UNCHANGED vars

\* Such a step is one of the store's.
LEMMA StepIsNext ==
  ASSUME NEW p \in Process, StepOf(p)
  PROVE  [Next]_vars
  BY DEF StepOf, Next, Advance

\* A process works on its own transaction only.
LEMMA OthersUntouched ==
  ASSUME TypeOK, NEW p \in Process, StepOf(p), NEW q \in Process, q # p
  PROVE  txn'[q] = txn[q]
<1>1. ASSUME NEW t, txn' = [txn EXCEPT ![p] = t] PROVE txn'[q] = txn[q]
  BY <1>1 DEF TypeOK
<1>2. ASSUME NEW c \in Call, NEW plan \in Plan, Begin(p, c, plan) PROVE txn'[q] = txn[q]
  BY <1>1, <1>2 DEF Begin
<1>3. ASSUME Work(p) PROVE txn'[q] = txn[q]
  BY <1>3 DEF TypeOK, Work, LoadForUpdate, LoadMiss, Create, CreateConflict, Skip, Record
<1>4. ASSUME Release(p) PROVE txn'[q] = txn[q]
  BY <1>1, <1>4 DEF Release
<1> QED
  BY <1>2, <1>3, <1>4 DEF StepOf, Commit, Refuse, Abort, vars

\* A transaction that ended is idle, and one that works is not and keeps its call.
LEMMA OwnTransaction ==
  ASSUME TypeOK, NEW p \in Process
  PROVE  /\ \A c \in Call, plan \in Plan : Begin(p, c, plan) =>
              /\ txn'[p].phase = "load" /\ txn'[p].call = c /\ txn'[p].todo = plan
              /\ sessionRow' = sessionRow /\ trace' = trace
         /\ Work(p) =>
              /\ txn[p].phase # "idle" /\ txn'[p].phase # "idle"
              /\ txn'[p].call = txn[p].call
              /\ sessionRow' = sessionRow /\ trace' = trace
         /\ Commit(p) \/ Refuse(p) \/ Abort(p) => txn'[p].phase = "idle"
<1>1. ASSUME NEW c \in Call, NEW plan \in Plan, Begin(p, c, plan)
      PROVE  /\ txn'[p].phase = "load" /\ txn'[p].call = c /\ txn'[p].todo = plan
             /\ sessionRow' = sessionRow /\ trace' = trace
  BY <1>1 DEF TypeOK, Begin
<1>2. ASSUME Work(p)
      PROVE  /\ txn[p].phase # "idle" /\ txn'[p].phase # "idle"
             /\ txn'[p].call = txn[p].call
             /\ sessionRow' = sessionRow /\ trace' = trace
  BY <1>2 DEF TypeOK, Transaction, Work, LoadForUpdate, LoadMiss, Create, CreateConflict, Skip, Record
<1>3. ASSUME Commit(p) \/ Refuse(p) \/ Abort(p) PROVE txn'[p].phase = "idle"
  BY <1>3 DEF TypeOK, Commit, Refuse, Abort, Release, Idle
<1> QED
  BY <1>1, <1>2, <1>3

------------------------------------------------------------------------------
(* Serializability: SerialInv of TraceStoreInvariant is inductive relative to    *)
(* Inv, and makes every commit a step of SerialTrace.                           *)

\* Induction over the naturals, for a set instead of a predicate.
LEMMA SetInduction ==
  ASSUME NEW S, 0 \in S, \A n \in Nat : n \in S => n + 1 \in S
  PROVE  Nat \subseteq S
<1> SUFFICES ASSUME Nat \ S # {} PROVE FALSE
  OBVIOUS
<1>1. IsWellFoundedOn(OpToRel(<, Nat), Nat)
  BY NatLessThanWellFounded
<1>2. PICK x \in Nat \ S : \A y \in Nat \ S : ~ (<<y, x>> \in OpToRel(<, Nat))
  BY <1>1, WFMin
<1>3. \A y \in Nat : y < x => y \in S
  BY <1>2 DEF OpToRel
<1>4. x # 0
  BY <1>2
<1>5. x - 1 \in Nat /\ x - 1 < x /\ x = (x - 1) + 1
  BY <1>4
<1> QED
  BY <1>2, <1>3, <1>5

\* The states that the first m commands of a plan go through.
Run(after, s, plan, nonce, m) ==
  after = [n \in 0..m |-> IF n = 0 THEN s
                          ELSE Serial!Call1(nonce, after[n - 1], plan[n])]

\* Every plan has a run.
LEMMA RunExists ==
  ASSUME NEW s, NEW plan, NEW nonce, NEW m \in Nat
  PROVE  \E after : Run(after, s, plan, nonce, m)
<1> DEFINE S == {n \in Nat : \E after : Run(after, s, plan, nonce, n)}
<1>1. 0 \in S
  <2> DEFINE f == [n \in 0..0 |-> s]
  <2>1. Run(f, s, plan, nonce, 0)
    BY DEF Run
  <2> QED
    BY <2>1
<1>2. ASSUME NEW n \in Nat, n \in S PROVE n + 1 \in S
  <2>1. PICK f : Run(f, s, plan, nonce, n)
    BY <1>2
  <2> DEFINE g == [k \in 0..(n + 1) |-> IF k = n + 1 THEN Serial!Call1(nonce, f[n], plan[n + 1])
                                        ELSE f[k]]
  <2>2. \A k \in 0..(n + 1) :
          g[k] = IF k = 0 THEN s ELSE Serial!Call1(nonce, g[k - 1], plan[k])
    <3> TAKE k \in 0..(n + 1)
    <3>1. CASE k = 0
      BY <2>1, <3>1 DEF Run
    <3>2. CASE k \in 1..n
      <4>1. f[k] = Serial!Call1(nonce, f[k - 1], plan[k])
        BY <2>1, <3>2 DEF Run
      <4>2. g[k] = f[k] /\ g[k - 1] = f[k - 1]
        BY <3>2
      <4> QED
        BY <3>2, <4>1, <4>2
    <3>3. CASE k = n + 1
      <4>1. g[k] = Serial!Call1(nonce, f[n], plan[n + 1]) /\ g[k - 1] = f[n]
        BY <3>3
      <4> QED
        BY <3>3, <4>1
    <3> QED
      BY <3>1, <3>2, <3>3
  <2>3. Run(g, s, plan, nonce, n + 1)
    BY <2>2 DEF Run
  <2> QED
    BY <2>3
<1>3. Nat \subseteq S
  <2> HIDE DEF S
  <2> QED
    BY <1>1, <1>2, SetInduction
<1> QED
  BY <1>3

\* Two runs agree as far as their plans do.
LEMMA RunsAgree ==
  ASSUME NEW s, NEW nonce, NEW plan, NEW other, NEW m \in Nat, NEW k \in Nat,
         NEW f, Run(f, s, plan, nonce, m), NEW g, Run(g, s, other, nonce, k),
         m <= k, \A n \in 1..m : plan[n] = other[n]
  PROVE  \A n \in 0..m : f[n] = g[n]
<1> DEFINE S == {n \in Nat : n <= m => f[n] = g[n]}
<1>1. 0 \in S
  BY DEF Run
<1>2. ASSUME NEW n \in Nat, n \in S PROVE n + 1 \in S
  <2> SUFFICES ASSUME n + 1 <= m PROVE f[n + 1] = g[n + 1]
    OBVIOUS
  <2>1. f[n] = g[n]
    BY <1>2
  <2>2. n + 1 \in 0..m /\ n + 1 \in 0..k /\ n + 1 # 0 /\ (n + 1) - 1 = n /\ n + 1 \in 1..m
    OBVIOUS
  <2>3. f[n + 1] = Serial!Call1(nonce, f[n], plan[n + 1])
    BY <2>2 DEF Run
  <2>4. g[n + 1] = Serial!Call1(nonce, g[n], other[n + 1])
    BY <2>2 DEF Run
  <2> QED
    BY <2>1, <2>2, <2>3, <2>4
<1>3. Nat \subseteq S
  <2> HIDE DEF S
  <2> QED
    BY <1>1, <1>2, SetInduction
<1> QED
  BY <1>3

\* The outcome of a plan is the last state of its run.
LEMMA OutcomeOfRun ==
  ASSUME NEW s, NEW plan \in Seq(Command), NEW nonce
  PROVE  \E after : /\ Run(after, s, plan, nonce, Len(plan))
                    /\ Serial!Outcome(s, plan, nonce) = after[Len(plan)]
<1> DEFINE f == CHOOSE f : Run(f, s, plan, nonce, Len(plan))
<1>1. Run(f, s, plan, nonce, Len(plan))
  <2>1. Len(plan) \in Nat
    OBVIOUS
  <2> QED
    BY <2>1, RunExists
<1>2. Serial!Outcome(s, plan, nonce) = f[Len(plan)]
  BY DEF Serial!Outcome, Run
<1> QED
  BY <1>1, <1>2

\* Nothing run yet: the outcome is where the plan starts.
LEMMA OutcomeEmpty ==
  ASSUME NEW s, NEW nonce
  PROVE  Serial!Outcome(s, << >>, nonce) = s
<1>1. << >> \in Seq(Command) /\ Len(<< >>) = 0
  OBVIOUS
<1>2. PICK f : Run(f, s, << >>, nonce, 0) /\ Serial!Outcome(s, << >>, nonce) = f[0]
  BY <1>1, OutcomeOfRun
<1> QED
  BY <1>2 DEF Run

\* One more command of a plan is one more call on the outcome so far.
LEMMA OutcomeStep ==
  ASSUME NEW s, NEW plan \in Seq(Command), NEW nonce, NEW i \in 0..Len(plan), i < Len(plan)
  PROVE  Serial!Outcome(s, SubSeq(plan, 1, i + 1), nonce)
           = Serial!Call1(nonce, Serial!Outcome(s, SubSeq(plan, 1, i), nonce), plan[i + 1])
<1> DEFINE less == SubSeq(plan, 1, i)
           more == SubSeq(plan, 1, i + 1)
<1>1. /\ less \in Seq(Command) /\ Len(less) = i /\ i \in Nat
      /\ more \in Seq(Command) /\ Len(more) = i + 1
      /\ \A n \in 1..i : less[n] = more[n]
      /\ more[i + 1] = plan[i + 1]
  OBVIOUS
<1> HIDE DEF less, more
<1>2. PICK f : Run(f, s, less, nonce, i) /\ Serial!Outcome(s, less, nonce) = f[i]
  BY <1>1, OutcomeOfRun
<1>3. PICK g : Run(g, s, more, nonce, i + 1) /\ Serial!Outcome(s, more, nonce) = g[i + 1]
  BY <1>1, OutcomeOfRun
<1>4. f[i] = g[i]
  <2>1. i \in Nat /\ i + 1 \in Nat /\ i <= i + 1 /\ i \in 0..i /\ \A n \in 1..i : less[n] = more[n]
    BY <1>1
  <2>2. Run(f, s, less, nonce, i) /\ Run(g, s, more, nonce, i + 1)
    BY <1>2, <1>3
  <2>3. \A n \in 0..i : f[n] = g[n]
    BY <2>1, <2>2, RunsAgree
  <2> QED
    BY <2>1, <2>3
<1>5. g[i + 1] = Serial!Call1(nonce, g[i], more[i + 1])
  BY <1>1, <1>3 DEF Run
<1> QED
  BY <1>1, <1>2, <1>3, <1>4, <1>5 DEF less, more

\* What lies before a transaction once its first observation is lost is again a
\* remainder of its plan, or nothing.
LEMMA RemaindersShrink ==
  ASSUME NEW plan \in Plan, NEW rest \in Serial!Remainders(plan), rest # << >>,
         rest[1].op = "observe"
  PROVE  Tail(rest) = << >> \/ Tail(rest) \in Serial!Remainders(plan)
<1>1. plan \in Seq(Command)
  BY PlanAssumption
<1>2. PICK k \in {1} \union {i \in 2..Len(plan) : \A j \in 1..(i - 1) : plan[j].op = "observe"} :
        rest = SubSeq(plan, k, Len(plan))
  BY DEF Serial!Remainders
<1>3. k \in 1..Len(plan) /\ rest[1] = plan[k]
  BY <1>1, <1>2
<1>4. Tail(rest) = SubSeq(plan, k + 1, Len(plan))
  BY <1>1, <1>2, <1>3
<1>5. CASE k = Len(plan)
  BY <1>1, <1>4, <1>5
<1>6. CASE k < Len(plan)
  <2>1. k \in Nat /\ k + 1 \in 2..Len(plan) /\ (k + 1) - 1 = k
    BY <1>1, <1>3, <1>6
  <2>2. \A j \in 1..(k - 1) : plan[j].op = "observe"
    BY <1>2
  <2>3. plan[k].op = "observe"
    BY <1>3
  <2>4. \A j \in 1..k : j \in 1..(k - 1) \/ j = k
    BY <2>1
  <2>5. \A j \in 1..k : plan[j].op = "observe"
    BY <2>2, <2>3, <2>4
  <2> QED
    BY <1>4, <2>1, <2>5 DEF Serial!Remainders
<1> QED
  BY <1>1, <1>3, <1>5, <1>6

\* A remainder is a sequence of commands, and a plan is one of its own.
LEMMA RemainderType ==
  ASSUME NEW plan \in Plan
  PROVE  /\ plan \in Serial!Remainders(plan)
         /\ \A rest \in Serial!Remainders(plan) : rest \in Seq(Command)
<1>1. plan \in Seq(Command)
  BY PlanAssumption
<1>2. plan = SubSeq(plan, 1, Len(plan))
  BY <1>1
<1>3. \A k \in Nat \ {0} : SubSeq(plan, k, Len(plan)) \in Seq(Command)
  BY <1>1
<1>4. plan \in Serial!Remainders(plan)
  BY <1>2 DEF Serial!Remainders
<1>5. ASSUME NEW rest \in Serial!Remainders(plan) PROVE rest \in Seq(Command)
  <2>1. PICK k \in {1} \union 2..Len(plan) : rest = SubSeq(plan, k, Len(plan))
    BY DEF Serial!Remainders
  <2>2. k \in Nat \ {0}
    BY <1>1
  <2> QED
    BY <1>3, <2>1, <2>2
<1> QED
  BY <1>4, <1>5

\* The abstract store computes on the same aggregate.
LEMMA SameAggregate ==
  ASSUME NEW cmd, NEW status, NEW E, NEW nonce, NEW type
  PROVE  /\ Serial!Redundant(cmd, status, E) <=> Redundant(cmd, status, E)
         /\ Serial!Refused(cmd, status) <=> Refused(cmd, status)
         /\ Serial!StatusAfter(status, type) = StatusAfter(status, type)
         /\ Serial!NewEvent(cmd, nonce, E) = NewEvent(cmd, nonce, E)
<1>1. Serial!Redundant(cmd, status, E) <=> Redundant(cmd, status, E)
  BY DEF Serial!Redundant, Redundant, Serial!Ignored, Ignored, Serial!IngestDrops, IngestDrops,
         Serial!Recorded, Recorded, Serial!MarkerConflict, MarkerConflict,
         Serial!Types, Types, Serial!Ids, Ids, Serial!Id, Id
<1>2. Serial!Refused(cmd, status) <=> Refused(cmd, status)
  BY DEF Serial!Refused, Refused
<1>3. Serial!StatusAfter(status, type) = StatusAfter(status, type)
  BY DEF Serial!StatusAfter, StatusAfter
<1>4. Serial!NewEvent(cmd, nonce, E) = NewEvent(cmd, nonce, E)
  BY DEF Serial!NewEvent, NewEvent, Serial!NextSequence, NextSequence, Serial!LastSequence,
         LastSequence, Serial!Fresh, Fresh, Serial!Cardinality, Cardinality
<1> QED
  BY <1>1, <1>2, <1>3, <1>4

\* A redundant call leaves a draft as it is.
LEMMA CallIgnored ==
  ASSUME NEW nonce, NEW status, NEW E, NEW cmd, status # "absent", Redundant(cmd, status, E),
         NEW s, s = [status |-> status, events |-> E, refused |-> FALSE]
  PROVE  Serial!Call1(nonce, s, cmd) = s
<1>1. s.status = status /\ s.events = E /\ ~ s.refused
  OBVIOUS
<1> QED
  BY <1>1, SameAggregate DEF Serial!Call1, Serial!Passed

\* A call on a draft that is neither redundant nor refused records its event.
LEMMA CallRecords ==
  ASSUME NEW nonce, NEW status, NEW E, NEW cmd, status # "absent",
         ~ Redundant(cmd, status, E), ~ Refused(cmd, status)
  PROVE  Serial!Call1(nonce, [status |-> status, events |-> E, refused |-> FALSE], cmd)
           = [status |-> After(cmd, status), events |-> E \union {NewEvent(cmd, nonce, E)},
              refused |-> FALSE]
<1> DEFINE s == [status |-> status, events |-> E, refused |-> FALSE]
<1>1. s.status = status /\ s.events = E /\ ~ s.refused
  OBVIOUS
<1> HIDE DEF s
<1>2. Serial!Call1(nonce, s, cmd)
        = [status |-> After(cmd, status), events |-> E \union {NewEvent(cmd, nonce, E)},
           refused |-> FALSE]
  BY <1>1, SameAggregate DEF Serial!Call1, Serial!Passed, After
<1> QED
  BY <1>2 DEF s

\* An ingested event opens the session it does not find.
LEMMA CallCreates ==
  ASSUME NEW nonce, NEW cmd, cmd.op = "ingest",
         NEW s, s = [status |-> "absent", events |-> {}, refused |-> FALSE]
  PROVE  Serial!Call1(nonce, s, cmd)
           = [status |-> StatusAfter("active", cmd.type), events |-> {NewEvent(cmd, nonce, {})},
              refused |-> FALSE]
<1>1. s.status = "absent" /\ s.events = {} /\ ~ s.refused
  OBVIOUS
<1> QED
  BY <1>1, SameAggregate DEF Serial!Call1, Serial!Passed

\* A transaction keeps its history while nobody touches it or the row it holds.
LEMMA HistoryKept ==
  ASSUME NEW q \in Process, History(q), txn'[q] = txn[q],
         txn[q].phase = "held" => /\ sessionRow'[txn[q].call] = sessionRow[txn[q].call]
                                  /\ trace'[txn[q].call] = trace[txn[q].call]
  PROVE  History(q)'
<1>1. txn[q].phase = "held" => Serial!Start(txn[q].call)' = Serial!Start(txn[q].call)
  BY DEF Serial!Start
<1> QED
  BY <1>1 DEF History

\* Before it holds the row, a transaction has all of its plan before it, but for lost
\* observations.
LEMMA HistoryBegins ==
  ASSUME TypeOK, NEW p \in Process, NEW c \in Call, NEW plan \in Plan, Begin(p, c, plan)
  PROVE  History(p)'
<1>1. txn'[p].phase = "load" /\ txn'[p].todo = plan
  BY DEF Begin, TypeOK
<1> QED
  BY <1>1, RemainderType DEF History

\* A miss loses the head of the plan, if it is an observation, or all of it.
LEMMA HistoryOfMiss ==
  ASSUME TypeOK, NEW p \in Process, History(p), LoadMiss(p) \/ CreateConflict(p)
  PROVE  History(p)'
<1>1. CASE CreateConflict(p)
  <2>1. txn'[p].phase = "load" /\ txn'[p].todo = txn[p].todo /\ txn[p].phase = "create"
    BY <1>1 DEF CreateConflict, TypeOK, Transaction
  <2> QED
    BY <2>1 DEF History
<1>2. CASE LoadMiss(p)
  <2> DEFINE todo == txn[p].todo
  <2>1. todo \in Seq(Command) /\ todo # << >> /\ Head(todo) = todo[1] /\ txn[p].phase = "load"
    BY <1>2 DEF LoadMiss, TypeOK, Transaction
  <2>2. PICK plan \in Plan : todo \in Serial!Remainders(plan)
    BY <2>1 DEF History
  <2>3. /\ txn'[p].phase \in {"load", "create"}
        /\ txn'[p].todo = IF Head(todo).op = "ingest" THEN todo
                          ELSE IF Head(todo).op = "observe" THEN Tail(todo) ELSE << >>
    BY <1>2 DEF LoadMiss, TypeOK, Transaction
  <2>4. Head(todo).op = "observe" =>
          Tail(todo) = << >> \/ Tail(todo) \in Serial!Remainders(plan)
    BY <2>1, <2>2, RemaindersShrink
  <2> QED
    BY <2>2, <2>3, <2>4 DEF History
<1> QED
  BY <1>1, <1>2

\* With the row, a transaction has the committed trace, and all it found of its plan
\* before it.
LEMMA HistoryOfLoad ==
  ASSUME TypeOK, NEW p \in Process, History(p), LoadForUpdate(p)
  PROVE  History(p)'
<1> DEFINE rest == txn[p].todo
           c == txn[p].call
<1>1. rest \in Seq(Command) /\ rest # << >> /\ txn[p].phase = "load"
  BY DEF LoadForUpdate, TypeOK, Transaction
<1>2. PICK plan \in Plan : rest \in Serial!Remainders(plan)
  BY <1>1 DEF History
<1>3. /\ txn'[p].phase = "held" /\ txn'[p].todo = rest /\ txn'[p].nonce = txn[p].nonce
      /\ txn'[p].call = c /\ txn'[p].status = sessionRow[c] /\ txn'[p].events = trace[c]
      /\ Serial!Start(txn[p].call)' = Serial!Start(c)
  BY DEF LoadForUpdate, TypeOK, Transaction, Serial!Start
<1>4. rest = SubSeq(rest, 0 + 1, Len(rest)) /\ SubSeq(rest, 1, 0) = << >> /\ 0 \in 0..Len(rest)
  BY <1>1
<1>5. Serial!Outcome(Serial!Start(c), SubSeq(rest, 1, 0), txn[p].nonce)
        = [status |-> sessionRow[c], events |-> trace[c], refused |-> FALSE]
  BY <1>4, OutcomeEmpty DEF Serial!Start
<1> HIDE DEF rest, c
<1> QED
  BY <1>2, <1>3, <1>4, <1>5 DEF History

\* A new session starts where the first call of the plan on nothing leads.
LEMMA HistoryOfCreate ==
  ASSUME Inv, NEW p \in Process, History(p), Create(p)
  PROVE  History(p)'
<1> DEFINE rest == txn[p].todo
           c == txn[p].call
           n == txn[p].nonce
           cmd == rest[1]
<1>1. TypeOK /\ Pending(p) /\ CommittedSound
  BY DEF Inv
<1>2. /\ rest \in Seq(Command) /\ rest # << >> /\ cmd.op = "ingest" /\ txn[p].phase = "create"
      /\ c \in Call /\ sessionRow[c] = "absent"
  BY <1>1 DEF Create, TypeOK, Transaction, Pending
<1>3. PICK plan \in Plan : rest \in Serial!Remainders(plan)
  BY <1>2 DEF History
<1>4. /\ txn'[p].phase = "held" /\ txn'[p].todo = Tail(rest) /\ txn'[p].nonce = n
      /\ txn'[p].call = c /\ txn'[p].status = StatusAfter("active", cmd.type)
      /\ txn'[p].events = {NewEvent(cmd, n, {})}
      /\ Serial!Start(txn[p].call)' = Serial!Start(c)
  BY <1>1, <1>2 DEF Create, TypeOK, Transaction, Serial!Start
<1>5. /\ Tail(rest) = SubSeq(rest, 1 + 1, Len(rest)) /\ SubSeq(rest, 1, 0) = << >>
      /\ 0 \in 0..Len(rest) /\ 0 < Len(rest) /\ 1 \in 0..Len(rest) /\ 0 + 1 = 1
  BY <1>2
<1>6. Serial!Start(c) = [status |-> "absent", events |-> {}, refused |-> FALSE]
  BY <1>1, <1>2 DEF Serial!Start, CommittedSound, Sound, LawfulLife
<1>7. Serial!Call1(n, Serial!Start(c), cmd)
        = [status |-> StatusAfter("active", cmd.type), events |-> {NewEvent(cmd, n, {})},
           refused |-> FALSE]
  BY <1>2, <1>6, CallCreates
<1>8. Serial!Outcome(Serial!Start(c), SubSeq(rest, 1, 0 + 1), n)
        = Serial!Call1(n, Serial!Outcome(Serial!Start(c), SubSeq(rest, 1, 0), n), rest[0 + 1])
  BY <1>2, <1>5, OutcomeStep
<1>9. Serial!Outcome(Serial!Start(c), SubSeq(rest, 1, 1), n)
        = [status |-> StatusAfter("active", cmd.type), events |-> {NewEvent(cmd, n, {})},
           refused |-> FALSE]
  BY <1>5, <1>7, <1>8, OutcomeEmpty
<1> HIDE DEF rest, c, n
<1> QED
  BY <1>3, <1>4, <1>5, <1>9 DEF History

\* A command skipped or recorded on the draft is one more call of the plan.
LEMMA HistoryOfCommand ==
  ASSUME Inv, NEW p \in Process, History(p), Skip(p) \/ Record(p)
  PROVE  History(p)'
<1> DEFINE t == txn[p]
           c == t.call
           draft == [status |-> t.status, events |-> t.events, refused |-> FALSE]
<1>1. TypeOK /\ Draft(p) /\ t.phase = "held" /\ t.todo # << >>
  BY DEF Inv, Skip, Record
<1>a. PICK plan \in Plan : \E rest \in Serial!Remainders(plan) : \E i \in 0..Len(rest) :
        /\ t.todo = SubSeq(rest, i + 1, Len(rest))
        /\ Serial!Outcome(Serial!Start(c), SubSeq(rest, 1, i), t.nonce) = draft
  BY <1>1 DEF History
<1>b. PICK rest \in Serial!Remainders(plan) : \E i \in 0..Len(rest) :
        /\ t.todo = SubSeq(rest, i + 1, Len(rest))
        /\ Serial!Outcome(Serial!Start(c), SubSeq(rest, 1, i), t.nonce) = draft
  BY <1>a
<1>2. PICK i \in 0..Len(rest) :
        /\ t.todo = SubSeq(rest, i + 1, Len(rest))
        /\ Serial!Outcome(Serial!Start(c), SubSeq(rest, 1, i), t.nonce) = draft
  BY <1>b
<1>3. rest \in Seq(Command)
  BY RemainderType
<1>4. i < Len(rest)
  BY <1>1, <1>2, <1>3
<1>5. /\ Head(t.todo) = rest[i + 1] /\ Tail(t.todo) = SubSeq(rest, (i + 1) + 1, Len(rest))
      /\ i + 1 \in 0..Len(rest)
  BY <1>2, <1>3, <1>4
<1> DEFINE cmd == rest[i + 1]
<1>6. Serial!Outcome(Serial!Start(c), SubSeq(rest, 1, i + 1), t.nonce)
        = Serial!Call1(t.nonce, draft, cmd)
  BY <1>2, <1>3, <1>4, OutcomeStep
<1>7. /\ txn'[p].phase = "held" /\ txn'[p].todo = Tail(t.todo) /\ txn'[p].nonce = t.nonce
      /\ txn'[p].call = c
      /\ Serial!Start(txn[p].call)' = Serial!Start(c)
  <2>1. CASE Skip(p)
    BY <1>1, <2>1 DEF Skip, TypeOK, Transaction, Serial!Start
  <2>2. CASE Record(p)
    BY <1>1, <2>2 DEF Record, TypeOK, Transaction, Serial!Start
  <2> QED
    BY <2>1, <2>2
<1>8. t.status # "absent"
  BY <1>1 DEF Draft
<1>9. Serial!Call1(t.nonce, draft, cmd)
        = [status |-> txn'[p].status, events |-> txn'[p].events, refused |-> FALSE]
  <2>1. CASE Skip(p)
    <3>1. Redundant(cmd, t.status, t.events) /\ txn'[p].status = t.status /\ txn'[p].events = t.events
      BY <1>1, <1>5, <2>1 DEF Skip, TypeOK, Transaction
    <3> QED
      BY <1>8, <3>1, CallIgnored
  <2>2. CASE Record(p)
    <3>1. /\ ~ Redundant(cmd, t.status, t.events) /\ ~ Refused(cmd, t.status)
          /\ txn'[p].status = After(cmd, t.status)
          /\ txn'[p].events = t.events \union {NewEvent(cmd, t.nonce, t.events)}
      BY <1>1, <1>5, <2>2 DEF Record, TypeOK, Transaction, After
    <3>2. Serial!Call1(t.nonce, draft, cmd)
            = [status |-> After(cmd, t.status),
               events |-> t.events \union {NewEvent(cmd, t.nonce, t.events)}, refused |-> FALSE]
      <4>1. t.status # "absent" /\ ~ Redundant(cmd, t.status, t.events) /\ ~ Refused(cmd, t.status)
        BY <1>8, <3>1
      <4> HIDE DEF t, cmd
      <4> QED
        BY <4>1, CallRecords
    <3> QED
      BY <3>1, <3>2
  <2> QED
    BY <2>1, <2>2
<1> HIDE DEF t, c, cmd, draft
<1>10. /\ txn'[p].todo = SubSeq(rest, (i + 1) + 1, Len(rest))
       /\ Serial!Outcome(Serial!Start(txn[p].call)', SubSeq(rest, 1, i + 1), txn'[p].nonce)
            = [status |-> txn'[p].status, events |-> txn'[p].events, refused |-> FALSE]
  BY <1>5, <1>6, <1>7, <1>9
<1> QED
  BY <1>5, <1>7, <1>10 DEF History

\* A step of one process leaves the rows that others hold alone.
LEMMA HeldRowsKept ==
  ASSUME Inv, NEW p \in Process, StepOf(p), NEW q \in Process, q # p, txn[q].phase = "held"
  PROVE  /\ sessionRow'[txn[q].call] = sessionRow[txn[q].call]
         /\ trace'[txn[q].call] = trace[txn[q].call]
<1>1. TypeOK /\ Draft(q) /\ Draft(p) /\ Pending(q) /\ txn[q].call \in Call
  BY DEF Inv, Pending
<1>2. CASE UNCHANGED <<sessionRow, trace>>
  BY <1>2
<1>3. CASE Commit(p) /\ txn[p].phase = "held"
  <2>1. /\ txn[p].call \in Call /\ trace' = [trace EXCEPT ![txn[p].call] = txn[p].events]
        /\ sessionRow' = [sessionRow EXCEPT ![txn[p].call] = txn[p].status]
    BY <1>3, CommitIsDraft
  <2>2. txn[q].call # txn[p].call
    BY <1>1, <1>3 DEF Draft
  <2> QED
    BY <1>1, <2>1, <2>2 DEF TypeOK
<1>4. Commit(p) /\ txn[p].phase # "held" => UNCHANGED <<sessionRow, trace>>
  BY DEF Commit
<1>5. Work(p) \/ Refuse(p) \/ Abort(p) \/ UNCHANGED vars => UNCHANGED <<sessionRow, trace>>
  BY <1>1, OwnTransaction DEF Refuse, Abort, vars
<1>6. (\E c \in Call, plan \in Plan : Begin(p, c, plan)) => UNCHANGED <<sessionRow, trace>>
  BY DEF Begin
<1> QED
  BY <1>2, <1>3, <1>4, <1>5, <1>6 DEF StepOf

\* Every step keeps every history.
LEMMA SerialNext ==
  ASSUME Inv, SerialInv, NEW p \in Process, StepOf(p)
  PROVE  SerialInv'
<1>1. TypeOK
  BY DEF Inv
<1>2. ASSUME NEW q \in Process, q # p PROVE History(q)'
  <2>1. txn'[q] = txn[q]
    BY <1>1, <1>2, OthersUntouched
  <2>2. txn[q].phase = "held" => /\ sessionRow'[txn[q].call] = sessionRow[txn[q].call]
                                 /\ trace'[txn[q].call] = trace[txn[q].call]
    BY <1>2, HeldRowsKept
  <2> QED
    BY <2>1, <2>2, HistoryKept DEF SerialInv
<1>3. History(p)
  BY DEF SerialInv
<1>4. ASSUME NEW c \in Call, NEW plan \in Plan, Begin(p, c, plan) PROVE History(p)'
  BY <1>1, <1>4, HistoryBegins
<1>5. ASSUME Work(p) PROVE History(p)'
  BY <1>1, <1>3, <1>5, HistoryOfMiss, HistoryOfLoad, HistoryOfCreate, HistoryOfCommand DEF Work
<1>6. ASSUME Commit(p) \/ Refuse(p) \/ Abort(p) PROVE History(p)'
  <2>1. txn'[p].phase = "idle"
    BY <1>1, <1>6, OwnTransaction
  <2> QED
    BY <2>1 DEF History
<1>7. ASSUME UNCHANGED vars PROVE History(p)'
  <2>1. /\ txn'[p] = txn[p] /\ sessionRow'[txn[p].call] = sessionRow[txn[p].call]
        /\ trace'[txn[p].call] = trace[txn[p].call]
    BY <1>7 DEF vars
  <2> QED
    BY <1>3, <2>1, HistoryKept
<1>8. History(p)'
  BY <1>4, <1>5, <1>6, <1>7 DEF StepOf
<1>9. begun' <= MaxTxn
  <2>1. ASSUME NEW c \in Call, NEW plan \in Plan, Begin(p, c, plan) PROVE begun' <= MaxTxn
    BY <1>1, <2>1, BoundAssumption DEF Begin, TypeOK
  <2>2. (Work(p) \/ Commit(p) \/ Refuse(p) \/ Abort(p) \/ UNCHANGED vars) => begun' = begun
    BY DEF Work, LoadForUpdate, LoadMiss, Create, CreateConflict, Skip, Record, Commit, Refuse,
           Abort, vars
  <2> QED
    BY <2>1, <2>2 DEF StepOf, SerialInv
<1> QED
  BY <1>2, <1>8, <1>9 DEF SerialInv

\* A commit is one step of the abstract store: the plan, or what was left of it when the
\* session appeared, runs alone on the trace as the commit finds it.
LEMMA CommitIsTransact ==
  ASSUME Inv, SerialInv, NEW p \in Process, Commit(p), txn[p].phase = "held"
  PROVE  Serial!Next
<1> DEFINE t == txn[p]
           c == t.call
<1>1. /\ c \in Call /\ trace' = [trace EXCEPT ![c] = t.events]
      /\ sessionRow' = [sessionRow EXCEPT ![c] = t.status]
  BY CommitIsDraft
<1>2. t.nonce \in 1..MaxTxn
  <2>1. t.nonce \in 1..begun /\ begun \in Nat /\ begun <= MaxTxn /\ MaxTxn \in Nat
    BY BoundAssumption DEF Inv, Nonces, TypeOK, SerialInv
  <2> QED
    BY <2>1
<1>3. t.todo = << >>
  BY DEF Commit
<1>4. PICK plan \in Plan : \E rest \in Serial!Remainders(plan) : \E i \in 0..Len(rest) :
        /\ t.todo = SubSeq(rest, i + 1, Len(rest))
        /\ Serial!Outcome(Serial!Start(c), SubSeq(rest, 1, i), t.nonce)
             = [status |-> t.status, events |-> t.events, refused |-> FALSE]
  BY DEF SerialInv, History
<1>5. PICK rest \in Serial!Remainders(plan) : \E i \in 0..Len(rest) :
        /\ t.todo = SubSeq(rest, i + 1, Len(rest))
        /\ Serial!Outcome(Serial!Start(c), SubSeq(rest, 1, i), t.nonce)
             = [status |-> t.status, events |-> t.events, refused |-> FALSE]
  BY <1>4
<1>6. PICK i \in 0..Len(rest) :
        /\ t.todo = SubSeq(rest, i + 1, Len(rest))
        /\ Serial!Outcome(Serial!Start(c), SubSeq(rest, 1, i), t.nonce)
             = [status |-> t.status, events |-> t.events, refused |-> FALSE]
  BY <1>5
<1>7. rest \in Seq(Command)
  BY RemainderType
<1>8. i = Len(rest) /\ SubSeq(rest, 1, i) = rest
  BY <1>3, <1>6, <1>7
<1>9. Serial!Outcome(Serial!Start(c), rest, t.nonce)
        = [status |-> t.status, events |-> t.events, refused |-> FALSE]
  BY <1>6, <1>8
<1>10. Serial!Transact(c, rest, t.nonce)
  <2> DEFINE s == Serial!Outcome(Serial!Start(c), rest, t.nonce)
  <2>1. ~ s.refused /\ s.status = t.status /\ s.events = t.events
    BY <1>9
  <2> HIDE DEF s
  <2>2. /\ ~ s.refused
        /\ sessionRow' = [sessionRow EXCEPT ![c] = s.status]
        /\ trace' = [trace EXCEPT ![c] = s.events]
    BY <1>1, <2>1
  <2> QED
    BY <2>2 DEF Serial!Transact, s
<1> QED
  BY <1>1, <1>2, <1>10 DEF Serial!Next

\* Transactions are serial: whatever they interleave, every commit is one atomic step of
\* the store that has neither locks nor snapshots, and every other step is none.
THEOREM TransactionsAreSerial == Spec => Serializable
<1>1. Init => SerialInv /\ Serial!Init
  BY BoundAssumption DEF Init, SerialInv, History, Idle, Serial!Init
<1>2. ASSUME Inv, SerialInv, [Next]_vars PROVE SerialInv' /\ [Serial!Next]_<<sessionRow, trace>>
  <2>1. SerialInv'
    <3>1. CASE UNCHANGED vars
      <4>1. \A q \in Process : History(q)'
        <5> TAKE q \in Process
        <5>1. /\ txn'[q] = txn[q] /\ sessionRow'[txn[q].call] = sessionRow[txn[q].call]
              /\ trace'[txn[q].call] = trace[txn[q].call]
          BY <3>1 DEF vars
        <5> QED
          BY <1>2, <5>1, HistoryKept DEF SerialInv
      <4> QED
        BY <1>2, <3>1, <4>1 DEF SerialInv, vars
    <3>2. ASSUME NEW p \in Process, StepOf(p) PROVE SerialInv'
      BY <1>2, <3>2, SerialNext
    <3>3. Next => \E p \in Process : StepOf(p)
      BY DEF Next, Advance, StepOf
    <3> QED
      BY <1>2, <3>1, <3>2, <3>3
  <2>2. [Serial!Next]_<<sessionRow, trace>>
    BY <1>2, OnlyCommitsWrite, CommitIsTransact
  <2> QED
    BY <2>1, <2>2
<1>3. Inv /\ SerialInv /\ [Next]_vars => SerialInv' /\ [Serial!Next]_<<sessionRow, trace>>
  BY <1>2
<1> QED
  BY <1>1, <1>3, Invariance, PTL DEF Spec, Serializable, Serial!Spec
===============================================================================
