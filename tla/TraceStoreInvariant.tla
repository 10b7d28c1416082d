------------------------- MODULE TraceStoreInvariant --------------------------
(* The inductive invariant of TraceStore: what the committed trace, the open    *)
(* drafts and the event ids owe each other between any two steps.               *)
EXTENDS TraceStore

\* Distinct events have distinct ids.
Identified(E) == \A e, f \in E : Id(e) = Id(f) => e = f

\* What is recorded once: the marker, the silence aggregate, and a start only in front.
Once(E) ==
  /\ AtMostOne(E, "SESSION_EVALUATION_TRIGGERED")
  /\ AtMostOne(E, "CONVERSATION_SILENCE_DETECTED")
  /\ \A e \in E : e.type = "SESSION_STARTED" => e.seq = 1

\* A trace, committed or in a draft, that agrees with a status.
Sound(status, E) == Numbered(E) /\ Identified(E) /\ LawfulLife(status, E) /\ Once(E)

CommittedSound == \A c \in Call : Sound(sessionRow[c], trace[c])

\* The rest of a plan: only its first command may still need a fresh id.
Remaining(todo) ==
  \A i \in 1..Len(todo) : /\ todo[i].type \in Admits(todo[i].op)
                          /\ Fresh(todo[i]) => i = 1

\* What an open transaction is about to do.
Pending(p) ==
  LET t == txn[p] IN
  t.phase # "idle" =>
    /\ t.call \in Call
    /\ Remaining(t.todo)
    /\ t.phase = "create" => t.todo # << >> /\ t.todo[1].op = "ingest"
    /\ t.todo # << >> /\ t.todo[1].op = "marker" => sessionRow[t.call] \in Closed

\* Ids of fresh events: no two transactions share a nonce, and none is in the trace
\* before the transaction that owns it commits.
Nonces ==
  /\ \A c \in Call : \A e \in trace[c] : e.nonce <= begun
  /\ \A p \in Process : txn[p].phase # "idle" =>
       /\ txn[p].nonce \in 1..begun
       /\ \A c \in Call : \A e \in trace[c] : e.nonce # txn[p].nonce
       /\ \A q \in Process : q # p /\ txn[q].phase # "idle" => txn[q].nonce # txn[p].nonce

\* The draft of a transaction that holds the row is the committed trace with its own
\* events behind it.
Draft(p) ==
  LET t == txn[p] IN
  t.phase = "held" =>
    /\ rowLock[t.call] = p
    /\ t.status # "absent"
    /\ sessionRow[t.call] \in Closed => t.status = sessionRow[t.call]
    /\ Sound(t.status, t.events)
    /\ trace[t.call] \subseteq t.events
    /\ \A f \in t.events \ trace[t.call] :
         /\ f.nonce \in {0, t.nonce}
         /\ \A e \in trace[t.call] : e.seq < f.seq
    /\ t.todo # << >> /\ Fresh(t.todo[1]) => \A e \in t.events : e.nonce # t.nonce

Inv ==
  /\ TypeOK
  /\ CommittedSound
  /\ \A p \in Process : Pending(p) /\ Draft(p)
  /\ Nonces

\* Where a transaction stands in its plan.  Until it holds the row it has changed nothing
\* and may only have lost observations for want of a session; once it holds the row its
\* draft is what the commands run so far yield alone on the committed trace.
History(p) ==
  LET t == txn[p] IN
  /\ t.phase \in {"load", "create"} =>
       t.todo = << >> \/ \E plan \in Plan : t.todo \in Serial!Remainders(plan)
  /\ t.phase = "held" =>
       \E plan \in Plan : \E rest \in Serial!Remainders(plan) : \E i \in 0..Len(rest) :
         /\ t.todo = SubSeq(rest, i + 1, Len(rest))
         /\ Serial!Outcome(Serial!Start(t.call), SubSeq(rest, 1, i), t.nonce)
              = [status |-> t.status, events |-> t.events, refused |-> FALSE]

SerialInv == begun <= MaxTxn /\ \A p \in Process : History(p)
===============================================================================
