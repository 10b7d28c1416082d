----------------------------- MODULE SerialTrace ------------------------------
(* What the trace store promises its users: each transaction takes effect in   *)
(* one step, on the committed trace, or not at all.  There are no locks, no     *)
(* snapshots and no creation races here.                                       *)
EXTENDS Aggregate, Identifiers

CONSTANTS Plan, MaxTxn

VARIABLES sessionRow, trace

\* The aggregate while a plan runs on it.
State == [status : RowStatus, events : SUBSET Event, refused : BOOLEAN]

\* A call that leaves the aggregate as it is: a refusal has ended the transaction, there
\* is no session, or the call adds nothing to the session there is.
Passed(s, cmd) ==
  \/ s.refused
  \/ s.status = "absent" /\ cmd.op # "ingest"
  \/ s.status # "absent" /\ Redundant(cmd, s.status, s.events)

\* One use-case call on the aggregate: ignored, refused, or recorded; an ingested event
\* opens the session it does not find.
Call1(nonce, s, cmd) ==
  LET status == IF s.status = "absent" THEN "active" ELSE s.status IN
  CASE Passed(s, cmd) -> s
    [] ~ Passed(s, cmd) /\ s.status # "absent" /\ Refused(cmd, s.status) -> [s EXCEPT !.refused = TRUE]
    [] OTHER -> [status  |-> IF cmd.op = "ingest" THEN StatusAfter(status, cmd.type) ELSE status,
                 events  |-> s.events \union {NewEvent(cmd, nonce, s.events)},
                 refused |-> FALSE]

\* The aggregate of a call as its rows hold it.
Start(c) == [status |-> sessionRow[c], events |-> trace[c], refused |-> FALSE]

\* What a plan leaves that runs alone on an aggregate.
Outcome(s, plan, nonce) ==
  LET after[n \in 0..Len(plan)] == IF n = 0 THEN s ELSE Call1(nonce, after[n - 1], plan[n])
  IN after[Len(plan)]

Init ==
  /\ sessionRow = [c \in Call |-> "absent"]
  /\ trace = [c \in Call |-> {}]

Transact(c, plan, nonce) ==
  LET s == Outcome(Start(c), plan, nonce) IN
  /\ ~ s.refused
  /\ sessionRow' = [sessionRow EXCEPT ![c] = s.status]
  /\ trace' = [trace EXCEPT ![c] = s.events]

\* A plan whose observations arrive before their session exists may lose the first of
\* them to raw-only and still record the rest, when the session appears in between:
\* each call of RecordSystemObservation looks for the session anew.
Remainders(plan) ==
  {SubSeq(plan, k, Len(plan)) : k \in {1} \union
     {i \in 2..Len(plan) : \A j \in 1..(i - 1) : plan[j].op = "observe"}}

Next ==
  \E c \in Call, plan \in Plan, nonce \in 1..MaxTxn :
    \E rest \in Remainders(plan) : Transact(c, rest, nonce)

Spec == Init /\ [][Next]_<<sessionRow, trace>>
===============================================================================
