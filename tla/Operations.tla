------------------------------ MODULE Operations ------------------------------
(* The platform as its operators see it: the agent registry                    *)
(* (adapters/rest/agent_routes.py), whose rows gate the webhook and own the    *)
(* sessions, and the read side (adapters/rest/query_routes.py), whose requests *)
(* run between any two steps of the handlers and workers, without a lock.      *)
(*                                                                             *)
(* A registration asks the Vapi directory first and is refused unless the      *)
(* assistant was found.  The question reads nothing of this system, so that    *)
(* the one step of a registration is its upsert.                               *)
EXTENDS Platform

CONSTANTS
  AgentId,  \* the primary keys a new agent row may get
  Reader    \* the clients of the read side

VARIABLES
  agents,  \* assistant -> its row of the agents table, or None
  owner,   \* call -> the agent_id of its sessions row, or None
  bound,   \* handler -> the agent_id IngestEvent resolved, or None
  viewed   \* reader -> what its last requests were told

registryVars == <<agents, owner, bound>>
operationsVars == <<allVars, registryVars, viewed>>

AgentRow == [id : AgentId, deleted : BOOLEAN]

ASSUME OperationsAssumption == None \notin AgentId /\ None \notin AgentRow

View == [part : {"none", "row", "all"}, call : Call \union {None}, status : RowStatus,
         events : SUBSET TerminalEvents, reported : SUBSET Call]

Unread == [part |-> "none", call |-> None, status |-> "absent", events |-> {}, reported |-> {}]

OperationsInit ==
  /\ WebhookStart({}) /\ TaskInit
  /\ agents = [a \in Agent |-> None]
  /\ owner = [c \in Call |-> None]
  /\ bound = [h \in Handler |-> None]
  /\ viewed = [r \in Reader |-> Unread]

------------------------------------------------------------------------------
(* The registry.                                                               *)

UsedIds == {agents[a].id : a \in {b \in Agent : agents[b] # None}}

\* INSERT ... ON CONFLICT (vapi_assistant_id) DO UPDATE: a new row gets a new key; the
\* row of a removed agent is reactivated under the key it has.
UpsertAgent(a) ==
  \/ agents[a] = None /\ \E i \in AgentId \ UsedIds :
       agents' = [agents EXCEPT ![a] = [id |-> i, deleted |-> FALSE]]
  \/ agents[a] # None /\ agents' = [agents EXCEPT ![a].deleted = FALSE]

\* POST /agents, for an assistant that is not governed: for another one the upsert
\* changes nothing but its name and its texts.
Register(a) ==
  /\ RegisterAgent(a)
  /\ UpsertAgent(a)
  /\ UNCHANGED <<taskVars, owner, bound, viewed>>

\* DELETE /agents/{id}: a row that is there and not yet deleted; otherwise 404.
Remove(a) ==
  /\ RemoveAgent(a)
  /\ agents' = [agents EXCEPT ![a].deleted = TRUE]
  /\ UNCHANGED <<taskVars, owner, bound, viewed>>

\* The agent_id a handler's IngestEvent holds from its look at the agent to its commit.
Resolved(h) ==
  IF pc'[h] # "persist" THEN None
  ELSE IF pc[h] = "gated" /\ AgentOf[CallOf(h)] \in governed
       THEN agents[AgentOf[CallOf(h)]].id
       ELSE bound[h]

\* A step of a handler or a worker.  The commit that creates a session stores the key
\* its transaction resolved.
Ingest ==
  /\ PlatformNext
  /\ governed' = governed
  /\ bound' = [h \in Handler |-> Resolved(h)]
  /\ owner' = [c \in Call |-> IF sessionRow[c] = "absent" /\ sessionRow'[c] # "absent"
                              THEN bound[rowLock[c]] ELSE owner[c]]
  /\ UNCHANGED <<agents, viewed>>

------------------------------------------------------------------------------
(* The read side.                                                              *)

\* Mutant: the summary joins the agents that are not deleted.
SummaryOfGoverned(c) ==
  {[call |-> c, agent |-> agents[a].id, status |-> sessionRow[c], report |-> r] :
     a \in {b \in governed : agents[b].id = owner[c]},
     r \in IF reports[c] = {} THEN {None} ELSE reports[c]}

\* The rows that a session contributes to a list of sessions: an inner join with the
\* agents, deleted or not, and an outer join with the reports (None stands for pending).
Summary(c) ==
  {[call |-> c, agent |-> agents[a].id, status |-> sessionRow[c], report |-> r] :
     a \in {b \in Agent : agents[b] # None /\ agents[b].id = owner[c]},
     r \in IF reports[c] = {} THEN {None} ELSE reports[c]}

\* GET /sessions and GET /agents/{id}/sessions.
ListSessions == UNION {Summary(c) : c \in Call}
ListAgentSessions(i) == {s \in ListSessions : s.agent = i}

\* GET /agents
ListAgents == {agents[a].id : a \in {b \in Agent : agents[b] # None /\ ~ agents[b].deleted}}

\* What a reader looks for among the events of a session: those that close it.
EventsOut(c) == Types(trace[c]) \intersect TerminalEvents

\* Mutant: the events are read before the row.
GetSessionEventsFirst(r, c) ==
  /\ \/ /\ viewed[r].part # "row"
        /\ viewed' = [viewed EXCEPT ![r].part = "row", ![r].call = c,
                                    ![r].events = EventsOut(c)]
     \/ /\ viewed[r].part = "row" /\ viewed[r].call = c
        /\ viewed' = [viewed EXCEPT ![r].part = "all", ![r].status = sessionRow[c]]
  /\ UNCHANGED <<allVars, registryVars>>

\* A session is loaded by two statements, its row and then, if there is one, its events:
\* GET /sessions/{id} and /sessions/{id}/events.
GetSession(r, c) ==
  /\ \/ /\ viewed[r].part # "row"
        /\ viewed' = [viewed EXCEPT ![r].part = IF sessionRow[c] = "absent" THEN "all" ELSE "row",
                                    ![r].call = c, ![r].status = sessionRow[c],
                                    ![r].events = {}]
     \/ /\ viewed[r].part = "row" /\ viewed[r].call = c
        /\ viewed' = [viewed EXCEPT ![r].part = "all",
                                    ![r].events = EventsOut(c)]
  /\ UNCHANGED <<allVars, registryVars>>

\* GET /sessions/{id}/report, when there is one.
GetReport(r, c) ==
  /\ viewed[r].part # "row"
  /\ reports[c] # {}
  /\ viewed' = [viewed EXCEPT ![r] = [Unread EXCEPT !.reported = viewed[r].reported \union {c}]]
  /\ UNCHANGED <<allVars, registryVars>>

OperationsNext ==
  \/ Ingest
  \/ \E a \in Agent : Register(a) \/ Remove(a)
  \/ \E r \in Reader, c \in Call : GetSession(r, c) \/ GetReport(r, c)

OperationsSpec == OperationsInit /\ [][OperationsNext]_operationsVars
OperationsFairSpec == OperationsSpec /\ PlatformFairness

------------------------------------------------------------------------------
(* Properties.                                                                 *)

\* Every session is listed, and listed once, whatever becomes of its agent while a request
\* holds its key and afterwards ("a soft-deleted agent's sessions keep their name",
\* governance_query.py): under the agent its assistant is registered as, with a result
\* only when it is closed.  The agents that are listed are those the webhook lets in.
SessionsListed ==
  /\ \A c \in Call :
       sessionRow[c] # "absent" =>
         \E s \in ListSessions :
           /\ {t \in ListSessions : t.call = c} = {s}
           /\ s \in ListAgentSessions(agents[AgentOf[c]].id)
           /\ s.report # None => s.status \in Closed
  /\ ListAgents = {agents[a].id : a \in governed}

\* What a reader without a lock is told hangs together, although a commit may come between
\* the two statements (governance_repository.py, _load_session): a session shown as
\* closed comes with the event that closed it, and a session whose report was shown
\* before is shown as closed.
ViewsHangTogether ==
  \A r \in Reader :
    viewed[r].part = "all" =>
      LET v == viewed[r] IN
      /\ v.status \in Closed => v.events # {}
      /\ v.status = "absent" => v.events = {}
      /\ v.call \in v.reported => v.status \in Closed

\* The end of a call closes its session, whether or not its start was seen, unless the
\* agent is removed while the request is under way: only a removal leaves a call whose
\* end arrived open for ever (adapters/rest/vapi.py).
EndCloses ==
  \A c \in Call :
    (\E h \in Handler : pc[h] = "gated" /\ CallOf(h) = c /\ IsTerminal(msg[h])) ~>
      (sessionRow[c] \in Closed \/ AgentOf[c] \notin governed)
===============================================================================
