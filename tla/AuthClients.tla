----------------------------- MODULE AuthClients ------------------------------
(* The authentication with any clients whatever: they send any operation with  *)
(* any token they were given, as often and as late as they like, and keep and  *)
(* lose tokens, requests and answers. It is what Dashboard implements, and     *)
(* what holds here holds of every client that makes up no tokens.              *)
EXTENDS Auth

VARIABLE held   \* the tokens that clients hold

clientVars == <<authVars, held>>

Given(token) == \E x \in Conn : token \in {exchange[x].answer.access, exchange[x].answer.refresh}

ClientInit == AuthInit /\ held = {None}

\* In one step clients may take up answers, drop tokens, and send or give up
\* requests over several connections.
Clients ==
  /\ UNCHANGED <<credentials, clock, sessions, revoked>>
  /\ \A token \in held' : token \in held \union {None} \/ Given(token)
  /\ exchange' = [x \in Conn |-> exchange'[x]]
  /\ \A x \in Conn : LET e == exchange'[x]
                     IN \/ e = exchange[x]
                        \/ e = Idle
                        \/ /\ e.op \in Operation /\ e.token \in held \union held' \union {None}
                           /\ e = Request(e.op, e.token)

ClientNext == \/ Clients
              \/ UNCHANGED held /\ (Tick \/ \E x \in Conn : Serve(x))

ClientSpec == ClientInit /\ [][ClientNext]_clientVars

\* What clients hold is theirs by an answer.
HeldInv == /\ AuthInv
           /\ held \subseteq AccessTokens \union RefreshTokens \union {None}
           /\ \A token \in held : Known(token)
===============================================================================
