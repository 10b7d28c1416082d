-------------------------------- MODULE Auth ----------------------------------
(* Dashboard authentication: the singleton credentials row, the tokens issued  *)
(* against its epoch, and the requests that read the row, decide and answer.   *)
(* A request reads the row once and decides on that copy, so that a logout may *)
(* commit in between. Bodies, cookie flags and the signature are left out: a   *)
(* token is the record of its claims and nobody makes one up.                  *)
EXTENDS Naturals

CONSTANTS Conn,         \* requests that may be under way, each from one client
          None,
          AccessTTL, SlidingTTL, AbsoluteTTL   \* life times, in ticks

ASSUME TTLAssumption == AccessTTL \in Nat /\ SlidingTTL \in Nat /\ AbsoluteTTL \in Nat \ {0}

VARIABLES credentials,  \* the app_credentials row or None
          clock,
          exchange,     \* Conn -> its request and what became of it
          sessions,     \* history: the sessions started so far
          revoked       \* history: those there were when the last logout committed

authVars == <<credentials, clock, exchange, sessions, revoked>>

Operation == {"none", "status", "setup", "login", "refresh", "logout", "query"}
Step == {"idle", "sent", "read", "created", "answered"}

Denied == [ok |-> FALSE, access |-> None, refresh |-> None, secret |-> None]
Granted == [Denied EXCEPT !.ok = TRUE]
Idle == [op |-> "none", step |-> "idle", token |-> None, row |-> None,
         answer |-> Denied, stale |-> FALSE]

AuthInit == /\ credentials = None
            /\ clock = 0
            /\ exchange = [x \in Conn |-> Idle]
            /\ sessions = 0
            /\ revoked = 0

-------------------------------------------------------------------------------
(* Tokens. Every token bears the number and the start of the session it        *)
(* descends from: that is history, the code has no such claims.                *)

AccessToken(session, start, epoch) ==
  [type |-> "access", session |-> session, start |-> start, epoch |-> epoch,
   exp |-> clock + AccessTTL]

RefreshToken(session, start, epoch, absExp) ==
  [type |-> "refresh", session |-> session, start |-> start, epoch |-> epoch,
   exp |-> clock + SlidingTTL, absExp |-> absExp]

Decodes(token, type) == token # None /\ token.type = type /\ clock < token.exp

Unrevoked(token, row) == row # None /\ token.epoch = row.epoch

\* Mutant: the two tokens in each other's place.
PairSwapped(session, start, row, absExp) ==
  [ok |-> TRUE, access |-> RefreshToken(session, start, row.epoch, absExp),
   refresh |-> AccessToken(session, start, row.epoch), secret |-> None]

Pair(session, start, row, absExp) ==
  [ok |-> TRUE, access |-> AccessToken(session, start, row.epoch),
   refresh |-> RefreshToken(session, start, row.epoch, absExp), secret |-> None]

\* Mutant: the rotation starts a new absolute window.
RotatedForever(token, row, absExp) == Pair(token.session, token.start, row, clock + AbsoluteTTL)
\* Mutant: the new tokens bear the epoch of the row as it is by now.
RotatedReread(token, row, absExp) == Pair(token.session, token.start, credentials, absExp)

\* What a token of a session is exchanged for, rotated against a row.
Rotated(token, row, absExp) == Pair(token.session, token.start, row, absExp)

MayQuery(x) == /\ Decodes(exchange[x].token, "access")
               /\ Unrevoked(exchange[x].token, credentials)

\* Mutant: a refresh that does not look at the epoch.
MayRefreshRevoked(x) == /\ Decodes(exchange[x].token, "refresh")
                        /\ exchange[x].row # None
                        /\ exchange[x].token.absExp > clock

MayRefresh(x) == /\ Decodes(exchange[x].token, "refresh")
                 /\ Unrevoked(exchange[x].token, exchange[x].row)
                 /\ exchange[x].token.absExp > clock

-------------------------------------------------------------------------------
(* A request is sent with the token the client attaches, reads the row, and is *)
(* answered. One that only compares with the row is answered as it reads it.   *)

Request(op, token) ==
  [Idle EXCEPT !.op = op, !.step = "sent", !.token = token,
               !.stale = token # None /\ token.session <= revoked]

Answer(x, answer) ==
  exchange' = [exchange EXCEPT ![x].step = "answered", ![x].row = None, ![x].answer = answer]

ReadRow(x) ==
  /\ exchange[x].step = "sent" /\ exchange[x].op \in {"setup", "login", "refresh", "logout"}
  /\ exchange' = [exchange EXCEPT ![x].step = "read", ![x].row = credentials]
  /\ UNCHANGED <<credentials, clock, sessions, revoked>>

Asking(x, op) == exchange[x].step = "sent" /\ exchange[x].op = op
Deciding(x, op) == exchange[x].step = "read" /\ exchange[x].op = op

Status(x) == /\ Asking(x, "status")
             /\ Answer(x, [Denied EXCEPT !.ok = credentials = None])
             /\ UNCHANGED <<credentials, clock, sessions, revoked>>

\* A user whom setup turns away, or who typed something else than the account.
Refuse(x) == /\ \/ Deciding(x, "setup")
                \/ Deciding(x, "login")
                \/ Deciding(x, "refresh") /\ ~MayRefresh(x)
                \/ Asking(x, "query") /\ ~MayQuery(x)
             /\ Answer(x, Denied)
             /\ UNCHANGED <<credentials, clock, sessions, revoked>>

\* Mutant: an upsert, which the second of two setups wins.
AnyRow == TRUE

\* The row of a concurrent setup makes the insert fail.
NoRow == credentials = None

Provision(x) ==
  /\ Deciding(x, "setup") /\ exchange[x].row = None
  /\ NoRow
  /\ credentials' = [epoch |-> 0, secret |-> x]
  /\ exchange' = [exchange EXCEPT ![x].step = "created", ![x].row = credentials']
  /\ UNCHANGED <<clock, sessions, revoked>>

StartSession(x) ==
  /\ \/ exchange[x].step = "created"
     \/ Deciding(x, "login") /\ exchange[x].row # None
  /\ sessions' = sessions + 1
  /\ LET tokens == Pair(sessions', clock, exchange[x].row, clock + AbsoluteTTL)
     IN Answer(x, IF exchange[x].op = "login" THEN tokens ELSE [tokens EXCEPT !.secret = x])
  /\ UNCHANGED <<credentials, clock, revoked>>

Refresh(x) ==
  /\ Deciding(x, "refresh") /\ MayRefresh(x)
  /\ LET token == exchange[x].token
     IN Answer(x, Rotated(token, exchange[x].row, token.absExp))
  /\ UNCHANGED <<credentials, clock, sessions, revoked>>

\* UPDATE ... SET session_epoch = session_epoch + 1, on the row as it is.
Logout(x) ==
  /\ Deciding(x, "logout")
  /\ IF exchange[x].row = None
     THEN UNCHANGED <<credentials, revoked>>
     ELSE /\ credentials' = [credentials EXCEPT !.epoch = @ + 1]
          /\ revoked' = sessions
  /\ Answer(x, Granted)
  /\ UNCHANGED <<clock, sessions>>

Query(x) == /\ Asking(x, "query") /\ MayQuery(x)
            /\ Answer(x, Granted)
            /\ UNCHANGED <<credentials, clock, sessions, revoked>>

Serve(x) == \/ ReadRow(x) \/ Status(x) \/ Refuse(x) \/ Provision(x) \/ StartSession(x)
            \/ Refresh(x) \/ Logout(x) \/ Query(x)

Tick == /\ clock' = clock + 1
        /\ UNCHANGED <<credentials, exchange, sessions, revoked>>

-------------------------------------------------------------------------------
AccessTokens == [type : {"access"}, session : Nat, start : Nat, epoch : Nat, exp : Nat]
RefreshTokens ==
  [type : {"refresh"}, session : Nat, start : Nat, epoch : Nat, exp : Nat, absExp : Nat]
Rows == [epoch : Nat, secret : Conn]
ASSUME NoneAssumption == None \notin Conn /\ None \notin Rows

Answers == [ok : BOOLEAN, access : AccessTokens \union {None},
            refresh : RefreshTokens \union {None}, secret : Conn \union {None}]

Exchanges == [op : Operation, step : Step,
              token : AccessTokens \union RefreshTokens \union {None},
              row : Rows \union {None}, answer : Answers, stale : BOOLEAN]

\* The state of auth.py and its row has the types of the code.
AuthTypeOK == /\ credentials \in Rows \union {None}
              /\ clock \in Nat
              /\ sessions \in Nat
              /\ revoked \in Nat
              /\ exchange \in [Conn -> Exchanges]

\* A token whose session had begun when a logout committed opens nothing in any
\* request sent after it: neither data nor, rotated, another token. Nor do its
\* descendants (auth.py 253, 297; models.py: "globally revoke all previously issued").
RevokedStaysOut ==
  \A x \in Conn : exchange[x].stale /\ exchange[x].op \in {"query", "refresh"}
                     => ~exchange[x].answer.ok

\* However often it is rotated, no session opens anything later than the
\* absolute cap after its start and one access token's life (auth.py 256, 262).
SessionCapped ==
  \A x \in Conn : LET token == exchange[x].answer.access
                  IN token # None => token.exp < token.start + AbsoluteTTL + AccessTTL

\* Of concurrent setups one wins, and the webhook secret that is shown, once, is
\* the one that is stored (auth.py 180-199).
ShownSecretIsStored ==
  \A x \in Conn : exchange[x].answer.secret # None
                     => /\ credentials # None
                        /\ credentials.secret = exchange[x].answer.secret

-------------------------------------------------------------------------------
(* The inductive invariant of the proofs: what holds of a token wherever it    *)
(* is, and of a row that a request copied.                                     *)

Known(token) ==
  token # None =>
    /\ credentials # None
    /\ token.session <= sessions
    /\ token.epoch <= credentials.epoch
    /\ token.session <= revoked => token.epoch < credentials.epoch
    /\ token.type = "access" => token.exp < token.start + AbsoluteTTL + AccessTTL
    /\ token.type = "refresh" => token.absExp = token.start + AbsoluteTTL

\* A copied row is an earlier state of the row, and the row of a setup that
\* created it; a request with a token of an ended session finds an epoch past the
\* token's.
Sound(x, e) ==
  /\ Known(e.token) /\ Known(e.answer.access) /\ Known(e.answer.refresh)
  /\ e.row # None => credentials # None /\ e.row.epoch <= credentials.epoch
  /\ e.step = "created" => e.op = "setup" /\ e.row # None /\ credentials.secret = x
  /\ e.stale => /\ e.token # None
                /\ e.token.session <= revoked
                /\ e.step = "read" => e.row # None /\ e.token.epoch < e.row.epoch
  /\ e.stale /\ e.op \in {"query", "refresh"} => ~e.answer.ok
  /\ e.step # "answered" => e.answer = Denied
  /\ e.answer.secret # None => /\ credentials # None
                               /\ credentials.secret = e.answer.secret

AuthInv == /\ AuthTypeOK
           /\ revoked <= sessions
           /\ \A x \in Conn : Sound(x, exchange[x])
===============================================================================
