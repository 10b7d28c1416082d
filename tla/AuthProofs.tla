------------------------------ MODULE AuthProofs ------------------------------
(* Proofs about Auth and any clients of it, over any number of connections and *)
(* for any life times.                                                         *)
EXTENDS AuthClients, TLAPS

USE TTLAssumption, NoneAssumption

(* A denial is an answer.                                                      *)
LEMMA DeniedIsAnswer == Denied \in Answers /\ Granted \in Answers
  BY DEF Denied, Granted, Answers

(* A connection without a request satisfies what is required of one.           *)
LEMMA IdleSound == Idle \in Exchanges /\ \A x \in Conn : Sound(x, Idle)
<1>1. Idle \in Exchanges
  BY DeniedIsAnswer DEF Idle, Exchanges, Operation, Step
<1>2. ASSUME NEW x \in Conn PROVE Sound(x, Idle)
  BY DEF Sound, Known, Idle, Denied
<1> QED
  BY <1>1, <1>2

(* At first there is neither an account nor a token.                           *)
LEMMA InitAuth == AuthInit => AuthInv
  BY IdleSound DEF AuthInit, AuthInv, AuthTypeOK

\* What is known of a token stays known, whatever the server does.
LEMMA KnownStays ==
  ASSUME AuthInv, NEW x \in Conn, Serve(x),
         NEW k \in AccessTokens \union RefreshTokens \union {None}, Known(k)
  PROVE  Known(k)'
<1>1. CASE k = None
  BY <1>1 DEF Known
<1>2. CASE k # None
  <2>1. k.session \in Nat /\ k.epoch \in Nat
    BY <1>2 DEF AccessTokens, RefreshTokens
  <2>2. credentials \in Rows /\ credentials # None /\ credentials.epoch \in Nat
    BY <1>2 DEF Known, AuthInv, AuthTypeOK, Rows
  <2>3. CASE UNCHANGED <<credentials, sessions, revoked>>
    BY <2>3 DEF Known
  <2>4. CASE StartSession(x)
    BY <1>2, <2>1, <2>4 DEF StartSession, Known, AuthInv, AuthTypeOK
  <2>5. CASE Logout(x) /\ exchange[x].row # None
    <3>1. credentials' # None /\ credentials'.epoch = credentials.epoch + 1
      BY <2>2, <2>5 DEF Logout, Rows
    <3>2. revoked' = sessions /\ sessions' = sessions
      BY <2>5 DEF Logout
    <3> QED
      BY <1>2, <2>1, <2>2, <3>1, <3>2 DEF Known
  <2>6. ~Provision(x)
    BY <2>2 DEF Provision, NoRow
  <2> QED
    BY <2>3, <2>4, <2>5, <2>6
    DEF Serve, ReadRow, Status, Refuse, Refresh, Logout, Query
<1> QED
  BY <1>1, <1>2

\* A step that leaves the row and the history alone and changes one exchange is
\* judged by that exchange.
LEMMA OneExchange ==
  ASSUME AuthInv, NEW x \in Conn, NEW e \in Exchanges,
         UNCHANGED <<credentials, clock, sessions, revoked>>,
         exchange' = [exchange EXCEPT ![x] = e],
         Sound(x, e)
  PROVE  AuthInv'
<1>1. AuthTypeOK'
  BY DEF AuthInv, AuthTypeOK, Rows
<1>2. ASSUME NEW y \in Conn PROVE Sound(y, exchange[y])'
  <2>1. exchange'[y] = IF y = x THEN e ELSE exchange[y]
    BY DEF AuthInv, AuthTypeOK
  <2>2. Sound(y, exchange'[y])
    BY <2>1 DEF AuthInv
  <2> QED
    BY <2>2 DEF Sound, Known
<1> QED
  BY <1>1, <1>2 DEF AuthInv

\* An answer that is itself sound leaves the exchange sound.
LEMMA AnswerSound ==
  ASSUME AuthInv, NEW x \in Conn, NEW a \in Answers, Answer(x, a),
         UNCHANGED <<credentials, clock, sessions, revoked>>,
         Known(a.access), Known(a.refresh),
         a.secret # None => credentials # None /\ credentials.secret = a.secret,
         exchange[x].stale /\ exchange[x].op \in {"query", "refresh"} => ~a.ok
  PROVE  AuthInv'
<1> DEFINE e == [exchange[x] EXCEPT !.step = "answered", !.row = None, !.answer = a]
<1>1. exchange[x] \in Exchanges /\ Sound(x, exchange[x])
  BY DEF AuthInv, AuthTypeOK
<1>2. e \in Exchanges
  BY <1>1 DEF Exchanges, Step
<1>3. exchange' = [exchange EXCEPT ![x] = e]
  BY <1>1 DEF Answer, AuthInv, AuthTypeOK
<1>4. Sound(x, e)
  BY <1>1 DEF Sound, Exchanges
<1> QED
  BY <1>2, <1>3, <1>4, OneExchange

(* A request copies the row as it is.                                          *)
LEMMA ReadRowInv == ASSUME AuthInv, NEW x \in Conn, ReadRow(x) PROVE AuthInv'
<1> DEFINE e == [exchange[x] EXCEPT !.step = "read", !.row = credentials]
<1>1. exchange[x] \in Exchanges /\ Sound(x, exchange[x])
  BY DEF AuthInv, AuthTypeOK
<1>2. e \in Exchanges
  BY <1>1 DEF Exchanges, Step, AuthInv, AuthTypeOK
<1>3. exchange' = [exchange EXCEPT ![x] = e]
  BY <1>1 DEF ReadRow, AuthInv, AuthTypeOK
<1>4. Sound(x, e)
  BY <1>1 DEF Sound, Known, ReadRow, Exchanges, AuthInv, AuthTypeOK, Rows
<1> QED
  BY <1>2, <1>3, <1>4, OneExchange DEF ReadRow

(* Asking for the status changes nothing.                                      *)
LEMMA StatusInv == ASSUME AuthInv, NEW x \in Conn, Status(x) PROVE AuthInv'
<1> DEFINE a == [Denied EXCEPT !.ok = credentials = None]
<1>1. a \in Answers
  BY DEF Denied, Answers
<1>2. exchange[x].op = "status"
  BY DEF Status, Asking
<1> QED
  BY <1>1, <1>2, AnswerSound DEF Status, Denied, Known

(* A refusal hands out nothing.                                                *)
LEMMA RefuseInv == ASSUME AuthInv, NEW x \in Conn, Refuse(x) PROVE AuthInv'
  BY DeniedIsAnswer, AnswerSound DEF Refuse, Denied, Known

\* A stale token's epoch is behind that of the row it is compared with.
LEMMA QueryInv == ASSUME AuthInv, NEW x \in Conn, Query(x) PROVE AuthInv'
<1>1. ~exchange[x].stale
  BY DEF Query, MayQuery, Unrevoked, AuthInv, AuthTypeOK, Sound, Known, Exchanges,
         AccessTokens, RefreshTokens, Rows
<1> QED
  BY <1>1, DeniedIsAnswer, AnswerSound DEF Query, Granted, Denied, Known

(* Time takes no token's history away.                                         *)
LEMMA TickInv == ASSUME AuthInv, Tick PROVE AuthInv'
<1>1. AuthTypeOK'
  BY DEF Tick, AuthInv, AuthTypeOK, Rows
<1> QED
  BY <1>1 DEF Tick, AuthInv, Sound, Known

\* Before the row exists nobody holds a token or a copy of it.
LEMMA ProvisionInv == ASSUME AuthInv, NEW x \in Conn, Provision(x) PROVE AuthInv'
<1> DEFINE e == [exchange[x] EXCEPT !.step = "created", !.row = credentials']
<1>1. credentials' \in Rows
  BY DEF Provision, Rows
<1>2. \A y \in Conn : exchange[y] \in Exchanges /\ Sound(y, exchange[y])
  BY DEF AuthInv, AuthTypeOK
<1>3. e \in Exchanges
  BY <1>1, <1>2 DEF Exchanges, Step
<1>4. exchange' = [exchange EXCEPT ![x] = e]
  BY <1>2 DEF Provision, AuthInv, AuthTypeOK
<1>5. AuthTypeOK'
  BY <1>1, <1>3, <1>4 DEF Provision, AuthInv, AuthTypeOK
<1>6. ASSUME NEW y \in Conn PROVE Sound(y, exchange[y])'
  <2>1. /\ exchange[y].token = None /\ exchange[y].answer.access = None
        /\ exchange[y].answer.refresh = None /\ exchange[y].row = None
        /\ exchange[y].answer.secret = None /\ ~exchange[y].stale
        /\ exchange[y].step # "created"
    BY <1>2 DEF Provision, NoRow, Sound, Known, Exchanges
  <2>2. CASE y = x
    <3>1. exchange'[y] = e
      BY <1>4, <2>2 DEF AuthInv, AuthTypeOK
    <3>2. exchange[x].step = "read" /\ exchange[x].op = "setup"
      BY DEF Provision, Deciding
    <3>3. /\ e.row = credentials' /\ credentials' # None
          /\ credentials'.epoch = 0 /\ credentials'.secret = x
      BY <1>1, <1>2 DEF Provision, Exchanges
    <3> QED
      BY <1>2, <2>1, <2>2, <3>1, <3>2, <3>3 DEF Sound, Known, Exchanges
  <2>3. CASE y # x
    <3>1. exchange'[y] = exchange[y]
      BY <1>4, <2>3 DEF AuthInv, AuthTypeOK
    <3> QED
      BY <1>2, <2>1, <3>1 DEF Sound, Known
  <2> QED
    BY <2>2, <2>3
<1> QED
  BY <1>5, <1>6 DEF AuthInv, Provision

\* The tokens of a row of the past are those of its epoch, which is at most the
\* present one; behind it if the session they continue has ended.
LEMMA PairKnown ==
  ASSUME AuthInv, NEW session \in Nat, NEW start \in Nat, NEW row \in Rows, NEW absExp \in Nat,
         credentials # None, row.epoch <= credentials.epoch, session <= sessions,
         session <= revoked => row.epoch < credentials.epoch,
         absExp = start + AbsoluteTTL, clock < absExp
  PROVE  /\ Pair(session, start, row, absExp) \in Answers
         /\ Known(Pair(session, start, row, absExp).access)
         /\ Known(Pair(session, start, row, absExp).refresh)
<1> DEFINE a == AccessToken(session, start, row.epoch)
           r == RefreshToken(session, start, row.epoch, absExp)
<1>1. Pair(session, start, row, absExp) = [ok |-> TRUE, access |-> a, refresh |-> r, secret |-> None]
  BY DEF Pair
<1>2. a \in AccessTokens /\ r \in RefreshTokens
  BY DEF AccessToken, RefreshToken, AccessTokens, RefreshTokens, Rows, AuthInv, AuthTypeOK
<1>3. Known(a)
  BY DEF Known, AccessToken, Rows, AuthInv, AuthTypeOK
<1>4. Known(r)
  BY DEF Known, RefreshToken, Rows, AuthInv, AuthTypeOK
<1> HIDE DEF a, r
<1>5. Pair(session, start, row, absExp) \in Answers
  <2>1. ASSUME NEW b \in AccessTokens, NEW c \in RefreshTokens
        PROVE  [ok |-> TRUE, access |-> b, refresh |-> c, secret |-> None] \in Answers
    BY DEF Answers
  <2> QED
    BY <1>1, <1>2, <2>1
<1> QED
  BY <1>1, <1>3, <1>4, <1>5

(* A refresh rotates to tokens of the same session, cap and epoch.             *)
LEMMA RefreshInv == ASSUME AuthInv, NEW x \in Conn, Refresh(x) PROVE AuthInv'
<1> DEFINE token == exchange[x].token
           row == exchange[x].row
           a == Rotated(token, row, token.absExp)
<1>1. exchange[x] \in Exchanges /\ Sound(x, exchange[x])
  BY DEF AuthInv, AuthTypeOK
<1>2. token \in RefreshTokens /\ row \in Rows /\ token # None
  BY <1>1 DEF Refresh, MayRefresh, Decodes, Unrevoked, Exchanges, AccessTokens
<1>3. token.epoch = row.epoch /\ clock < token.absExp
  BY <1>2 DEF Refresh, MayRefresh, Unrevoked, AuthInv, AuthTypeOK, RefreshTokens
<1>4. /\ credentials # None /\ row.epoch <= credentials.epoch /\ token.session <= sessions
      /\ token.session <= revoked => row.epoch < credentials.epoch
      /\ token.absExp = token.start + AbsoluteTTL
  BY <1>1, <1>2, <1>3 DEF Sound, Known, RefreshTokens, Rows
<1>5. a \in Answers /\ Known(a.access) /\ Known(a.refresh)
  BY <1>2, <1>3, <1>4, PairKnown DEF Rotated, RefreshTokens
<1>6. a.secret = None
  BY DEF Rotated, Pair
<1>7. ~exchange[x].stale
  BY <1>1, <1>2, <1>3 DEF Sound, Refresh, Deciding, RefreshTokens, Rows
<1> QED
  BY <1>5, <1>6, <1>7, AnswerSound DEF Refresh

\* What is known of the rest of the exchanges stays known when a session starts.
LEMMA StartSessionInv == ASSUME AuthInv, NEW x \in Conn, StartSession(x) PROVE AuthInv'
<1> DEFINE row == exchange[x].row
           p == Pair(sessions', clock, row, clock + AbsoluteTTL)
           a == IF exchange[x].op = "login" THEN p ELSE [p EXCEPT !.secret = x]
           e == [exchange[x] EXCEPT !.step = "answered", !.row = None, !.answer = a]
<1>1. \A y \in Conn : exchange[y] \in Exchanges /\ Sound(y, exchange[y])
  BY DEF AuthInv, AuthTypeOK
<1>2. row \in Rows /\ credentials # None /\ row.epoch <= credentials.epoch
  BY <1>1 DEF StartSession, Sound, Exchanges
<1>3. sessions' = sessions + 1 /\ sessions \in Nat /\ revoked \in Nat /\ clock \in Nat
      /\ revoked <= sessions
  BY DEF StartSession, AuthInv, AuthTypeOK
<1>4. AuthTypeOK /\ UNCHANGED <<credentials, clock, revoked>>
  BY DEF AuthInv, StartSession
<1>5. p \in Answers /\ p.secret = None
  <2>1. AccessToken(sessions', clock, row.epoch) \in AccessTokens
    BY <1>2, <1>3 DEF AccessToken, AccessTokens, Rows
  <2>2. RefreshToken(sessions', clock, row.epoch, clock + AbsoluteTTL) \in RefreshTokens
    BY <1>2, <1>3 DEF RefreshToken, RefreshTokens, Rows
  <2>3. ASSUME NEW b \in AccessTokens, NEW c \in RefreshTokens
        PROVE  [ok |-> TRUE, access |-> b, refresh |-> c, secret |-> None] \in Answers
    BY DEF Answers
  <2> QED
    BY <2>1, <2>2, <2>3 DEF Pair
<1>6. ASSUME NEW k \in {p.access, p.refresh}
      PROVE  Known(k)'
  <2>1. \/ k = [type |-> "access", session |-> sessions + 1, start |-> clock,
                epoch |-> row.epoch, exp |-> clock + AccessTTL]
        \/ k = [type |-> "refresh", session |-> sessions + 1, start |-> clock,
                epoch |-> row.epoch, exp |-> clock + SlidingTTL,
                absExp |-> clock + AbsoluteTTL]
    BY <1>3 DEF Pair, AccessToken, RefreshToken
  <2>2. row.epoch \in Nat /\ ~(sessions + 1 <= revoked)
    BY <1>2, <1>3 DEF Rows
  <2>3. /\ k.session = sessions + 1 /\ k.start = clock /\ k.epoch = row.epoch
        /\ k.type = "access" => k.exp = clock + AccessTTL
        /\ k.type = "refresh" => k.absExp = clock + AbsoluteTTL
    BY <2>1
  <2>4. clock + AccessTTL < clock + AbsoluteTTL + AccessTTL
    BY <1>3
  <2> QED
    BY <1>2, <1>3, <1>4, <2>2, <2>3, <2>4 DEF Known
<1>7. exchange[x].step = "created" => credentials.secret = x
  BY <1>1 DEF Sound
<1>8. /\ a \in Answers /\ a.access = p.access /\ a.refresh = p.refresh
      /\ a.secret \in {None, x}
      /\ a.secret = x => exchange[x].op # "login"
  <2> HIDE DEF p
  <2> QED
    BY <1>5 DEF Answers
<1> HIDE DEF p, a
<1>9. exchange' = [exchange EXCEPT ![x] = e]
  BY <1>4 DEF StartSession, Answer, AuthTypeOK, a, p
<1>10. e \in Exchanges
  BY <1>1, <1>8 DEF Exchanges, Step
<1>11. AuthTypeOK'
  BY <1>3, <1>4, <1>9, <1>10 DEF AuthTypeOK
<1>12. ASSUME NEW k \in AccessTokens \union RefreshTokens \union {None}, Known(k)
       PROVE  Known(k)'
  BY <1>12, KnownStays DEF Serve
<1>13. ASSUME NEW y \in Conn PROVE Sound(y, exchange[y])'
  <2> DEFINE f == exchange[y]
  <2>1. /\ f.token \in AccessTokens \union RefreshTokens \union {None}
        /\ f.answer.access \in AccessTokens \union RefreshTokens \union {None}
        /\ f.answer.refresh \in AccessTokens \union RefreshTokens \union {None}
    BY <1>1 DEF Exchanges, Answers
  <2>2. CASE y # x
    <3>1. exchange'[y] = exchange[y]
      BY <1>9, <2>2 DEF AuthInv, AuthTypeOK
    <3> QED
      BY <1>1, <1>4, <1>12, <2>1, <3>1 DEF Sound, Known
  <2>3. CASE y = x
    <3>1. exchange'[y] = e
      BY <1>4, <1>9, <2>3 DEF AuthTypeOK
    <3>2. e.token = f.token /\ e.stale = f.stale /\ e.op = f.op /\ e.row = None
          /\ e.step = "answered" /\ e.answer = a
      BY <1>1, <2>3 DEF Exchanges
    <3>3. e.op \notin {"query", "refresh"}
      BY <1>1, <2>3, <3>2 DEF StartSession, Deciding, Sound
    <3> QED
      BY <1>1, <1>2, <1>4, <1>6, <1>7, <1>8, <1>12, <2>1, <2>3, <3>1, <3>2, <3>3
      DEF Sound, Known, StartSession, Deciding
  <2> QED
    BY <2>2, <2>3
<1> QED
  BY <1>3, <1>4, <1>11, <1>13 DEF AuthInv

\* A logout raises the epoch above that of every token there is.
LEMMA LogoutInv == ASSUME AuthInv, NEW x \in Conn, Logout(x) PROVE AuthInv'
<1> DEFINE e == [exchange[x] EXCEPT !.step = "answered", !.row = None, !.answer = Granted]
<1>1. \A y \in Conn : exchange[y] \in Exchanges /\ Sound(y, exchange[y])
  BY DEF AuthInv, AuthTypeOK
<1>2. CASE exchange[x].row = None
  BY <1>2, DeniedIsAnswer, AnswerSound DEF Logout, Deciding, Granted, Denied, Known
<1>3. CASE exchange[x].row # None
  <2>1. credentials \in Rows /\ credentials # None
    BY <1>1, <1>3 DEF Sound, AuthInv, AuthTypeOK
  <2>2. /\ credentials' \in Rows /\ credentials' # None
        /\ credentials'.epoch = credentials.epoch + 1
        /\ credentials'.secret = credentials.secret
    BY <1>3, <2>1 DEF Logout, Rows
  <2>3. /\ revoked' = sessions /\ sessions' = sessions /\ clock' = clock
        /\ sessions \in Nat /\ revoked \in Nat /\ revoked <= sessions
        /\ exchange[x].op = "logout"
    BY <1>3 DEF Logout, Deciding, AuthInv, AuthTypeOK
  <2>4. exchange' = [exchange EXCEPT ![x] = e]
    BY <1>1 DEF Logout, Answer, AuthInv, AuthTypeOK
  <2>5. e \in Exchanges
    BY <1>1, DeniedIsAnswer DEF Exchanges, Step
  <2>6. AuthTypeOK'
    BY <2>2, <2>3, <2>4, <2>5 DEF AuthInv, AuthTypeOK
  <2>7. ASSUME NEW k \in AccessTokens \union RefreshTokens \union {None}, Known(k)
        PROVE  Known(k)'
    BY <2>7, KnownStays DEF Serve
  <2>8. ASSUME NEW y \in Conn PROVE Sound(y, exchange[y])'
    <3> DEFINE f == exchange[y]
    <3>1. /\ f.token \in AccessTokens \union RefreshTokens \union {None}
          /\ f.answer.access \in AccessTokens \union RefreshTokens \union {None}
          /\ f.answer.refresh \in AccessTokens \union RefreshTokens \union {None}
      BY <1>1 DEF Exchanges, Answers
    <3>2. /\ f.token # None => f.token.session \in Nat /\ f.token.session <= sessions
          /\ f.row # None => f.row.epoch \in Nat /\ credentials.epoch \in Nat
      BY <1>1, <2>1, <3>1 DEF Sound, Known, AccessTokens, RefreshTokens, Rows, Exchanges
    <3>3. CASE y # x
      <4>1. exchange'[y] = f
        BY <2>4, <3>3 DEF AuthInv, AuthTypeOK
      <4> QED
        BY <1>1, <2>2, <2>3, <2>7, <3>1, <3>2, <4>1 DEF Sound, Known
    <3>4. CASE y = x
      <4>1. exchange'[y] = e
        BY <2>4, <3>4 DEF AuthInv, AuthTypeOK
      <4>2. e.token = f.token /\ e.stale = f.stale /\ e.op = "logout" /\ e.row = None
            /\ e.step = "answered" /\ e.answer.access = None /\ e.answer.refresh = None
            /\ e.answer.secret = None
        BY <1>1, <2>3, <3>4 DEF Exchanges, Granted, Denied
      <4> QED
        BY <1>1, <2>2, <2>3, <2>7, <3>1, <3>2, <3>4, <4>1, <4>2 DEF Sound, Known
    <3> QED
      BY <3>3, <3>4
  <2> QED
    BY <2>3, <2>6, <2>8 DEF AuthInv
<1> QED
  BY <1>2, <1>3

\* A request carries a token that its client held or was given.
LEMMA ClientsInv == ASSUME HeldInv, Clients PROVE HeldInv'
<1> DEFINE Tokens == AccessTokens \union RefreshTokens \union {None}
<1>1. \A x \in Conn : exchange[x] \in Exchanges /\ Sound(x, exchange[x])
  BY DEF HeldInv, AuthInv, AuthTypeOK
<1>2. UNCHANGED <<credentials, clock, sessions, revoked>>
  BY DEF Clients
<1>3. ASSUME NEW token \in held \union held' \union {None} PROVE token \in Tokens /\ Known(token)
  <2>1. CASE token \in held \union {None}
    BY <2>1 DEF HeldInv, Known
  <2>2. CASE Given(token)
    BY <1>1, <2>2 DEF Given, Exchanges, Answers, Sound
  <2> QED
    BY <1>3, <2>1, <2>2 DEF Clients
<1>4. ASSUME NEW op \in Operation, NEW token \in Tokens, Known(token), NEW x \in Conn
      PROVE  Request(op, token) \in Exchanges /\ Sound(x, Request(op, token))
  <2>1. Request(op, token) \in Exchanges
    BY <1>4, DeniedIsAnswer DEF Request, Idle, Exchanges, Step
  <2>2. Sound(x, Request(op, token))
    BY <1>4 DEF Sound, Request, Idle, Denied, Known
  <2> QED
    BY <2>1, <2>2
<1>5. ASSUME NEW x \in Conn PROVE exchange'[x] \in Exchanges /\ Sound(x, exchange'[x])
  <2>1. CASE exchange'[x] \in {exchange[x], Idle}
    BY <1>1, <2>1, IdleSound
  <2>2. CASE exchange'[x] \notin {exchange[x], Idle}
    <3> DEFINE e == exchange'[x]
    <3>1. /\ e.op \in Operation /\ e.token \in held \union held' \union {None}
          /\ e = Request(e.op, e.token)
      BY <2>2 DEF Clients
    <3> QED
      BY <1>3, <1>4, <3>1
  <2> QED
    BY <2>1, <2>2
<1>6. exchange' \in [Conn -> Exchanges]
  BY <1>5 DEF Clients
<1>7. AuthTypeOK'
  BY <1>2, <1>6 DEF HeldInv, AuthInv, AuthTypeOK, Rows
<1>8. AuthInv'
  BY <1>2, <1>5, <1>7 DEF HeldInv, AuthInv, Sound, Known
<1> QED
  BY <1>2, <1>3, <1>8 DEF HeldInv, Known, AccessTokens, RefreshTokens

(* Every step of the server keeps the invariant.                               *)
LEMMA ServeInv == ASSUME HeldInv, NEW x \in Conn, Serve(x), UNCHANGED held PROVE HeldInv'
<1>1. AuthInv
  BY DEF HeldInv
<1>2. AuthInv'
  BY <1>1, ReadRowInv, StatusInv, RefuseInv, ProvisionInv, StartSessionInv, RefreshInv,
     LogoutInv, QueryInv DEF Serve
<1>3. \A token \in held' : Known(token)'
  BY <1>1, KnownStays DEF HeldInv
<1> QED
  BY <1>2, <1>3 DEF HeldInv, AccessTokens, RefreshTokens

(* So does every step of the server with its clients.                          *)
LEMMA NextClient == HeldInv /\ [ClientNext]_clientVars => HeldInv'
<1> SUFFICES ASSUME HeldInv, [ClientNext]_clientVars PROVE HeldInv'
  OBVIOUS
<1>1. CASE Clients
  BY <1>1, ClientsInv
<1>2. CASE Tick /\ UNCHANGED held
  <2>1. AuthInv'
    BY <1>2, TickInv DEF HeldInv
  <2> QED
    BY <1>2, <2>1 DEF HeldInv, Tick, Known, AccessTokens, RefreshTokens
<1>3. ASSUME NEW x \in Conn, Serve(x), UNCHANGED held PROVE HeldInv'
  BY <1>3, ServeInv
<1>4. CASE UNCHANGED clientVars
  <2>1. AuthTypeOK'
    BY <1>4 DEF clientVars, authVars, HeldInv, AuthInv, AuthTypeOK, Rows
  <2> QED
    BY <1>4, <2>1 DEF clientVars, authVars, HeldInv, AuthInv, Sound, Known, AccessTokens, RefreshTokens
<1> QED
  BY <1>1, <1>2, <1>3, <1>4 DEF ClientNext

\* Whatever clients send with whatever tokens they hold, the invariant holds, of
\* every token and every copied row.
THEOREM AuthInvariance == ClientSpec => []AuthInv
<1>1. ClientInit => HeldInv
  BY InitAuth DEF ClientInit, HeldInv, Known
<1>2. HeldInv => AuthInv
  BY DEF HeldInv
<1> QED
  BY <1>1, <1>2, NextClient, PTL DEF ClientSpec

\* The server's state keeps its types.
THEOREM AuthTypeCorrect == ClientSpec => []AuthTypeOK
<1>1. AuthInv => AuthTypeOK
  BY DEF AuthInv
<1> QED
  BY <1>1, AuthInvariance, PTL

\* A token that there was when a logout committed, and every token rotated from
\* it, is refused in every request sent after it.
THEOREM LogoutRevokes == ClientSpec => []RevokedStaysOut
<1>1. AuthInv => RevokedStaysOut
  BY DEF AuthInv, RevokedStaysOut, Sound
<1> QED
  BY <1>1, AuthInvariance, PTL

\* No rotation carries a session past the absolute cap.
THEOREM CapHolds == ClientSpec => []SessionCapped
<1>1. ASSUME AuthInv PROVE SessionCapped
  <2> SUFFICES ASSUME NEW x \in Conn, exchange[x].answer.access # None
               PROVE  exchange[x].answer.access.exp
                        < exchange[x].answer.access.start + AbsoluteTTL + AccessTTL
    BY DEF SessionCapped
  <2>1. exchange[x].answer.access \in AccessTokens /\ Known(exchange[x].answer.access)
    BY <1>1 DEF AuthInv, AuthTypeOK, Exchanges, Answers, Sound
  <2> QED
    BY <2>1 DEF Known, AccessTokens
<1> QED
  BY <1>1, AuthInvariance, PTL

\* One setup wins, and every secret ever shown is the stored one.
THEOREM OneSetup == ClientSpec => []ShownSecretIsStored
<1>1. AuthInv => ShownSecretIsStored
  BY DEF AuthInv, ShownSecretIsStored, Sound
<1> QED
  BY <1>1, AuthInvariance, PTL
===============================================================================
