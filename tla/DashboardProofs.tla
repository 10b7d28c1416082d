--------------------------- MODULE DashboardProofs ----------------------------
(* The browser implements AuthClients, for any number of tabs and calls, so    *)
(* that the theorems about sessions hold of it; and its tabs keep promises of  *)
(* their own: one refresh at a time, nobody who waits for none, no refusal     *)
(* without a reason.                                                           *)
EXTENDS Dashboard, TLAPS

\* An exchange for each connection.
Shape == exchange = [x \in Conn |-> exchange[x]]

\* The tokens the browser holds, or None.
Ours == {stored, cookie, None}

\* What makes a step one of AuthClients' clients.
LEMMA ByClients ==
  ASSUME Shape', Unserved,
         \A token \in Ours' : \/ token \in Ours
                              \/ \E x \in Conn : token \in {exchange[x].answer.access,
                                                            exchange[x].answer.refresh},
         \A x \in Conn : \/ exchange'[x] \in {exchange[x], Idle}
                         \/ \E op \in Operation, token \in Ours \union Ours' :
                              exchange'[x] = Request(op, token)
  PROVE  AnyClients!Clients
<1>1. \A op, token : /\ Request(op, token).op = op /\ Request(op, token).token = token
                     /\ AnyClients!Request(op, token) = Request(op, token)
  BY DEF Request, Idle, AnyClients!Request, AnyClients!Idle, Denied, AnyClients!Denied
<1>2. AnyClients!Idle = Idle /\ AnyClients!Operation = Operation
  BY DEF Idle, AnyClients!Idle, Denied, AnyClients!Denied, Operation, AnyClients!Operation
<1>3. \A token \in {stored, cookie}' : token \in {stored, cookie} \union {None} \/ AnyClients!Given(token)
  BY DEF Ours, AnyClients!Given
<1>4. exchange' = [x \in Conn |-> exchange'[x]]
  BY DEF Shape
<1>5. ASSUME NEW x \in Conn
      PROVE  LET e == exchange'[x]
             IN \/ e \in {exchange[x], AnyClients!Idle}
                \/ /\ e.op \in AnyClients!Operation
                   /\ e.token \in {stored, cookie} \union {stored, cookie}' \union {None}
                   /\ e = AnyClients!Request(e.op, e.token)
  BY <1>1, <1>2 DEF Ours
<1> QED
  BY <1>3, <1>4, <1>5 DEF AnyClients!Clients, Unserved

\* One request is sent, or one is given up or answered.
LEMMA ByOne ==
  ASSUME Shape, Unserved, NEW x \in Own, NEW e, Put(x, e),
         \A token \in Ours' : \/ token \in Ours
                              \/ \E y \in Conn : token \in {exchange[y].answer.access,
                                                            exchange[y].answer.refresh},
         e = Idle \/ \E op \in Operation, token \in Ours : e = Request(op, token)
  PROVE  AnyClients!Clients /\ Shape'
<1>1. x \in Conn
  BY OwnAssumption
<1>2. \A y \in Conn : exchange'[y] = IF y = x THEN e ELSE exchange[y]
  BY <1>1 DEF Put, Shape
<1>3. Shape'
  BY <1>1 DEF Put, Shape
<1> QED
  BY <1>2, <1>3, ByClients

(* A tab's and a call's exchanges are connections.                             *)
LEMMA OwnExchanges ==
  /\ \A r \in Call : AskOf(r) \in Own /\ RenewalOf(r) \in Own /\ TabOf[r] \in Tab
  /\ \A t \in Tab : FormOf(t) \in Own
  BY CallAssumption DEF Own

\* A call's requests bear the stored token, its refresh the cookie.
LEMMA AskSends == ASSUME Shape, NEW r \in Call, Ask(r) PROVE AnyClients!Clients /\ Shape'
<1>1. Put(AskOf(r), Request("query", stored)) /\ Unserved /\ Ours' = Ours
  BY DEF Ask, Ours
<1>2. "query" \in Operation /\ stored \in Ours
  BY DEF Operation, Ours
<1> QED
  BY <1>1, <1>2, OwnExchanges, ByOne

(* What a call does next is a client sending a request or nothing.             *)
LEMMA ReturnSends == ASSUME Shape, NEW r \in Call, Return(r) PROVE AnyClients!Clients /\ Shape'
<1>1. Put(AskOf(r), Idle) /\ Unserved /\ Ours' = Ours
  BY DEF Return, Ours
<1> QED
  BY <1>1, OwnExchanges, ByOne

(* A tab that renews sends a token it holds.                                   *)
LEMMA RenewSends == ASSUME Shape, NEW r \in Call, Renew(r) PROVE AnyClients!Clients /\ Shape'
<1> DEFINE e == IF RefreshFor(r) = r THEN Request("refresh", cookie) ELSE exchange[RenewalOf(r)]
<1>1. exchange' = [exchange EXCEPT ![AskOf(r)] = Idle, ![RenewalOf(r)] = e]
  BY OwnExchanges, OwnAssumption DEF Renew, AskOf, RenewalOf, Shape
<1>2. AskOf(r) \in Conn /\ RenewalOf(r) \in Conn /\ AskOf(r) # RenewalOf(r)
  BY OwnExchanges, OwnAssumption DEF AskOf, RenewalOf
<1> HIDE DEF e
<1>3. \A x \in Conn : exchange'[x] = IF x = RenewalOf(r) THEN e
                                     ELSE IF x = AskOf(r) THEN Idle ELSE exchange[x]
  BY <1>1, <1>2 DEF Shape
<1>4. Shape'
  BY <1>1, <1>2 DEF Shape
<1>5. Unserved /\ Ours' = Ours
  BY DEF Renew, Ours
<1>6. e = exchange[RenewalOf(r)] \/ \E op \in Operation, token \in Ours : e = Request(op, token)
  BY DEF e, Operation, Ours
<1> QED
  BY <1>3, <1>4, <1>5, <1>6, ByClients

(* A renewed tab takes the tokens it was handed, and its calls send them.      *)
LEMMA RenewedSends == ASSUME Shape, NEW r \in Call, Renewed(r) PROVE AnyClients!Clients /\ Shape'
<1> DEFINE answer == exchange[RenewalOf(r)].answer
<1>1. RenewalOf(r) \in Conn
  BY OwnExchanges, OwnAssumption
<1>2. Shape'
  BY DEF Renewed, Shape
<1>3. Unserved /\ Ours' = {answer.access, answer.refresh, None}
  BY DEF Renewed, Ours
<1>4. "query" \in Operation
  BY DEF Operation
<1>5. ASSUME NEW x \in Conn
      PROVE  \/ exchange'[x] \in {exchange[x], Idle}
             \/ exchange'[x] = Request("query", answer.access)
  BY DEF Renewed, RetryRequest
<1> QED
  BY <1>1, <1>2, <1>3, <1>4, <1>5, ByClients DEF Ours

(* A tab that gives up forgets the stored token.                               *)
LEMMA GiveUpSends ==
  ASSUME Shape, NEW r \in Call, GiveUp(r), Unserved, UNCHANGED cookie \/ KeepCookie(RenewalOf(r))
  PROVE  AnyClients!Clients /\ Shape'
<1>1. RenewalOf(r) \in Own /\ RenewalOf(r) \in Conn /\ Put(RenewalOf(r), Idle)
  BY OwnExchanges, OwnAssumption DEF GiveUp
<1>2. \A token \in Ours' : \/ token \in Ours
                           \/ \E y \in Conn : token \in {exchange[y].answer.access,
                                                         exchange[y].answer.refresh}
  BY <1>1 DEF GiveUp, KeepCookie, Ours
<1> QED
  BY <1>1, <1>2, ByOne

(* A call sends the stored token.                                              *)
LEMMA CallSends ==
  ASSUME Shape, NEW r \in Call,
         RenewalRefused(r) \/ CallFails(r) \/ RenewalFails(r)
  PROVE  AnyClients!Clients /\ Shape'
<1>1. CASE RenewalRefused(r)
  BY <1>1, GiveUpSends DEF RenewalRefused
<1>2. CASE RenewalFails(r)
  BY <1>2, GiveUpSends DEF RenewalFails
<1>3. CASE CallFails(r)
  <2>1. Put(AskOf(r), Idle) /\ Unserved /\ Ours' = Ours
    BY <1>3 DEF CallFails, Ours
  <2> QED
    BY <2>1, OwnExchanges, ByOne
<1> QED
  BY <1>1, <1>2, <1>3

\* What pages send bears no token; they store the tokens they are answered.
LEMMA UnloadSends == ASSUME Shape, NEW t \in Tab, Unload(t) PROVE AnyClients!Clients /\ Shape'
<1>1. Shape' /\ Unserved /\ Ours' = Ours
  BY DEF Unload, Shape, Ours
<1>2. \A x \in Conn : exchange'[x] \in {exchange[x], Idle}
  BY DEF Unload
<1> QED
  BY <1>1, <1>2, ByClients

(* A form sends what a visitor types.                                          *)
LEMMA FormSends ==
  ASSUME Shape, NEW t \in Tab, Gate(t) \/ Gated(t) \/ Submit(t) \/ TurnedAway(t)
  PROVE  AnyClients!Clients /\ Shape'
<1> DEFINE x == FormOf(t)
<1>1. Ours' = Ours /\ Unserved /\ None \in Ours
  BY DEF Gate, Gated, Submit, TurnedAway, browserVars, Ours
<1>2. {"status", "login", "setup"} \subseteq Operation
  BY DEF Operation
<1>3. Put(x, Idle) \/ \E op \in Operation : Put(x, Request(op, None))
  BY <1>2 DEF Gate, Gated, Submit, TurnedAway
<1> QED
  BY <1>1, <1>3, OwnExchanges, ByOne

(* The answer to a form is taken by a client.                                  *)
LEMMA FormEnds ==
  ASSUME Shape, NEW t \in Tab, SignedIn(t) \/ FormFails(t)
  PROVE  AnyClients!Clients /\ Shape'
<1>1. FormOf(t) \in Own /\ FormOf(t) \in Conn /\ Put(FormOf(t), Idle) /\ Unserved
  BY OwnExchanges, OwnAssumption DEF SignedIn, FormFails
<1>2. \A token \in Ours' : \/ token \in Ours
                           \/ \E y \in Conn : token \in {exchange[y].answer.access,
                                                         exchange[y].answer.refresh}
  BY <1>1 DEF SignedIn, FormFails, KeepCookie, Ours
<1> QED
  BY <1>1, <1>2, ByOne

-------------------------------------------------------------------------------
\* The server's steps are the same in both specifications.
LEMMA SameServe ==
  ASSUME NEW x \in Conn, Serve(x)
  PROVE  AnyClients!Serve(x)
<1>1. /\ AnyClients!Denied = Denied /\ AnyClients!Granted = Granted
      /\ \A answer : Answer(x, answer) => AnyClients!Answer(x, answer)
  BY DEF Denied, Granted, Answer, AnyClients!Denied, AnyClients!Granted, AnyClients!Answer
<1>2. /\ \A op : AnyClients!Asking(x, op) <=> Asking(x, op)
      /\ \A op : AnyClients!Deciding(x, op) <=> Deciding(x, op)
      /\ AnyClients!MayQuery(x) <=> MayQuery(x)
      /\ AnyClients!MayRefresh(x) <=> MayRefresh(x)
  BY DEF Asking, Deciding, MayQuery, MayRefresh, Decodes, Unrevoked, AnyClients!Asking,
         AnyClients!Deciding, AnyClients!MayQuery, AnyClients!MayRefresh,
         AnyClients!Decodes, AnyClients!Unrevoked
<1>3. CASE ReadRow(x)
  BY <1>3 DEF ReadRow, AnyClients!ReadRow, AnyClients!Serve
<1>4. CASE Status(x)
  BY <1>1, <1>2, <1>4 DEF Status, AnyClients!Status, AnyClients!Serve
<1>5. CASE Refuse(x)
  BY <1>1, <1>2, <1>5 DEF Refuse, AnyClients!Refuse, AnyClients!Serve
<1>6. CASE Provision(x)
  BY <1>2, <1>6 DEF Provision, NoRow, AnyClients!Provision, AnyClients!NoRow, AnyClients!Serve
<1>7. CASE StartSession(x)
  BY <1>1, <1>2, <1>7
  DEF StartSession, Pair, AccessToken, RefreshToken, AnyClients!StartSession,
      AnyClients!Pair, AnyClients!AccessToken, AnyClients!RefreshToken, AnyClients!Serve
<1>8. CASE Refresh(x)
  BY <1>1, <1>2, <1>8
  DEF Refresh, Rotated, Pair, AccessToken, RefreshToken, AnyClients!Refresh,
      AnyClients!Rotated, AnyClients!Pair, AnyClients!AccessToken,
      AnyClients!RefreshToken, AnyClients!Serve
<1>9. CASE Logout(x)
  BY <1>1, <1>2, <1>9 DEF Logout, AnyClients!Logout, AnyClients!Serve
<1>10. CASE Query(x)
  BY <1>1, <1>2, <1>10 DEF Query, AnyClients!Query, AnyClients!Serve
<1> QED
  BY <1>3, <1>4, <1>5, <1>6, <1>7, <1>8, <1>9, <1>10 DEF Serve

(* A step of the server leaves the browser alone.                              *)
LEMMA ServeShape == ASSUME Shape, NEW x \in Conn, Serve(x) PROVE Shape'
  BY DEF Shape, Serve, ReadRow, Status, Refuse, Provision, StartSession, Refresh, Logout,
         Query, Answer

(* The browser starts as clients do.                                           *)
LEMMA InitClients == DashboardInit => AnyClients!ClientInit /\ Shape
<1> SUFFICES ASSUME DashboardInit PROVE AnyClients!ClientInit /\ Shape
  OBVIOUS
<1>1. AnyClients!Idle = Idle
  BY DEF Idle, AnyClients!Idle, Denied, AnyClients!Denied
<1>2. AnyClients!AuthInit
  BY <1>1 DEF DashboardInit, AuthInit, AnyClients!AuthInit
<1> QED
  BY <1>2 DEF DashboardInit, AuthInit, AnyClients!ClientInit, Shape

(* Every step of the browser is a step of clients.                             *)
LEMMA NextClients ==
  ASSUME Shape, [DashboardNext \/ Rest]_allVars
  PROVE  [AnyClients!ClientNext]_AnyClients!clientVars /\ Shape'
<1>1. ASSUME AnyClients!Clients /\ Shape' PROVE AnyClients!ClientNext /\ Shape'
  BY <1>1 DEF AnyClients!ClientNext
<1>2. ASSUME NEW r \in Call,
             Ask(r) \/ Return(r) \/ Renew(r) \/ Renewed(r) \/ RenewalRefused(r)
               \/ CallFails(r) \/ RenewalFails(r)
      PROVE  AnyClients!Clients /\ Shape'
  BY <1>2, AskSends, ReturnSends, RenewSends, RenewedSends, CallSends
<1>3. ASSUME NEW t \in Tab,
             Unload(t) \/ Gate(t) \/ Gated(t) \/ Submit(t) \/ SignedIn(t)
               \/ TurnedAway(t) \/ FormFails(t)
      PROVE  AnyClients!Clients /\ Shape'
  BY <1>3, UnloadSends, FormSends, FormEnds
<1>4. ASSUME UNCHANGED <<authVars, stored, cookie>>
      PROVE  UNCHANGED AnyClients!clientVars /\ Shape'
  BY <1>4 DEF AnyClients!clientVars, AnyClients!authVars, authVars, Shape
<1>5. ASSUME NEW t \in Tab, Open(t) PROVE UNCHANGED AnyClients!clientVars /\ Shape'
  BY <1>4, <1>5 DEF Open
<1>6. ASSUME NEW x \in Other, LogoutElsewhere(x) PROVE AnyClients!Clients /\ Shape'
  <2>1. x \in Conn /\ None \in Ours /\ "logout" \in Operation
    BY DEF Other, Ours, Operation
  <2>2. exchange' = [exchange EXCEPT ![x] = Request("logout", None)] /\ Unserved /\ Ours' = Ours
    BY <1>6 DEF LogoutElsewhere, Put, browserVars, Ours
  <2>3. Shape' /\ \A y \in Conn : exchange'[y] = IF y = x THEN Request("logout", None)
                                                 ELSE exchange[y]
    BY <2>1, <2>2 DEF Shape
  <2> QED
    BY <2>1, <2>2, <2>3, ByClients
<1>7. ASSUME NEW x \in Conn, Serve(x), UNCHANGED browserVars
      PROVE  AnyClients!ClientNext /\ Shape'
  BY <1>7, SameServe, ServeShape DEF AnyClients!ClientNext, browserVars
<1>8. ASSUME Later PROVE AnyClients!ClientNext /\ Shape'
  BY <1>8 DEF Later, Tick, browserVars, AnyClients!ClientNext, AnyClients!Tick, Shape
<1>9. ASSUME UNCHANGED allVars PROVE UNCHANGED AnyClients!clientVars /\ Shape'
  BY <1>4, <1>9 DEF allVars, browserVars
<1> QED
  BY <1>1, <1>2, <1>3, <1>5, <1>6, <1>7, <1>8, <1>9 DEF DashboardNext, Rest

\* Every behaviour of the browser's tabs is one of AuthClients.
THEOREM BrowserIsAClient == DashboardSpec => ClientsOnly
<1>1. DashboardInit => AnyClients!ClientInit /\ Shape
  BY InitClients
<1>2. Shape /\ [DashboardNext \/ Rest]_allVars
        => [AnyClients!ClientNext]_AnyClients!clientVars /\ Shape'
  BY NextClients
<1> QED
  BY <1>1, <1>2, PTL DEF DashboardSpec, ClientsOnly, AnyClients!ClientSpec

-------------------------------------------------------------------------------
(* What AuthProofs shows of any clients then holds of the browser.             *)
Sessions == INSTANCE AuthProofs WITH held <- {stored, cookie}

\* The two instances of AuthClients are one specification.
LEMMA SameClients == AnyClients!ClientSpec => Sessions!ClientSpec
<1>1. AnyClients!ClientInit => Sessions!ClientInit
  BY DEF AnyClients!ClientInit, Sessions!ClientInit, AnyClients!AuthInit,
      Sessions!AuthInit, AnyClients!Idle, Sessions!Idle, AnyClients!Denied, Sessions!Denied
<1>2. AnyClients!ClientNext => Sessions!ClientNext
  BY DEF AnyClients!ClientNext, Sessions!ClientNext,
      AnyClients!Clients, AnyClients!Given, AnyClients!Request,
      AnyClients!Idle, AnyClients!Denied, AnyClients!Granted,
      AnyClients!Operation, AnyClients!Answer, AnyClients!Asking,
      AnyClients!Deciding, AnyClients!MayQuery, AnyClients!MayRefresh,
      AnyClients!Decodes, AnyClients!Unrevoked, AnyClients!ReadRow,
      AnyClients!Status, AnyClients!Refuse, AnyClients!NoRow,
      AnyClients!Provision, AnyClients!StartSession, AnyClients!Pair,
      AnyClients!AccessToken, AnyClients!RefreshToken, AnyClients!Refresh,
      AnyClients!Rotated, AnyClients!Logout, AnyClients!Query,
      AnyClients!Serve, AnyClients!Tick, Sessions!Clients, Sessions!Given,
      Sessions!Request, Sessions!Idle, Sessions!Denied, Sessions!Granted,
      Sessions!Operation, Sessions!Answer, Sessions!Asking, Sessions!Deciding,
      Sessions!MayQuery, Sessions!MayRefresh, Sessions!Decodes,
      Sessions!Unrevoked, Sessions!ReadRow, Sessions!Status, Sessions!Refuse,
      Sessions!NoRow, Sessions!Provision, Sessions!StartSession,
      Sessions!Pair, Sessions!AccessToken, Sessions!RefreshToken,
      Sessions!Refresh, Sessions!Rotated, Sessions!Logout, Sessions!Query,
      Sessions!Serve, Sessions!Tick
<1>3. UNCHANGED AnyClients!clientVars => UNCHANGED Sessions!clientVars
  BY DEF AnyClients!clientVars, Sessions!clientVars, AnyClients!authVars, Sessions!authVars
<1> QED
  BY <1>1, <1>2, <1>3, PTL DEF AnyClients!ClientSpec, Sessions!ClientSpec

\* However tabs, refreshes and retries interleave: a logout ends every session
\* there was, none outlives its cap, and the secret shown is the one stored.
THEOREM SessionsInBrowser ==
  DashboardSpec => []RevokedStaysOut /\ []SessionCapped /\ []ShownSecretIsStored
<1>1. Sessions!ClientSpec => []Sessions!RevokedStaysOut
  BY Sessions!LogoutRevokes, TTLAssumption, NoneAssumption DEF Rows, Sessions!Rows
<1>2. Sessions!ClientSpec => []Sessions!SessionCapped
  BY Sessions!CapHolds, TTLAssumption, NoneAssumption DEF Rows, Sessions!Rows
<1>3. Sessions!ClientSpec => []Sessions!ShownSecretIsStored
  BY Sessions!OneSetup, TTLAssumption, NoneAssumption DEF Rows, Sessions!Rows
<1>4. /\ Sessions!RevokedStaysOut <=> RevokedStaysOut
      /\ Sessions!SessionCapped <=> SessionCapped
      /\ Sessions!ShownSecretIsStored <=> ShownSecretIsStored
  BY DEF RevokedStaysOut, SessionCapped, ShownSecretIsStored, Sessions!RevokedStaysOut,
         Sessions!SessionCapped, Sessions!ShownSecretIsStored
<1> QED
  BY <1>1, <1>2, <1>3, <1>4, SameClients, BrowserIsAClient, PTL DEF ClientsOnly

-------------------------------------------------------------------------------
(* What the tabs' calls rely on, of each other and of the server.              *)

\* Why a call may be refused: a logout since it refreshed, or a token's life.
Reason(r) == Epoch > call[r].epoch \/ clock >= call[r].asked + AccessTTL

\* The refresh a tab has in flight is that of one of its calls, which waits for it.
Flying(t) ==
  inflight[t] # None => /\ TabOf[inflight[t]] = t
                        /\ exchange[RenewalOf(inflight[t])] # Idle
                        /\ call[inflight[t]].step = "waiting"

\* A refresh is the one its tab has in flight, and the token it brings is of the
\* epoch of the cookie it presented and new: time waits for an answer to arrive.
Renewing(r) ==
  LET e == exchange[RenewalOf(r)]
  IN e # Idle =>
       /\ inflight[TabOf[r]] = r /\ e.op = "refresh"
       /\ e.step = "answered" /\ e.answer.ok =>
            /\ e.token # None /\ e.answer.access # None
            /\ e.answer.access.epoch = e.token.epoch
            /\ e.answer.access.exp = clock + AccessTTL

\* A call waits for its tab's refresh; it retries with a token of the epoch it
\* presented that outlives the call's request by a token's life.
Calling(r) ==
  LET c == call[r]
      e == exchange[AskOf(r)]
  IN /\ c.asked <= clock
     /\ c.step = "waiting" => /\ c.on # None /\ inflight[TabOf[r]] = c.on
                              /\ c.epoch = EpochOf(exchange[RenewalOf(c.on)].token)
     /\ c.step = "retrying" => /\ e.op = "query" /\ e.token \in AccessTokens /\ e.token # None
                               /\ e.token.epoch = c.epoch
                               /\ e.token.exp >= c.asked + AccessTTL
                               /\ e.step = "answered" /\ ~e.answer.ok => Reason(r)
     /\ c.step = "refused" => Reason(r)

TabInv(t) == Flying(t) /\ \A r \in CallsOf(t) : Renewing(r) /\ Calling(r)

BrowserInv == BrowserTypeOK /\ \A t \in Tab : TabInv(t)

\* What never decreases.
Grows == clock' >= clock /\ Epoch' >= Epoch

\* The invariant of the server, here the browser's.
LEMMA AuthInBrowser == DashboardSpec => []AuthInv
<1>1. Sessions!ClientSpec => []Sessions!AuthInv
  BY Sessions!AuthInvariance, TTLAssumption, NoneAssumption DEF Rows, Sessions!Rows
<1>2. Sessions!AuthInv <=> AuthInv
  BY DEF AuthInv, AuthTypeOK, Sound, Known, Exchanges, Answers, AccessTokens,
         RefreshTokens, Rows, Operation, Step, Denied, Sessions!AuthInv,
         Sessions!AuthTypeOK, Sessions!Sound, Sessions!Known, Sessions!Exchanges,
         Sessions!Answers, Sessions!AccessTokens, Sessions!RefreshTokens, Sessions!Rows,
         Sessions!Operation, Sessions!Step, Sessions!Denied
<1> QED
  BY <1>1, <1>2, SameClients, BrowserIsAClient, PTL DEF ClientsOnly

(* The exchanges of calls and forms are connections, all different.            *)
LEMMA Exchanging ==
  /\ \A r \in Call : AskOf(r) \in Conn /\ RenewalOf(r) \in Conn
  /\ \A t \in Tab : FormOf(t) \in Conn
  /\ \A r, w \in Call : /\ AskOf(r) # RenewalOf(w)
                        /\ AskOf(r) = AskOf(w) => r = w
                        /\ RenewalOf(r) = RenewalOf(w) => r = w
  /\ \A r \in Call, t \in Tab : AskOf(r) # FormOf(t) /\ RenewalOf(r) # FormOf(t)
<1>1. \A r \in Call, t \in Tab :
        AskOf(r) \in Conn /\ RenewalOf(r) \in Conn /\ FormOf(t) \in Conn
  BY OwnExchanges, OwnAssumption
<1> QED
  BY OwnExchanges, OwnAssumption DEF AskOf, RenewalOf, FormOf

(* Clock and epoch are numbers, and every exchange is one.                     *)
LEMMA Numbers ==
  ASSUME AuthInv
  PROVE  /\ clock \in Nat /\ Epoch \in Nat /\ AccessTTL \in Nat
         /\ exchange = [x \in Conn |-> exchange[x]]
         /\ \A x \in Conn : exchange[x] \in Exchanges /\ Sound(x, exchange[x])
  BY TTLAssumption DEF AuthInv, AuthTypeOK, Epoch, Rows

(* A token's epoch is a number, 0 for none.                                    *)
LEMMA EpochIsNat ==
  \A token \in AccessTokens \union RefreshTokens \union {None} : EpochOf(token) \in Nat
  BY DEF EpochOf, AccessTokens, RefreshTokens

\* A reason does not go away.
LEMMA ReasonStays ==
  ASSUME AuthInv, AuthInv', BrowserTypeOK, Grows, NEW r \in Call, Reason(r),
         call'[r].asked = call[r].asked, call'[r].epoch = call[r].epoch
  PROVE  Reason(r)'
<1>1. call[r].asked \in Nat /\ call[r].epoch \in Nat
  BY DEF BrowserTypeOK
<1>2. /\ clock \in Nat /\ Epoch \in Nat /\ AccessTTL \in Nat
      /\ clock' \in Nat /\ Epoch' \in Nat
  BY Numbers, TTLAssumption DEF AuthInv, AuthTypeOK, Epoch, Rows
<1> QED
  BY <1>1, <1>2 DEF Reason, Grows

(* A call that a step does not concern is where it was.                        *)
LEMMA CallStays ==
  ASSUME AuthInv, AuthInv', BrowserTypeOK, Grows, NEW r \in Call, Calling(r),
         call'[r] = call[r],
         call[r].step = "waiting" =>
           /\ inflight'[TabOf[r]] = inflight[TabOf[r]]
           /\ exchange'[RenewalOf(call[r].on)].token = exchange[RenewalOf(call[r].on)].token,
         call[r].step = "retrying" => exchange'[AskOf(r)] = exchange[AskOf(r)]
  PROVE  Calling(r)'
<1>1. call[r].asked <= clock'
  <2>1. call[r].asked \in Nat /\ clock \in Nat /\ clock' \in Nat
    BY DEF BrowserTypeOK, AuthInv, AuthTypeOK
  <2> QED
    BY <2>1 DEF Calling, Grows
<1>2. Reason(r) => Reason(r)'
  BY ReasonStays
<1>3. call[r].step = "waiting" =>
        /\ call[r].on # None /\ inflight'[TabOf[r]] = call[r].on
        /\ call[r].epoch = EpochOf(exchange'[RenewalOf(call[r].on)].token)
  BY DEF Calling
<1>4. call[r].step = "refused" => Reason(r)'
  BY <1>2 DEF Calling
<1>5. call[r].step = "retrying" =>
        LET e == exchange'[AskOf(r)]
        IN /\ e.op = "query" /\ e.token \in AccessTokens /\ e.token # None
           /\ e.token.epoch = call[r].epoch
           /\ e.token.exp >= call[r].asked + AccessTTL
           /\ e.step = "answered" /\ ~e.answer.ok => Reason(r)'
  BY <1>2 DEF Calling
<1> QED
  BY <1>1, <1>3, <1>4, <1>5 DEF Calling, EpochOf

(* A tab that a step does not concern is as it was.                            *)
LEMMA TabStays ==
  ASSUME AuthInv, AuthInv', BrowserTypeOK, Grows, UNCHANGED clock,
         NEW t \in Tab, TabInv(t), inflight'[t] = inflight[t],
         \A r \in CallsOf(t) : /\ call'[r] = call[r]
                               /\ exchange'[AskOf(r)] = exchange[AskOf(r)]
                               /\ exchange'[RenewalOf(r)] = exchange[RenewalOf(r)]
  PROVE  TabInv(t)'
<1>1. inflight[t] # None => inflight[t] \in CallsOf(t)
  BY DEF TabInv, Flying, CallsOf, BrowserTypeOK
<1>2. Flying(t)'
  BY <1>1 DEF TabInv, Flying
<1>3. ASSUME NEW r \in CallsOf(t) PROVE Renewing(r)' /\ Calling(r)'
  <2>1. r \in Call /\ TabOf[r] = t /\ Renewing(r) /\ Calling(r)
    BY <1>3 DEF CallsOf, TabInv
  <2>2. Renewing(r)'
    BY <1>3, <2>1 DEF Renewing
  <2>3. call[r].step = "waiting" => call[r].on \in CallsOf(t)
    BY <1>1, <2>1 DEF Calling
  <2> QED
    BY <1>3, <2>1, <2>2, <2>3, CallStays
<1> QED
  BY <1>2, <1>3 DEF TabInv, CallsOf

(* A step of a tab: time and account stand still.                              *)
LEMMA Still == ASSUME AuthInv, Unserved PROVE Grows /\ UNCHANGED clock
  BY Numbers DEF Unserved, Grows, Epoch

\* A step of one tab, on its own exchanges, leaves the others as they were.
LEMMA OtherTabs ==
  ASSUME AuthInv, AuthInv', BrowserTypeOK, Unserved, NEW t \in Tab,
         NEW u \in Tab, u # t, TabInv(u),
         inflight'[u] = inflight[u],
         \A r \in Call : TabOf[r] # t => call'[r] = call[r],
         \A x \in Conn : exchange'[x] = exchange[x]
                           \/ x = FormOf(t)
                           \/ \E r \in CallsOf(t) : x \in {AskOf(r), RenewalOf(r)}
  PROVE  TabInv(u)'
<1>1. ASSUME NEW r \in CallsOf(u)
      PROVE  /\ call'[r] = call[r]
             /\ exchange'[AskOf(r)] = exchange[AskOf(r)]
             /\ exchange'[RenewalOf(r)] = exchange[RenewalOf(r)]
  <2>1. r \in Call /\ TabOf[r] # t /\ r \notin CallsOf(t)
    BY <1>1 DEF CallsOf
  <2> QED
    BY <2>1, Exchanging DEF CallsOf
<1> QED
  BY <1>1, Still, TabStays

(* Nothing but a form's exchange is touched: every call is as it was.          *)
LEMMA OnlyForms ==
  ASSUME AuthInv, AuthInv', BrowserTypeOK, Unserved, \A u \in Tab : TabInv(u),
         UNCHANGED <<inflight, call>>, NEW t \in Tab, NEW e, Put(FormOf(t), e)
  PROVE  \A u \in Tab : TabInv(u)'
<1>1. \A x \in Conn : x # FormOf(t) => exchange'[x] = exchange[x]
  BY Numbers, Exchanging DEF Put
<1> QED
  BY <1>1, Exchanging, Still, TabStays DEF CallsOf

(* Of a tab's calls only one is touched, and not the refresh.                  *)
LEMMA OneCall ==
  ASSUME AuthInv, AuthInv', BrowserTypeOK, Unserved, \A u \in Tab : TabInv(u),
         NEW r \in Call, NEW e, Put(AskOf(r), e), UNCHANGED inflight,
         call[r].step # "waiting",
         \A w \in Call \ {r} : call'[w] = call[w],
         Calling(r)'
  PROVE  \A u \in Tab : TabInv(u)'
<1> DEFINE t == TabOf[r]
<1>1. t \in Tab /\ r \in CallsOf(t)
  BY OwnExchanges DEF CallsOf
<1>2. \A x \in Conn : x # AskOf(r) => exchange'[x] = exchange[x]
  BY Numbers, Exchanging DEF Put
<1>3. ASSUME NEW u \in Tab, u # t PROVE TabInv(u)'
  BY <1>1, <1>2, <1>3, OtherTabs
<1>4. Flying(t)'
  BY <1>1, <1>2, Exchanging DEF TabInv, Flying, BrowserTypeOK
<1>5. ASSUME NEW w \in CallsOf(t) PROVE Renewing(w)' /\ Calling(w)'
  <2>1. w \in Call /\ TabOf[w] = t /\ Renewing(w) /\ Calling(w)
    BY <1>1, <1>5 DEF CallsOf, TabInv
  <2>2. exchange'[RenewalOf(w)] = exchange[RenewalOf(w)]
    BY <1>2, <2>1, Exchanging
  <2>3. Renewing(w)'
    BY <2>1, <2>2, Still DEF Renewing
  <2>4. call[w].step = "waiting" => call[w].on \in Call
    BY <2>1, <1>1 DEF Calling, BrowserTypeOK
  <2>5. CASE w # r
    <3>1. exchange'[AskOf(w)] = exchange[AskOf(w)]
      BY <1>2, <2>1, <2>5, Exchanging
    <3>2. call[w].step = "waiting" => exchange'[RenewalOf(call[w].on)] = exchange[RenewalOf(call[w].on)]
      BY <1>2, <2>4, Exchanging
    <3> QED
      BY <2>1, <2>3, <2>5, <3>1, <3>2, CallStays, Still
  <2> QED
    BY <2>3, <2>5
<1>6. TabInv(t)'
  BY <1>4, <1>5 DEF TabInv, CallsOf
<1> QED
  BY <1>3, <1>6

-------------------------------------------------------------------------------
(* The steps of a call.                                                        *)

(* A call begins: it waits for nothing yet.                                    *)
LEMMA AskInv ==
  ASSUME BrowserInv, AuthInv, AuthInv', NEW r \in Call, Ask(r)
  PROVE  BrowserInv'
<1>1. BrowserTypeOK'
  BY Numbers DEF Ask, BrowserInv, BrowserTypeOK, Settled
<1>2. call[r].step # "waiting"
  BY DEF Ask, Settled
<1>3. call'[r] = [step |-> "asking", on |-> None, asked |-> clock, epoch |-> 0]
  BY DEF Ask, BrowserInv, BrowserTypeOK
<1>4. Calling(r)'
  BY <1>3, Numbers DEF Calling, Ask, Unserved
<1>5. \A w \in Call \ {r} : call'[w] = call[w]
  BY DEF Ask, BrowserInv, BrowserTypeOK
<1> QED
  BY <1>1, <1>2, <1>4, <1>5, OneCall DEF Ask, BrowserInv

(* A call that has its answer is over, or refused for the reason its answer had. *)
LEMMA ReturnInv ==
  ASSUME BrowserInv, AuthInv, AuthInv', NEW r \in Call, Return(r)
  PROVE  BrowserInv'
<1>1. BrowserTypeOK'
  BY DEF Return, BrowserInv, BrowserTypeOK, Settled, NoCall
<1>2. call[r].step # "waiting" /\ \A w \in Call \ {r} : call'[w] = call[w]
  BY DEF Return, BrowserInv, BrowserTypeOK
<1>3. Calling(r)'
  <2>1. CASE exchange[AskOf(r)].answer.ok
    <3>1. call'[r] = NoCall
      BY <2>1 DEF Return, BrowserInv, BrowserTypeOK
    <3> QED
      BY <3>1, Numbers DEF Calling, NoCall, Return, Unserved
  <2>2. CASE ~exchange[AskOf(r)].answer.ok
    <3>1. call'[r] = [call[r] EXCEPT !.step = "refused"] /\ call[r].step = "retrying"
      BY <2>2 DEF Return, BrowserInv, BrowserTypeOK
    <3>2. call[r] \in [step : Settled \union {"asking", "waiting", "retrying"},
                       on : Call \union {None}, asked : Nat, epoch : Nat]
      BY DEF BrowserInv, BrowserTypeOK
    <3>3. call'[r].step = "refused" /\ call'[r].asked = call[r].asked /\ call'[r].epoch = call[r].epoch
      BY <3>1, <3>2
    <3>4. Calling(r)
      BY OwnExchanges DEF BrowserInv, TabInv, CallsOf
    <3>5. Reason(r)
      BY <2>2, <3>1, <3>4 DEF Calling, Return, Arrived
    <3>6. Reason(r)'
      BY <3>3, <3>5, ReasonStays, Still DEF Return, BrowserInv
    <3>7. call'[r].asked <= clock'
      BY <3>3, <3>4 DEF Calling, Return, Unserved
    <3> QED
      BY <3>3, <3>6, <3>7 DEF Calling
  <2> QED
    BY <2>1, <2>2
<1> QED
  BY <1>1, <1>2, <1>3, OneCall DEF Return, BrowserInv

(* A call that the network fails is over.                                      *)
LEMMA CallFailsInv ==
  ASSUME BrowserInv, AuthInv, AuthInv', NEW r \in Call, CallFails(r)
  PROVE  BrowserInv'
<1>1. BrowserTypeOK'
  BY DEF CallFails, BrowserInv, BrowserTypeOK, Settled, NoCall
<1>2. call[r].step # "waiting" /\ \A w \in Call \ {r} : call'[w] = call[w]
  BY DEF CallFails, BrowserInv, BrowserTypeOK
<1>3. call'[r] = NoCall
  BY DEF CallFails, BrowserInv, BrowserTypeOK
<1>4. Calling(r)'
  BY <1>3, Numbers DEF Calling, NoCall, CallFails, Unserved
<1> QED
  BY <1>1, <1>2, <1>4, OneCall DEF CallFails, BrowserInv

(* What is known of a call and of its tab.                                     *)
LEMMA OfCall ==
  ASSUME BrowserInv, NEW r \in Call
  PROVE  /\ TabOf[r] \in Tab /\ r \in CallsOf(TabOf[r])
         /\ Flying(TabOf[r]) /\ Renewing(r) /\ Calling(r)
  BY OwnExchanges DEF BrowserInv, TabInv, CallsOf

(* A refused call begins the tab's refresh or joins the one in flight.         *)
LEMMA RenewInv ==
  ASSUME BrowserInv, AuthInv, AuthInv', NEW r \in Call, Renew(r)
  PROVE  BrowserInv'
<1> DEFINE t == TabOf[r]
           on == RefreshFor(r)
           token == IF on = r THEN cookie ELSE exchange[RenewalOf(on)].token
<1>1. /\ t \in Tab /\ r \in CallsOf(t) /\ Calling(r) /\ Flying(t)
      /\ call[r].step = "asking" /\ Unserved /\ UNCHANGED <<stored, cookie, page>>
  BY OfCall DEF Renew
<1>2. on \in Call /\ TabOf[on] = t /\ (inflight[t] = None => on = r)
  BY <1>1 DEF RefreshFor, Flying, BrowserInv, BrowserTypeOK
<1>3. inflight[t] # None => on = inflight[t] /\ on # r /\ exchange[RenewalOf(on)] # Idle
  BY <1>1 DEF RefreshFor, Flying
<1>4. token \in AccessTokens \union RefreshTokens \union {None}
  BY <1>2, Numbers, Exchanging DEF Exchanges, BrowserInv, BrowserTypeOK
<1>5. /\ inflight' = [inflight EXCEPT ![t] = on]
      /\ call' = [call EXCEPT ![r].step = "waiting", ![r].on = on, ![r].epoch = EpochOf(token)]
  BY DEF Renew
<1>6. BrowserTypeOK'
  <2>1. EpochOf(token) \in Nat
    BY <1>4, EpochIsNat
  <2>2. call'[r] \in [step : Settled \union {"asking", "waiting", "retrying"},
                      on : Call \union {None}, asked : Nat, epoch : Nat]
    BY <1>2, <1>5, <2>1 DEF BrowserInv, BrowserTypeOK
  <2>3. call' = [call EXCEPT ![r] = call'[r]]
    BY <1>5 DEF BrowserInv, BrowserTypeOK
  <2> HIDE DEF t, on, token
  <2>4. call' \in [Call -> [step : Settled \union {"asking", "waiting", "retrying"},
                      on : Call \union {None}, asked : Nat, epoch : Nat]]
    BY <2>2, <2>3 DEF BrowserInv, BrowserTypeOK
  <2>5. inflight' \in [Tab -> Call \union {None}]
    BY <1>2, <1>5 DEF BrowserInv, BrowserTypeOK
  <2> QED
    BY <1>1, <2>4, <2>5 DEF BrowserInv, BrowserTypeOK
<1>7. /\ \A x \in Conn : x \notin {AskOf(r), RenewalOf(r)} => exchange'[x] = exchange[x]
      /\ exchange'[RenewalOf(r)] = IF on = r THEN Request("refresh", cookie)
                                             ELSE exchange[RenewalOf(r)]
  BY Exchanging, Numbers DEF Renew
<1>8. \A w \in Call \ {r} : call'[w] = call[w]
  BY <1>5 DEF BrowserInv, BrowserTypeOK
<1>9. /\ call'[r].step = "waiting" /\ call'[r].on = on
      /\ call'[r].epoch = EpochOf(token) /\ call'[r].asked = call[r].asked
  BY <1>5 DEF BrowserInv, BrowserTypeOK
<1>10. inflight'[t] = on /\ \A u \in Tab \ {t} : inflight'[u] = inflight[u]
  BY <1>1, <1>5 DEF BrowserInv, BrowserTypeOK
<1>11. Request("refresh", cookie) # Idle /\ Request("refresh", cookie).token = cookie
       /\ Request("refresh", cookie).op = "refresh" /\ Request("refresh", cookie).step = "sent"
  BY DEF Request, Idle
<1>12. ASSUME NEW u \in Tab, u # t PROVE TabInv(u)'
  <2>1. \A w \in Call : TabOf[w] # t => call'[w] = call[w]
    BY <1>8
  <2> QED
    BY <1>1, <1>7, <1>10, <1>12, <2>1, OtherTabs DEF BrowserInv
<1> HIDE DEF on, token
<1>13. on # r => exchange'[RenewalOf(on)] = exchange[RenewalOf(on)]
  BY <1>2, <1>7, Exchanging
<1>14. EpochOf(token) = EpochOf(exchange'[RenewalOf(on)].token)
  BY <1>7, <1>11, <1>13 DEF token
<1>15. on # None
  BY <1>2, CallAssumption
<1>16. exchange'[RenewalOf(on)] # Idle
  BY <1>2, <1>3, <1>7, <1>11, <1>13
<1>17. Calling(r)'
  <2>1. call'[r].asked <= clock'
    BY <1>1, <1>9 DEF Calling, Unserved
  <2> QED
    BY <1>9, <1>10, <1>14, <1>15, <2>1 DEF Calling, EpochOf
<1>18. on # r => call[on].step = "waiting"
  BY <1>1, <1>2, <1>3 DEF Flying
<1>19. Flying(t)'
  BY <1>2, <1>8, <1>9, <1>10, <1>16, <1>18 DEF Flying
<1>20. ASSUME NEW w \in CallsOf(t), w # r PROVE Renewing(w)' /\ Calling(w)'
  <2>1. w \in Call /\ TabOf[w] = t /\ Renewing(w) /\ Calling(w)
    BY <1>20, OfCall DEF CallsOf
  <2>2. exchange'[RenewalOf(w)] = exchange[RenewalOf(w)] /\ exchange'[AskOf(w)] = exchange[AskOf(w)]
    BY <1>7, <1>20, <2>1, Exchanging
  <2>3. exchange[RenewalOf(w)] # Idle => inflight'[t] = w /\ w = inflight[t]
    BY <1>3, <1>10, <2>1, CallAssumption DEF Renewing
  <2>4. Renewing(w)'
    BY <1>1, <2>1, <2>2, <2>3 DEF Renewing, Unserved
  <2>5. call[w].step = "waiting" => inflight'[t] = inflight[t] /\ call[w].on = on /\ on # r
    BY <1>3, <1>10, <2>1 DEF Calling
  <2>6. Calling(w)'
    BY <1>1, <1>8, <1>13, <1>20, <2>1, <2>2, <2>5, CallStays, Still DEF BrowserInv
  <2> QED
    BY <2>4, <2>6
<1>21. Renewing(r)'
  <2>1. CASE on = r
    BY <1>2, <1>7, <1>10, <1>11, <2>1 DEF Renewing
  <2>2. CASE on # r
    <3>1. exchange[RenewalOf(r)] = Idle
      BY <1>2, <1>3, <2>2, OfCall, CallAssumption DEF Renewing
    <3> QED
      BY <1>7, <2>2, <3>1 DEF Renewing
  <2> QED
    BY <2>1, <2>2
<1>22. TabInv(t)'
  BY <1>17, <1>19, <1>20, <1>21 DEF TabInv, CallsOf
<1> QED
  BY <1>6, <1>12, <1>22 DEF BrowserInv

(* Who waits for a refresh that is over is in its tab, and all that wait there. *)
LEMMA Waiting ==
  ASSUME BrowserInv, AuthInv, NEW r \in Call, Arrived(RenewalOf(r))
  PROVE  /\ exchange[RenewalOf(r)] # Idle /\ inflight[TabOf[r]] = r
         /\ WaitingOn(r) = {w \in CallsOf(TabOf[r]) : call[w].step = "waiting"}
         /\ \A w \in CallsOf(TabOf[r]) \ {r} : exchange[RenewalOf(w)] = Idle
<1>1. exchange[RenewalOf(r)] # Idle
  BY DEF Arrived, Idle
<1>2. inflight[TabOf[r]] = r
  BY <1>1, OfCall DEF Renewing
<1>3. ASSUME NEW w \in Call, call[w].step = "waiting"
      PROVE  call[w].on = r <=> TabOf[w] = TabOf[r]
  <2>1. inflight[TabOf[w]] = call[w].on /\ call[w].on # None /\ Flying(TabOf[w])
    BY <1>3, OfCall DEF Calling
  <2> QED
    BY <1>2, <2>1 DEF Flying
<1>4. ASSUME NEW w \in CallsOf(TabOf[r]) \ {r} PROVE exchange[RenewalOf(w)] = Idle
  BY <1>2, <1>4, OfCall DEF Renewing, CallsOf
<1> QED
  BY <1>1, <1>2, <1>3, <1>4 DEF WaitingOn, CallsOf

(* A settled refresh is over for its tab: what follows of how its calls go on.  *)
LEMMA SettledTab ==
  ASSUME BrowserInv, AuthInv, AuthInv', NEW r \in Call, Arrived(RenewalOf(r)), Unserved,
         Forget(r),
         exchange'[RenewalOf(r)] = Idle,
         \A w \in Call \ WaitingOn(r) : /\ call'[w] = call[w]
                                        /\ exchange'[AskOf(w)] = exchange[AskOf(w)],
         \A w \in Call \ {r} : exchange'[RenewalOf(w)] = exchange[RenewalOf(w)],
         \A w \in WaitingOn(r) : Calling(w)'
  PROVE  \A u \in Tab : TabInv(u)'
<1> DEFINE t == TabOf[r]
<1>1. /\ t \in Tab /\ inflight[t] = r
      /\ WaitingOn(r) = {w \in CallsOf(t) : call[w].step = "waiting"}
      /\ \A w \in CallsOf(t) \ {r} : exchange[RenewalOf(w)] = Idle
  BY Waiting, OfCall
<1>2. inflight'[t] = None /\ \A u \in Tab \ {t} : inflight'[u] = inflight[u]
  BY <1>1 DEF Forget, BrowserInv, BrowserTypeOK
<1>3. ASSUME NEW u \in Tab, u # t PROVE TabInv(u)'
  <2>1. ASSUME NEW w \in CallsOf(u)
        PROVE  /\ call'[w] = call[w]
               /\ exchange'[AskOf(w)] = exchange[AskOf(w)]
               /\ exchange'[RenewalOf(w)] = exchange[RenewalOf(w)]
    <3>1. w \in Call /\ w # r /\ w \notin WaitingOn(r)
      BY <1>1, <1>3, <2>1 DEF CallsOf
    <3> QED
      BY <3>1
  <2> QED
    BY <1>2, <1>3, <2>1, Still, TabStays DEF BrowserInv
<1>4. Flying(t)'
  BY <1>2 DEF Flying
<1>5. ASSUME NEW w \in CallsOf(t) PROVE Renewing(w)' /\ Calling(w)'
  <2>1. w \in Call /\ TabOf[w] = t /\ Calling(w)
    BY <1>5, OfCall DEF CallsOf
  <2>2. exchange'[RenewalOf(w)] = Idle
    BY <1>1, <1>5, <2>1
  <2>3. Renewing(w)'
    BY <2>2 DEF Renewing, Idle, Denied
  <2>4. CASE w \notin WaitingOn(r)
    <3>1. call[w].step # "waiting"
      BY <1>1, <1>5, <2>4
    <3> QED
      BY <2>1, <2>3, <2>4, <3>1, CallStays, Still DEF BrowserInv
  <2> QED
    BY <2>3, <2>4
<1> QED
  BY <1>3, <1>4, <1>5 DEF TabInv, CallsOf

(* The token a refresh brings is as new as any call that waits for it.         *)
LEMMA RenewedInv ==
  ASSUME BrowserInv, AuthInv, AuthInv', NEW r \in Call, Renewed(r)
  PROVE  BrowserInv'
<1> DEFINE e == exchange[RenewalOf(r)]
           access == e.answer.access
<1>1. /\ Arrived(RenewalOf(r)) /\ e.answer.ok /\ Unserved /\ Forget(r) /\ UNCHANGED page
      /\ stored' = access /\ cookie' = e.answer.refresh
  BY DEF Renewed
<1>2. e \in Exchanges /\ access \in AccessTokens \union {None}
      /\ e.answer.refresh \in RefreshTokens \union {None}
  BY Numbers, Exchanging DEF Exchanges, Answers
<1>3. e # Idle /\ access # None /\ access \in AccessTokens /\ e.token # None
      /\ access.epoch = e.token.epoch /\ access.exp = clock + AccessTTL
  BY <1>1, <1>2, OfCall, Waiting DEF Renewing, Arrived
<1>4. call' = [w \in Call |-> IF w \in WaitingOn(r)
                              THEN [call[w] EXCEPT !.step = "retrying", !.on = None]
                              ELSE call[w]]
  BY DEF Renewed
<1>5. ASSUME NEW w \in WaitingOn(r)
      PROVE  /\ call'[w].step = "retrying" /\ call'[w].on = None
             /\ call'[w].asked = call[w].asked /\ call'[w].epoch = call[w].epoch
             /\ call'[w] \in [step : Settled \union {"asking", "waiting", "retrying"},
                              on : Call \union {None}, asked : Nat, epoch : Nat]
  BY <1>4, <1>5 DEF WaitingOn, BrowserInv, BrowserTypeOK
<1>6. BrowserTypeOK'
  <2>1. call' \in [Call -> [step : Settled \union {"asking", "waiting", "retrying"},
                            on : Call \union {None}, asked : Nat, epoch : Nat]]
    BY <1>4, <1>5 DEF BrowserInv, BrowserTypeOK
  <2>2. inflight' \in [Tab -> Call \union {None}]
    BY <1>1 DEF Forget, BrowserInv, BrowserTypeOK
  <2> QED
    BY <1>1, <1>2, <2>1, <2>2 DEF BrowserInv, BrowserTypeOK
<1>7. \A x \in Conn : exchange'[x] = IF x = RenewalOf(r) THEN Idle
                      ELSE IF x \in {AskOf(w) : w \in WaitingOn(r)} THEN Request("query", access)
                      ELSE exchange[x]
  BY DEF Renewed, RetryRequest
<1> HIDE DEF e, access
<1>8. \A w \in WaitingOn(r) : w \in Call /\ exchange'[AskOf(w)] = Request("query", access)
  BY <1>7, Exchanging DEF WaitingOn
<1>9. /\ \A w \in Call \ WaitingOn(r) : exchange'[AskOf(w)] = exchange[AskOf(w)]
      /\ \A w \in Call \ {r} : exchange'[RenewalOf(w)] = exchange[RenewalOf(w)]
      /\ exchange'[RenewalOf(r)] = Idle
  BY <1>7, Exchanging DEF WaitingOn
<1>10. Request("query", access).op = "query" /\ Request("query", access).token = access
       /\ Request("query", access).step = "sent"
  BY DEF Request, Idle
<1>11. ASSUME NEW w \in WaitingOn(r) PROVE Calling(w)'
  <2>1. w \in Call /\ call[w].step = "waiting" /\ call[w].on = r /\ Calling(w)
    BY <1>11, OfCall DEF WaitingOn
  <2>2. call[w].epoch = access.epoch
    BY <1>3, <2>1 DEF Calling, EpochOf, e
  <2>3. call[w].asked \in Nat /\ call[w].asked <= clock /\ clock' = clock
        /\ clock \in Nat /\ AccessTTL \in Nat
    BY <1>1, <2>1, Numbers DEF Calling, Unserved, BrowserInv, BrowserTypeOK
  <2>4. access.exp >= call[w].asked + AccessTTL
    BY <1>3, <2>3
  <2> QED
    BY <1>3, <1>5, <1>8, <1>10, <1>11, <2>2, <2>3, <2>4 DEF Calling
<1>12. \A w \in Call \ WaitingOn(r) : call'[w] = call[w]
  BY <1>4
<1> QED
  BY <1>1, <1>6, <1>9, <1>11, <1>12, SettledTab DEF BrowserInv

(* A tab that gives up forgets the calls that wait for its refresh.            *)
LEMMA GiveUpInv ==
  ASSUME BrowserInv, AuthInv, AuthInv', NEW r \in Call, Arrived(RenewalOf(r)), GiveUp(r),
         UNCHANGED cookie \/ KeepCookie(RenewalOf(r)), Unserved
  PROVE  BrowserInv'
<1>1. call' = [w \in Call |-> IF w \in WaitingOn(r) THEN NoCall ELSE call[w]]
  BY DEF GiveUp
<1>2. Forget(r) /\ Put(RenewalOf(r), Idle) /\ stored' = None
      /\ page' = [page EXCEPT ![TabOf[r]] = "leaving"]
  BY DEF GiveUp
<1>3. exchange[RenewalOf(r)].answer.refresh \in RefreshTokens \union {None}
  BY Numbers, Exchanging DEF Exchanges, Answers
<1>4. BrowserTypeOK'
  <2>1. NoCall \in [step : Settled \union {"asking", "waiting", "retrying"},
                    on : Call \union {None}, asked : Nat, epoch : Nat]
    BY DEF NoCall, Settled
  <2>2. call' \in [Call -> [step : Settled \union {"asking", "waiting", "retrying"},
                            on : Call \union {None}, asked : Nat, epoch : Nat]]
    BY <1>1, <2>1 DEF BrowserInv, BrowserTypeOK
  <2>3. inflight' \in [Tab -> Call \union {None}] /\ page' \in [Tab -> Page]
    BY <1>2 DEF Forget, Page, BrowserInv, BrowserTypeOK
  <2> QED
    BY <1>2, <1>3, <2>2, <2>3 DEF KeepCookie, BrowserInv, BrowserTypeOK
<1>5. /\ \A w \in Call : exchange'[AskOf(w)] = exchange[AskOf(w)]
      /\ \A w \in Call \ {r} : exchange'[RenewalOf(w)] = exchange[RenewalOf(w)]
      /\ exchange'[RenewalOf(r)] = Idle
  BY <1>2, Exchanging, Numbers DEF Put
<1>6. ASSUME NEW w \in WaitingOn(r) PROVE Calling(w)'
  <2>1. call'[w] = NoCall /\ clock' \in Nat
    BY <1>1, <1>6 DEF WaitingOn, AuthInv, AuthTypeOK
  <2> QED
    BY <2>1 DEF Calling, NoCall
<1> QED
  BY <1>1, <1>2, <1>4, <1>5, <1>6, SettledTab DEF BrowserInv

(* The calls of a page that is unloaded are abandoned with its refresh.        *)
LEMMA UnloadInv ==
  ASSUME BrowserInv, AuthInv, AuthInv', NEW t \in Tab, Unload(t)
  PROVE  BrowserInv'
<1>1. /\ call' = [r \in Call |-> IF TabOf[r] = t THEN NoCall ELSE call[r]]
      /\ inflight' = [inflight EXCEPT ![t] = None]
      /\ page' = [page EXCEPT ![t] = "login"]
      /\ Unserved /\ UNCHANGED <<stored, cookie>>
  BY DEF Unload
<1>2. BrowserTypeOK'
  BY <1>1 DEF NoCall, Settled, Page, BrowserInv, BrowserTypeOK
<1>3. \A x \in Conn : exchange'[x] =
        IF x = FormOf(t) \/ x \in {AskOf(r) : r \in CallsOf(t)}
                                    \union {RenewalOf(r) : r \in CallsOf(t)}
        THEN Idle ELSE exchange[x]
  BY DEF Unload
<1>4. inflight'[t] = None /\ \A u \in Tab \ {t} : inflight'[u] = inflight[u]
  BY <1>1 DEF BrowserInv, BrowserTypeOK
<1>5. ASSUME NEW u \in Tab, u # t PROVE TabInv(u)'
  BY <1>1, <1>3, <1>4, <1>5, OtherTabs DEF BrowserInv
<1>6. ASSUME NEW r \in CallsOf(t) PROVE Renewing(r)' /\ Calling(r)'
  <2>1. call'[r] = NoCall /\ clock' \in Nat /\ exchange'[RenewalOf(r)] = Idle
    BY <1>1, <1>3, <1>6, Exchanging DEF CallsOf, AuthInv, AuthTypeOK
  <2> QED
    BY <2>1 DEF Renewing, Calling, NoCall, Idle, Denied
<1>7. TabInv(t)'
  BY <1>4, <1>6 DEF TabInv, Flying, CallsOf
<1> QED
  BY <1>2, <1>5, <1>7 DEF BrowserInv

-------------------------------------------------------------------------------
(* The steps of pages, of other clients, of time and of the server.            *)

(* A form is not a call: no step of a page but its unloading concerns one.     *)
LEMMA PageInv ==
  ASSUME BrowserInv, AuthInv, AuthInv', NEW t \in Tab,
         Open(t) \/ Gate(t) \/ Gated(t) \/ Submit(t) \/ SignedIn(t) \/ TurnedAway(t) \/ FormFails(t)
  PROVE  BrowserInv'
<1>1. /\ exchange[FormOf(t)].answer.access \in AccessTokens \union {None}
      /\ exchange[FormOf(t)].answer.refresh \in RefreshTokens \union {None}
  BY Numbers, Exchanging DEF Exchanges, Answers
<1>2. BrowserTypeOK' /\ UNCHANGED <<inflight, call>>
  BY <1>1 DEF Open, Gate, Gated, Submit, SignedIn, TurnedAway, FormFails, KeepCookie,
              browserVars, Page, BrowserInv, BrowserTypeOK
<1>3. CASE Open(t)
  <2>1. Unserved /\ UNCHANGED exchange
    BY <1>3 DEF Open, authVars, Unserved
  <2> QED
    BY <1>2, <2>1, Still, TabStays DEF BrowserInv
<1>4. CASE ~Open(t)
  <2>1. Unserved /\ \E e : Put(FormOf(t), e)
    BY <1>4 DEF Gate, Gated, Submit, SignedIn, TurnedAway, FormFails
  <2> QED
    BY <1>2, <2>1, OnlyForms DEF BrowserInv
<1> QED
  BY <1>3, <1>4

(* What others send concerns no call.                                          *)
LEMMA ElsewhereInv ==
  ASSUME BrowserInv, AuthInv, AuthInv', NEW x \in Other, LogoutElsewhere(x)
  PROVE  BrowserInv'
<1>1. BrowserTypeOK' /\ Unserved /\ UNCHANGED <<inflight, call>>
  BY DEF LogoutElsewhere, browserVars, BrowserInv, BrowserTypeOK
<1>2. \A y \in Own : exchange'[y] = exchange[y]
  BY Numbers, OwnAssumption DEF LogoutElsewhere, Put, Other
<1> QED
  BY <1>1, <1>2, OwnExchanges, Still, TabStays DEF BrowserInv, CallsOf

(* Time passes while no answer waits.                                          *)
LEMMA LaterInv == ASSUME BrowserInv, AuthInv, AuthInv', Later PROVE BrowserInv'
<1>1. /\ clock' = clock + 1 /\ UNCHANGED <<credentials, exchange, stored, cookie, page, inflight, call>>
      /\ \A x \in Own : exchange[x].step # "answered"
  BY OwnAssumption DEF Later, Tick, browserVars, Arrived, Other
<1>2. Grows
  BY <1>1, Numbers DEF Grows, Epoch
<1>3. BrowserTypeOK'
  BY <1>1 DEF BrowserInv, BrowserTypeOK
<1>4. ASSUME NEW t \in Tab PROVE Flying(t)'
  BY <1>1 DEF BrowserInv, TabInv, Flying
<1>5. ASSUME NEW r \in Call PROVE Renewing(r)' /\ Calling(r)'
  BY <1>1, <1>2, <1>5, OfCall, OwnExchanges, CallStays DEF Renewing, BrowserInv
<1> QED
  BY <1>3, <1>4, <1>5 DEF BrowserInv, TabInv, CallsOf

\* What a step of the server leaves of an exchange, and which way the row goes.
LEMMA Serving ==
  ASSUME AuthInv, NEW x \in Conn, Serve(x)
  PROVE  /\ UNCHANGED clock /\ Grows
         /\ \A y \in Conn \ {x} : exchange'[y] = exchange[y]
         /\ exchange'[x].op = exchange[x].op /\ exchange'[x].token = exchange[x].token
         /\ exchange'[x].step # "idle" /\ exchange[x].step # "idle"
<1>1. /\ clock \in Nat /\ Epoch \in Nat /\ exchange[x] \in Exchanges /\ Sound(x, exchange[x])
      /\ credentials \in Rows \union {None}
  BY Numbers DEF AuthInv, AuthTypeOK
<1>2. UNCHANGED clock
  BY DEF Serve, ReadRow, Status, Refuse, Provision, StartSession, Refresh, Logout, Query
<1>3. Epoch' >= Epoch
  <2>1. CASE UNCHANGED credentials
    BY <1>1, <2>1 DEF Epoch
  <2>2. CASE Provision(x)
    BY <2>2, NoneAssumption, <1>1 DEF Provision, NoRow, Epoch, Rows
  <2>3. CASE Logout(x)
    <3>1. CASE exchange[x].row = None
      BY <2>1, <2>3, <3>1 DEF Logout
    <3>2. CASE exchange[x].row # None
      <4>1. credentials # None /\ credentials \in Rows
        BY <1>1, <3>2 DEF Sound
      <4>2. credentials' = [credentials EXCEPT !.epoch = @ + 1]
        BY <2>3, <3>2 DEF Logout
      <4>3. credentials' \in Rows /\ credentials'.epoch = credentials.epoch + 1
            /\ credentials.epoch \in Nat
        BY <4>1, <4>2 DEF Rows
      <4> QED
        BY <4>1, <4>3, NoneAssumption DEF Epoch
    <3> QED
      BY <3>1, <3>2
  <2> QED
    BY <2>1, <2>2, <2>3 DEF Serve, ReadRow, Status, Refuse, StartSession, Refresh, Query
<1>4. \E e : /\ exchange' = [exchange EXCEPT ![x] = e]
             /\ e.op = exchange[x].op /\ e.token = exchange[x].token /\ e.step # "idle"
  <2>1. ASSUME NEW a, Answer(x, a)
        PROVE  \E e : /\ exchange' = [exchange EXCEPT ![x] = e]
                      /\ e.op = exchange[x].op /\ e.token = exchange[x].token /\ e.step # "idle"
    <3> DEFINE e == [exchange[x] EXCEPT !.step = "answered", !.row = None, !.answer = a]
    <3>1. exchange' = [exchange EXCEPT ![x] = e]
      BY <2>1, Numbers DEF Answer
    <3>2. e.op = exchange[x].op /\ e.token = exchange[x].token /\ e.step # "idle"
      BY <1>1 DEF Exchanges
    <3> QED
      BY <3>1, <3>2
  <2>2. CASE ReadRow(x)
    <3> DEFINE e == [exchange[x] EXCEPT !.step = "read", !.row = credentials]
    <3>1. exchange' = [exchange EXCEPT ![x] = e]
      BY <2>2, Numbers DEF ReadRow
    <3>2. e.op = exchange[x].op /\ e.token = exchange[x].token /\ e.step # "idle"
      BY <1>1 DEF Exchanges
    <3> QED
      BY <3>1, <3>2
  <2>3. CASE Provision(x)
    <3> DEFINE e == [exchange[x] EXCEPT !.step = "created", !.row = credentials']
    <3>1. exchange' = [exchange EXCEPT ![x] = e]
      BY <2>3, Numbers DEF Provision
    <3>2. e.op = exchange[x].op /\ e.token = exchange[x].token /\ e.step # "idle"
      BY <1>1 DEF Exchanges
    <3> QED
      BY <3>1, <3>2
  <2> QED
    BY <2>1, <2>2, <2>3 DEF Serve, Status, Refuse, StartSession, Refresh, Logout, Query
<1>5. exchange[x].step # "idle"
  BY DEF Serve, ReadRow, Status, Refuse, Provision, StartSession, Refresh, Logout, Query,
         Asking, Deciding
<1> QED
  BY <1>2, <1>3, <1>4, <1>5, Numbers DEF Grows

(* A call's answer is refused for a reason.                                    *)
LEMMA ServeAsk ==
  ASSUME BrowserInv, AuthInv, AuthInv', NEW r \in Call, Serve(AskOf(r)), UNCHANGED browserVars,
         call[r].step = "retrying"
  PROVE  Calling(r)'
<1> DEFINE x == AskOf(r)
           token == exchange[x].token
<1>1. x \in Conn /\ Calling(r) /\ exchange[x].op = "query" /\ token \in AccessTokens /\ token # None
      /\ token.epoch = call[r].epoch /\ token.exp >= call[r].asked + AccessTTL
  BY Exchanging, OfCall DEF Calling
<1>2. /\ UNCHANGED clock /\ Grows /\ exchange'[x].op = "query" /\ exchange'[x].token = token
  BY <1>1, Serving
<1>3. exchange[x] \in Exchanges /\ Sound(x, exchange[x]) /\ Known(token)
  BY <1>1, Numbers DEF Sound
<1>4. ASSUME exchange'[x].step = "answered", ~exchange'[x].answer.ok PROVE Reason(r)
  <2>1. Query(x) \/ Refuse(x)
    BY <1>1, <1>3 DEF Serve, ReadRow, Status, Provision, StartSession, Refresh, Logout,
                      Asking, Deciding, Sound
  <2>2. ~Query(x)
    <3>1. Query(x) => exchange'[x] = [exchange[x] EXCEPT !.step = "answered", !.row = None, !.answer = Granted]
      BY <1>1, Numbers DEF Query, Answer
    <3>2. Query(x) => exchange'[x].answer = Granted
      BY <1>3, <3>1 DEF Exchanges
    <3> QED
      BY <1>4, <3>2 DEF Granted, Denied
  <2>3. ~MayQuery(x)
    BY <1>1, <2>1, <2>2 DEF Refuse, Deciding, Asking
  <2>4. credentials # None /\ token.epoch <= credentials.epoch /\ credentials \in Rows
    BY <1>1, <1>3 DEF Known, AuthInv, AuthTypeOK
  <2>5. clock >= token.exp \/ token.epoch # credentials.epoch
    <3>1. token.type = "access" /\ token.exp \in Nat /\ clock \in Nat
      BY <1>1, Numbers DEF AccessTokens
    <3> QED
      BY <1>1, <2>3, <2>4, <3>1 DEF MayQuery, Decodes, Unrevoked
  <2>6. /\ token.exp \in Nat /\ clock \in Nat /\ token.epoch \in Nat /\ credentials.epoch \in Nat
        /\ call[r].asked \in Nat /\ AccessTTL \in Nat /\ Epoch = credentials.epoch
    BY <1>1, <2>4, Numbers DEF AccessTokens, Rows, Epoch, BrowserInv, BrowserTypeOK
  <2> HIDE DEF token
  <2> QED
    BY <1>1, <2>4, <2>5, <2>6 DEF Reason
<1>5. ASSUME exchange'[x].step = "answered", ~exchange'[x].answer.ok PROVE Reason(r)'
  BY <1>2, <1>4, <1>5, ReasonStays DEF browserVars, BrowserInv
<1>6. call'[r] = call[r] /\ call[r].asked <= clock
  BY <1>1 DEF browserVars, Calling
<1> QED
  BY <1>1, <1>2, <1>5, <1>6 DEF Calling

(* The token that a refresh brings is new and of the epoch of the one presented. *)
LEMMA ServeRenewal ==
  ASSUME BrowserInv, AuthInv, AuthInv', NEW r \in Call, Serve(RenewalOf(r)), UNCHANGED browserVars
  PROVE  Renewing(r)'
<1> DEFINE x == RenewalOf(r)
           token == exchange[x].token
           row == exchange[x].row
<1>1. x \in Conn /\ exchange[x] # Idle /\ Renewing(r)
  BY Exchanging, OfCall, Serving DEF Idle
<1>2. /\ UNCHANGED clock /\ exchange'[x].op = exchange[x].op /\ exchange'[x].token = token
  BY <1>1, Serving
<1>3. exchange[x].op = "refresh" /\ inflight[TabOf[r]] = r
  BY <1>1 DEF Renewing
<1>4. exchange[x] \in Exchanges /\ Sound(x, exchange[x]) /\ exchange'[x] \in Exchanges
  BY <1>1, Numbers DEF AuthInv, AuthTypeOK
<1>5. ASSUME exchange'[x].step = "answered", exchange'[x].answer.ok
      PROVE  /\ token # None /\ exchange'[x].answer.access # None
             /\ exchange'[x].answer.access.epoch = token.epoch
             /\ exchange'[x].answer.access.exp = clock + AccessTTL
  <2>1. ASSUME ReadRow(x) PROVE FALSE
    <3>1. exchange'[x] = [exchange[x] EXCEPT !.step = "read", !.row = credentials]
      BY <1>1, <2>1, Numbers DEF ReadRow
    <3>2. exchange'[x].step = "read"
      BY <1>4, <3>1 DEF Exchanges
    <3> QED
      BY <1>5, <3>2
  <2>2. ASSUME Refuse(x) PROVE FALSE
    <3>1. exchange'[x] = [exchange[x] EXCEPT !.step = "answered", !.row = None, !.answer = Denied]
      BY <1>1, <2>2, Numbers DEF Refuse, Answer
    <3>2. exchange'[x].answer = Denied
      BY <1>4, <3>1 DEF Exchanges
    <3> QED
      BY <1>5, <3>2 DEF Denied
  <2>3. Refresh(x)
    BY <1>3, <1>4, <2>1, <2>2 DEF Serve, Status, Provision, StartSession, Logout, Query,
                                  Asking, Deciding, Sound
  <2>4. token # None /\ row # None /\ token.epoch = row.epoch
    BY <2>3 DEF Refresh, MayRefresh, Decodes, Unrevoked
  <2> DEFINE a == Rotated(token, row, token.absExp)
  <2>5. exchange'[x] = [exchange[x] EXCEPT !.step = "answered", !.row = None, !.answer = a]
    BY <1>1, <2>3, Numbers DEF Refresh, Answer
  <2>6. exchange'[x].answer = a
    BY <1>4, <2>5 DEF Exchanges
  <2>7. a.access = [type |-> "access", session |-> token.session, start |-> token.start,
                    epoch |-> row.epoch, exp |-> clock + AccessTTL]
    BY DEF Rotated, Pair, AccessToken
  <2>8. a.access # None
    <3>1. token.session \in Nat /\ token.start \in Nat /\ row.epoch \in Nat
      BY <1>4, <2>4 DEF Exchanges, AccessTokens, RefreshTokens, Rows
    <3>2. a.access \in AccessTokens
      BY <2>7, <3>1, Numbers DEF AccessTokens
    <3> QED
      BY <3>2, TokenAssumption
  <2> QED
    BY <2>4, <2>6, <2>7, <2>8
<1> QED
  BY <1>2, <1>3, <1>5 DEF Renewing, browserVars

(* Whatever the server does, the calls find what they rely on.                 *)
LEMMA ServeInv ==
  ASSUME BrowserInv, AuthInv, AuthInv', NEW x \in Conn, Serve(x), UNCHANGED browserVars
  PROVE  BrowserInv'
<1>1. UNCHANGED <<stored, cookie, page, inflight, call>>
  BY DEF browserVars
<1>2. BrowserTypeOK'
  BY <1>1 DEF BrowserInv, BrowserTypeOK
<1>3. /\ UNCHANGED clock /\ Grows
      /\ \A y \in Conn \ {x} : exchange'[y] = exchange[y]
      /\ \A y \in Conn : exchange'[y].token = exchange[y].token
      /\ exchange'[x] # Idle
  BY Serving DEF Idle
<1>4. ASSUME NEW t \in Tab PROVE Flying(t)'
  <2>1. inflight[t] # None => inflight[t] \in Call
    BY DEF BrowserInv, BrowserTypeOK
  <2> QED
    BY <1>1, <1>3, <1>4, <2>1, Exchanging DEF BrowserInv, TabInv, Flying
<1>5. ASSUME NEW r \in Call PROVE Renewing(r)'
  <2>1. CASE x = RenewalOf(r)
    BY <2>1, ServeRenewal
  <2>2. CASE x # RenewalOf(r)
    BY <1>1, <1>3, <2>2, Exchanging, OfCall DEF Renewing
  <2> QED
    BY <2>1, <2>2
<1>6. ASSUME NEW r \in Call PROVE Calling(r)'
  <2>1. CASE x = AskOf(r) /\ call[r].step = "retrying"
    BY <2>1, ServeAsk
  <2>2. CASE x # AskOf(r) \/ call[r].step # "retrying"
    <3>1. Calling(r) /\ (call[r].step = "waiting" => call[r].on \in Call)
      BY <1>6, OfCall DEF Calling, BrowserInv, BrowserTypeOK
    <3> QED
      BY <1>1, <1>3, <2>2, <3>1, Exchanging, CallStays DEF BrowserInv
  <2> QED
    BY <2>1, <2>2
<1> QED
  BY <1>2, <1>4, <1>5, <1>6 DEF BrowserInv, TabInv, CallsOf

(* At first no call is made and nothing is sent.                               *)
LEMMA InitBrowser == DashboardInit => BrowserInv
<1> SUFFICES ASSUME DashboardInit PROVE BrowserInv
  OBVIOUS
<1>1. BrowserTypeOK
  BY DEF DashboardInit, NoCall, Settled, Page, BrowserTypeOK
<1>2. \A r \in Call : call[r] = NoCall /\ exchange[RenewalOf(r)] = Idle
  BY Exchanging DEF DashboardInit, AuthInit
<1>3. ASSUME NEW r \in Call PROVE Renewing(r) /\ Calling(r)
  BY <1>2 DEF Renewing, Calling, NoCall, DashboardInit, AuthInit
<1> QED
  BY <1>1, <1>3 DEF BrowserInv, TabInv, Flying, CallsOf, DashboardInit

(* Every step keeps what the tabs' calls rely on.                              *)
LEMMA NextBrowser ==
  ASSUME BrowserInv, AuthInv, AuthInv', [DashboardNext \/ Rest]_allVars
  PROVE  BrowserInv'
<1>1. ASSUME NEW r \in Call,
             Ask(r) \/ Return(r) \/ Renew(r) \/ Renewed(r) \/ RenewalRefused(r)
               \/ CallFails(r) \/ RenewalFails(r)
      PROVE  BrowserInv'
  <2>1. CASE RenewalRefused(r) \/ RenewalFails(r)
    BY <2>1, GiveUpInv DEF RenewalRefused, RenewalFails, Lost
  <2> QED
    BY <1>1, <2>1, AskInv, ReturnInv, RenewInv, RenewedInv, CallFailsInv
<1>2. ASSUME NEW t \in Tab,
             Unload(t) \/ Open(t) \/ Gate(t) \/ Gated(t) \/ Submit(t) \/ SignedIn(t)
               \/ TurnedAway(t) \/ FormFails(t)
      PROVE  BrowserInv'
  BY <1>2, UnloadInv, PageInv
<1>3. ASSUME NEW x \in Other, LogoutElsewhere(x) PROVE BrowserInv'
  BY <1>3, ElsewhereInv
<1>4. ASSUME NEW x \in Conn, Serve(x), UNCHANGED browserVars PROVE BrowserInv'
  BY <1>4, ServeInv
<1>5. ASSUME UNCHANGED allVars PROVE BrowserInv'
  <2>1. UNCHANGED <<credentials, clock, exchange, stored, cookie, page, inflight, call>>
    BY <1>5 DEF allVars, authVars, browserVars
  <2>2. BrowserTypeOK' /\ Unserved
    BY <1>5, <2>1 DEF BrowserInv, BrowserTypeOK, Unserved, allVars, authVars
  <2> QED
    BY <2>1, <2>2, Still, TabStays DEF BrowserInv
<1> QED
  BY <1>1, <1>2, <1>3, <1>4, <1>5, LaterInv DEF DashboardNext, Rest

\* The invariant of the browser, whatever its tabs, its network, other clients and
\* the server do: which tab has which refresh in flight, who waits for it, what it
\* brings, and why a call was refused.
THEOREM BrowserInvariance == DashboardSpec => [](BrowserInv /\ AuthInv)
<1>1. DashboardInit => BrowserInv
  BY InitBrowser
<1>2. BrowserInv /\ AuthInv /\ AuthInv' /\ [DashboardNext \/ Rest]_allVars => BrowserInv'
  BY NextBrowser
<1>3. DashboardSpec => []AuthInv
  BY AuthInBrowser
<1> QED
  BY <1>1, <1>2, <1>3, PTL DEF DashboardSpec

\* Every variable of the browser keeps its type (client.ts, AuthGate.tsx).
THEOREM BrowserTypeCorrect == DashboardSpec => []BrowserTypeOK
<1>1. BrowserInv => BrowserTypeOK
  BY DEF BrowserInv
<1> QED
  BY <1>1, BrowserInvariance, PTL

\* Concurrent 401s of a tab share one refresh (client.ts 28-53), however many calls
\* the tab has under way.
THEOREM RefreshIsShared == DashboardSpec => []OneRefresh
<1>1. BrowserInv => OneRefresh
  <2> SUFFICES ASSUME BrowserInv, NEW r \in Call, NEW w \in Call, r # w, TabOf[r] = TabOf[w],
                      exchange[RenewalOf(r)] # Idle
               PROVE  exchange[RenewalOf(w)] = Idle
    BY DEF OneRefresh
  <2> QED
    BY OfCall DEF Renewing
<1> QED
  BY <1>1, BrowserInvariance, PTL

\* No call waits for a refresh that is over (client.ts 28-53, 82-93), whether that was
\* answered, refused, lost or abandoned with its page.
THEOREM NobodyWaitsInVain == DashboardSpec => []WaitersAreServed
<1>1. BrowserInv => WaitersAreServed
  <2> SUFFICES ASSUME BrowserInv, NEW r \in Call, call[r].step = "waiting"
               PROVE  exchange[RenewalOf(call[r].on)] # Idle
    BY DEF WaitersAreServed
  <2> QED
    BY OfCall DEF Calling, Flying
<1> QED
  BY <1>1, BrowserInvariance, PTL

\* A call that is refused after a refresh met a logout, or took a token's whole life
\* (client.ts 82-93): the retry of every call that shares a refresh sends the token
\* that it brought.
THEOREM RefusalsHaveReasons == DashboardSpec => []RefusedForAReason
<1>1. BrowserInv /\ AuthInv => RefusedForAReason
  <2> SUFFICES ASSUME BrowserInv, AuthInv, NEW r \in Call, call[r].step = "refused"
               PROVE  Epoch # call[r].epoch \/ clock >= call[r].asked + AccessTTL
    BY DEF RefusedForAReason
  <2>1. Epoch \in Nat /\ call[r].epoch \in Nat
    BY Numbers DEF BrowserInv, BrowserTypeOK
  <2>2. Reason(r)
    BY OfCall DEF Calling
  <2> QED
    BY <2>1, <2>2 DEF Reason
<1> QED
  BY <1>1, BrowserInvariance, PTL
===============================================================================
