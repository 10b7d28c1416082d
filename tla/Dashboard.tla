------------------------------ MODULE Dashboard -------------------------------
(* The dashboard in one browser: tabs that share the stored access token and   *)
(* the cookie jar, the API calls of their views with one silent refresh and a  *)
(* retry, and the login and setup pages. An answer that arrives is one task of *)
(* the tab's event loop, whose continuations all run before the next: so one   *)
(* step reaches from an answer to the next request.                            *)
EXTENDS Auth, FiniteSets

CONSTANTS Tab, Call, TabOf,
          Flaky,        \* bound: tabs that the network fails
          MaxClock,     \* bound: ticks
          MaxSession    \* bound: sessions started or about to be

AskOf(r) == <<r, "query">>      \* the exchange of a call's request and its retry
RenewalOf(r) == <<r, "refresh">>  \* that of the refresh a call began
FormOf(t) == <<t, "form">>      \* that of a tab's login, setup or status request

Own == {AskOf(r) : r \in Call} \union {RenewalOf(r) : r \in Call} \union {FormOf(t) : t \in Tab}
Other == Conn \ Own             \* those of other clients of the API

ASSUME CallAssumption == TabOf \in [Call -> Tab] /\ None \notin Call
ASSUME OwnAssumption == Own \subseteq Conn
ASSUME TokenAssumption == None \notin AccessTokens

VARIABLES stored,       \* the access token in localStorage
          cookie,       \* the refresh token in the cookie jar
          page,         \* what each tab shows
          inflight,     \* refreshInFlight of each tab: the call that began it
          call          \* Call -> how far it is, and the refresh it waits for

browserVars == <<stored, cookie, page, inflight, call>>
allVars == <<authVars, browserVars>>

\* "load" is a tab being opened, "gate" AuthGate asking where to go, "leaving" a
\* tab that redirectToLogin unloads.
Page == {"load", "gate", "app", "leaving", "login", "setup"}
\* A settled call is idle again; "refused" is one whose retry met a 401.
Settled == {"idle", "refused"}

\* asked and epoch are history: the time of the call, and the epoch of the cookie
\* that its refresh, or the one it joined, presented.
NoCall == [step |-> "idle", on |-> None, asked |-> 0, epoch |-> 0]
CallsOf(t) == {r \in Call : TabOf[r] = t}
Epoch == IF credentials = None THEN 0 ELSE credentials.epoch
EpochOf(token) == IF token = None THEN 0 ELSE token.epoch

DashboardInit == /\ AuthInit
                 /\ stored = None /\ cookie = None
                 /\ page = [t \in Tab |-> "load"]
                 /\ inflight = [t \in Tab |-> None]
                 /\ call = [r \in Call |-> NoCall]

Unserved == UNCHANGED <<credentials, clock, sessions, revoked>>
Put(x, e) == exchange' = [exchange EXCEPT ![x] = e]
Arrived(x) == exchange[x].step = "answered"

-------------------------------------------------------------------------------
(* API calls: request of client.ts.                                            *)

Ask(r) ==
  /\ call[r].step \in Settled /\ page[TabOf[r]] \in {"app", "leaving"}
  /\ call' = [call EXCEPT ![r] = [step |-> "asking", on |-> None,
                                  asked |-> clock, epoch |-> 0]]
  /\ Put(AskOf(r), Request("query", stored))
  /\ UNCHANGED <<stored, cookie, page, inflight>> /\ Unserved

Return(r) ==
  /\ Arrived(AskOf(r))
  /\ \/ call[r].step = "asking" /\ exchange[AskOf(r)].answer.ok
     \/ call[r].step = "retrying"
  /\ call' = [call EXCEPT ![r] = IF exchange[AskOf(r)].answer.ok
                                 THEN NoCall ELSE [@ EXCEPT !.step = "refused"]]
  /\ Put(AskOf(r), Idle)
  /\ UNCHANGED <<stored, cookie, page, inflight>> /\ Unserved

\* Mutant: every call refreshes for itself.
OwnRefresh(r) == r

\* The refresh a call waits for: the tab's, or one it begins.
RefreshFor(r) == IF inflight[TabOf[r]] = None THEN r ELSE inflight[TabOf[r]]

Renew(r) ==
  /\ call[r].step = "asking" /\ Arrived(AskOf(r)) /\ ~exchange[AskOf(r)].answer.ok
  /\ LET on == RefreshFor(r)
     IN /\ inflight' = [inflight EXCEPT ![TabOf[r]] = on]
        /\ call' = [call EXCEPT
             ![r].step = "waiting", ![r].on = on,
             ![r].epoch = EpochOf(IF on = r THEN cookie ELSE exchange[RenewalOf(on)].token)]
        /\ exchange' = [exchange EXCEPT
             ![AskOf(r)] = Idle,
             ![RenewalOf(r)] = IF on = r THEN Request("refresh", cookie) ELSE @]
  /\ UNCHANGED <<stored, cookie, page>> /\ Unserved

WaitingOn(r) == {w \in Call : call[w].step = "waiting" /\ call[w].on = r}

\* Mutant: nothing forgets the refresh that is over.
ForgetNothing(r) == UNCHANGED inflight

Forget(r) == inflight' = [inflight EXCEPT ![TabOf[r]] = None]

\* Mutant: the retry sends the headers of the request again.
SameRequest(token) == Request("query", stored)

\* Mutant: the retry is answered by the browser's cache.
RetryCached(token) == [Request("query", token) EXCEPT !.step = "answered", !.answer = Granted]

RetryRequest(token) == Request("query", token)

\* A refresh that brought a token: whoever waits for it retries with that.
Renewed(r) ==
  LET answer == exchange[RenewalOf(r)].answer
  IN /\ Arrived(RenewalOf(r)) /\ answer.ok
     /\ stored' = answer.access /\ cookie' = answer.refresh
     /\ Forget(r)
     /\ call' = [w \in Call |-> IF w \in WaitingOn(r)
                                THEN [call[w] EXCEPT !.step = "retrying", !.on = None]
                                ELSE call[w]]
     /\ exchange' = [x \in Conn |->
          IF x = RenewalOf(r) THEN Idle
          ELSE IF x \in {AskOf(w) : w \in WaitingOn(r)} THEN RetryRequest(answer.access)
          ELSE exchange[x]]
     /\ UNCHANGED page /\ Unserved

\* A refresh that failed signs the browser out and sends the tab to /login.
GiveUp(r) ==
  /\ stored' = None
  /\ page' = [page EXCEPT ![TabOf[r]] = "leaving"]
  /\ Forget(r)
  /\ call' = [w \in Call |-> IF w \in WaitingOn(r) THEN NoCall ELSE call[w]]
  /\ Put(RenewalOf(r), Idle)

RenewalRefused(r) == /\ Arrived(RenewalOf(r)) /\ ~exchange[RenewalOf(r)].answer.ok
                     /\ GiveUp(r)
                     /\ UNCHANGED cookie /\ Unserved

-------------------------------------------------------------------------------
(* Pages.                                                                      *)

\* The browser carries out redirectToLogin: the page's requests are abandoned,
\* which the server only notices when it has done what was asked.
Unload(t) ==
  /\ page[t] = "leaving" /\ exchange[FormOf(t)].step \notin {"read", "created"}
  /\ page' = [page EXCEPT ![t] = "login"]
  /\ inflight' = [inflight EXCEPT ![t] = None]
  /\ call' = [r \in Call |-> IF TabOf[r] = t THEN NoCall ELSE call[r]]
  /\ exchange' = [x \in Conn |->
       IF x = FormOf(t) \/ x \in {AskOf(r) : r \in CallsOf(t)}
                                   \union {RenewalOf(r) : r \in CallsOf(t)}
       THEN Idle ELSE exchange[x]]
  /\ UNCHANGED <<stored, cookie>> /\ Unserved

Open(t) == /\ page[t] = "load" /\ stored # None
           /\ page' = [page EXCEPT ![t] = "app"]
           /\ UNCHANGED <<stored, cookie, inflight, call>> /\ UNCHANGED authVars

\* AuthGate renders, on a load or a navigation, and finds no token.
Gate(t) == /\ page[t] \in {"load", "app"} /\ stored = None
           /\ page' = [page EXCEPT ![t] = "gate"]
           /\ Put(FormOf(t), Request("status", None))
           /\ UNCHANGED <<stored, cookie, inflight, call>> /\ Unserved

Gated(t) == /\ page[t] = "gate" /\ Arrived(FormOf(t))
            /\ page' = [page EXCEPT ![t] = IF exchange[FormOf(t)].answer.ok
                                           THEN "setup" ELSE "login"]
            /\ Put(FormOf(t), Idle)
            /\ UNCHANGED <<stored, cookie, inflight, call>> /\ Unserved

Submitted == {t \in Tab : exchange[FormOf(t)].op \in {"login", "setup"}}

Submit(t) == /\ page[t] \in {"login", "setup"} /\ exchange[FormOf(t)] = Idle
             /\ sessions + Cardinality(Submitted) < MaxSession
             /\ Put(FormOf(t), Request(page[t], None))
             /\ UNCHANGED browserVars /\ Unserved

\* setToken and on to the app; after setup once the user has copied the secret.
SignedIn(t) == LET answer == exchange[FormOf(t)].answer
               IN /\ page[t] \in {"login", "setup"} /\ Arrived(FormOf(t)) /\ answer.ok
                  /\ stored' = answer.access /\ cookie' = answer.refresh
                  /\ page' = [page EXCEPT ![t] = "app"]
                  /\ Put(FormOf(t), Idle)
                  /\ UNCHANGED <<inflight, call>> /\ Unserved

TurnedAway(t) == /\ page[t] \in {"login", "setup"} /\ Arrived(FormOf(t))
                 /\ ~exchange[FormOf(t)].answer.ok
                 /\ Put(FormOf(t), Idle)
                 /\ UNCHANGED browserVars /\ Unserved

-------------------------------------------------------------------------------
(* The network loses an answer, or of an answer only the body, with the cookie *)
(* received. A lost request leaves no more behind than a lost answer: queries   *)
(* and refreshes change nothing, and a form may be refused.                    *)

Lost(t, x) == t \in Flaky /\ Arrived(x)
KeepCookie(x) == \/ UNCHANGED cookie
                 \/ exchange[x].answer.refresh # None /\ cookie' = exchange[x].answer.refresh

CallFails(r) == /\ Lost(TabOf[r], AskOf(r)) /\ call[r].step \in {"asking", "retrying"}
                /\ call' = [call EXCEPT ![r] = NoCall]
                /\ Put(AskOf(r), Idle)
                /\ UNCHANGED <<stored, cookie, page, inflight>> /\ Unserved

RenewalFails(r) == /\ Lost(TabOf[r], RenewalOf(r))
                   /\ GiveUp(r)
                   /\ KeepCookie(RenewalOf(r)) /\ Unserved

FormFails(t) == /\ Lost(t, FormOf(t)) /\ page[t] \in {"gate", "login", "setup"}
                /\ page' = [page EXCEPT ![t] = IF @ = "gate" THEN "login" ELSE @]
                /\ Put(FormOf(t), Idle)
                /\ KeepCookie(FormOf(t))
                /\ UNCHANGED <<stored, inflight, call>> /\ Unserved

-------------------------------------------------------------------------------
\* Another client logs out, once.
LogoutElsewhere(x) == /\ exchange[x].step = "idle"
                      /\ Put(x, Request("logout", None))
                      /\ UNCHANGED browserVars /\ Unserved

\* A handler and the delivery of its answer take less than a tick, which is the
\* life of an access token, a quarter of an hour; a request may wait for longer.
Later == /\ \A x \in Conn : exchange[x].step \in {"idle", "sent"} \/ (x \in Other /\ Arrived(x))
         /\ clock < MaxClock /\ Tick /\ UNCHANGED browserVars

DashboardNext ==
  \/ \E r \in Call : \/ Ask(r) \/ Return(r) \/ Renew(r) \/ Renewed(r) \/ RenewalRefused(r)
                     \/ CallFails(r) \/ RenewalFails(r)
  \/ \E t \in Tab : \/ Unload(t) \/ Open(t) \/ Gate(t) \/ Gated(t) \/ Submit(t)
                    \/ SignedIn(t) \/ TurnedAway(t) \/ FormFails(t)
  \/ \E x \in Other : LogoutElsewhere(x)
  \/ \E x \in Conn : Serve(x) /\ UNCHANGED browserVars
  \/ Later

\* Nothing is under way and the bounds are reached.
Rest == /\ \A x \in Conn : exchange[x].step = "idle" \/ (x \in Other /\ Arrived(x))
        /\ clock = MaxClock /\ UNCHANGED allVars

DashboardSpec == DashboardInit /\ [][DashboardNext \/ Rest]_allVars

-------------------------------------------------------------------------------
AnyClients == INSTANCE AuthClients WITH held <- {stored, cookie}

\* The browser is one of the clients of AuthClients: it shows no token that it
\* was not given, changes nothing on the server but by requests, and however its
\* tabs interleave, what is proved there of sessions holds of it.
ClientsOnly == AnyClients!ClientSpec

BrowserTypeOK == /\ stored \in AccessTokens \union {None}
                 /\ cookie \in RefreshTokens \union {None}
                 /\ page \in [Tab -> Page]
                 /\ inflight \in [Tab -> Call \union {None}]
                 /\ call \in [Call -> [step : Settled \union {"asking", "waiting", "retrying"},
                                      on : Call \union {None}, asked : Nat, epoch : Nat]]

\* Concurrent 401s of a tab share one refresh (client.ts 28-53).
OneRefresh ==
  \A r, w \in Call : r # w /\ TabOf[r] = TabOf[w] /\ exchange[RenewalOf(r)] # Idle
                       => exchange[RenewalOf(w)] = Idle

\* No call waits for a refresh that is over: a refresh that were not forgotten would hand
\* every later call of the tab its old outcome, and none could refresh again.  (Awaiting a
\* settled promise returns at once what it settled to; here such a call waits for good.)
WaitersAreServed ==
  \A r \in Call : call[r].step = "waiting" => exchange[RenewalOf(call[r].on)] # Idle

\* A call that refreshed and is still refused met a logout of the session it
\* refreshed, or took a token's whole life: the retry sends the token that the
\* shared refresh brought, whatever other tabs do (client.ts 82-93).
RefusedForAReason ==
  \A r \in Call : call[r].step = "refused" => \/ Epoch # call[r].epoch
                                              \/ clock >= call[r].asked + AccessTTL

\* AuthGate.tsx 17-19: nothing mutates the token outside the tab's own login and
\* logout navigation: a tab that shows the app is signed in.
ShownWhileSignedIn == \A t \in Tab : page[t] = "app" => stored # None
===============================================================================
