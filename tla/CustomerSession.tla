----------------------------- MODULE CustomerSession -----------------------------
(***************************************************************************)
(* Customer sign-in and sessions of one organization                       *)
(* (customer-account-service.ts, postgres-customer-account-repository.ts): *)
(* the integration whose version a save of the credentials increments, the *)
(* sign-in states, the session rows with the tokens Shopify issued, the    *)
(* requests that a session admits, and the refreshes of tokens, of which   *)
(* one process runs one per session at a time.                             *)
(*                                                                         *)
(* A step is one database statement or transaction, one remote call, or    *)
(* what a callback does between two awaits.  The tokens of a session are   *)
(* numbered in the order Shopify issues them; each can be spent on one     *)
(* refresh.  Cryptography, cookies, CSRF and redirects are left out: they  *)
(* can only make a request fail, which Throw allows at any await.          *)
(***************************************************************************)
EXTENDS Naturals

CONSTANTS
    Sessions,       \* ids of sessions, each for one callback of a sign-in
    States,         \* the opaque states of sign-ins
    Requests,       \* requests that are handled at the same time
    NoSession, NoState,
    MaxVersion,     \* bounds the saves of the integration
    MaxTokens       \* bounds the refreshes of a session

ASSUME SessionBounds ==
    /\ MaxVersion \in Nat
    /\ MaxTokens \in Nat
    /\ NoSession \notin Sessions
    /\ NoState \notin States

VARIABLES
    version,    \* the integration's version, 0 before it is saved
    readiness,  \* what the last check of the integration said
    verifying,  \* saves whose discovery is still awaited
    state,      \* state[t]: the row of the sign-in state t
    login,      \* login[s]: the callback that creates session s
    row,        \* row[s]: the session row
    expired,    \* expired[s]: access tokens below this number have expired
    flight,     \* flight[s]: the refresh of s in this process
    spent,      \* spent[s]: refresh tokens below this number were sent
    lost,       \* lost[s]: a restart or an error hid the outcome of a refresh
    req         \* req[r]: the request in progress

admin == <<version, readiness, verifying>>
signin == <<state, login>>
refresh == <<flight, spent, lost>>
vars == <<version, readiness, verifying, state, login, row, expired, flight, spent, lost, req>>

NoLogin == [step |-> "none", state |-> NoState, version |-> 0]
NoRow == [status |-> "none", over |-> FALSE, version |-> 0, tokens |-> 0]
NoFlight == [step |-> "none", tokens |-> 0]
Resting == {"rest", "answered"}
Idle(step) == [step |-> step, session |-> NoSession, kind |-> "form", tokens |-> 0]

Init ==
    /\ version = 0 /\ readiness = "unknown" /\ verifying = 0
    /\ state = [t \in States |-> "unused"]
    /\ login = [s \in Sessions |-> NoLogin]
    /\ row = [s \in Sessions |-> NoRow]
    /\ expired = [s \in Sessions |-> 0]
    /\ flight = [s \in Sessions |-> NoFlight]
    /\ spent = [s \in Sessions |-> 0]
    /\ lost = [s \in Sessions |-> FALSE]
    /\ req = [r \in Requests |-> Idle("rest")]

-----------------------------------------------------------------------------
(* The administrator *)

RevokeAll == [s \in Sessions |->
    IF row[s].status = "live" THEN [row[s] EXCEPT !.status = "revoked"] ELSE row[s]]

\* Mutant: the rows of the organization are left for validSession() to find.
SaveOnly ==
    /\ version < MaxVersion
    /\ version' = version + 1
    /\ readiness' = "unknown"
    /\ verifying' = verifying + 1
    /\ UNCHANGED <<signin, row, expired, refresh, req>>

\* saveAndVerify() to the transaction that stores the credentials.
Save ==
    /\ version < MaxVersion
    /\ version' = version + 1
    /\ readiness' = "unknown"
    /\ verifying' = verifying + 1
    /\ row' = RevokeAll
    /\ UNCHANGED <<signin, expired, refresh, req>>

\* The discovery after a save succeeds or fails.  What it sets does not depend
\* on the version it was started for.
Verify ==
    /\ verifying > 0
    /\ verifying' = verifying - 1
    /\ readiness' \in {"ready", "failed"}
    /\ UNCHANGED <<version, signin, row, expired, refresh, req>>

-----------------------------------------------------------------------------
(* Signing in *)

StartSignIn(t) ==
    /\ version > 0 /\ readiness = "ready"
    /\ state[t] = "unused"
    /\ state' = [state EXCEPT ![t] = "open"]
    /\ UNCHANGED <<admin, login, row, expired, refresh, req>>

\* The ten minutes of a state pass, or Shopify reports a failure for it
\* (authenticationFailure), which consumes it too.
LoseState(t) ==
    /\ state[t] = "open"
    /\ state' = [state EXCEPT ![t] = "gone"]
    /\ UNCHANGED <<admin, login, row, expired, refresh, req>>

\* Mutant: the state is only looked up, and goes when the session is made.
CallbackReads(s, t) ==
    /\ login[s].step = "none"
    /\ state[t] = "open"
    /\ login' = [login EXCEPT ![s] = [step |-> "state", state |-> t, version |-> 0]]
    /\ UNCHANGED <<admin, state, row, expired, refresh, req>>

\* callback() consumes the state; if there is none, nothing follows.
Callback(s, t) ==
    /\ login[s].step = "none"
    /\ state[t] = "open"
    /\ state' = [state EXCEPT ![t] = "gone"]
    /\ login' = [login EXCEPT ![s] = [step |-> "state", state |-> t, version |-> 0]]
    /\ UNCHANGED <<admin, row, expired, refresh, req>>

ReadIntegration(s) ==
    /\ login[s].step = "state"
    /\ login' = [login EXCEPT ![s].step = "exchange", ![s].version = version]
    /\ UNCHANGED <<admin, state, row, expired, refresh, req>>

\* Discovery, the exchange of the code, the checks of the id token and the
\* customer went well; the row is created for the version read before them.
CreateSession(s) ==
    /\ login[s].step = "exchange"
    /\ login' = [login EXCEPT ![s].step = "done"]
    /\ row' = [row EXCEPT ![s] =
           [status |-> "live", over |-> FALSE, version |-> login[s].version, tokens |-> 0]]
    /\ UNCHANGED <<admin, state, expired, refresh, req>>

LoginFails(s) ==
    /\ login[s].step \in {"state", "exchange"}
    /\ login' = [login EXCEPT ![s].step = "failed"]
    /\ UNCHANGED <<admin, state, row, expired, refresh, req>>

-----------------------------------------------------------------------------
(* Time *)

Fresh(s, tokens) == tokens >= expired[s]
Usable(s) == row[s].status = "live" /\ ~row[s].over

\* The absolute or the idle limit of a session is reached.
SessionEnds(s) ==
    /\ Usable(s)
    /\ row' = [row EXCEPT ![s].over = TRUE]
    /\ UNCHANGED <<admin, signin, expired, refresh, req>>

\* The access token of the row is within thirty seconds of its end.
AccessExpires(s) ==
    /\ Usable(s) /\ row[s].tokens < MaxTokens
    /\ expired[s] <= row[s].tokens
    /\ expired' = [expired EXCEPT ![s] = row[s].tokens + 1]
    /\ UNCHANGED <<admin, signin, row, refresh, req>>


-----------------------------------------------------------------------------
(* A request: validSession(), access() where the caller needs a token, and   *)
(* touchSession(), whose answer decides.                                     *)

At(r, step) == req[r].step = step
Go(r, step) == req' = [req EXCEPT ![r].step = step]
Rest(r, step) == req' = [req EXCEPT ![r] = Idle(step)]

\* Forms, profile and consent need no token; checkouts and orders do.
Kinds == {"form", "checkout", "orders", "logout"}

ReadSession(r, s, kind) ==
    /\ req[r].step \in Resting
    /\ row[s].status # "none"
    /\ req' = [req EXCEPT ![r] = [step |-> IF Usable(s) THEN "version" ELSE "revoke",
                                  session |-> s, kind |-> kind, tokens |-> row[s].tokens]]
    /\ UNCHANGED <<admin, signin, row, expired, refresh>>

ReadVersion(r) ==
    /\ At(r, "version")
    /\ Go(r, IF row[req[r].session].version # version \/ req[r].kind = "logout" THEN "revoke"
             ELSE IF req[r].kind = "form" THEN "touch"
             ELSE "access")
    /\ UNCHANGED <<admin, signin, row, expired, refresh>>

\* Mutant: every request refreshes on its own.
AccessAlone(r) ==
    LET s == req[r].session IN
    /\ At(r, "access")
    /\ \/ /\ Fresh(s, req[r].tokens)
          /\ Go(r, IF req[r].kind = "orders" THEN "orders" ELSE "touch")
          /\ UNCHANGED flight
       \/ /\ ~Fresh(s, req[r].tokens)
          /\ Go(r, "waiting")
          /\ flight' = [flight EXCEPT ![s] = [step |-> "latest", tokens |-> 0]]
    /\ UNCHANGED <<admin, signin, row, expired, spent, lost>>

\* access(): go on with the tokens read, or join the refresh of the session,
\* which is started if there is none.  All of it is one stretch of JavaScript.
Access(r) ==
    LET s == req[r].session IN
    /\ At(r, "access")
    /\ \/ /\ Fresh(s, req[r].tokens)
          /\ Go(r, IF req[r].kind = "orders" THEN "orders" ELSE "touch")
          /\ UNCHANGED flight
       \/ /\ ~Fresh(s, req[r].tokens)
          /\ Go(r, "waiting")
          /\ flight' = IF flight[s].step = "none"
                       THEN [flight EXCEPT ![s] = [step |-> "latest", tokens |-> 0]]
                       ELSE flight
    /\ UNCHANGED <<admin, signin, row, expired, spent, lost>>

\* orders(): another issuer, a failing call or a page of orders; the last two
\* are written down as the integration's readiness.
ReadOrders(r) ==
    /\ At(r, "orders")
    /\ \/ Go(r, "revoke") /\ UNCHANGED readiness
       \/ Go(r, "touch") /\ readiness' = "ready"
       \/ Rest(r, "rest") /\ readiness' = "failed"
    /\ UNCHANGED <<version, verifying, signin, row, expired, refresh>>

Touch(r) ==
    /\ At(r, "touch")
    /\ Rest(r, IF Usable(req[r].session) THEN "answered" ELSE "rest")
    /\ UNCHANGED <<admin, signin, row, expired, refresh>>

\* A dead session, an outdated version, another issuer, or a logout.
Revoke(r) ==
    /\ At(r, "revoke")
    /\ row' = [row EXCEPT ![req[r].session].status = "revoked"]
    /\ Rest(r, "rest")
    /\ UNCHANGED <<admin, signin, expired, refresh>>

\* A query, a remote call or a check of the request fails.
Throw(r) ==
    /\ req[r].step \notin Resting \cup {"waiting"}
    /\ Rest(r, "rest")
    /\ UNCHANGED <<admin, signin, row, expired, refresh>>

-----------------------------------------------------------------------------
(* The refresh of a session *)

\* Mutant: the answer reaches one of the requests that share the refresh.
SettleOne(s, step, tokens) ==
    LET first == CHOOSE r \in Requests : req[r].session = s /\ At(r, "waiting") IN
    /\ flight' = [flight EXCEPT ![s] = NoFlight]
    /\ req' = [req EXCEPT ![first] =
           IF step = "touch" THEN [req[first] EXCEPT !.step = step, !.tokens = tokens]
           ELSE Idle("rest")]

\* The shared promise settles: its entry goes, and everybody who awaits it
\* continues with the row it returned, or fails.
Settle(s, step, tokens) ==
    /\ flight' = [flight EXCEPT ![s] = NoFlight]
    /\ req' = [r \in Requests |->
           IF req[r].session = s /\ At(r, "waiting")
           THEN IF step = "touch"
                THEN [req[r] EXCEPT !.tokens = tokens,
                                    !.step = IF req[r].kind = "orders" THEN "orders" ELSE "touch"]
                ELSE Idle("rest")
           ELSE req[r]]

\* The row is read again: the session may have been revoked or refreshed since
\* the request that started this read it.
ReadLatest(s) ==
    /\ flight[s].step = "latest"
    /\ \/ row[s].status = "revoked" /\ Settle(s, "rest", 0)
       \/ row[s].status = "live" /\ Fresh(s, row[s].tokens) /\ Settle(s, "touch", row[s].tokens)
       \/ /\ row[s].status = "live" /\ ~Fresh(s, row[s].tokens)
          /\ flight' = [flight EXCEPT ![s] = [step |-> "discover", tokens |-> row[s].tokens]]
          /\ UNCHANGED req
    /\ UNCHANGED <<admin, signin, row, expired, spent, lost>>

\* Discovery fails before anything was sent: the session stays as it is.
DiscoveryFails(s) ==
    /\ flight[s].step = "discover"
    /\ Settle(s, "rest", 0)
    /\ UNCHANGED <<admin, signin, row, expired, spent, lost>>

\* The issuer has changed: the session is revoked, nothing is sent.
IssuerChanged(s) ==
    /\ flight[s].step = "discover"
    /\ flight' = [flight EXCEPT ![s].step = "revoke"]
    /\ UNCHANGED <<admin, signin, row, expired, spent, lost, req>>

SendRefresh(s) ==
    /\ flight[s].step = "discover"
    /\ flight' = [flight EXCEPT ![s].step = "sent"]
    /\ spent' = [spent EXCEPT ![s] = flight[s].tokens + 1]
    /\ UNCHANGED <<admin, signin, row, expired, lost, req>>

\* Shopify answers with new tokens that check out, or the call or the check
\* of the id token fails.
Answered(s) ==
    /\ flight[s].step = "sent"
    /\ \E step \in {"store", "revoke"} : flight' = [flight EXCEPT ![s].step = step]
    /\ UNCHANGED <<admin, signin, row, expired, spent, lost, req>>

\* replaceSessionTokens(): only over the tokens that were sent.
Store(s) ==
    /\ flight[s].step = "store"
    /\ IF Usable(s) /\ row[s].tokens = flight[s].tokens
       THEN /\ row' = [row EXCEPT ![s].tokens = flight[s].tokens + 1]
            /\ Settle(s, "touch", flight[s].tokens + 1)
       ELSE /\ flight' = [flight EXCEPT ![s].step = "revoke"]
            /\ UNCHANGED <<row, req>>
    /\ UNCHANGED <<admin, signin, expired, spent, lost>>

StoreFails(s) ==
    /\ flight[s].step = "store"
    /\ flight' = [flight EXCEPT ![s].step = "revoke"]
    /\ UNCHANGED <<admin, signin, row, expired, spent, lost, req>>

RevokeAfterFailure(s) ==
    /\ flight[s].step = "revoke"
    /\ row' = [row EXCEPT ![s].status = "revoked"]
    /\ Settle(s, "rest", 0)
    /\ UNCHANGED <<admin, signin, expired, spent, lost>>

\* Even that may fail; the row keeps tokens that may be spent.
RevokeFails(s) ==
    /\ flight[s].step = "revoke"
    /\ lost' = [lost EXCEPT ![s] = TRUE]
    /\ Settle(s, "rest", 0)
    /\ UNCHANGED <<admin, signin, row, expired, spent>>

\* The process stops: requests, callbacks and refreshes are gone.
Restart ==
    /\ verifying' = 0
    /\ login' = [s \in Sessions |->
           IF login[s].step \in {"state", "exchange"} THEN [login[s] EXCEPT !.step = "failed"]
           ELSE login[s]]
    /\ lost' = [s \in Sessions |-> lost[s] \/ flight[s].step \in {"sent", "store", "revoke"}]
    /\ flight' = [s \in Sessions |-> NoFlight]
    /\ req' = [r \in Requests |-> Idle("rest")]
    /\ UNCHANGED <<version, readiness, state, row, expired, spent>>

-----------------------------------------------------------------------------
RequestStep(r) ==
    ReadVersion(r) \/ Access(r) \/ ReadOrders(r) \/ Touch(r) \/ Revoke(r) \/ Throw(r)

RefreshStep(s) ==
    \/ ReadLatest(s) \/ DiscoveryFails(s) \/ IssuerChanged(s) \/ SendRefresh(s)
    \/ Answered(s) \/ Store(s) \/ StoreFails(s) \/ RevokeAfterFailure(s) \/ RevokeFails(s)

LoginStep(s) == ReadIntegration(s) \/ CreateSession(s) \/ LoginFails(s)

Next ==
    \/ Save \/ Verify \/ Restart
    \/ \E t \in States : StartSignIn(t) \/ LoseState(t)
    \/ \E s \in Sessions, t \in States : Callback(s, t)
    \/ \E s \in Sessions :
          LoginStep(s) \/ SessionEnds(s) \/ AccessExpires(s) \/ RefreshStep(s)
    \/ \E r \in Requests, s \in Sessions, kind \in Kinds : ReadSession(r, s, kind)
    \/ \E r \in Requests : RequestStep(r)

Spec == Init /\ [][Next]_vars

\* Every query and every remote call ends: the transport has timeouts.
FairSpec ==
    /\ Spec
    /\ \A r \in Requests : WF_vars(RequestStep(r))
    /\ \A s \in Sessions : WF_vars(RefreshStep(s))

-----------------------------------------------------------------------------
LoginRecords ==
    [step : {"none", "state", "exchange", "done", "failed"},
     state : States \cup {NoState}, version : 0..MaxVersion]
RowRecords ==
    [status : {"none", "live", "revoked"}, over : BOOLEAN,
     version : 0..MaxVersion, tokens : Nat]
FlightRecords ==
    [step : {"none", "latest", "discover", "sent", "store", "revoke"}, tokens : Nat]
RequestRecords ==
    [step : {"rest", "answered", "version", "access", "waiting", "orders", "touch", "revoke"},
     session : Sessions \cup {NoSession}, kind : Kinds, tokens : Nat]

TypeOK ==
    /\ version \in 0..MaxVersion
    /\ readiness \in {"unknown", "ready", "failed"}
    /\ verifying \in Nat
    /\ state \in [States -> {"unused", "open", "gone"}]
    /\ login \in [Sessions -> LoginRecords]
    /\ row \in [Sessions -> RowRecords]
    /\ expired \in [Sessions -> Nat]
    /\ flight \in [Sessions -> FlightRecords]
    /\ spent \in [Sessions -> Nat]
    /\ lost \in [Sessions -> BOOLEAN]
    /\ req \in [Requests -> RequestRecords]

\* One state of a sign-in makes one session at most, although the browser may
\* follow the redirect twice and both callbacks run at the same time.
StateMakesOneSession ==
    \A s, t \in Sessions :
        /\ row[s].status # "none" /\ row[t].status # "none"
        /\ login[s].state = login[t].state
        => s = t

\* Nobody replaces the tokens under a refresh: as long as the session stands,
\* the row keeps the tokens with which the refresh was sent, and so storing
\* the new ones fails for a dead session only.
RefreshIsExclusive ==
    \A s \in Sessions :
        flight[s].step \in {"discover", "sent", "store"} /\ row[s].status = "live" =>
            row[s].tokens = flight[s].tokens

\* The map of refreshes has an entry exactly for the sessions whose refresh
\* somebody awaits: nobody awaits a promise that has settled, whatever failed,
\* and no entry is left for a later request to join.
Awaits(r, s) == At(r, "waiting") /\ req[r].session = s
RefreshesAreAwaited ==
    \A s \in Sessions : flight[s].step # "none" <=> \E r \in Requests : Awaits(r, s)

\* A refresh token goes to Shopify once, unless the outcome of its refresh was
\* lost.  Requests that read the row before, during or after a refresh, and
\* whose tokens have expired since, do not send it again.
RefreshTokenIsSentOnce ==
    [][\A s \in Sessions :
          flight[s].step = "discover" /\ flight'[s].step = "sent" =>
              spent[s] <= flight[s].tokens \/ lost[s]]_vars

\* When a request is admitted, its session stands and belongs to the
\* credentials that are stored at that moment, not only to those stored when
\* the request began.
AnswersAreCurrent ==
    [][\A r \in Requests :
          At(r, "touch") /\ req'[r].step = "answered" =>
              /\ row[req[r].session].status = "live"
              /\ row[req[r].session].version = version]_vars

\* Every request ends, those that wait for the refresh of another included.
EveryRequestEnds ==
    \A r \in Requests : req[r].step \notin Resting ~> req[r].step \in Resting
=============================================================================
