------------------------- MODULE CustomerSession_proofs -------------------------
(***************************************************************************)
(* Proofs about CustomerSession, for any sessions, requests and bounds.    *)
(***************************************************************************)
EXTENDS CustomerSession, TLAPS

(***************************************************************************)
(* The inductive invariant.                                                *)
(***************************************************************************)
\* A row exists from the end of its callback on.
RowsHaveLogins == \A s \in Sessions : row[s].status # "none" <=> login[s].step = "done"

\* A callback has a state of its own, which is consumed.
LoginsAreApart ==
    /\ \A s \in Sessions : login[s].step # "none" =>
          login[s].state \in States /\ state[login[s].state] = "gone"
    /\ \A s, t \in Sessions :
          login[s].step # "none" /\ login[t].step # "none" /\ login[s].state = login[t].state
          => s = t

\* Requests and refreshes are about sessions that exist.
AtWork(r) == req[r].step \notin Resting
WorkIsAboutRows ==
    /\ \A r \in Requests : AtWork(r) =>
          req[r].session \in Sessions /\ row[req[r].session].status # "none"
    /\ \A s \in Sessions : flight[s].step # "none" => row[s].status # "none"

\* Whoever has compared the versions may rely on it while the session stands.
Compared(r) == req[r].step \in {"access", "waiting", "orders", "touch"}
ComparisonsHold ==
    \A r \in Requests : Compared(r) /\ row[req[r].session].status = "live" =>
        row[req[r].session].version = version

\* The row of a session that stands has the tokens its refresh will send or
\* has sent.  They are unspent until then; afterwards the number sent is
\* theirs, unless the outcome was lost.
TokensOf(s) ==
    /\ row[s].status = "none" => spent[s] = 0
    /\ flight[s].step \in {"discover", "sent", "store"} /\ row[s].status = "live" =>
          row[s].tokens = flight[s].tokens
    /\ ~lost[s] =>
          /\ flight[s].step \in {"none", "latest"} /\ row[s].status # "revoked" =>
                spent[s] <= row[s].tokens
          /\ flight[s].step = "discover" => spent[s] <= flight[s].tokens
          /\ flight[s].step \in {"sent", "store"} => spent[s] = flight[s].tokens + 1

TokensAreKnown == \A s \in Sessions : TokensOf(s)

IInv ==
    /\ TypeOK
    /\ RowsHaveLogins
    /\ LoginsAreApart
    /\ WorkIsAboutRows
    /\ ComparisonsHold
    /\ TokensAreKnown
    /\ RefreshesAreAwaited

-----------------------------------------------------------------------------
LEMMA IInvInit == Init => IInv
<1> SUFFICES ASSUME Init PROVE IInv
  OBVIOUS
<1> USE SessionBounds DEF Init
<1>1. TypeOK
  BY DEF TypeOK, LoginRecords, RowRecords, FlightRecords, RequestRecords, Kinds,
         NoLogin, NoRow, NoFlight, Idle
<1>2. RowsHaveLogins /\ LoginsAreApart
  BY DEF RowsHaveLogins, LoginsAreApart, NoRow, NoLogin
<1>3. WorkIsAboutRows /\ ComparisonsHold
  BY DEF WorkIsAboutRows, ComparisonsHold, AtWork, Compared, Resting, NoFlight, Idle
<1>4. TokensAreKnown
  <2>1. \A s \in Sessions : /\ flight[s].step = "none" /\ row[s].status = "none"
                            /\ spent[s] = 0 /\ row[s].tokens = 0
    BY DEF NoFlight, NoRow
  <2>2. ASSUME NEW s \in Sessions PROVE spent[s] <= row[s].tokens
    <3>1. spent[s] = 0 /\ row[s].tokens = 0 /\ 0 <= 0
      BY <2>1
    <3>2. QED
      BY <3>1
  <2>3. ASSUME NEW s \in Sessions PROVE TokensOf(s)
    BY <2>1, <2>2, Zenon DEF TokensOf
  <2>4. QED
    BY <2>3 DEF TokensAreKnown
<1>5. RefreshesAreAwaited
  BY DEF RefreshesAreAwaited, Awaits, At, NoFlight, Idle
<1>6. QED
  BY <1>1, <1>2, <1>3, <1>4, <1>5 DEF IInv

-----------------------------------------------------------------------------
(***************************************************************************)
(* Types.                                                                  *)
(***************************************************************************)
\* What a settled refresh leaves of the requests.
LEMMA SettleTypes ==
    ASSUME TypeOK, NEW s \in Sessions, NEW step, NEW tokens \in Nat, Settle(s, step, tokens)
    PROVE  flight' \in [Sessions -> FlightRecords] /\ req' \in [Requests -> RequestRecords]
<1>1. flight' \in [Sessions -> FlightRecords]
  BY DEF Settle, TypeOK, FlightRecords, NoFlight
<1>2. Idle("rest") \in RequestRecords
  BY DEF Idle, RequestRecords, Kinds
<1>3. \A r \in Requests, next \in {"orders", "touch"} :
         [req[r] EXCEPT !.tokens = tokens, !.step = next] \in RequestRecords
  BY DEF TypeOK, RequestRecords
<1>4. req' \in [Requests -> RequestRecords]
  BY <1>2, <1>3 DEF Settle, TypeOK
<1>5. QED
  BY <1>1, <1>4

LEMMA TypesStep == TypeOK /\ [Next]_vars => TypeOK'
<1> SUFFICES ASSUME TypeOK, [Next]_vars PROVE TypeOK'
  OBVIOUS
<1> USE SessionBounds
<1>1. CASE Save
  <2>1. row' \in [Sessions -> RowRecords]
    BY <1>1 DEF Save, RevokeAll, TypeOK, RowRecords
  <2>2. QED
    BY <1>1, <2>1 DEF Save, TypeOK, signin, refresh
<1>2. CASE Verify
  BY <1>2 DEF Verify, TypeOK, signin, refresh
<1>3. CASE Restart
  <2>1. login' \in [Sessions -> LoginRecords]
    BY <1>3 DEF Restart, TypeOK, LoginRecords
  <2>2. lost' \in [Sessions -> BOOLEAN]
    BY <1>3 DEF Restart
  <2>3. flight' \in [Sessions -> FlightRecords] /\ req' \in [Requests -> RequestRecords]
    BY <1>3 DEF Restart, FlightRecords, NoFlight, RequestRecords, Idle, Kinds
  <2>4. QED
    BY <1>3, <2>1, <2>2, <2>3 DEF Restart, TypeOK
<1>4. ASSUME NEW t \in States, StartSignIn(t) \/ LoseState(t) PROVE TypeOK'
  BY <1>4 DEF StartSignIn, LoseState, TypeOK, admin, refresh
<1>5. ASSUME NEW s \in Sessions, NEW t \in States, Callback(s, t) PROVE TypeOK'
  BY <1>5 DEF Callback, TypeOK, LoginRecords, admin, refresh
<1>6. ASSUME NEW s \in Sessions, ReadIntegration(s) \/ LoginFails(s) PROVE TypeOK'
  <2>1. login[s] \in LoginRecords
    BY DEF TypeOK
  <2>2. CASE ReadIntegration(s)
    <3>1. [login[s] EXCEPT !.step = "exchange", !.version = version] \in LoginRecords
      BY <2>1 DEF TypeOK, LoginRecords
    <3>2. login' \in [Sessions -> LoginRecords]
      BY <2>2, <3>1 DEF ReadIntegration, TypeOK
    <3>3. QED
      BY <2>2, <3>2 DEF ReadIntegration, TypeOK, admin, refresh
  <2>3. CASE LoginFails(s)
    <3>1. login' \in [Sessions -> LoginRecords]
      BY <2>1, <2>3 DEF LoginFails, TypeOK, LoginRecords
    <3>2. QED
      BY <2>3, <3>1 DEF LoginFails, TypeOK, admin, refresh
  <2>4. QED
    BY <1>6, <2>2, <2>3
<1>7. ASSUME NEW s \in Sessions, CreateSession(s) PROVE TypeOK'
  <2>1. login' \in [Sessions -> LoginRecords]
    BY <1>7 DEF CreateSession, TypeOK, LoginRecords
  <2>2. row' \in [Sessions -> RowRecords]
    BY <1>7 DEF CreateSession, TypeOK, RowRecords, LoginRecords
  <2>3. QED
    BY <1>7, <2>1, <2>2 DEF CreateSession, TypeOK, admin, refresh
<1>8. ASSUME NEW s \in Sessions, SessionEnds(s) PROVE TypeOK'
  BY <1>8 DEF SessionEnds, TypeOK, RowRecords, admin, signin, refresh
<1>9. ASSUME NEW s \in Sessions, AccessExpires(s) PROVE TypeOK'
  BY <1>9 DEF AccessExpires, TypeOK, RowRecords, admin, signin, refresh
<1>10. ASSUME NEW s \in Sessions, RefreshStep(s) PROVE TypeOK'
  <2> USE DEF admin, signin
  <2>1. row[s].tokens \in Nat /\ flight[s].tokens \in Nat /\ flight[s].tokens + 1 \in Nat
    BY DEF TypeOK, RowRecords, FlightRecords
  <2>2. CASE ReadLatest(s)
    <3>1. flight' \in [Sessions -> FlightRecords] /\ req' \in [Requests -> RequestRecords]
      BY <2>1, <2>2, SettleTypes DEF ReadLatest, TypeOK, FlightRecords
    <3>2. QED
      BY <2>2, <3>1 DEF ReadLatest, TypeOK
  <2>3. CASE DiscoveryFails(s)
    BY <2>3, SettleTypes DEF DiscoveryFails, TypeOK
  <2>4. CASE IssuerChanged(s) \/ SendRefresh(s) \/ Answered(s) \/ StoreFails(s)
    <3>1. flight' \in [Sessions -> FlightRecords]
      <4>1. \A step \in {"sent", "store", "revoke"} :
               [flight EXCEPT ![s].step = step] \in [Sessions -> FlightRecords]
        BY DEF TypeOK, FlightRecords
      <4>2. \E step \in {"sent", "store", "revoke"} : flight' = [flight EXCEPT ![s].step = step]
        BY <2>4 DEF IssuerChanged, SendRefresh, Answered, StoreFails
      <4>3. QED
        BY <4>1, <4>2
    <3>2. spent' \in [Sessions -> Nat]
      BY <2>1, <2>4 DEF IssuerChanged, SendRefresh, Answered, StoreFails, TypeOK
    <3>3. QED
      BY <2>4, <3>1, <3>2 DEF IssuerChanged, SendRefresh, Answered, StoreFails, TypeOK
  <2>5. CASE Store(s)
    <3>1. flight' \in [Sessions -> FlightRecords] /\ req' \in [Requests -> RequestRecords]
      <4>1. CASE Settle(s, "touch", flight[s].tokens + 1)
        BY <2>1, <4>1, SettleTypes
      <4>2. CASE flight' = [flight EXCEPT ![s].step = "revoke"] /\ UNCHANGED req
        BY <4>2 DEF TypeOK, FlightRecords
      <4>3. QED
        BY <2>5, <4>1, <4>2 DEF Store
    <3>2. row' \in [Sessions -> RowRecords]
      BY <2>1, <2>5 DEF Store, TypeOK, RowRecords
    <3>3. QED
      BY <2>5, <3>1, <3>2 DEF Store, TypeOK
  <2>6. CASE RevokeAfterFailure(s)
    <3>1. row' \in [Sessions -> RowRecords]
      BY <2>6 DEF RevokeAfterFailure, TypeOK, RowRecords
    <3>2. QED
      BY <2>6, <3>1, SettleTypes DEF RevokeAfterFailure, TypeOK
  <2>7. CASE RevokeFails(s)
    BY <2>7, SettleTypes DEF RevokeFails, TypeOK
  <2>8. QED
    BY <1>10, <2>2, <2>3, <2>4, <2>5, <2>6, <2>7 DEF RefreshStep
<1>11. ASSUME NEW r \in Requests, NEW s \in Sessions, NEW kind \in Kinds,
              ReadSession(r, s, kind)
       PROVE  TypeOK'
  <2>1. req' \in [Requests -> RequestRecords]
    BY <1>11 DEF ReadSession, TypeOK, RowRecords, RequestRecords
  <2>2. QED
    BY <1>11, <2>1 DEF ReadSession, TypeOK, admin, signin, refresh
<1>12. ASSUME NEW r \in Requests, RequestStep(r) PROVE TypeOK'
  <2> USE DEF admin, signin, refresh
  <2>1. CASE ReadVersion(r) \/ Touch(r) \/ Throw(r)
    <3>1. req' \in [Requests -> RequestRecords]
      BY <2>1 DEF ReadVersion, Touch, Throw, Go, Rest, Idle, TypeOK, RequestRecords, Kinds
    <3>2. QED
      BY <2>1, <3>1 DEF ReadVersion, Touch, Throw, TypeOK
  <2>2. CASE Access(r)
    <3>1. req' \in [Requests -> RequestRecords]
      BY <2>2 DEF Access, Go, TypeOK, RequestRecords
    <3>2. flight' \in [Sessions -> FlightRecords]
      BY <2>2 DEF Access, TypeOK, FlightRecords
    <3>3. QED
      BY <2>2, <3>1, <3>2 DEF Access, TypeOK
  <2>3. CASE ReadOrders(r)
    <3>1. req' \in [Requests -> RequestRecords]
      BY <2>3 DEF ReadOrders, Go, Rest, Idle, TypeOK, RequestRecords, Kinds
    <3>2. QED
      BY <2>3, <3>1 DEF ReadOrders, TypeOK
  <2>4. CASE Revoke(r)
    <3>1. req' \in [Requests -> RequestRecords]
      BY <2>4 DEF Revoke, Rest, Idle, TypeOK, RequestRecords, Kinds
    <3>2. row' \in [Sessions -> RowRecords]
      BY <2>4 DEF Revoke, TypeOK, RowRecords
    <3>3. QED
      BY <2>4, <3>1, <3>2 DEF Revoke, TypeOK
  <2>5. QED
    BY <1>12, <2>1, <2>2, <2>3, <2>4 DEF RequestStep
<1>13. CASE UNCHANGED vars
  BY <1>13 DEF vars, TypeOK
<1>14. QED
  BY <1>1, <1>2, <1>3, <1>4, <1>5, <1>6, <1>7, <1>8, <1>9, <1>10, <1>11, <1>12, <1>13
     DEF Next, LoginStep

-----------------------------------------------------------------------------
(***************************************************************************)
(* Sign-ins.                                                               *)
(***************************************************************************)
LEMMA LoginsStep ==
    ASSUME TypeOK, RowsHaveLogins, LoginsAreApart, WorkIsAboutRows, [Next]_vars
    PROVE  RowsHaveLogins' /\ LoginsAreApart'
<1> USE SessionBounds DEF RowsHaveLogins, LoginsAreApart
<1>1. ASSUME NEW s \in Sessions, NEW t \in States, Callback(s, t)
      PROVE  RowsHaveLogins' /\ LoginsAreApart'
  <2>1. /\ row' = row
        /\ \A u \in Sessions \ {s} : login'[u] = login[u]
        /\ login'[s].step = "state" /\ login'[s].state = t
        /\ login[s].step = "none" /\ state[t] = "open"
        /\ state'[t] = "gone" /\ \A u \in States \ {t} : state'[u] = state[u]
    BY <1>1 DEF Callback, TypeOK
  <2>2. QED
    BY <2>1
<1>2. ASSUME NEW t \in States, StartSignIn(t) \/ LoseState(t)
      PROVE  RowsHaveLogins' /\ LoginsAreApart'
  <2>1. /\ row' = row /\ login' = login /\ state[t] # "gone"
        /\ \A u \in States \ {t} : state'[u] = state[u]
    BY <1>2 DEF StartSignIn, LoseState, TypeOK
  <2>2. QED
    BY <2>1
<1>3. ASSUME NEW s \in Sessions, LoginStep(s)
      PROVE  RowsHaveLogins' /\ LoginsAreApart'
  <2>1. CASE ReadIntegration(s)
    <3>1. login'[s] = [login[s] EXCEPT !.step = "exchange", !.version = version]
      BY <2>1 DEF ReadIntegration, TypeOK
    <3>2. login'[s].state = login[s].state /\ login'[s].step = "exchange"
      BY <3>1 DEF TypeOK, LoginRecords
    <3>3. /\ state' = state /\ row' = row /\ login[s].step = "state"
          /\ \A u \in Sessions \ {s} : login'[u] = login[u]
      BY <2>1 DEF ReadIntegration, TypeOK
    <3>4. QED
      BY <3>2, <3>3
  <2>2. CASE CreateSession(s) \/ LoginFails(s)
    <3>1. /\ state' = state /\ login[s].step \in {"state", "exchange"}
          /\ \A u \in Sessions \ {s} : login'[u] = login[u] /\ row'[u] = row[u]
      BY <2>2 DEF CreateSession, LoginFails, TypeOK
    <3>2. login'[s].state = login[s].state /\ login'[s].step # "none"
      BY <2>2 DEF CreateSession, LoginFails, TypeOK, LoginRecords
    <3>3. row'[s].status # "none" <=> login'[s].step = "done"
      BY <2>2 DEF CreateSession, LoginFails, TypeOK, LoginRecords
    <3>4. QED
      BY <3>1, <3>2, <3>3
  <2>3. QED
    BY <1>3, <2>1, <2>2 DEF LoginStep
<1>4. CASE Restart
  <2>1. row' = row /\ state' = state
    BY <1>4 DEF Restart
  <2>2. \A u \in Sessions : \/ login'[u] = login[u]
                            \/ /\ login[u].step \in {"state", "exchange"}
                               /\ login'[u] = [login[u] EXCEPT !.step = "failed"]
    BY <1>4 DEF Restart
  <2>3. ASSUME NEW u \in Sessions PROVE login'[u].state = login[u].state
    <3>1. login[u] \in LoginRecords
      BY DEF TypeOK
    <3>2. [login[u] EXCEPT !.step = "failed"].state = login[u].state
      BY <3>1 DEF LoginRecords
    <3>3. QED
      BY <2>2, <3>2
  <2>4. \A u \in Sessions : /\ (login'[u].step = "done") <=> (login[u].step = "done")
                            /\ (login'[u].step = "none") <=> (login[u].step = "none")
    BY <2>2 DEF TypeOK, LoginRecords
  <2>5. QED
    BY <2>1, <2>3, <2>4
<1>5. CASE UNCHANGED <<login, state>> /\ \A s \in Sessions : row'[s].status = "none" <=> row[s].status = "none"
  BY <1>5
<1>6. CASE Save
  <2>1. UNCHANGED <<login, state>> /\ \A s \in Sessions : row'[s].status = "none" <=> row[s].status = "none"
    BY <1>6 DEF Save, RevokeAll, TypeOK, RowRecords, signin
  <2>2. QED
    BY <1>5, <2>1
<1>7. ASSUME NEW s \in Sessions, SessionEnds(s) \/ AccessExpires(s) \/ RefreshStep(s)
      PROVE  RowsHaveLogins' /\ LoginsAreApart'
  <2>1. UNCHANGED <<login, state>>
    BY <1>7 DEF SessionEnds, AccessExpires, RefreshStep, ReadLatest, DiscoveryFails, IssuerChanged,
                SendRefresh, Answered, Store, StoreFails, RevokeAfterFailure, RevokeFails, signin
  <2>2. \A u \in Sessions \ {s} : row'[u] = row[u]
    BY <1>7 DEF SessionEnds, AccessExpires, RefreshStep, ReadLatest, DiscoveryFails, IssuerChanged,
                SendRefresh, Answered, Store, StoreFails, RevokeAfterFailure, RevokeFails, TypeOK
  <2>3. row'[s].status = "none" <=> row[s].status = "none"
    BY <1>7 DEF SessionEnds, AccessExpires, RefreshStep, ReadLatest, DiscoveryFails, IssuerChanged,
                SendRefresh, Answered, Store, StoreFails, RevokeAfterFailure, RevokeFails, TypeOK,
                RowRecords, WorkIsAboutRows
  <2>4. QED
    BY <1>5, <2>1, <2>2, <2>3
<1>8. ASSUME NEW r \in Requests, Revoke(r)
      PROVE  RowsHaveLogins' /\ LoginsAreApart'
  <2>1. req[r].session \in Sessions /\ row[req[r].session].status # "none"
    BY <1>8 DEF Revoke, At, WorkIsAboutRows, AtWork, Resting
  <2>2. UNCHANGED <<login, state>> /\ \A s \in Sessions : row'[s].status = "none" <=> row[s].status = "none"
    BY <1>8, <2>1 DEF Revoke, TypeOK, RowRecords, signin
  <2>3. QED
    BY <1>5, <2>2
<1>9. ASSUME NEW r \in Requests,
             \/ \E s \in Sessions, kind \in Kinds : ReadSession(r, s, kind)
             \/ RequestStep(r) /\ ~Revoke(r)
      PROVE  RowsHaveLogins' /\ LoginsAreApart'
  <2>1. UNCHANGED <<login, state, row>>
    BY <1>9 DEF ReadSession, RequestStep, ReadVersion, Access, ReadOrders, Touch, Throw, signin
  <2>2. QED
    BY <1>5, <2>1
<1>10. CASE Verify \/ UNCHANGED vars
  BY <1>5, <1>10 DEF Verify, vars, signin
<1>11. QED
  BY <1>1, <1>2, <1>3, <1>4, <1>6, <1>7, <1>8, <1>9, <1>10 DEF Next

-----------------------------------------------------------------------------
(***************************************************************************)
(* Requests and refreshes.                                                 *)
(***************************************************************************)
\* What settling means for one request.
LEMMA SettledRequests ==
    ASSUME TypeOK, NEW s \in Sessions, NEW step, NEW tokens \in Nat, Settle(s, step, tokens)
    PROVE  /\ flight'[s] = NoFlight
           /\ \A t \in Sessions \ {s} : flight'[t] = flight[t]
           /\ \A r \in Requests :
                 \/ req'[r] = req[r]
                 \/ req'[r].step = "rest"
                 \/ /\ req[r].step = "waiting" /\ req'[r].step \in {"orders", "touch"}
                    /\ req'[r].session = req[r].session
<1>1. flight'[s] = NoFlight /\ \A t \in Sessions \ {s} : flight'[t] = flight[t]
  BY DEF Settle, TypeOK
<1>2. ASSUME NEW r \in Requests, NEW next \in {"orders", "touch"}
      PROVE  LET q == [req[r] EXCEPT !.tokens = tokens, !.step = next]
             IN  q.step = next /\ q.session = req[r].session
  BY DEF TypeOK, RequestRecords
<1>3. ASSUME NEW r \in Requests
      PROVE  \/ req'[r] = req[r]
             \/ req'[r].step = "rest"
             \/ /\ req[r].step = "waiting" /\ req'[r].step \in {"orders", "touch"}
                /\ req'[r].session = req[r].session
  <2>1. CASE ~(req[r].session = s /\ At(r, "waiting"))
    BY <2>1 DEF Settle
  <2>2. CASE req[r].session = s /\ At(r, "waiting") /\ step = "touch"
    BY <1>2, <2>2 DEF Settle, At
  <2>3. CASE req[r].session = s /\ At(r, "waiting") /\ step # "touch"
    BY <2>3 DEF Settle, Idle
  <2>4. QED
    BY <2>1, <2>2, <2>3
<1>4. QED
  BY <1>1, <1>3

\* How a step of a refresh may change its session's row: it stores new tokens
\* over those it sent, or revokes the session.
LEMMA RefreshedRows ==
    ASSUME TypeOK, NEW s \in Sessions, RefreshStep(s)
    PROVE  /\ \A u \in Sessions \ {s} : row'[u] = row[u] /\ flight'[u] = flight[u]
           /\ row'[s].version = row[s].version
           /\ \/ row'[s] = row[s]
              \/ row'[s].status = "revoked" /\ flight[s].step = "revoke"
              \/ /\ row[s].status = "live" /\ row'[s].status = "live"
                 /\ flight[s].step = "store" /\ flight'[s] = NoFlight
                 /\ row[s].tokens = flight[s].tokens /\ row'[s].tokens = flight[s].tokens + 1
           /\ \A r \in Requests :
                 \/ req'[r] = req[r]
                 \/ req'[r].step = "rest"
                 \/ /\ req[r].step = "waiting" /\ req'[r].step \in {"orders", "touch"}
                    /\ req'[r].session = req[r].session
<1> DEFINE Requested == \A r \in Requests :
                 \/ req'[r] = req[r]
                 \/ req'[r].step = "rest"
                 \/ /\ req[r].step = "waiting" /\ req'[r].step \in {"orders", "touch"}
                    /\ req'[r].session = req[r].session
<1>1. row[s].tokens \in Nat /\ flight[s].tokens \in Nat /\ flight[s].tokens + 1 \in Nat
  BY DEF TypeOK, RowRecords, FlightRecords
<1>2. CASE ReadLatest(s) \/ DiscoveryFails(s) \/ RevokeFails(s)
  <2>1. row' = row
    BY <1>2 DEF ReadLatest, DiscoveryFails, RevokeFails
  <2>2. Requested /\ \A u \in Sessions \ {s} : flight'[u] = flight[u]
    <3>1. CASE \E step \in {"rest", "touch"}, n \in Nat : Settle(s, step, n)
      BY <3>1, SettledRequests
    <3>2. CASE UNCHANGED req /\ \E f : flight' = [flight EXCEPT ![s] = f]
      BY <3>2 DEF TypeOK
    <3>3. QED
      BY <1>1, <1>2, <3>1, <3>2 DEF ReadLatest, DiscoveryFails, RevokeFails
  <2>3. QED
    BY <2>1, <2>2
<1>3. CASE IssuerChanged(s) \/ SendRefresh(s) \/ Answered(s) \/ StoreFails(s)
  BY <1>3 DEF IssuerChanged, SendRefresh, Answered, StoreFails, TypeOK
<1>4. CASE Store(s)
  <2>1. CASE Usable(s) /\ row[s].tokens = flight[s].tokens
    <3>1. Settle(s, "touch", flight[s].tokens + 1)
      BY <1>4, <2>1 DEF Store
    <3>2. /\ \A u \in Sessions \ {s} : row'[u] = row[u]
          /\ row'[s] = [row[s] EXCEPT !.tokens = flight[s].tokens + 1]
      BY <1>4, <2>1 DEF Store, TypeOK
    <3>3. /\ row'[s].version = row[s].version /\ row'[s].status = row[s].status
          /\ row'[s].tokens = flight[s].tokens + 1
      BY <3>2 DEF TypeOK, RowRecords
    <3>4. row[s].status = "live" /\ flight[s].step = "store"
      BY <1>4, <2>1 DEF Store, Usable
    <3>5. QED
      BY <1>1, <2>1, <3>1, <3>2, <3>3, <3>4, SettledRequests
  <2>2. CASE ~(Usable(s) /\ row[s].tokens = flight[s].tokens)
    BY <1>4, <2>2 DEF Store, TypeOK
  <2>3. QED
    BY <2>1, <2>2
<1>5. CASE RevokeAfterFailure(s)
  <2>1. /\ \A u \in Sessions \ {s} : row'[u] = row[u]
        /\ row'[s].version = row[s].version /\ row'[s].status = "revoked"
        /\ flight[s].step = "revoke"
    BY <1>5 DEF RevokeAfterFailure, TypeOK, RowRecords
  <2>2. Settle(s, "rest", 0)
    BY <1>5 DEF RevokeAfterFailure
  <2>3. QED
    BY <2>1, <2>2, SettledRequests
<1>6. QED
  BY <1>2, <1>3, <1>4, <1>5 DEF RefreshStep

-----------------------------------------------------------------------------
LEMMA WorkStep ==
    ASSUME TypeOK, RowsHaveLogins, WorkIsAboutRows, [Next]_vars
    PROVE  WorkIsAboutRows'
<1> USE DEF WorkIsAboutRows, AtWork, Resting
<1>1. ASSUME NEW s \in Sessions, RefreshStep(s) PROVE WorkIsAboutRows'
  <2>1. \A u \in Sessions : (row'[u].status = "none") <=> (row[u].status = "none")
    BY <1>1, RefreshedRows
  <2>2. flight[s].step # "none"
    BY <1>1 DEF RefreshStep, ReadLatest, DiscoveryFails, IssuerChanged, SendRefresh, Answered,
                Store, StoreFails, RevokeAfterFailure, RevokeFails
  <2>3. \A u \in Sessions : flight'[u].step # "none" => flight[u].step # "none"
    BY <1>1, <2>2, RefreshedRows
  <2>4. ASSUME NEW r \in Requests, AtWork(r)'
        PROVE  AtWork(r) /\ req'[r].session = req[r].session
    BY <1>1, <2>4, RefreshedRows
  <2>5. QED
    BY <2>1, <2>3, <2>4
<1>2. ASSUME NEW r \in Requests, NEW s \in Sessions, NEW kind \in Kinds, ReadSession(r, s, kind)
      PROVE  WorkIsAboutRows'
  <2>1. /\ row' = row /\ flight' = flight /\ row[s].status # "none"
        /\ req'[r].session = s
        /\ \A q \in Requests \ {r} : req'[q] = req[q]
    BY <1>2 DEF ReadSession, TypeOK, refresh
  <2>2. QED
    BY <2>1
<1>3. ASSUME NEW r \in Requests, RequestStep(r) PROVE WorkIsAboutRows'
  <2>1. AtWork(r)
    BY <1>3 DEF RequestStep, ReadVersion, Access, ReadOrders, Touch, Revoke, Throw, At
  <2>2. /\ \A q \in Requests \ {r} : req'[q] = req[q]
        /\ AtWork(r)' => req'[r].session = req[r].session
    BY <1>3 DEF RequestStep, ReadVersion, Access, ReadOrders, Touch, Revoke, Throw, Go, Rest, Idle,
                TypeOK, RequestRecords
  <2>3. \A u \in Sessions : (row'[u].status = "none") <=> (row[u].status = "none")
    <3>1. CASE Revoke(r)
      BY <2>1, <3>1 DEF Revoke, TypeOK, RowRecords
    <3>2. CASE ~Revoke(r)
      BY <1>3, <3>2 DEF RequestStep, ReadVersion, Access, ReadOrders, Touch, Throw
    <3>3. QED
      BY <3>1, <3>2
  <2>4. \A u \in Sessions : flight'[u].step # "none" => row[u].status # "none"
    <3>1. CASE Access(r)
      BY <2>1, <3>1 DEF Access, TypeOK
    <3>2. CASE ~Access(r)
      BY <1>3, <3>2 DEF RequestStep, ReadVersion, ReadOrders, Touch, Revoke, Throw, refresh
    <3>3. QED
      BY <3>1, <3>2
  <2>5. QED
    BY <2>1, <2>2, <2>3, <2>4
<1>4. CASE Restart
  BY <1>4 DEF Restart, Idle, NoFlight
<1>5. CASE /\ UNCHANGED <<req, flight>>
           /\ \A s \in Sessions : row[s].status # "none" => row'[s].status # "none"
  BY <1>5
<1>6. ASSUME NEW s \in Sessions, LoginStep(s) \/ SessionEnds(s) \/ AccessExpires(s)
      PROVE  WorkIsAboutRows'
  <2>1. UNCHANGED <<req, flight>>
    BY <1>6 DEF LoginStep, ReadIntegration, CreateSession, LoginFails, SessionEnds, AccessExpires,
                refresh
  <2>2. \A u \in Sessions : row[u].status # "none" => row'[u].status # "none"
    <3>1. CASE CreateSession(s)
      BY <3>1 DEF CreateSession, TypeOK
    <3>2. CASE SessionEnds(s)
      BY <3>2 DEF SessionEnds, TypeOK, RowRecords
    <3>3. CASE row' = row
      BY <3>3
    <3>4. QED
      BY <1>6, <3>1, <3>2, <3>3 DEF LoginStep, ReadIntegration, LoginFails, AccessExpires
  <2>3. QED
    BY <1>5, <2>1, <2>2
<1>7. CASE Save
  BY <1>5, <1>7 DEF Save, RevokeAll, TypeOK, RowRecords, refresh
<1>8. CASE Verify \/ UNCHANGED vars
  BY <1>5, <1>8 DEF Verify, vars, refresh
<1>9. ASSUME NEW t \in States, \/ StartSignIn(t) \/ LoseState(t)
                               \/ \E s \in Sessions : Callback(s, t)
      PROVE  WorkIsAboutRows'
  BY <1>5, <1>9 DEF StartSignIn, LoseState, Callback, refresh
<1>10. QED
  BY <1>1, <1>2, <1>3, <1>4, <1>6, <1>7, <1>8, <1>9 DEF Next

LEMMA ComparisonsStep ==
    ASSUME TypeOK, RowsHaveLogins, WorkIsAboutRows, ComparisonsHold, [Next]_vars
    PROVE  ComparisonsHold'
<1> USE DEF ComparisonsHold, Compared
<1>1. \A r \in Requests : Compared(r) => req[r].session \in Sessions /\ row[req[r].session].status # "none"
  BY DEF WorkIsAboutRows, AtWork, Resting
<1>2. CASE /\ version' = version
           /\ \A s \in Sessions : row[s].status # "none" =>
                 /\ row'[s].version = row[s].version
                 /\ row'[s].status = "live" => row[s].status = "live"
           /\ \A r \in Requests : Compared(r)' => Compared(r) /\ req'[r].session = req[r].session
  BY <1>1, <1>2
<1>3. ASSUME NEW s \in Sessions, RefreshStep(s) PROVE ComparisonsHold'
  <2>1. version' = version
    BY <1>3 DEF RefreshStep, ReadLatest, DiscoveryFails, IssuerChanged, SendRefresh, Answered,
                Store, StoreFails, RevokeAfterFailure, RevokeFails, admin
  <2>2. \A u \in Sessions : /\ row'[u].version = row[u].version
                            /\ row'[u].status = "live" => row[u].status = "live"
    BY <1>3, RefreshedRows
  <2>3. \A r \in Requests : Compared(r)' => Compared(r) /\ req'[r].session = req[r].session
    BY <1>3, RefreshedRows
  <2>4. QED
    BY <1>2, <2>1, <2>2, <2>3
<1>4. ASSUME NEW r \in Requests, NEW s \in Sessions, NEW kind \in Kinds, ReadSession(r, s, kind)
      PROVE  ComparisonsHold'
  <2>1. /\ row' = row /\ version' = version /\ ~Compared(r)'
        /\ \A q \in Requests \ {r} : req'[q] = req[q]
    BY <1>4 DEF ReadSession, TypeOK, admin
  <2>2. QED
    BY <1>2, <2>1
<1>5. ASSUME NEW r \in Requests, ReadVersion(r) PROVE ComparisonsHold'
  <2>1. /\ row' = row /\ version' = version
        /\ \A q \in Requests \ {r} : req'[q] = req[q]
        /\ req'[r].session = req[r].session
    <3>1. PICK step : Go(r, step)
      BY <1>5 DEF ReadVersion
    <3>2. [req[r] EXCEPT !.step = step].session = req[r].session
      BY DEF TypeOK, RequestRecords
    <3>3. QED
      BY <1>5, <3>1, <3>2 DEF ReadVersion, Go, TypeOK, admin
  <2>2. Compared(r)' => row[req[r].session].version = version
    <3>1. [req[r] EXCEPT !.step = "revoke"].step = "revoke"
      BY DEF TypeOK, RequestRecords
    <3>2. CASE row[req[r].session].version # version
      <4>1. Go(r, "revoke")
        BY <1>5, <3>2 DEF ReadVersion
      <4>3. req'[r] = [req[r] EXCEPT !.step = "revoke"]
        BY <4>1 DEF Go, TypeOK
      <4>2. QED
        BY <3>1, <4>3
    <3>3. QED
      BY <3>2
  <2>3. QED
    BY <2>1, <2>2
<1>6. ASSUME NEW r \in Requests, Access(r) \/ ReadOrders(r) \/ Touch(r) \/ Throw(r)
      PROVE  ComparisonsHold'
  <2>1. row' = row /\ version' = version /\ \A q \in Requests \ {r} : req'[q] = req[q]
    BY <1>6 DEF Access, ReadOrders, Touch, Throw, Go, Rest, TypeOK, admin
  <2>2. Compared(r)' => Compared(r) /\ req'[r].session = req[r].session
    BY <1>6 DEF Access, ReadOrders, Touch, Throw, Go, Rest, At, Idle, TypeOK, RequestRecords
  <2>3. QED
    BY <1>2, <2>1, <2>2
<1>7. ASSUME NEW r \in Requests, Revoke(r) PROVE ComparisonsHold'
  <2>1. version' = version /\ ~Compared(r)' /\ \A q \in Requests \ {r} : req'[q] = req[q]
    BY <1>7 DEF Revoke, Rest, Idle, TypeOK, admin
  <2>2. \A s \in Sessions : /\ row'[s].version = row[s].version
                            /\ row'[s].status = "live" => row[s].status = "live"
    BY <1>7 DEF Revoke, TypeOK, RowRecords
  <2>3. QED
    BY <1>2, <2>1, <2>2
<1>8. CASE Restart
  BY <1>8 DEF Restart, Idle
<1>9. CASE Save
  <2>1. req' = req /\ \A s \in Sessions : row'[s].status # "live"
    BY <1>9 DEF Save, RevokeAll, TypeOK, RowRecords
  <2>2. QED
    BY <1>1, <2>1
<1>10. ASSUME NEW s \in Sessions, LoginStep(s) \/ SessionEnds(s) \/ AccessExpires(s)
       PROVE  ComparisonsHold'
  <2>1. UNCHANGED <<req, version>>
    BY <1>10 DEF LoginStep, ReadIntegration, CreateSession, LoginFails, SessionEnds, AccessExpires,
                 admin
  <2>2. \A u \in Sessions : row[u].status # "none" =>
           /\ row'[u].version = row[u].version
           /\ row'[u].status = "live" => row[u].status = "live"
    <3>1. CASE CreateSession(s)
      BY <3>1 DEF CreateSession, RowsHaveLogins, TypeOK
    <3>2. CASE ~CreateSession(s)
      BY <1>10, <3>2 DEF LoginStep, ReadIntegration, LoginFails, SessionEnds, AccessExpires,
                         TypeOK, RowRecords
    <3>3. QED
      BY <3>1, <3>2
  <2>3. QED
    BY <1>2, <2>1, <2>2
<1>11. CASE \/ Verify \/ UNCHANGED vars
            \/ \E t \in States : \/ StartSignIn(t) \/ LoseState(t)
                                 \/ \E s \in Sessions : Callback(s, t)
  BY <1>2, <1>11 DEF Verify, StartSignIn, LoseState, Callback, vars, admin
<1>12. QED
  BY <1>3, <1>4, <1>5, <1>6, <1>7, <1>8, <1>9, <1>10, <1>11 DEF Next, RequestStep

-----------------------------------------------------------------------------
LEMMA TokensStep ==
    ASSUME TypeOK, RowsHaveLogins, WorkIsAboutRows, TokensAreKnown, [Next]_vars
    PROVE  TokensAreKnown'
<1> USE DEF TokensAreKnown
\* A session whose tokens and refresh nobody touches; it may end meanwhile.
<1>1. ASSUME NEW u \in Sessions, flight'[u] = flight[u], spent'[u] = spent[u],
             lost[u] => lost'[u], row'[u].tokens = row[u].tokens,
             \/ row'[u].status = row[u].status \/ row'[u].status = "revoked"
      PROVE  TokensOf(u)'
  BY <1>1 DEF TokensOf
<1>2. ASSUME NEW s \in Sessions, RefreshStep(s) PROVE TokensAreKnown'
  <2>1. \A u \in Sessions \ {s} : /\ flight'[u] = flight[u] /\ row'[u] = row[u]
                                  /\ spent'[u] = spent[u] /\ lost'[u] = lost[u]
    <3>1. \A u \in Sessions \ {s} : spent'[u] = spent[u] /\ lost'[u] = lost[u]
      BY <1>2 DEF RefreshStep, ReadLatest, DiscoveryFails, IssuerChanged, SendRefresh, Answered,
                  Store, StoreFails, RevokeAfterFailure, RevokeFails, TypeOK
    <3>2. QED
      BY <1>2, <3>1, RefreshedRows
  <2>2. TokensOf(s)'
    <3> USE DEF TokensOf
    <3>1. /\ row[s].tokens \in Nat /\ flight[s].tokens \in Nat /\ spent[s] \in Nat
          /\ flight[s].tokens + 1 \in Nat
      BY DEF TypeOK, RowRecords, FlightRecords
    <3>2. row[s].status # "none" /\ row'[s].status # "none"
      <4>1. flight[s].step # "none"
        BY <1>2 DEF RefreshStep, ReadLatest, DiscoveryFails, IssuerChanged, SendRefresh, Answered,
                    Store, StoreFails, RevokeAfterFailure, RevokeFails
      <4>2. QED
        BY <1>2, <4>1, RefreshedRows DEF WorkIsAboutRows
    <3>3. CASE ReadLatest(s)
      <4>1. UNCHANGED <<row, spent, lost>>
        BY <3>3 DEF ReadLatest
      <4>2. CASE flight'[s] = NoFlight
        BY <3>2, <3>3, <4>1, <4>2 DEF ReadLatest, NoFlight
      <4>3. CASE flight'[s] = [step |-> "discover", tokens |-> row[s].tokens] /\ row[s].status = "live"
        BY <3>2, <3>3, <4>1, <4>3 DEF ReadLatest
      <4>4. QED
        BY <3>2, <3>1, <3>3, <4>2, <4>3, SettledRequests DEF ReadLatest, TypeOK
    <3>4. CASE DiscoveryFails(s)
      <4>1. /\ UNCHANGED <<row, spent, lost>> /\ flight'[s] = NoFlight
            /\ flight[s].step = "discover"
        BY <3>4, SettledRequests DEF DiscoveryFails
      <4>2. QED
        BY <3>2, <3>1, <4>1 DEF NoFlight, WorkIsAboutRows, TypeOK, RowRecords
    <3>5. CASE IssuerChanged(s) \/ StoreFails(s)
      <4>1. UNCHANGED <<row, spent, lost>> /\ flight'[s].step = "revoke"
        BY <3>5 DEF IssuerChanged, StoreFails, TypeOK, FlightRecords
      <4>2. QED
        BY <3>2, <4>1
    <3>6. CASE SendRefresh(s)
      <4>1. /\ UNCHANGED <<row, lost>> /\ flight'[s].step = "sent"
            /\ flight'[s].tokens = flight[s].tokens /\ flight[s].step = "discover"
            /\ spent'[s] = flight[s].tokens + 1
        BY <3>6 DEF SendRefresh, TypeOK, FlightRecords
      <4>2. QED
        BY <3>2, <4>1
    <3>7. CASE Answered(s)
      <4>1. /\ UNCHANGED <<row, lost, spent>> /\ flight'[s].step \in {"store", "revoke"}
            /\ flight'[s].tokens = flight[s].tokens /\ flight[s].step = "sent"
        BY <3>7 DEF Answered, TypeOK, FlightRecords
      <4>2. QED
        BY <3>2, <4>1
    <3>8. CASE Store(s)
      <4>1. UNCHANGED <<spent, lost>> /\ flight[s].step = "store"
        BY <3>8 DEF Store
      <4>2. CASE row' = row /\ flight'[s].step = "revoke"
        BY <3>2, <4>1, <4>2
      <4>3. CASE /\ row'[s].tokens = flight[s].tokens + 1 /\ flight'[s] = NoFlight
        BY <3>2, <3>1, <4>1, <4>3 DEF NoFlight
      <4>4. QED
        BY <3>2, <3>1, <3>8, <4>2, <4>3, SettledRequests DEF Store, TypeOK, RowRecords, FlightRecords
    <3>9. CASE RevokeAfterFailure(s)
      <4>1. row'[s].status = "revoked" /\ flight'[s].step = "none"
        BY <3>9, SettledRequests DEF RevokeAfterFailure, TypeOK, RowRecords, NoFlight
      <4>2. QED
        BY <3>2, <4>1
    <3>10. CASE RevokeFails(s)
      <4>1. lost'[s] /\ flight'[s].step = "none"
        BY <3>10, SettledRequests DEF RevokeFails, TypeOK, NoFlight
      <4>2. QED
        BY <3>2, <4>1
    <3>11. QED
      BY <1>2, <3>3, <3>4, <3>5, <3>6, <3>7, <3>8, <3>9, <3>10 DEF RefreshStep
  <2>3. QED
    BY <1>1, <2>1, <2>2
<1>3. ASSUME NEW r \in Requests, Access(r) PROVE TokensAreKnown'
  <2>1. UNCHANGED <<row, spent, lost>>
    BY <1>3 DEF Access
  <2>2. ASSUME NEW u \in Sessions, flight'[u] # flight[u]
        PROVE  flight[u].step = "none" /\ flight'[u] = [step |-> "latest", tokens |-> 0]
    BY <1>3, <2>2 DEF Access, TypeOK
  <2>3. \A u \in Sessions : flight'[u] # flight[u] => TokensOf(u)'
    BY <2>1, <2>2 DEF TokensOf
  <2>4. QED
    BY <1>1, <2>1, <2>3
<1>4. CASE Restart
  <2>1. UNCHANGED <<row, spent>>
    BY <1>4 DEF Restart
  <2>2. ASSUME NEW u \in Sessions PROVE TokensOf(u)'
    <3>1. /\ flight'[u].step = "none"
          /\ lost'[u] = (lost[u] \/ flight[u].step \in {"sent", "store", "revoke"})
      BY <1>4 DEF Restart, NoFlight
    <3>2. flight[u].step = "discover" /\ row[u].status # "revoked" => row[u].status = "live"
      BY DEF WorkIsAboutRows, TypeOK, RowRecords
    <3>3. flight[u].step \in {"none", "latest", "discover", "sent", "store", "revoke"}
      BY DEF TypeOK, FlightRecords
    <3>4. QED
      BY <2>1, <3>1, <3>2, <3>3 DEF TokensOf
  <2>3. QED
    BY <2>2
<1>5. ASSUME NEW s \in Sessions, CreateSession(s) PROVE TokensAreKnown'
  <2>1. /\ UNCHANGED <<flight, spent, lost>> /\ row'[s].tokens = 0 /\ row'[s].status = "live"
        /\ \A u \in Sessions \ {s} : row'[u] = row[u]
    BY <1>5 DEF CreateSession, TypeOK, refresh
  <2>2. row[s].status = "none" /\ flight[s].step = "none"
    BY <1>5 DEF CreateSession, RowsHaveLogins, WorkIsAboutRows
  <2>3. TokensOf(s)'
    BY <2>1, <2>2 DEF TokensOf
  <2>4. QED
    BY <1>1, <2>1, <2>3
<1>6. CASE /\ UNCHANGED <<flight, spent, lost>>
           /\ \A u \in Sessions : /\ row'[u].tokens = row[u].tokens
                                  /\ \/ row'[u].status = row[u].status
                                     \/ row'[u].status = "revoked"
  BY <1>1, <1>6
<1>7. CASE Save
  BY <1>6, <1>7 DEF Save, RevokeAll, TypeOK, RowRecords, refresh
<1>8. ASSUME NEW s \in Sessions, SessionEnds(s) PROVE TokensAreKnown'
  BY <1>6, <1>8 DEF SessionEnds, TypeOK, RowRecords, refresh
<1>9. ASSUME NEW r \in Requests, Revoke(r) PROVE TokensAreKnown'
  BY <1>6, <1>9 DEF Revoke, TypeOK, RowRecords, refresh
<1>10. CASE UNCHANGED <<row, flight, spent, lost>>
  BY <1>6, <1>10
<1>11. CASE \/ Verify \/ UNCHANGED vars
            \/ \E t \in States : \/ StartSignIn(t) \/ LoseState(t)
                                 \/ \E s \in Sessions : Callback(s, t)
            \/ \E s \in Sessions : ReadIntegration(s) \/ LoginFails(s) \/ AccessExpires(s)
            \/ \E r \in Requests, s \in Sessions, kind \in Kinds : ReadSession(r, s, kind)
            \/ \E r \in Requests : ReadVersion(r) \/ ReadOrders(r) \/ Touch(r) \/ Throw(r)
  BY <1>10, <1>11 DEF Verify, vars, StartSignIn, LoseState, Callback, ReadIntegration, LoginFails,
                      AccessExpires, ReadSession, ReadVersion, ReadOrders, Touch, Throw, refresh
<1>12. QED
  BY <1>2, <1>3, <1>4, <1>5, <1>7, <1>8, <1>9, <1>11 DEF Next, LoginStep, RequestStep

(***************************************************************************)
(* Refreshes and those who await them.                                     *)
(***************************************************************************)
\* Settling wakes everybody who awaits the session, and nobody else.
LEMMA SettledWaiters ==
    ASSUME TypeOK, RefreshesAreAwaited, NEW s \in Sessions, NEW step, NEW tokens \in Nat,
           Settle(s, step, tokens)
    PROVE  RefreshesAreAwaited'
<1>1. flight'[s] = NoFlight /\ \A t \in Sessions \ {s} : flight'[t] = flight[t]
  BY DEF Settle, TypeOK
<1>2. ASSUME NEW r \in Requests, Awaits(r, s) PROVE req'[r].step # "waiting"
  <2> DEFINE next == IF req[r].kind = "orders" THEN "orders" ELSE "touch"
             q == [req[r] EXCEPT !.tokens = tokens, !.step = next]
  <2>1. q.step = next /\ Idle("rest").step = "rest"
    BY DEF TypeOK, RequestRecords, Idle
  <2>2. req'[r] = Idle("rest") \/ req'[r] = q
    BY <1>2 DEF Settle, Awaits
  <2>3. next # "waiting"
    OBVIOUS
  <2> HIDE DEF q, next
  <2>4. QED
    BY <2>1, <2>2, <2>3
<1>3. ASSUME NEW r \in Requests, ~Awaits(r, s) PROVE req'[r] = req[r]
  BY <1>3 DEF Settle, Awaits
<1>4. \A t \in Sessions, r \in Requests : Awaits(r, t)' <=> t # s /\ Awaits(r, t)
  BY <1>2, <1>3 DEF Awaits, At
<1>5. QED
  BY <1>1, <1>4 DEF RefreshesAreAwaited, NoFlight

LEMMA AwaitedStep ==
    ASSUME TypeOK, WorkIsAboutRows, RefreshesAreAwaited, [Next]_vars
    PROVE  RefreshesAreAwaited'
<1>1. ASSUME NEW s \in Sessions, RefreshStep(s) PROVE RefreshesAreAwaited'
  <2>1. row[s].tokens \in Nat /\ flight[s].tokens + 1 \in Nat /\ flight[s].step # "none"
    <3>1. flight[s].step # "none"
      BY <1>1 DEF RefreshStep, ReadLatest, DiscoveryFails, IssuerChanged, SendRefresh, Answered,
                  Store, StoreFails, RevokeAfterFailure, RevokeFails
    <3>2. QED
      BY <3>1 DEF TypeOK, RowRecords, FlightRecords
  <2>2. ASSUME req' = req, NEW f, f.step # "none", flight' = [flight EXCEPT ![s] = f]
        PROVE  RefreshesAreAwaited'
    <3>1. \A t \in Sessions : flight'[t].step # "none" <=> flight[t].step # "none"
      BY <2>1, <2>2 DEF TypeOK
    <3>2. QED
      BY <2>2, <3>1 DEF RefreshesAreAwaited, Awaits, At
  <2>3. ASSUME req' = req, NEW next \in {"sent", "store", "revoke"},
               flight' = [flight EXCEPT ![s].step = next]
        PROVE  RefreshesAreAwaited'
    <3>1. [flight[s] EXCEPT !.step = next].step = next
      BY DEF TypeOK, FlightRecords
    <3>2. flight' = [flight EXCEPT ![s] = [flight[s] EXCEPT !.step = next]]
      BY <2>3
    <3> DEFINE f == [flight[s] EXCEPT !.step = next]
    <3>3. f.step # "none"
      BY <3>1
    <3> HIDE DEF f
    <3>4. QED
      BY <2>2, <2>3, <3>2, <3>3 DEF f
  <2>4. CASE \E step \in {"rest", "touch"}, n \in Nat : Settle(s, step, n)
    BY <2>4, SettledWaiters
  <2>5. CASE ReadLatest(s)
    <3>1. CASE /\ req' = req
               /\ flight' = [flight EXCEPT ![s] = [step |-> "discover", tokens |-> row[s].tokens]]
      BY <2>2, <3>1
    <3>2. QED
      BY <2>1, <2>4, <2>5, <3>1 DEF ReadLatest
  <2>6. CASE DiscoveryFails(s) \/ RevokeAfterFailure(s) \/ RevokeFails(s)
    BY <2>4, <2>6 DEF DiscoveryFails, RevokeAfterFailure, RevokeFails
  <2>7. CASE IssuerChanged(s) \/ SendRefresh(s) \/ Answered(s) \/ StoreFails(s)
    BY <2>3, <2>7 DEF IssuerChanged, SendRefresh, Answered, StoreFails
  <2>8. CASE Store(s)
    BY <2>1, <2>3, <2>4, <2>8 DEF Store
  <2>9. QED
    BY <1>1, <2>5, <2>6, <2>7, <2>8 DEF RefreshStep
<1>2. ASSUME NEW r \in Requests, Access(r) PROVE RefreshesAreAwaited'
  <2> DEFINE s == req[r].session
  <2>1. s \in Sessions /\ req[r].step = "access"
    BY <1>2 DEF Access, At, WorkIsAboutRows, AtWork, Resting
  <2>2. PICK step \in {"orders", "touch", "waiting"} : Go(r, step)
    BY <1>2 DEF Access
  <2>3. /\ req'[r].session = s /\ req'[r].step = step
        /\ \A q \in Requests \ {r} : req'[q] = req[q]
    <3>1. [req[r] EXCEPT !.step = step].session = s /\ [req[r] EXCEPT !.step = step].step = step
      BY DEF TypeOK, RequestRecords
    <3>2. QED
      BY <2>2, <3>1 DEF Go, TypeOK
  <2>4. \A t \in Sessions : (\E q \in Requests : Awaits(q, t)') <=>
            (step = "waiting" /\ t = s) \/ \E q \in Requests : Awaits(q, t)
    BY <2>1, <2>3 DEF Awaits, At
  <2>5. \A t \in Sessions : flight'[t].step # "none" <=>
            (step = "waiting" /\ t = s) \/ flight[t].step # "none"
    <3>1. CASE step = "waiting"
      <4>1. ~(flight' = flight /\ \E next \in {"orders", "touch"} : Go(r, next))
        <5>1. ASSUME NEW next \in {"orders", "touch"}, Go(r, next) PROVE FALSE
          <6>1. [req[r] EXCEPT !.step = next].step = next
            BY DEF TypeOK, RequestRecords
          <6>2. QED
            BY <2>3, <3>1, <5>1, <6>1 DEF Go, TypeOK
        <5>2. QED
          BY <5>1
      <4>2. flight' = IF flight[s].step = "none"
                      THEN [flight EXCEPT ![s] = [step |-> "latest", tokens |-> 0]]
                      ELSE flight
        BY <1>2, <4>1 DEF Access
      <4>3. QED
        BY <2>1, <3>1, <4>2 DEF TypeOK
    <3>2. CASE step # "waiting"
      <4>1. ~Go(r, "waiting")
        <5>1. [req[r] EXCEPT !.step = "waiting"].step = "waiting"
          BY DEF TypeOK, RequestRecords
        <5>2. QED
          BY <2>3, <3>2, <5>1 DEF Go, TypeOK
      <4>2. flight' = flight
        BY <1>2, <4>1 DEF Access
      <4>3. QED
        BY <3>2, <4>2
    <3>3. QED
      BY <3>1, <3>2
  <2>6. QED
    BY <2>4, <2>5 DEF RefreshesAreAwaited
<1>3. ASSUME flight' = flight, NEW r \in Requests, req[r].step # "waiting", req'[r].step # "waiting",
             \A q \in Requests \ {r} : req'[q] = req[q]
      PROVE  RefreshesAreAwaited'
  <2>1. \A t \in Sessions, q \in Requests : Awaits(q, t)' <=> Awaits(q, t)
    BY <1>3 DEF Awaits, At
  <2>2. QED
    BY <1>3, <2>1 DEF RefreshesAreAwaited
<1>4. ASSUME NEW r \in Requests, NEW s \in Sessions, NEW kind \in Kinds, ReadSession(r, s, kind)
      PROVE  RefreshesAreAwaited'
  <2>1. /\ flight' = flight /\ req[r].step # "waiting" /\ req'[r].step # "waiting"
        /\ \A q \in Requests \ {r} : req'[q] = req[q]
    BY <1>4 DEF ReadSession, Resting, TypeOK, refresh
  <2>2. QED
    BY <1>3, <2>1
<1>5. ASSUME NEW r \in Requests,
             ReadVersion(r) \/ ReadOrders(r) \/ Touch(r) \/ Revoke(r) \/ Throw(r)
      PROVE  RefreshesAreAwaited'
  <2>1. flight' = flight /\ req[r].step # "waiting"
    BY <1>5 DEF ReadVersion, ReadOrders, Touch, Revoke, Throw, At, refresh
  <2>2. req'[r].step # "waiting" /\ \A q \in Requests \ {r} : req'[q] = req[q]
    BY <1>5 DEF ReadVersion, ReadOrders, Touch, Revoke, Throw, Go, Rest, Idle, TypeOK, RequestRecords
  <2>3. QED
    BY <1>3, <2>1, <2>2
<1>6. CASE Restart
  BY <1>6 DEF Restart, RefreshesAreAwaited, Awaits, At, NoFlight, Idle
<1>7. CASE UNCHANGED <<flight, req>>
  BY <1>7 DEF RefreshesAreAwaited, Awaits, At
<1>8. ASSUME \/ Save \/ Verify \/ UNCHANGED vars
             \/ \E t \in States : StartSignIn(t) \/ LoseState(t)
             \/ \E s \in Sessions, t \in States : Callback(s, t)
             \/ \E s \in Sessions : LoginStep(s) \/ SessionEnds(s) \/ AccessExpires(s)
      PROVE  UNCHANGED <<flight, req>>
  BY <1>8 DEF Save, Verify, vars, StartSignIn, LoseState, Callback, LoginStep, ReadIntegration,
              CreateSession, LoginFails, SessionEnds, AccessExpires, refresh
<1>9. QED
  BY <1>1, <1>2, <1>4, <1>5, <1>6, <1>7, <1>8 DEF Next, RequestStep

-----------------------------------------------------------------------------
LEMMA IInvStep == IInv /\ [Next]_vars => IInv'
BY TypesStep, LoginsStep, WorkStep, ComparisonsStep, TokensStep, AwaitedStep DEF IInv

-----------------------------------------------------------------------------
(***************************************************************************)
(* The theorems.                                                           *)
(***************************************************************************)
LEMMA IInvAlways == Spec => []IInv
BY IInvInit, IInvStep, PTL DEF Spec

\* Every variable keeps its type: logins, rows, refreshes, requests.
THEOREM SessionTypes == Spec => []TypeOK
<1>1. IInv => TypeOK
  BY DEF IInv
<1>2. QED
  BY <1>1, IInvAlways, PTL

\* consumeOAuthState() deletes the row it returns, so a state is spent once.
THEOREM OneSessionPerState == Spec => []StateMakesOneSession
<1>1. IInv => StateMakesOneSession
  BY DEF IInv, RowsHaveLogins, LoginsAreApart, StateMakesOneSession
<1>2. QED
  BY <1>1, IInvAlways, PTL

\* The single flight of a process is all that protects the tokens: no other
\* writer comes between reading the latest row and replacing its tokens.
THEOREM RefreshesAreExclusive == Spec => []RefreshIsExclusive
<1>1. IInv => RefreshIsExclusive
  BY DEF IInv, TokensAreKnown, TokensOf, RefreshIsExclusive
<1>2. QED
  BY <1>1, IInvAlways, PTL

\* The finally() of the shared promise runs on every path, and all who await it
\* continue then: the safety part of EveryRequestEnds.
THEOREM RefreshesHaveWaiters == Spec => []RefreshesAreAwaited
<1>1. IInv => RefreshesAreAwaited
  BY DEF IInv
<1>2. QED
  BY <1>1, IInvAlways, PTL

\* A refresh sends the tokens of a row that it has read itself.
THEOREM RefreshTokensAreSentOnce == Spec => RefreshTokenIsSentOnce
<1>1. IInv /\ [Next]_vars =>
         [\A s \in Sessions :
             flight[s].step = "discover" /\ flight'[s].step = "sent" =>
                 spent[s] <= flight[s].tokens \/ lost[s]]_vars
  BY DEF IInv, TokensAreKnown, TokensOf
<1>2. QED
  BY <1>1, IInvAlways, PTL DEF Spec, RefreshTokenIsSentOnce

\* touchSession() finds no live row of outdated credentials, since a save
\* revokes all rows in the transaction that increments the version.
THEOREM AdmissionsAreCurrent == Spec => AnswersAreCurrent
<1>1. IInv /\ [Next]_vars =>
         [\A r \in Requests :
             At(r, "touch") /\ req'[r].step = "answered" =>
                 /\ row[req[r].session].status = "live"
                 /\ row[req[r].session].version = version]_vars
  <2> SUFFICES ASSUME IInv, Next, NEW r \in Requests, At(r, "touch"), req'[r].step = "answered"
               PROVE  row[req[r].session].status = "live" /\ row[req[r].session].version = version
    BY DEF vars
  <2> DEFINE Asked == req'[r] = req[r] \/ req'[r].step \in {"rest", "version", "revoke", "touch"}
  <2>1. ASSUME NEW s \in Sessions, RefreshStep(s) PROVE Asked
    BY <2>1, RefreshedRows DEF IInv, At
  <2>2. ASSUME NEW q \in Requests, NEW s \in Sessions, NEW kind \in Kinds, ReadSession(q, s, kind)
        PROVE  Asked
    BY <2>2 DEF ReadSession, At, Resting, IInv, TypeOK
  <2>3. ASSUME NEW q \in Requests, RequestStep(q), ~Touch(q) PROVE Asked
    BY <2>3 DEF RequestStep, ReadVersion, Access, ReadOrders, Revoke, Throw, At, Go, Rest, Idle,
                IInv, TypeOK, RequestRecords
  <2>4. ASSUME NEW q \in Requests, Touch(q), q # r PROVE Asked
    BY <2>4 DEF Touch, Rest, IInv, TypeOK
  <2>5. ASSUME Restart PROVE Asked
    BY <2>5 DEF Restart, Idle
  <2>6. ASSUME \/ Save \/ Verify
               \/ \E t \in States : StartSignIn(t) \/ LoseState(t)
               \/ \E s \in Sessions, t \in States : Callback(s, t)
               \/ \E s \in Sessions : LoginStep(s) \/ SessionEnds(s) \/ AccessExpires(s)
        PROVE  Asked
    <3>1. req' = req
      BY <2>6 DEF Save, Verify, StartSignIn, LoseState, Callback, LoginStep, ReadIntegration,
                  CreateSession, LoginFails, SessionEnds, AccessExpires, admin, signin, refresh
    <3>2. QED
      BY <3>1
  <2>7. ~Asked
    <3>1. req[r].step = "touch" /\ req'[r].step = "answered"
      BY DEF At
    <3>2. req'[r] # req[r]
      BY <3>1
    <3>3. QED
      BY <3>1, <3>2
  <2>8. ASSUME NEW q \in Requests, RequestStep(q) PROVE Touch(r)
    BY <2>3, <2>4, <2>7, <2>8
  <2>9. Touch(r)
    BY <2>1, <2>2, <2>5, <2>6, <2>7, <2>8 DEF Next
  <2>10. QED
    BY <2>9 DEF Touch, Rest, Idle, Usable, IInv, ComparisonsHold, Compared, At, TypeOK
<1>2. QED
  BY <1>1, IInvAlways, PTL DEF Spec, AnswersAreCurrent
=============================================================================
