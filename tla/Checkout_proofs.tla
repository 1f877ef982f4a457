--------------------------- MODULE Checkout_proofs ---------------------------
(***************************************************************************)
(* Proofs about Checkout, for every set of keys, links and concurrent      *)
(* requests, and for any number of faults and expiries.                    *)
(***************************************************************************)
EXTENDS Checkout, TLAPS

Steps == {"check", "create", "cart", "attach", "start", "url",
          "failing", "verify", "retire", "consume", "done"}

Recovery == {"verify", "retire", "consume"}

(***************************************************************************)
(* What a request knows of its key: it is in a recovery step only for a    *)
(* key that belongs to a link, and it asks for a URL only of a cart.       *)
(***************************************************************************)
RequestsKnowTheirKey ==
    \A r \in Requests :
        /\ ~At(r, {"done"}) => work[r].key \in Keys
        /\ At(r, Recovery) => Recovers(r)
        /\ At(r, {"url", "consume"}) => cart[work[r].key] # "none"

\* Only the request that made an intent creates a cart, and only once.
OneCartCreator ==
    /\ \A k \in Keys : intent[k] = "none" => remote[k] = 0
    /\ \A r \in Requests : At(r, {"cart"}) =>
          /\ remote[work[r].key] = 0
          /\ intent[work[r].key] # "none"
          /\ \A q \in Requests : At(q, {"cart"}) /\ work[q].key = work[r].key => q = r

IInv == /\ TypeOK
        /\ RequestsKnowTheirKey
        /\ OneLiveIntent
        /\ CartFollowsIntent
        /\ OneCartCreator
        /\ NoDuplicateStorefrontCart
        /\ NoOrphanedAttempt
        /\ LinkIsSpentOnce

-----------------------------------------------------------------------------
(***************************************************************************)
(* How a request moves from one step to the next.                          *)
(***************************************************************************)
Moved(r, k, s) ==
    /\ work' \in [Requests -> [key : Keys \cup {NoKey}, step : Steps]]
    /\ \A q \in Requests \ {r} : work'[q] = work[q]
    /\ work'[r].step = s
    /\ s # "done" => work'[r].key = k

LEMMA GoMoves ==
    ASSUME TypeOK, NEW r \in Requests, NEW s \in Steps, Go(r, s)
    PROVE  Moved(r, work[r].key, s)
<1>1. work[r] \in [key : Keys \cup {NoKey}, step : Steps]
  BY DEF TypeOK, Steps
<1>2. Resting \in [key : Keys \cup {NoKey}, step : Steps] /\ Resting.step = "done"
  BY DEF Resting, Steps
<1>3. CASE s = "done"
  <2>1. work' = [work EXCEPT ![r] = Resting]
    BY <1>3 DEF Go
  <2>2. QED
    BY <1>2, <1>3, <2>1 DEF TypeOK, Steps, Moved
<1>4. CASE s # "done"
  <2>1. PICK e : e = [work[r] EXCEPT !.step = s]
    OBVIOUS
  <2>2. e \in [key : Keys \cup {NoKey}, step : Steps] /\ e.step = s /\ e.key = work[r].key
    BY <1>1, <2>1
  <2>3. work' = [work EXCEPT ![r] = e]
    BY <1>4, <2>1 DEF Go
  <2>4. QED
    BY <2>2, <2>3 DEF TypeOK, Steps, Moved
<1>5. QED
  BY <1>3, <1>4

LEMMA BeginMoves ==
    ASSUME TypeOK, NEW r \in Requests, NEW k \in Keys, NEW s \in Steps, Begin(r, k, s)
    PROVE  Moved(r, k, s)
<1>1. PICK e : e = [key |-> k, step |-> s]
  OBVIOUS
<1>2. e \in [key : Keys \cup {NoKey}, step : Steps] /\ e.step = s /\ e.key = k
  BY <1>1
<1>3. work' = [work EXCEPT ![r] = e]
  BY <1>1 DEF Begin
<1>4. QED
  BY <1>2, <1>3 DEF TypeOK, Steps, Moved

\* Every step of a request is such a move.
LEMMA StepMoves ==
    ASSUME TypeOK, NEW r \in Requests
    PROVE  /\ \A k \in Keys : GetOutcome(r, k) => Moved(r, k, "check") \/ Moved(r, k, "start")
           /\ \A k \in Keys : ReadLink(r, k) => Moved(r, k, "verify")
           /\ CheckProcessing(r) => \/ Moved(r, work[r].key, "done")
                                    \/ Moved(r, work[r].key, "create")
           /\ Reject(r) => Moved(r, work[r].key, "done")
           /\ CreateIntent(r) =>
                \/ /\ intent[work[r].key] = "none" /\ ~\E k \in Keys : Live(k)
                   /\ intent' = [intent EXCEPT ![work[r].key] = "creating"]
                   /\ Moved(r, work[r].key, "cart")
                \/ Moved(r, work[r].key, "start") /\ UNCHANGED intent
                \/ Moved(r, work[r].key, "done") /\ UNCHANGED intent
           /\ CreateCart(r) => Moved(r, work[r].key, "attach")
           /\ AttachCart(r) =>
                \/ intent[work[r].key] = "creating" /\ Moved(r, work[r].key, "start")
                \/ intent[work[r].key] # "creating" /\ Moved(r, work[r].key, "failing")
           /\ MarkCheckoutStarted(r) =>
                \/ /\ intent[work[r].key] \in {"ready", "checkout_started"}
                   /\ Moved(r, work[r].key, "url")
                \/ /\ intent[work[r].key] \notin {"ready", "checkout_started"}
                   /\ Moved(r, work[r].key, "failing")
           /\ GetUrl(r) => \/ Recovers(r) /\ Moved(r, work[r].key, "consume")
                           \/ ~Recovers(r) /\ Moved(r, work[r].key, "done")
           /\ Throw(r) => Moved(r, work[r].key, "failing")
           /\ Compensate(r) => Moved(r, work[r].key, "done")
           /\ VerifyRecoverable(r) => \/ Moved(r, work[r].key, "retire")
                                      \/ Moved(r, work[r].key, "done")
           /\ RetireSource(r) => Moved(r, work[r].key, "create")
           /\ ConsumeLink(r) => Moved(r, work[r].key, "done")
<1> DEFINE M(s) == Moved(r, work[r].key, s)
<1>1. \A s \in Steps : Go(r, s) => M(s)
  BY GoMoves
<1>2. \A k \in Keys, s \in Steps : Begin(r, k, s) => Moved(r, k, s)
  BY BeginMoves
<1>3. \A s \in {"check", "create", "cart", "attach", "start", "url",
                "failing", "verify", "retire", "consume", "done"} : s \in Steps
  BY DEF Steps
<1> HIDE DEF M
<1>4. ASSUME NEW k \in Keys
      PROVE  /\ GetOutcome(r, k) => Moved(r, k, "check") \/ Moved(r, k, "start")
             /\ ReadLink(r, k) => Moved(r, k, "verify")
  BY <1>2, <1>3 DEF GetOutcome, ReadLink
<1>5. CheckProcessing(r) => M("done") \/ M("create")
  BY <1>1, <1>3 DEF CheckProcessing
<1>6. CreateIntent(r) =>
                \/ /\ intent[work[r].key] = "none" /\ ~\E k \in Keys : Live(k)
                   /\ intent' = [intent EXCEPT ![work[r].key] = "creating"]
                   /\ M("cart")
                \/ M("start") /\ UNCHANGED intent
                \/ M("done") /\ UNCHANGED intent
  BY <1>1, <1>3, Zenon DEF CreateIntent, NewIntent
<1>7. /\ Reject(r) => M("done")
      /\ CreateCart(r) => M("attach")
      /\ Throw(r) => M("failing")
      /\ Compensate(r) => M("done")
      /\ RetireSource(r) => M("create")
      /\ ConsumeLink(r) => M("done")
  BY <1>1, <1>3 DEF Reject, CreateCart, Throw, Compensate, RetireSource, ConsumeLink
<1>8. AttachCart(r) =>
                \/ intent[work[r].key] = "creating" /\ M("start")
                \/ intent[work[r].key] # "creating" /\ M("failing")
  BY <1>1, <1>3 DEF AttachCart
<1>9. MarkCheckoutStarted(r) =>
                \/ intent[work[r].key] \in {"ready", "checkout_started"} /\ M("url")
                \/ intent[work[r].key] \notin {"ready", "checkout_started"} /\ M("failing")
  BY <1>1, <1>3 DEF MarkCheckoutStarted
<1>10. GetUrl(r) => \/ Recovers(r) /\ M("consume")
                    \/ ~Recovers(r) /\ M("done")
  BY <1>1, <1>3 DEF GetUrl
<1>11. VerifyRecoverable(r) => M("retire") \/ M("done")
  BY <1>1, <1>3 DEF VerifyRecoverable
<1>12. QED
  BY <1>4, <1>5, <1>6, <1>7, <1>8, <1>9, <1>10, <1>11 DEF M

-----------------------------------------------------------------------------
(***************************************************************************)
(* Types, and what requests know.                                          *)
(***************************************************************************)
CartsStay == \A k \in Keys : cart[k] # "none" => cart'[k] # "none"

LEMMA KnowledgeMoves ==
    ASSUME RequestsKnowTheirKey, CartsStay,
           NEW r \in Requests, NEW k \in Keys, NEW s \in Steps, Moved(r, k, s),
           s \in Recovery => LinkOf[k] # NoLink,
           s \in {"url", "consume"} => cart'[k] # "none"
    PROVE  RequestsKnowTheirKey'
<1> SUFFICES ASSUME NEW q \in Requests
             PROVE  /\ ~At(q, {"done"})' => work'[q].key \in Keys
                    /\ At(q, Recovery)' => LinkOf[work'[q].key] # NoLink
                    /\ At(q, {"url", "consume"})' => cart'[work'[q].key] # "none"
  BY DEF RequestsKnowTheirKey, Recovers
<1>1. CASE q = r
  BY <1>1 DEF Moved, At, Recovery
<1>2. CASE q # r
  BY <1>2 DEF Moved, At, Recovery, RequestsKnowTheirKey, CartsStay, Recovers
<1>3. QED
  BY <1>1, <1>2

LEMMA KnowledgeStays ==
    ASSUME RequestsKnowTheirKey, CartsStay, work' = work
    PROVE  RequestsKnowTheirKey'
BY DEF RequestsKnowTheirKey, CartsStay, At, Recovers

LEMMA RequestKey ==
    ASSUME TypeOK, RequestsKnowTheirKey, NEW r \in Requests, ~At(r, {"done"})
    PROVE  work[r].key \in Keys
BY DEF RequestsKnowTheirKey

\* The data part of the type invariant.
DataOK ==
    /\ intent \in [Keys -> IntentStatuses]
    /\ expired \in SUBSET Keys
    /\ cart \in [Keys -> CartStatuses]
    /\ remote \in [Keys -> Nat]
    /\ handed \in SUBSET Keys
    /\ order \in [Keys -> {"none", "open", "decided"}]
    /\ member \in BOOLEAN
    /\ link \in [Links -> {"none", "pending", "closed", "consumed"}]
    /\ faults \in Nat

LEMMA TypeMoves ==
    ASSUME DataOK', NEW r \in Requests, NEW k, NEW s, Moved(r, k, s)
    PROVE  TypeOK'
BY DEF DataOK, TypeOK, Moved, Steps

LEMMA MarkFailedData ==
    ASSUME DataOK, NEW k \in Keys, MarkFailed(k)
    PROVE  /\ intent' \in [Keys -> IntentStatuses]
           /\ cart' \in [Keys -> CartStatuses]
           /\ CartsStay
BY DEF DataOK, MarkFailed, CartsStay, IntentStatuses, CartStatuses

LEMMA RequestData ==
    ASSUME TypeOK, RequestsKnowTheirKey, NEW r \in Requests, Step(r)
    PROVE  DataOK' /\ CartsStay
<1>0. DataOK
  BY DEF TypeOK, DataOK
<1>1. CASE \E k \in Keys : GetOutcome(r, k) \/ ReadLink(r, k)
  BY <1>0, <1>1 DEF GetOutcome, ReadLink, Begin, DataOK, CartsStay
<1>2. CASE CheckProcessing(r) \/ Reject(r) \/ VerifyRecoverable(r)
  BY <1>0, <1>2 DEF CheckProcessing, Reject, VerifyRecoverable, DataOK, CartsStay
<1>3. CASE CreateIntent(r)
  <2>1. work[r].key \in Keys
    BY <1>3, RequestKey DEF CreateIntent, At
  <2>2. intent' \in [Keys -> IntentStatuses]
    BY <1>0, <1>3, <2>1 DEF CreateIntent, NewIntent, DataOK, IntentStatuses
  <2>3. QED
    BY <1>0, <1>3, <2>2 DEF CreateIntent, DataOK, CartsStay
<1>4. CASE CreateCart(r) \/ Throw(r)
  <2>1. work[r].key \in Keys
    BY <1>4, RequestKey DEF CreateCart, Throw, At
  <2>2. remote' \in [Keys -> Nat]
    BY <1>0, <1>4, <2>1 DEF CreateCart, Throw, DataOK
  <2>3. QED
    BY <1>0, <1>4, <2>2 DEF CreateCart, Throw, DataOK, CartsStay
<1>5. CASE AttachCart(r) \/ MarkCheckoutStarted(r)
  <2>1. work[r].key \in Keys
    BY <1>5, RequestKey DEF AttachCart, MarkCheckoutStarted, At
  <2>2. /\ intent' \in [Keys -> IntentStatuses]
        /\ cart' \in [Keys -> CartStatuses]
        /\ CartsStay
    BY <1>0, <1>5, <2>1
    DEF AttachCart, MarkCheckoutStarted, DataOK, IntentStatuses, CartStatuses, CartsStay
  <2>3. QED
    BY <1>0, <1>5, <2>2 DEF AttachCart, MarkCheckoutStarted, DataOK
<1>6. CASE GetUrl(r)
  <2>1. work[r].key \in Keys
    BY <1>6, RequestKey DEF GetUrl, At
  <2>2. QED
    BY <1>0, <1>6, <2>1 DEF GetUrl, DataOK, CartsStay
<1>7. CASE Compensate(r)
  <2>1. work[r].key \in Keys
    BY <1>7, RequestKey DEF Compensate, At
  <2>2. MarkFailed(work[r].key) \/ UNCHANGED <<intent, cart>>
    BY <1>7 DEF Compensate
  <2>3. intent' \in [Keys -> IntentStatuses] /\ cart' \in [Keys -> CartStatuses] /\ CartsStay
    BY <1>0, <2>1, <2>2, MarkFailedData DEF DataOK, CartsStay
  <2>4. faults' \in Nat
    BY <1>0, <1>7 DEF Compensate, DataOK
  <2>5. QED
    BY <1>0, <1>7, <2>3, <2>4 DEF Compensate, DataOK
<1>8. CASE RetireSource(r)
  <2>1. work[r].key \in Keys /\ Recovers(r)
    BY <1>8, RequestKey DEF RetireSource, At, RequestsKnowTheirKey, Recovery
  <2>2. SourceOf[LinkOf[work[r].key]] \in Keys
    BY <2>1, CheckoutShape DEF Recovers
  <2>3. intent' \in [Keys -> IntentStatuses] /\ cart' \in [Keys -> CartStatuses] /\ CartsStay
    BY <1>0, <1>8, <2>2, MarkFailedData DEF RetireSource
  <2>4. QED
    BY <1>0, <1>8, <2>3 DEF RetireSource, DataOK
<1>9. CASE ConsumeLink(r)
  <2>1. work[r].key \in Keys
    BY <1>9, RequestKey DEF ConsumeLink, At
  <2>2. QED
    BY <1>0, <1>9, <2>1 DEF ConsumeLink, DataOK, CartsStay
<1>10. QED
  BY <1>1, <1>2, <1>3, <1>4, <1>5, <1>6, <1>7, <1>8, <1>9 DEF Step

LEMMA RequestTypes ==
    ASSUME TypeOK, RequestsKnowTheirKey, NEW r \in Requests, Step(r)
    PROVE  TypeOK' /\ RequestsKnowTheirKey'
<1> DEFINE key == work[r].key
<1>1. DataOK' /\ CartsStay
  BY RequestData
<1>2. ASSUME NEW k \in Keys, NEW s \in Steps, Moved(r, k, s),
             s \in Recovery => LinkOf[k] # NoLink,
             s \in {"url", "consume"} => cart'[k] # "none"
      PROVE  TypeOK' /\ RequestsKnowTheirKey'
  BY <1>1, <1>2, KnowledgeMoves, TypeMoves
<1>3. ASSUME NEW s \in Steps \ {"url", "consume", "verify", "retire"}, Moved(r, key, s),
             ~At(r, {"done"})
      PROVE  TypeOK' /\ RequestsKnowTheirKey'
  BY <1>2, <1>3, RequestKey DEF Recovery
<1> HIDE DEF key
<1>4. CASE \E k \in Keys : GetOutcome(r, k) \/ ReadLink(r, k)
  <2>1. PICK k \in Keys : GetOutcome(r, k) \/ ReadLink(r, k)
    BY <1>4
  <2>2. CASE GetOutcome(r, k)
    <3>1. Moved(r, k, "check") \/ Moved(r, k, "start")
      BY <2>2, StepMoves
    <3>2. QED
      BY <1>2, <3>1 DEF Steps, Recovery
  <2>3. CASE ReadLink(r, k)
    <3>1. Moved(r, k, "verify") /\ LinkOf[k] # NoLink
      BY <2>3, StepMoves DEF ReadLink
    <3>2. QED
      BY <1>2, <3>1 DEF Steps
  <2>4. QED
    BY <2>1, <2>2, <2>3
<1>5. CASE CheckProcessing(r)
  <2>1. Moved(r, key, "done") \/ Moved(r, key, "create")
    BY <1>5, StepMoves DEF key
  <2>2. QED
    BY <1>3, <1>5, <2>1 DEF CheckProcessing, At, Steps
<1>6. CASE Reject(r) \/ Compensate(r) \/ ConsumeLink(r)
  <2>1. Moved(r, key, "done")
    BY <1>6, StepMoves DEF key
  <2>2. QED
    BY <1>3, <1>6, <2>1 DEF Reject, Compensate, ConsumeLink, At, Steps
<1>7. CASE CreateIntent(r)
  <2>1. Moved(r, key, "cart") \/ Moved(r, key, "start") \/ Moved(r, key, "done")
    BY <1>7, StepMoves DEF key
  <2>2. QED
    BY <1>3, <1>7, <2>1 DEF CreateIntent, At, Steps
<1>8. CASE CreateCart(r) \/ Throw(r) \/ AttachCart(r)
  <2>1. Moved(r, key, "attach") \/ Moved(r, key, "failing") \/ Moved(r, key, "start")
    BY <1>8, StepMoves DEF key
  <2>2. QED
    BY <1>3, <1>8, <2>1 DEF CreateCart, Throw, AttachCart, At, Steps
<1>9. CASE MarkCheckoutStarted(r)
  <2>1. ~At(r, {"done"}) /\ key \in Keys
    BY <1>9, RequestKey DEF MarkCheckoutStarted, At, key
  <2>2. CASE intent[key] \in {"ready", "checkout_started"}
    <3>1. Moved(r, key, "url")
      BY <1>9, <2>2, StepMoves DEF key
    <3>2. cart'[key] # "none"
      BY <1>9, <2>1, <2>2 DEF MarkCheckoutStarted, TypeOK, key
    <3>3. QED
      BY <1>2, <2>1, <3>1, <3>2 DEF Steps, Recovery
  <2>3. CASE intent[key] \notin {"ready", "checkout_started"}
    <3>1. Moved(r, key, "failing")
      BY <1>9, <2>3, StepMoves DEF key
    <3>2. QED
      BY <1>3, <2>1, <3>1 DEF Steps
  <2>4. QED
    BY <2>2, <2>3
<1>10. CASE GetUrl(r)
  <2>1. ~At(r, {"done"}) /\ key \in Keys /\ cart[key] # "none"
    BY <1>10, RequestKey DEF GetUrl, At, key, RequestsKnowTheirKey
  <2>2. cart'[key] # "none"
    BY <1>1, <2>1 DEF CartsStay
  <2>3. \/ LinkOf[key] # NoLink /\ Moved(r, key, "consume")
        \/ Moved(r, key, "done")
    BY <1>10, StepMoves DEF key, Recovers
  <2>4. QED
    BY <1>2, <1>3, <2>1, <2>2, <2>3 DEF Steps
<1>11. CASE VerifyRecoverable(r)
  <2>1. ~At(r, {"done"}) /\ key \in Keys /\ LinkOf[key] # NoLink
    BY <1>11, RequestKey
    DEF VerifyRecoverable, At, key, RequestsKnowTheirKey, Recovery, Recovers
  <2>2. Moved(r, key, "retire") \/ Moved(r, key, "done")
    BY <1>11, StepMoves DEF key
  <2>3. QED
    BY <1>2, <1>3, <2>1, <2>2 DEF Steps
<1>12. CASE RetireSource(r)
  <2>1. Moved(r, key, "create")
    BY <1>12, StepMoves DEF key
  <2>2. QED
    BY <1>3, <1>12, <2>1 DEF RetireSource, At, Steps
<1>13. QED
  BY <1>4, <1>5, <1>6, <1>7, <1>8, <1>9, <1>10, <1>11, <1>12 DEF Step

\* The steps that are not a request's.
Env ==
    \/ \E t \in Links : CreateRecovery(t) \/ LinkExpires(t)
    \/ \E k \in Keys : InvalidateIntent(k) \/ PayOrder(k) \/ DecideOrder(k) \/ Expire(k)
    \/ MembershipRenewable
    \/ UNCHANGED vars

LEMMA EnvTypes ==
    ASSUME TypeOK, RequestsKnowTheirKey, Env \/ Crash
    PROVE  TypeOK' /\ RequestsKnowTheirKey'
<1>0. DataOK
  BY DEF TypeOK, DataOK
<1>1. CASE Env
  <2>1. work' = work
    BY <1>1 DEF Env, CreateRecovery, LinkExpires, InvalidateIntent, PayOrder, DecideOrder,
                Expire, MembershipRenewable, vars
  <2>2. cart' = cart
    BY <1>1 DEF Env, CreateRecovery, LinkExpires, InvalidateIntent, PayOrder, DecideOrder,
                Expire, MembershipRenewable, vars
  <2>3. DataOK'
    <3>1. ASSUME NEW t \in Links, CreateRecovery(t) \/ LinkExpires(t) PROVE DataOK'
      <4>1. link' \in [Links -> {"none", "pending", "closed", "consumed"}]
        BY <1>0, <3>1 DEF CreateRecovery, LinkExpires, CancelLinksOf, DataOK
      <4>2. QED
        BY <1>0, <3>1, <4>1 DEF CreateRecovery, LinkExpires, DataOK
    <3>2. ASSUME NEW k \in Keys, InvalidateIntent(k) PROVE DataOK'
      <4>1. link' \in [Links -> {"none", "pending", "closed", "consumed"}]
        BY <1>0, <3>2 DEF InvalidateIntent, CancelLinksOf, DataOK
      <4>2. intent' \in [Keys -> IntentStatuses]
        BY <1>0, <3>2 DEF InvalidateIntent, DataOK, IntentStatuses
      <4>3. QED
        BY <1>0, <3>2, <4>1, <4>2 DEF InvalidateIntent, DataOK
    <3>3. ASSUME NEW k \in Keys, PayOrder(k) PROVE DataOK'
      BY <1>0, <3>3 DEF PayOrder, DataOK
    <3>4. ASSUME NEW k \in Keys, DecideOrder(k) PROVE DataOK'
      <4>1. intent' \in [Keys -> IntentStatuses]
        BY <1>0, <3>4 DEF DecideOrder, DataOK, IntentStatuses
      <4>2. order' \in [Keys -> {"none", "open", "decided"}]
        BY <1>0, <3>4 DEF DecideOrder, DataOK
      <4>3. member' \in BOOLEAN
        BY <1>0, <3>4, Zenon DEF DecideOrder, DataOK
      <4>4. QED
        BY <1>0, <3>4, <4>1, <4>2, <4>3 DEF DecideOrder, DataOK
    <3>5. ASSUME NEW k \in Keys, Expire(k) PROVE DataOK'
      BY <1>0, <3>5 DEF Expire, DataOK
    <3>6. CASE MembershipRenewable
      BY <1>0, <3>6 DEF MembershipRenewable, DataOK
    <3>7. CASE UNCHANGED vars
      BY <1>0, <3>7 DEF vars, DataOK
    <3>8. QED
      BY <1>1, <3>1, <3>2, <3>3, <3>4, <3>5, <3>6, <3>7 DEF Env
  <2>4. QED
    BY <2>1, <2>2, <2>3, KnowledgeStays DEF CartsStay, DataOK, TypeOK
<1>2. CASE Crash
  <2>1. /\ Resting \in [key : Keys \cup {NoKey}, step : Steps]
        /\ Resting.step = "done"
    BY DEF Resting, Steps
  <2>2. /\ work' \in [Requests -> [key : Keys \cup {NoKey}, step : Steps]]
        /\ \A q \in Requests : work'[q].step = "done"
    BY <1>2, <2>1 DEF Crash
  <2>3. RequestsKnowTheirKey'
    BY <2>2 DEF RequestsKnowTheirKey, At, Recovery
  <2>4. DataOK'
    BY <1>0, <1>2 DEF Crash, DataOK
  <2>5. QED
    BY <2>2, <2>3, <2>4 DEF DataOK, TypeOK, Steps
<1>3. QED
  BY <1>1, <1>2

-----------------------------------------------------------------------------
(***************************************************************************)
(* One live intent: every step but the making of an intent, under the      *)
(* customer's lock, only ends the life of intents.                         *)
(***************************************************************************)
Alive == {"creating", "ready", "checkout_started"}

NoneComesAlive ==
    /\ expired \subseteq expired'
    /\ \A k \in Keys : intent'[k] \in Alive => intent[k] \in Alive

\* createIntent(): the row is new, and the customer has no live intent.
MakesIntent ==
    /\ UNCHANGED expired
    /\ ~\E k \in Keys : Live(k)
    /\ \E k \in Keys : intent[k] = "none" /\ intent' = [intent EXCEPT ![k] = "creating"]

LEMMA OneStaysLive ==
    ASSUME TypeOK, OneLiveIntent, NoneComesAlive \/ MakesIntent
    PROVE  OneLiveIntent'
<1>1. CASE NoneComesAlive
  BY <1>1 DEF OneLiveIntent, NoneComesAlive, Live, Alive
<1>2. CASE MakesIntent
  BY <1>2 DEF MakesIntent, OneLiveIntent, Live, TypeOK
<1>3. QED
  BY <1>1, <1>2

LEMMA NoneIsRevived ==
    ASSUME TypeOK, NoneComesAlive \/ MakesIntent,
           NEW k \in Keys, intent[k] # "none", ~Live(k)
    PROVE  ~Live(k)'
<1>1. CASE NoneComesAlive
  BY <1>1 DEF NoneComesAlive, Live, Alive
<1>2. CASE MakesIntent
  BY <1>2 DEF MakesIntent, Live, TypeOK
<1>3. QED
  BY <1>1, <1>2

LEMMA MarkFailedLives ==
    ASSUME TypeOK, NEW k \in Keys, MarkFailed(k)
    PROVE  \A j \in Keys : intent'[j] \in Alive => intent[j] \in Alive
BY DEF TypeOK, MarkFailed, Alive

LEMMA RequestLives ==
    ASSUME TypeOK, RequestsKnowTheirKey, NEW r \in Requests, Step(r)
    PROVE  NoneComesAlive \/ MakesIntent
<1>1. CASE CreateIntent(r)
  <2>1. work[r].key \in Keys
    BY <1>1, RequestKey DEF CreateIntent, At
  <2>2. expired' = expired
    BY <1>1 DEF CreateIntent
  <2>3. \/ /\ ~\E k \in Keys : Live(k)
           /\ intent[work[r].key] = "none"
           /\ intent' = [intent EXCEPT ![work[r].key] = "creating"]
        \/ UNCHANGED intent
    BY <1>1 DEF CreateIntent, NewIntent
  <2>4. QED
    BY <2>1, <2>2, <2>3 DEF MakesIntent, NoneComesAlive
<1>2. CASE AttachCart(r) \/ MarkCheckoutStarted(r)
  <2>1. work[r].key \in Keys
    BY <1>2, RequestKey DEF AttachCart, MarkCheckoutStarted, At
  <2>2. NoneComesAlive
    BY <1>2, <2>1 DEF AttachCart, MarkCheckoutStarted, NoneComesAlive, Alive, TypeOK
  <2>3. QED
    BY <2>2
<1>3. CASE Compensate(r)
  <2>1. work[r].key \in Keys
    BY <1>3, RequestKey DEF Compensate, At
  <2>2. MarkFailed(work[r].key) \/ UNCHANGED intent
    BY <1>3 DEF Compensate
  <2>3. NoneComesAlive
    BY <1>3, <2>1, <2>2, MarkFailedLives DEF Compensate, NoneComesAlive
  <2>4. QED
    BY <2>3
<1>4. CASE RetireSource(r)
  <2>1. SourceOf[LinkOf[work[r].key]] \in Keys
    BY <1>4, RequestKey, CheckoutShape
    DEF RetireSource, At, RequestsKnowTheirKey, Recovery, Recovers
  <2>2. NoneComesAlive
    BY <1>4, <2>1, MarkFailedLives DEF RetireSource, NoneComesAlive
  <2>3. QED
    BY <2>2
<1>5. CASE \/ \E k \in Keys : GetOutcome(r, k) \/ ReadLink(r, k)
           \/ CheckProcessing(r) \/ Reject(r) \/ CreateCart(r) \/ GetUrl(r) \/ Throw(r)
           \/ VerifyRecoverable(r) \/ ConsumeLink(r)
  <2>1. UNCHANGED <<intent, expired>>
    BY <1>5 DEF GetOutcome, ReadLink, Begin, CheckProcessing, Reject, CreateCart, GetUrl,
                Throw, VerifyRecoverable, ConsumeLink
  <2>2. QED
    BY <2>1 DEF NoneComesAlive
<1>6. QED
  BY <1>1, <1>2, <1>3, <1>4, <1>5 DEF Step

LEMMA EnvLives ==
    ASSUME TypeOK, Env \/ Crash
    PROVE  NoneComesAlive
<1>1. ASSUME NEW k \in Keys, InvalidateIntent(k) \/ DecideOrder(k) PROVE NoneComesAlive
  BY <1>1 DEF InvalidateIntent, DecideOrder, NoneComesAlive, Alive, TypeOK
<1>2. ASSUME NEW k \in Keys, PayOrder(k) \/ Expire(k) PROVE NoneComesAlive
  BY <1>2 DEF PayOrder, Expire, NoneComesAlive
<1>3. ASSUME NEW t \in Links, CreateRecovery(t) \/ LinkExpires(t) PROVE NoneComesAlive
  BY <1>3 DEF CreateRecovery, LinkExpires, NoneComesAlive
<1>4. CASE MembershipRenewable \/ Crash \/ UNCHANGED vars
  BY <1>4 DEF MembershipRenewable, Crash, vars, NoneComesAlive
<1>5. QED
  BY <1>1, <1>2, <1>3, <1>4 DEF Env

-----------------------------------------------------------------------------
(***************************************************************************)
(* The intent and its cart.                                                *)
(***************************************************************************)
\* CartFollowsIntent for one key, of the values of the two tables.
Agrees(i, c) ==
    /\ i \in {"ready", "checkout_started"} => c = i
    /\ i \in {"none", "creating"} => c = "none"
    /\ i = "failed" => c \in {"none", "superseded"}

LEMMA CartByKey ==
    CartFollowsIntent <=> /\ \A k \in Keys : Agrees(intent[k], cart[k])
                          /\ \A k \in Keys : k \in handed => cart[k] # "none"
BY DEF CartFollowsIntent, Agrees

LEMMA MarkFailedAgrees ==
    ASSUME TypeOK, CartFollowsIntent, NEW k \in Keys, MarkFailed(k)
    PROVE  \A j \in Keys : Agrees(intent'[j], cart'[j])
BY CartByKey DEF TypeOK, MarkFailed, Agrees, CartStatuses

LEMMA CartFollows ==
    ASSUME \A k \in Keys : Agrees(intent'[k], cart'[k]),
           CartFollowsIntent, CartsStay, handed' = handed
    PROVE  CartFollowsIntent'
BY CartByKey DEF CartFollowsIntent, Agrees, CartsStay

LEMMA RequestCarts ==
    ASSUME TypeOK, RequestsKnowTheirKey, CartFollowsIntent, NEW r \in Requests, Step(r)
    PROVE  CartFollowsIntent'
<1>0. CartsStay
  BY RequestData
<1>1. CASE CreateIntent(r)
  <2>1. work[r].key \in Keys
    BY <1>1, RequestKey DEF CreateIntent, At
  <2>2. /\ cart' = cart /\ handed' = handed
        /\ \/ /\ intent[work[r].key] = "none"
              /\ intent' = [intent EXCEPT ![work[r].key] = "creating"]
           \/ UNCHANGED intent
    BY <1>1, StepMoves DEF CreateIntent
  <2>3. QED
    BY <2>1, <2>2 DEF CartFollowsIntent, TypeOK
<1>2. CASE AttachCart(r) \/ MarkCheckoutStarted(r)
  <2>1. work[r].key \in Keys /\ handed' = handed
    BY <1>2, RequestKey DEF AttachCart, MarkCheckoutStarted, At
  <2>2. \A k \in Keys : Agrees(intent'[k], cart'[k])
    BY <1>2, <2>1, CartByKey DEF AttachCart, MarkCheckoutStarted, Agrees, TypeOK
  <2>3. QED
    BY <1>0, <2>1, <2>2, CartFollows
<1>3. CASE Compensate(r)
  <2>1. work[r].key \in Keys /\ handed' = handed
    BY <1>3, RequestKey DEF Compensate, At
  <2>2. MarkFailed(work[r].key) \/ UNCHANGED <<intent, cart>>
    BY <1>3 DEF Compensate
  <2>3. \A k \in Keys : Agrees(intent'[k], cart'[k])
    BY <2>1, <2>2, MarkFailedAgrees, CartByKey
  <2>4. QED
    BY <1>0, <2>1, <2>3, CartFollows
<1>4. CASE RetireSource(r)
  <2>1. SourceOf[LinkOf[work[r].key]] \in Keys
    BY <1>4, RequestKey, CheckoutShape
    DEF RetireSource, At, RequestsKnowTheirKey, Recovery, Recovers
  <2>2. \A k \in Keys : Agrees(intent'[k], cart'[k])
    BY <1>4, <2>1, MarkFailedAgrees DEF RetireSource
  <2>3. QED
    BY <1>0, <1>4, <2>2, CartFollows DEF RetireSource
<1>5. CASE GetUrl(r) \/ ConsumeLink(r)
  <2>1. cart[work[r].key] # "none"
    BY <1>5 DEF GetUrl, ConsumeLink, At, RequestsKnowTheirKey
  <2>2. /\ UNCHANGED <<intent, cart>>
        /\ handed' \subseteq handed \cup {work[r].key}
    BY <1>5 DEF GetUrl, ConsumeLink
  <2>3. QED
    BY <2>1, <2>2 DEF CartFollowsIntent
<1>6. CASE \/ \E k \in Keys : GetOutcome(r, k) \/ ReadLink(r, k)
           \/ CheckProcessing(r) \/ Reject(r) \/ CreateCart(r) \/ Throw(r)
           \/ VerifyRecoverable(r)
  <2>1. UNCHANGED <<intent, cart, handed>>
    BY <1>6 DEF GetOutcome, ReadLink, Begin, CheckProcessing, Reject, CreateCart, Throw,
                VerifyRecoverable
  <2>2. QED
    BY <2>1 DEF CartFollowsIntent
<1>7. QED
  BY <1>1, <1>2, <1>3, <1>4, <1>5, <1>6 DEF Step

LEMMA EnvCarts ==
    ASSUME TypeOK, CartFollowsIntent, Env \/ Crash
    PROVE  CartFollowsIntent'
<1>1. ASSUME NEW k \in Keys, InvalidateIntent(k) \/ DecideOrder(k) PROVE CartFollowsIntent'
  BY <1>1 DEF InvalidateIntent, DecideOrder, CartFollowsIntent, TypeOK
<1>2. CASE \/ \E k \in Keys : PayOrder(k) \/ Expire(k)
           \/ \E t \in Links : CreateRecovery(t) \/ LinkExpires(t)
           \/ MembershipRenewable \/ Crash \/ UNCHANGED vars
  BY <1>2 DEF PayOrder, Expire, CreateRecovery, LinkExpires, MembershipRenewable, Crash,
              vars, CartFollowsIntent
<1>3. QED
  BY <1>1, <1>2 DEF Env

-----------------------------------------------------------------------------
(***************************************************************************)
(* One cart at Shopify: the request that makes the intent is the only one  *)
(* that ever comes to createCart() for it.                                 *)
(***************************************************************************)
RowsStay == \A k \in Keys : intent'[k] = "none" => intent[k] = "none"

NoNewCreator == \A q \in Requests : At(q, {"cart"})' => work'[q] = work[q]

LEMMA CreatorsLeave ==
    ASSUME RequestsKnowTheirKey, OneCartCreator, NoDuplicateStorefrontCart,
           RowsStay, NoNewCreator, remote' = remote
    PROVE  OneCartCreator' /\ NoDuplicateStorefrontCart'
BY DEF RequestsKnowTheirKey, OneCartCreator, NoDuplicateStorefrontCart, RowsStay,
       NoNewCreator, At

LEMMA MovesLeave ==
    ASSUME NEW r \in Requests, NEW k, NEW s \in Steps \ {"cart"}, Moved(r, k, s)
    PROVE  NoNewCreator
BY DEF Moved, NoNewCreator, At

LEMMA MarkFailedStays ==
    ASSUME TypeOK, NEW k \in Keys, MarkFailed(k)
    PROVE  RowsStay
BY DEF TypeOK, MarkFailed, RowsStay

\* Where a request that does not come to createCart() may go.
LEMMA ElsewhereMoves ==
    ASSUME TypeOK, NEW r \in Requests, Step(r), ~CreateIntent(r)
    PROVE  NoNewCreator
<1>1. \A s \in Steps : s # "cart" => \A k : Moved(r, k, s) => NoNewCreator
  BY MovesLeave
<1>2. CASE \E k \in Keys : GetOutcome(r, k) \/ ReadLink(r, k)
  <2>1. \E k \in Keys : Moved(r, k, "check") \/ Moved(r, k, "start") \/ Moved(r, k, "verify")
    BY <1>2, StepMoves
  <2>2. QED
    BY <1>1, <2>1 DEF Steps
<1>3. CASE ~\E k \in Keys : GetOutcome(r, k) \/ ReadLink(r, k)
  <2> DEFINE M(s) == Moved(r, work[r].key, s)
  <2>1. \/ M("done") \/ M("create") \/ M("attach") \/ M("start") \/ M("failing")
        \/ M("url") \/ M("consume") \/ M("retire")
    BY <1>3, StepMoves DEF Step
  <2> HIDE DEF M
  <2>2. \A s \in Steps : s # "cart" /\ M(s) => NoNewCreator
    BY <1>1 DEF M
  <2>3. QED
    BY <2>1, <2>2 DEF Steps
<1>4. QED
  BY <1>2, <1>3

LEMMA RequestCreates ==
    ASSUME TypeOK, RequestsKnowTheirKey, OneCartCreator, NoDuplicateStorefrontCart,
           NEW r \in Requests, Step(r)
    PROVE  OneCartCreator' /\ NoDuplicateStorefrontCart'
<1>1. CASE CreateIntent(r)
  <2>1. work[r].key \in Keys /\ remote' = remote
    BY <1>1, RequestKey DEF CreateIntent, At
  <2>2. CASE /\ intent[work[r].key] = "none"
             /\ intent' = [intent EXCEPT ![work[r].key] = "creating"]
             /\ Moved(r, work[r].key, "cart")
    <3>1. \A q \in Requests : At(q, {"cart"}) => work[q].key # work[r].key
      BY <2>2 DEF OneCartCreator
    <3>2. remote[work[r].key] = 0
      BY <2>1, <2>2 DEF OneCartCreator
    <3>3. /\ \A k \in Keys : intent'[k] = "none" => intent[k] = "none"
          /\ intent'[work[r].key] = "creating"
          /\ \A k \in Keys : k # work[r].key => intent'[k] = intent[k]
      BY <2>1, <2>2 DEF TypeOK
    <3>4. /\ At(r, {"cart"})' /\ work'[r].key = work[r].key
          /\ \A q \in Requests : q # r => work'[q] = work[q]
      BY <2>2 DEF Moved, At
    <3>5. OneCartCreator'
      BY <2>1, <3>1, <3>2, <3>3, <3>4 DEF OneCartCreator, RequestsKnowTheirKey, At
    <3>6. QED
      BY <2>1, <3>5 DEF NoDuplicateStorefrontCart
  <2>3. CASE /\ UNCHANGED intent
             /\ Moved(r, work[r].key, "start") \/ Moved(r, work[r].key, "done")
    <3>1. NoNewCreator
      BY <2>3, MovesLeave DEF Steps
    <3>2. QED
      BY <2>1, <2>3, <3>1, CreatorsLeave DEF RowsStay
  <2>4. QED
    BY <1>1, <2>2, <2>3, StepMoves
<1>2. CASE CreateCart(r) \/ Throw(r)
  <2>1. work[r].key \in Keys /\ intent' = intent
    BY <1>2, RequestKey DEF CreateCart, Throw, At
  <2>2. NoNewCreator /\ ~At(r, {"cart"})'
    BY <1>2, StepMoves, MovesLeave DEF Steps, Moved, At
  <2>3. \/ remote' = remote
        \/ At(r, {"cart"}) /\ remote' = [remote EXCEPT ![work[r].key] = @ + 1]
    BY <1>2 DEF CreateCart, Throw
  <2>4. CASE remote' = remote
    BY <2>1, <2>2, <2>4, CreatorsLeave DEF RowsStay
  <2>5. CASE At(r, {"cart"}) /\ remote' = [remote EXCEPT ![work[r].key] = @ + 1]
    <3>1. remote[work[r].key] = 0 /\ intent[work[r].key] # "none"
      BY <2>5 DEF OneCartCreator
    <3>2. /\ remote'[work[r].key] = 1
          /\ \A k \in Keys : k # work[r].key => remote'[k] = remote[k]
      BY <2>1, <2>5, <3>1 DEF TypeOK
    <3>3. NoDuplicateStorefrontCart'
      BY <3>2 DEF NoDuplicateStorefrontCart
    <3>4. \A q \in Requests : At(q, {"cart"})' =>
             q # r /\ work'[q] = work[q] /\ At(q, {"cart"}) /\ work[q].key # work[r].key
      BY <2>2, <2>5 DEF OneCartCreator, NoNewCreator, At
    <3>5. OneCartCreator'
      BY <2>1, <3>1, <3>2, <3>4 DEF OneCartCreator, RequestsKnowTheirKey, At
    <3>6. QED
      BY <3>3, <3>5
  <2>6. QED
    BY <2>3, <2>4, <2>5
<1>3. CASE ~(CreateIntent(r) \/ CreateCart(r) \/ Throw(r))
  <2>1. NoNewCreator
    BY <1>3, ElsewhereMoves
  <2>2. remote' = remote
    BY <1>3 DEF Step, GetOutcome, ReadLink, Begin, CheckProcessing, Reject, AttachCart,
                MarkCheckoutStarted, GetUrl, Compensate, VerifyRecoverable, RetireSource,
                ConsumeLink
  <2>3. RowsStay
    <3>1. CASE AttachCart(r) \/ MarkCheckoutStarted(r)
      BY <3>1, RequestKey DEF AttachCart, MarkCheckoutStarted, At, TypeOK, RowsStay
    <3>2. CASE Compensate(r)
      <4>1. work[r].key \in Keys /\ (MarkFailed(work[r].key) \/ UNCHANGED intent)
        BY <3>2, RequestKey DEF Compensate, At
      <4>2. QED
        BY <4>1, MarkFailedStays DEF RowsStay
    <3>3. CASE RetireSource(r)
      <4>1. SourceOf[LinkOf[work[r].key]] \in Keys
        BY <3>3, RequestKey, CheckoutShape
        DEF RetireSource, At, RequestsKnowTheirKey, Recovery, Recovers
      <4>2. QED
        BY <3>3, <4>1, MarkFailedStays DEF RetireSource
    <3>4. CASE ~(AttachCart(r) \/ MarkCheckoutStarted(r) \/ Compensate(r) \/ RetireSource(r))
      <4>1. UNCHANGED intent
        BY <1>3, <3>4 DEF Step, GetOutcome, ReadLink, Begin, CheckProcessing, Reject,
                          GetUrl, VerifyRecoverable, ConsumeLink
      <4>2. QED
        BY <4>1 DEF RowsStay
    <3>5. QED
      BY <3>1, <3>2, <3>3, <3>4
  <2>4. QED
    BY <2>1, <2>2, <2>3, CreatorsLeave
<1>4. QED
  BY <1>1, <1>2, <1>3

LEMMA EnvCreates ==
    ASSUME TypeOK, RequestsKnowTheirKey, OneCartCreator, NoDuplicateStorefrontCart,
           Env \/ Crash
    PROVE  OneCartCreator' /\ NoDuplicateStorefrontCart'
<1>1. remote' = remote
  BY DEF Env, CreateRecovery, LinkExpires, InvalidateIntent, PayOrder, DecideOrder, Expire,
         MembershipRenewable, Crash, vars
<1>2. NoNewCreator
  <2>1. CASE Env
    BY <2>1 DEF Env, CreateRecovery, LinkExpires, InvalidateIntent, PayOrder, DecideOrder,
                Expire, MembershipRenewable, vars, NoNewCreator
  <2>2. CASE Crash
    BY <2>2 DEF Crash, Resting, NoNewCreator, At
  <2>3. QED
    BY <2>1, <2>2
<1>3. RowsStay
  <2>1. ASSUME NEW k \in Keys, InvalidateIntent(k) \/ DecideOrder(k) PROVE RowsStay
    BY <2>1 DEF InvalidateIntent, DecideOrder, RowsStay, TypeOK
  <2>2. CASE UNCHANGED intent
    BY <2>2 DEF RowsStay
  <2>3. QED
    BY <2>1, <2>2 DEF Env, CreateRecovery, LinkExpires, PayOrder, Expire,
                      MembershipRenewable, Crash, vars
<1>4. QED
  BY <1>1, <1>2, <1>3, CreatorsLeave

-----------------------------------------------------------------------------
(***************************************************************************)
(* Without faults every intent that is being created has its request: the  *)
(* request stays with it until the cart is attached or the failure marked. *)
(***************************************************************************)
Attempting == {"cart", "attach", "failing"}

LEMMA AttemptMoves ==
    ASSUME NoOrphanedAttempt, NEW r \in Requests, NEW k \in Keys, NEW s \in Steps,
           Moved(r, k, s), faults' = faults,
           At(r, {"done"}) \/ work[r].key = k,
           \A j \in Keys : intent'[j] = "creating" =>
              \/ j = k /\ s \in Attempting
              \/ /\ intent[j] = "creating"
                 /\ j = k => s \in Attempting \/ ~At(r, Attempting)
    PROVE  NoOrphanedAttempt'
<1> SUFFICES ASSUME faults' = 0, NEW j \in Keys, intent'[j] = "creating"
             PROVE  \E q \in Requests : work'[q].key = j /\ At(q, Attempting)'
  BY DEF NoOrphanedAttempt, Attempting
<1>1. CASE j = k /\ s \in Attempting
  BY <1>1 DEF Moved, At, Attempting
<1>2. CASE intent[j] = "creating" /\ (j = k => ~At(r, Attempting))
  <2>1. PICK q \in Requests : work[q].key = j /\ At(q, Attempting)
    BY <1>2 DEF NoOrphanedAttempt, Attempting
  <2>2. q # r
    BY <1>2, <2>1 DEF At, Attempting
  <2>3. QED
    BY <2>1, <2>2 DEF Moved, At
<1>3. QED
  BY <1>1, <1>2

LEMMA RequestAttempts ==
    ASSUME TypeOK, RequestsKnowTheirKey, NoOrphanedAttempt, NEW r \in Requests, Step(r)
    PROVE  NoOrphanedAttempt'
<1> DEFINE key == work[r].key
<1>1. CASE \E k \in Keys : GetOutcome(r, k) \/ ReadLink(r, k)
  <2>1. PICK k \in Keys : GetOutcome(r, k) \/ ReadLink(r, k)
    BY <1>1
  <2>2. Moved(r, k, "check") \/ Moved(r, k, "start") \/ Moved(r, k, "verify")
    BY <2>1, StepMoves
  <2>3. At(r, {"done"}) /\ UNCHANGED <<intent, faults>>
    BY <2>1 DEF GetOutcome, ReadLink, Begin, Resting, At
  <2>4. QED
    BY <2>2, <2>3, AttemptMoves DEF At, Attempting, Steps
<1>2. ASSUME ~At(r, {"done"}), NEW s \in Steps, Moved(r, key, s), faults' = faults,
             \A j \in Keys : intent'[j] = "creating" =>
                \/ j = key /\ s \in Attempting
                \/ intent[j] = "creating" /\ (j = key => s \in Attempting \/ ~At(r, Attempting))
      PROVE  NoOrphanedAttempt'
  <2>1. key \in Keys
    BY <1>2, RequestKey
  <2>2. QED
    BY <1>2, <2>1, AttemptMoves
<1> HIDE DEF key
<1>3. CASE \/ CheckProcessing(r) \/ Reject(r) \/ GetUrl(r) \/ VerifyRecoverable(r)
           \/ ConsumeLink(r)
  <2>1. /\ UNCHANGED <<intent, faults>>
        /\ ~At(r, {"done"}) /\ ~At(r, Attempting)
    BY <1>3 DEF CheckProcessing, Reject, GetUrl, VerifyRecoverable, ConsumeLink, At, Attempting
  <2>2. \E s \in {"done", "create", "consume", "retire"} : Moved(r, key, s)
    BY <1>3, StepMoves DEF key
  <2>3. QED
    BY <1>2, <2>1, <2>2 DEF Steps
<1>4. CASE CreateIntent(r)
  <2>1. key \in Keys /\ ~At(r, {"done"}) /\ ~At(r, Attempting) /\ faults' = faults
    BY <1>4, RequestKey DEF CreateIntent, At, Attempting, key
  <2>2. \/ /\ intent' = [intent EXCEPT ![key] = "creating"]
           /\ Moved(r, key, "cart")
        \/ /\ Moved(r, key, "start") \/ Moved(r, key, "done")
           /\ UNCHANGED intent
    BY <1>4, StepMoves DEF key
  <2>3. QED
    BY <1>2, <2>1, <2>2 DEF Attempting, Steps, TypeOK
<1>5. CASE CreateCart(r) \/ Throw(r)
  <2>1. ~At(r, {"done"}) /\ UNCHANGED <<intent, faults>>
    BY <1>5 DEF CreateCart, Throw, At
  <2>2. Moved(r, key, "attach") \/ Moved(r, key, "failing")
    BY <1>5, StepMoves DEF key
  <2>3. QED
    BY <1>2, <2>1, <2>2 DEF Attempting, Steps
<1>6. CASE AttachCart(r)
  <2>1. ~At(r, {"done"}) /\ faults' = faults /\ key \in Keys
    BY <1>6, RequestKey DEF AttachCart, At, key
  <2>2. CASE intent[key] = "creating"
    <3>1. Moved(r, key, "start")
      BY <1>6, <2>2, StepMoves DEF key
    <3>2. intent' = [intent EXCEPT ![key] = "ready"]
      BY <1>6, <2>2 DEF AttachCart, key
    <3>3. QED
      BY <1>2, <2>1, <3>1, <3>2 DEF Steps, TypeOK
  <2>3. CASE intent[key] # "creating"
    <3>1. Moved(r, key, "failing") /\ UNCHANGED intent
      BY <1>6, <2>3, StepMoves DEF key, AttachCart
    <3>2. QED
      BY <1>2, <2>1, <3>1 DEF Steps, Attempting
  <2>4. QED
    BY <2>2, <2>3
<1>7. CASE MarkCheckoutStarted(r)
  <2>1. ~At(r, {"done"}) /\ ~At(r, Attempting) /\ faults' = faults /\ key \in Keys
    BY <1>7, RequestKey DEF MarkCheckoutStarted, At, Attempting, key
  <2>2. \A j \in Keys : intent'[j] = "creating" => intent[j] = "creating"
    BY <1>7, <2>1 DEF MarkCheckoutStarted, TypeOK, key
  <2>3. Moved(r, key, "url") \/ Moved(r, key, "failing")
    BY <1>7, StepMoves DEF key
  <2>4. QED
    BY <1>2, <2>1, <2>2, <2>3 DEF Steps
<1>8. CASE Compensate(r)
  <2>1. ~At(r, {"done"}) /\ key \in Keys /\ Moved(r, key, "done")
    BY <1>8, RequestKey, StepMoves DEF Compensate, At, key
  <2>2. CASE MarkFailed(key) /\ UNCHANGED faults
    <3>1. \A j \in Keys : intent'[j] = "creating" => intent[j] = "creating" /\ j # key
      BY <2>1, <2>2 DEF MarkFailed, TypeOK
    <3>2. QED
      BY <1>2, <2>1, <2>2, <3>1 DEF Steps
  <2>3. CASE faults' = faults + 1
    BY <2>3 DEF NoOrphanedAttempt, TypeOK
  <2>4. QED
    BY <1>8, <2>2, <2>3 DEF Compensate, key
<1>9. CASE RetireSource(r)
  <2>1. ~At(r, {"done"}) /\ ~At(r, Attempting) /\ faults' = faults /\ Moved(r, key, "create")
    BY <1>9, StepMoves DEF RetireSource, At, Attempting, key
  <2>2. SourceOf[LinkOf[work[r].key]] \in Keys
    BY <1>9, RequestKey, CheckoutShape
    DEF RetireSource, At, RequestsKnowTheirKey, Recovery, Recovers
  <2>3. \A j \in Keys : intent'[j] = "creating" => intent[j] = "creating"
    BY <1>9, <2>2 DEF RetireSource, MarkFailed, TypeOK
  <2>4. QED
    BY <1>2, <2>1, <2>3 DEF Steps
<1>10. QED
  BY <1>1, <1>3, <1>4, <1>5, <1>6, <1>7, <1>8, <1>9 DEF Step

LEMMA EnvAttempts ==
    ASSUME TypeOK, NoOrphanedAttempt, Env \/ Crash
    PROVE  NoOrphanedAttempt'
<1>1. CASE Env
  <2>1. UNCHANGED <<work, faults>>
    BY <1>1 DEF Env, CreateRecovery, LinkExpires, InvalidateIntent, PayOrder, DecideOrder,
                Expire, MembershipRenewable, vars
  <2>2. \A j \in Keys : intent'[j] = "creating" => intent[j] = "creating"
    <3>1. ASSUME NEW k \in Keys, InvalidateIntent(k) \/ DecideOrder(k)
          PROVE  \A j \in Keys : intent'[j] = "creating" => intent[j] = "creating"
      BY <3>1 DEF InvalidateIntent, DecideOrder, TypeOK
    <3>2. QED
      BY <1>1, <3>1 DEF Env, CreateRecovery, LinkExpires, PayOrder, Expire,
                        MembershipRenewable, vars
  <2>3. QED
    BY <2>1, <2>2 DEF NoOrphanedAttempt, At
<1>2. CASE Crash
  BY <1>2 DEF Crash, NoOrphanedAttempt, TypeOK
<1>3. QED
  BY <1>1, <1>2

-----------------------------------------------------------------------------
(***************************************************************************)
(* A recovery link: nobody is handed its URL before it is consumed, and    *)
(* what is consumed is never pending again.                                *)
(***************************************************************************)
LEMMA LinkKeeps ==
    ASSUME LinkIsSpentOnce, handed' = handed,
           \A t \in Links : link[t] = "consumed" => link'[t] = "consumed",
           handed \subseteq Keys
    PROVE  LinkIsSpentOnce'
<1>1. \A k \in Keys : LinkOf[k] # NoLink => LinkOf[k] \in Links
  BY CheckoutShape
<1>2. QED
  BY <1>1 DEF LinkIsSpentOnce

LEMMA RequestLinks ==
    ASSUME TypeOK, RequestsKnowTheirKey, LinkIsSpentOnce, NEW r \in Requests, Step(r)
    PROVE  LinkIsSpentOnce'
<1>1. CASE GetUrl(r)
  <2>1. link' = link /\ (Recovers(r) => handed' = handed)
    BY <1>1 DEF GetUrl
  <2>2. ~Recovers(r) => handed' = handed \cup {work[r].key} /\ LinkOf[work[r].key] = NoLink
    BY <1>1 DEF GetUrl, Recovers
  <2>3. QED
    BY <2>1, <2>2 DEF LinkIsSpentOnce
<1>2. CASE ConsumeLink(r)
  <2> DEFINE key == work[r].key
             t == LinkOf[key]
  <2>1. key \in Keys /\ t \in Links
    BY <1>2, RequestKey, CheckoutShape
    DEF ConsumeLink, At, RequestsKnowTheirKey, Recovery, Recovers
  <2>2. CASE link[t] = "pending"
    <3>1. link' = [link EXCEPT ![t] = "consumed"] /\ handed' \subseteq handed \cup {key}
      BY <1>2, <2>2 DEF ConsumeLink
    <3>2. \A j \in handed : LinkOf[j] # t
      BY <2>1, <2>2, CheckoutShape DEF LinkIsSpentOnce
    <3>3. \A u \in Links : link'[u] = IF u = t THEN "consumed" ELSE link[u]
      BY <3>1 DEF TypeOK
    <3>4. \A k \in Keys : LinkOf[k] # NoLink => LinkOf[k] \in Links
      BY CheckoutShape
    <3> HIDE DEF key
    <3>5. SUFFICES ASSUME NEW j \in handed', LinkOf[j] # NoLink
                   PROVE  /\ link'[LinkOf[j]] = "consumed"
                          /\ \A k \in handed' : LinkOf[k] = LinkOf[j] => k = j
      BY DEF LinkIsSpentOnce
    <3>6. j \in Keys /\ LinkOf[j] \in Links
      BY <2>1, <3>1, <3>4, <3>5 DEF TypeOK
    <3>7. CASE j = key
      BY <2>1, <3>1, <3>2, <3>3, <3>7
    <3>8. CASE j # key
      <4>1. j \in handed /\ LinkOf[j] # t
        BY <3>1, <3>2, <3>5, <3>8
      <4>2. link[LinkOf[j]] = "consumed" /\ \A k \in handed : LinkOf[k] = LinkOf[j] => k = j
        BY <3>5, <4>1 DEF LinkIsSpentOnce
      <4>3. QED
        BY <3>1, <3>3, <3>6, <4>1, <4>2
    <3>9. QED
      BY <3>7, <3>8
  <2>3. CASE link[t] # "pending"
    BY <1>2, <2>3, LinkKeeps DEF ConsumeLink, TypeOK
  <2>4. QED
    BY <2>2, <2>3
<1>3. CASE ~(GetUrl(r) \/ ConsumeLink(r))
  <2>1. UNCHANGED <<handed, link>>
    BY <1>3 DEF Step, GetOutcome, ReadLink, Begin, CheckProcessing, Reject, CreateIntent,
                CreateCart, AttachCart, MarkCheckoutStarted, Throw, Compensate,
                VerifyRecoverable, RetireSource
  <2>2. QED
    BY <2>1 DEF LinkIsSpentOnce
<1>4. QED
  BY <1>1, <1>2, <1>3

LEMMA EnvLinks ==
    ASSUME TypeOK, LinkIsSpentOnce, Env \/ Crash
    PROVE  LinkIsSpentOnce'
<1>1. handed' = handed /\ handed \subseteq Keys
  BY DEF Env, CreateRecovery, LinkExpires, InvalidateIntent, PayOrder, DecideOrder, Expire,
         MembershipRenewable, Crash, vars, TypeOK
<1>2. \A t \in Links : link[t] = "consumed" => link'[t] = "consumed"
  <2>1. ASSUME NEW t \in Links, CreateRecovery(t) \/ LinkExpires(t)
        PROVE  \A u \in Links : link[u] = "consumed" => link'[u] = "consumed"
    BY <2>1 DEF CreateRecovery, LinkExpires, CancelLinksOf, TypeOK
  <2>2. ASSUME NEW k \in Keys, InvalidateIntent(k)
        PROVE  \A u \in Links : link[u] = "consumed" => link'[u] = "consumed"
    BY <2>2, CheckoutShape DEF InvalidateIntent, CancelLinksOf, TypeOK
  <2>3. QED
    BY <2>1, <2>2 DEF Env, PayOrder, DecideOrder, Expire, MembershipRenewable, Crash, vars
<1>3. QED
  BY <1>1, <1>2, LinkKeeps

-----------------------------------------------------------------------------
(***************************************************************************)
(* The inductive invariant.                                                *)
(***************************************************************************)
LEMMA InvInit == Init => IInv
<1> SUFFICES ASSUME Init PROVE IInv
  OBVIOUS
<1>1. /\ Resting \in [key : Keys \cup {NoKey}, step : Steps]
      /\ Resting.step = "done"
  BY DEF Resting, Steps
<1>2. /\ work \in [Requests -> [key : Keys \cup {NoKey}, step : Steps]]
      /\ \A r \in Requests : work[r].step = "done"
  BY <1>1 DEF Init
<1>3. TypeOK
  BY <1>2 DEF Init, TypeOK, Steps, IntentStatuses, CartStatuses
<1>4. RequestsKnowTheirKey /\ OneCartCreator
  BY <1>2 DEF Init, RequestsKnowTheirKey, OneCartCreator, At, Recovery
<1>5. OneLiveIntent /\ CartFollowsIntent /\ NoDuplicateStorefrontCart
  BY DEF Init, OneLiveIntent, Live, CartFollowsIntent, NoDuplicateStorefrontCart
<1>6. NoOrphanedAttempt /\ LinkIsSpentOnce
  BY DEF Init, NoOrphanedAttempt, LinkIsSpentOnce
<1>7. QED
  BY <1>3, <1>4, <1>5, <1>6 DEF IInv

LEMMA InvStep == IInv /\ [Next]_vars => IInv'
<1> SUFFICES ASSUME IInv, [Next]_vars PROVE IInv'
  OBVIOUS
<1>1. (\E r \in Requests : Step(r)) \/ Env \/ Crash
  BY DEF Next, Env
<1>2. TypeOK' /\ RequestsKnowTheirKey'
  BY <1>1, RequestTypes, EnvTypes DEF IInv
<1>3. OneLiveIntent'
  BY <1>1, RequestLives, EnvLives, OneStaysLive DEF IInv
<1>4. CartFollowsIntent'
  BY <1>1, RequestCarts, EnvCarts DEF IInv
<1>5. OneCartCreator' /\ NoDuplicateStorefrontCart'
  BY <1>1, RequestCreates, EnvCreates DEF IInv
<1>6. NoOrphanedAttempt'
  BY <1>1, RequestAttempts, EnvAttempts DEF IInv
<1>7. LinkIsSpentOnce'
  BY <1>1, RequestLinks, EnvLinks DEF IInv
<1>8. QED
  BY <1>2, <1>3, <1>4, <1>5, <1>6, <1>7 DEF IInv

LEMMA Invariance == Spec => []IInv
BY InvInit, InvStep, PTL DEF Spec

\* The statuses in the three tables and the steps of the requests are among
\* those the schema and the services know.
THEOREM CheckoutTypes == Spec => []TypeOK
<1>1. IInv => TypeOK
  BY DEF IInv
<1>2. QED
  BY <1>1, Invariance, PTL

\* However many requests, keys, sessions and recovery links there are, the
\* customer never has two live intents: createIntent() under the lock suffices.
THEOREM NoTwoLiveIntents == Spec => []OneLiveIntent
<1>1. IInv => OneLiveIntent
  BY DEF IInv
<1>2. QED
  BY <1>1, Invariance, PTL

\* What is over stays over: no request in flight, however many there are,
\* brings an invalidated, retired, resolved, failed or expired intent back.
THEOREM WhatIsOverStaysOver == Spec => NothingIsRevived
<1>1. IInv /\ [Next]_vars => NoneComesAlive \/ MakesIntent
  BY RequestLives, EnvLives DEF Next, Env, IInv
<1>2. IInv /\ [Next]_vars =>
        [\A k \in Keys : intent[k] # "none" /\ ~Live(k) => ~Live(k)']_vars
  BY <1>1, NoneIsRevived DEF IInv
<1>3. QED
  BY <1>2, Invariance, PTL DEF Spec, NothingIsRevived

\* markFailed(), attachCart() and markCheckoutStarted() keep the intent and
\* its cart in step, whatever the administrator and the order do meanwhile.
THEOREM CartsAgree == Spec => []CartFollowsIntent
<1>1. IInv => CartFollowsIntent
  BY DEF IInv
<1>2. QED
  BY <1>1, Invariance, PTL

\* Retrying an idempotency key never makes a second cart at Shopify.
THEOREM OneCartPerIntent == Spec => []NoDuplicateStorefrontCart
<1>1. IInv => NoDuplicateStorefrontCart
  BY DEF IInv
<1>2. QED
  BY <1>1, Invariance, PTL

\* Without a fault, an intent in "creating" always has a request that will
\* attach its cart or mark it failed.
THEOREM AttemptsAreClosed == Spec => []NoOrphanedAttempt
<1>1. IInv => NoOrphanedAttempt
  BY DEF IInv
<1>2. QED
  BY <1>1, Invariance, PTL

\* Sessions that follow the same recovery link get one checkout together.
THEOREM LinksAreSpentOnce == Spec => []LinkIsSpentOnce
<1>1. IInv => LinkIsSpentOnce
  BY DEF IInv
<1>2. QED
  BY <1>1, Invariance, PTL
=============================================================================
