------------------------------ MODULE Checkout ------------------------------
(***************************************************************************)
(* The checkout intents of one customer of one organization: the saga that *)
(* creates an intent, a Shopify cart and a checkout URL, the retries of an *)
(* idempotency key, and the administrator's recovery links.                *)
(*                                                                         *)
(*   checkout/class-checkout-service.ts        start, resume               *)
(*   checkout/membership-checkout-service.ts   start, resume               *)
(*   checkout/checkout-recovery-service.ts     recovery links              *)
(*   checkout/postgres-checkout-repository.ts, -recovery-repository.ts     *)
(*                                                                         *)
(* A process runs start() or resumeCustomerCheckout() for a key, then any  *)
(* other request; between two steps of it anything else may happen.  One   *)
(* step is one database transaction or one Shopify call.  No database lock *)
(* is held over a Shopify call, so nothing but the intent's status says    *)
(* how far a saga has come.                                                *)
(***************************************************************************)
EXTENDS Naturals, FiniteSets

CONSTANTS
    Keys, NoKey,  \* (session, idempotency key) scopes; each has at most one intent
    Memberships,  \* the keys that buy a membership; the others buy class entries
    Requests,     \* bound: the requests in progress at the same time
    Links, NoLink, \* recovery requests
    LinkOf,       \* the link a key belongs to; its idempotency key is recovery:<link>
    SourceOf,     \* source_checkout_intent_id of each link
    MaxExpired,   \* bound: the intents that grow older than 30 minutes
    MaxFaults     \* bound: process stops and failed compensations

ASSUME CheckoutShape ==
    /\ Memberships \subseteq Keys
    /\ NoKey \notin Keys
    /\ NoLink \notin Links
    /\ LinkOf \in [Keys -> Links \cup {NoLink}]
    /\ SourceOf \in [Links -> Keys]
    /\ IsFiniteSet(Keys)
    /\ MaxExpired \in Nat
    /\ MaxFaults \in Nat

VARIABLES
    intent,   \* checkout_intents.status per key, "none" before the row exists;
              \* "resolved" is approved, rejected or needs_review
    expired,  \* keys whose expires_at, 30 minutes after creation, has passed
    cart,     \* checkout_carts.status of the intent's cart, "none" before attachCart
    remote,   \* carts created at Shopify for the intent
    handed,   \* keys whose checkout URL reached the customer
    order,    \* decision on the order paid for the intent: "none", "open" while it is
              \* pending_validation or needs_review, "decided"
    member,   \* TRUE while a membership grant rules out another purchase
    link,     \* checkout_recovery_requests.status; "closed" is cancelled or expired
    work,     \* work[r]: the key request r is for, and its next step
    faults

vars == <<intent, expired, cart, remote, handed, order, member, link, work, faults>>

IntentStatuses == {"none", "creating", "ready", "checkout_started", "failed",
                   "superseded", "resolved"}
CartStatuses == {"none", "ready", "checkout_started", "superseded"}

\* What createIntent() and hasProcessingIntent() look for.
Live(k) == intent[k] \in {"creating", "ready", "checkout_started"} /\ k \notin expired

CartUsable(k) == cart[k] \in {"ready", "checkout_started"} /\ k \notin expired

Resting == [key |-> NoKey, step |-> "done"]

At(r, steps) == work[r].step \in steps

Recovers(r) == LinkOf[work[r].key] # NoLink

\* At "done" the request is over: it has answered, with a URL or an error.
Go(r, step) ==
    work' = [work EXCEPT ![r] = IF step = "done" THEN Resting ELSE [@ EXCEPT !.step = step]]

-----------------------------------------------------------------------------
Init ==
    /\ intent = [k \in Keys |-> "none"]
    /\ expired = {}
    /\ cart = [k \in Keys |-> "none"]
    /\ remote = [k \in Keys |-> 0]
    /\ handed = {}
    /\ order = [k \in Keys |-> "none"]
    /\ member = FALSE
    /\ link = [t \in Links |-> "none"]
    /\ work = [r \in Requests |-> Resting]
    /\ faults = 0

(***************************************************************************)
(* A request arrives, and getOutcome() is its first query.  outcomeFor()   *)
(* looks at the cart, not at the status: an intent that was approved or    *)
(* superseded after its cart was attached counts as ready, too.            *)
(***************************************************************************)
Begin(r, k, step) ==
    /\ work[r] = Resting
    /\ work' = [work EXCEPT ![r] = [key |-> k, step |-> step]]
    /\ UNCHANGED <<intent, expired, cart, remote, handed, order, member, link, faults>>

GetOutcome(r, k) ==
    /\ LinkOf[k] = NoLink
    /\ \/ intent[k] = "none" /\ Begin(r, k, "check")
       \/ intent[k] \notin {"none", "creating", "failed"} /\ CartUsable(k) /\ Begin(r, k, "start")

\* hasProcessingIntent(): an early answer only; createIntent() decides.
CheckProcessing(r) ==
    /\ At(r, {"check"})
    /\ Go(r, IF \E k \in Keys : Live(k) THEN "done" ELSE "create")
    /\ UNCHANGED <<intent, expired, cart, remote, handed, order, member, link, faults>>

\* A validation or a query before there is an intent fails.
Reject(r) ==
    /\ At(r, {"check", "verify", "retire", "create"})
    /\ Go(r, "done")
    /\ UNCHANGED <<intent, expired, cart, remote, handed, order, member, link, faults>>

(***************************************************************************)
(* createIntent(), under the customer's advisory lock.  A request with a   *)
(* live cart goes on with it, except a recovery, which needs a new intent. *)
(***************************************************************************)
NewIntent(r) ==
    /\ intent' = [intent EXCEPT ![work[r].key] = "creating"]
    /\ Go(r, "cart")

\* Mutants: the customer's other intents are left to hasProcessingIntent();
\* an intent that is still being created is taken over.
CreateIntentUnchecked(r) ==
    LET k == work[r].key
    IN /\ At(r, {"create"})
       /\ \/ intent[k] = "none" /\ NewIntent(r)
          \/ intent[k] # "none" /\ Go(r, "done") /\ UNCHANGED intent
       /\ UNCHANGED <<expired, cart, remote, handed, order, member, link, faults>>

CreateIntentTakeover(r) ==
    LET k == work[r].key
    IN /\ At(r, {"create"})
       /\ \/ intent[k] \in {"none", "creating"} /\ NewIntent(r)
          \/ intent[k] \notin {"none", "creating"} /\ Go(r, "done") /\ UNCHANGED intent
       /\ UNCHANGED <<expired, cart, remote, handed, order, member, link, faults>>

CreateIntent(r) ==
    LET k == work[r].key
        active == k \in Memberships /\ member
        resumes == ~Recovers(r) /\ intent[k] \in {"ready", "checkout_started"} /\ CartUsable(k)
        free == intent[k] = "none" /\ ~\E other \in Keys : Live(other)
    IN /\ At(r, {"create"})
       /\ \/ ~active /\ free /\ NewIntent(r)
          \/ ~active /\ resumes /\ Go(r, "start") /\ UNCHANGED intent
          \/ (active \/ ~(free \/ resumes)) /\ Go(r, "done") /\ UNCHANGED intent
       /\ UNCHANGED <<expired, cart, remote, handed, order, member, link, faults>>

\* storefront.createCart()
CreateCart(r) ==
    /\ At(r, {"cart"})
    /\ remote' = [remote EXCEPT ![work[r].key] = @ + 1]
    /\ Go(r, "attach")
    /\ UNCHANGED <<intent, expired, cart, handed, order, member, link, faults>>

\* Mutant: attachCart() finds the intent whatever its status is.
AttachAnyCart(r) ==
    LET k == work[r].key
    IN /\ At(r, {"attach"})
       /\ intent' = [intent EXCEPT ![k] = "ready"]
       /\ cart' = [cart EXCEPT ![k] = "ready"]
       /\ Go(r, "start")
       /\ UNCHANGED <<expired, remote, handed, order, member, link, faults>>

\* attachCart(): only an intent that is still being created takes a cart.
AttachCart(r) ==
    LET k == work[r].key
    IN /\ At(r, {"attach"})
       /\ IF intent[k] = "creating"
          THEN /\ intent' = [intent EXCEPT ![k] = "ready"]
               /\ cart' = [cart EXCEPT ![k] = "ready"]
               /\ Go(r, "start")
          ELSE Go(r, "failing") /\ UNCHANGED <<intent, cart>>
       /\ UNCHANGED <<expired, remote, handed, order, member, link, faults>>

\* markCheckoutStarted()
MarkCheckoutStarted(r) ==
    LET k == work[r].key
    IN /\ At(r, {"start"})
       /\ IF intent[k] \in {"ready", "checkout_started"}
          THEN /\ intent' = [intent EXCEPT ![k] = "checkout_started"]
               /\ cart' = [cart EXCEPT ![k] = "checkout_started"]
               /\ Go(r, "url")
          ELSE Go(r, "failing") /\ UNCHANGED <<intent, cart>>
       /\ UNCHANGED <<expired, remote, handed, order, member, link, faults>>

\* storefront.checkout() and the check of the URL it returns.
GetUrl(r) ==
    /\ At(r, {"url"})
    /\ IF Recovers(r)
       THEN Go(r, "consume") /\ UNCHANGED handed
       ELSE Go(r, "done") /\ handed' = handed \cup {work[r].key}
    /\ UNCHANGED <<intent, expired, cart, remote, order, member, link, faults>>

(***************************************************************************)
(* A step after the intent exists throws: the integration is missing or    *)
(* was rotated, registration closed, a class sold out at attachCart(),     *)
(* Shopify or the database failed.  createCart() may fail although Shopify *)
(* made the cart.                                                          *)
(***************************************************************************)
\* Mutant: attachCart() is called outside the try block.
ThrowUncaught(r) ==
    /\ At(r, {"cart", "attach", "start", "url"})
    /\ Go(r, IF At(r, {"attach"}) THEN "done" ELSE "failing")
    /\ remote' \in {remote} \cup
          (IF At(r, {"cart"}) THEN {[remote EXCEPT ![work[r].key] = @ + 1]} ELSE {})
    /\ UNCHANGED <<intent, expired, cart, handed, order, member, link, faults>>

Throw(r) ==
    /\ At(r, {"cart", "attach", "start", "url"})
    /\ Go(r, "failing")
    /\ remote' \in {remote} \cup
          (IF At(r, {"cart"}) THEN {[remote EXCEPT ![work[r].key] = @ + 1]} ELSE {})
    /\ UNCHANGED <<intent, expired, cart, handed, order, member, link, faults>>

\* Mutant: the cart is left as it is.
MarkIntentFailedOnly(k) ==
    /\ intent' = [intent EXCEPT ![k] = "failed"]
    /\ UNCHANGED cart

\* markFailed(): whatever the status is.
MarkFailed(k) ==
    /\ intent' = [intent EXCEPT ![k] = "failed"]
    /\ cart' = [cart EXCEPT ![k] = IF @ = "none" THEN @ ELSE "superseded"]

\* The catch block, with markFailed() succeeding or not.
Compensate(r) ==
    /\ At(r, {"failing"})
    /\ Go(r, "done")
    /\ \/ MarkFailed(work[r].key) /\ UNCHANGED faults
       \/ faults < MaxFaults /\ faults' = faults + 1 /\ UNCHANGED <<intent, cart>>
    /\ UNCHANGED <<expired, remote, handed, order, member, link>>

-----------------------------------------------------------------------------
\* resumeCustomerCheckout(): the link, then the source intent and its
\* order, are read; the source is marked failed; the rest is as above.
ReadLink(r, k) ==
    /\ LinkOf[k] # NoLink /\ link[LinkOf[k]] = "pending"
    /\ Begin(r, k, "verify")

VerifyRecoverable(r) ==
    LET source == SourceOf[LinkOf[work[r].key]]
    IN /\ At(r, {"verify"})
       /\ Go(r, IF source \in Memberships /\ order[source] = "none" THEN "retire" ELSE "done")
       /\ UNCHANGED <<intent, expired, cart, remote, handed, order, member, link, faults>>

RetireSource(r) ==
    /\ At(r, {"retire"})
    /\ MarkFailed(SourceOf[LinkOf[work[r].key]])
    /\ Go(r, "create")
    /\ UNCHANGED <<expired, remote, handed, order, member, link, faults>>

\* Mutant: consumeRecoveryRequest() without the test of the status.
ConsumeAnyLink(r) ==
    /\ At(r, {"consume"})
    /\ Go(r, "done")
    /\ link' = [link EXCEPT ![LinkOf[work[r].key]] = "consumed"]
    /\ handed' = handed \cup {work[r].key}
    /\ UNCHANGED <<intent, expired, cart, remote, order, member, faults>>

\* consumeRecoveryRequest(): the URL is returned only after it, unless the
\* audit log that follows fails.
ConsumeLink(r) ==
    LET t == LinkOf[work[r].key]
    IN /\ At(r, {"consume"})
       /\ Go(r, "done")
       /\ IF link[t] = "pending"
          THEN /\ link' = [link EXCEPT ![t] = "consumed"]
               /\ handed' \in {handed, handed \cup {work[r].key}}
          ELSE UNCHANGED <<link, handed>>
       /\ UNCHANGED <<intent, expired, cart, remote, order, member, faults>>

CancelLinksOf(k, renewed) ==
    [t \in Links |-> IF t = renewed THEN "pending"
                     ELSE IF SourceOf[t] = k /\ link[t] = "pending" THEN "closed"
                     ELSE link[t]]

\* createRecoveryRequest(): a new link cancels the pending ones.
CreateRecovery(t) ==
    LET k == SourceOf[t]
    IN /\ link[t] = "none"
       /\ intent[k] # "none" /\ order[k] = "none"
       /\ link' = CancelLinksOf(k, t)
       /\ UNCHANGED <<intent, expired, cart, remote, handed, order, member, work, faults>>

\* invalidateIntent()
InvalidateIntent(k) ==
    /\ intent[k] # "none" /\ order[k] = "none"
    /\ intent' = [intent EXCEPT ![k] = "superseded"]
    /\ link' = CancelLinksOf(k, NoLink)
    /\ UNCHANGED <<expired, cart, remote, handed, order, member, work, faults>>

LinkExpires(t) ==
    /\ link[t] = "pending"
    /\ link' = [link EXCEPT ![t] = "closed"]
    /\ UNCHANGED <<intent, expired, cart, remote, handed, order, member, work, faults>>

-----------------------------------------------------------------------------
\* The customer pays at Shopify; the order's projection is recorded and
\* decided (OrderProjection), which writes the intent's status.
PayOrder(k) ==
    /\ k \in handed /\ order[k] = "none"
    /\ order' = [order EXCEPT ![k] = "open"]
    /\ UNCHANGED <<intent, expired, cart, remote, handed, member, link, work, faults>>

DecideOrder(k) ==
    /\ order[k] = "open"
    /\ order' \in {order, [order EXCEPT ![k] = "decided"]}
    /\ intent' = [intent EXCEPT ![k] = "resolved"]
    /\ member' \in {member, member \/ (order'[k] = "decided" /\ k \in Memberships)}
    /\ UNCHANGED <<expired, cart, remote, handed, link, work, faults>>

\* The grant comes within 30 days of its end, or is revoked.
MembershipRenewable ==
    /\ member
    /\ member' = FALSE
    /\ UNCHANGED <<intent, expired, cart, remote, handed, order, link, work, faults>>

Expire(k) ==
    /\ intent[k] # "none" /\ k \notin expired /\ Cardinality(expired) < MaxExpired
    /\ expired' = expired \cup {k}
    /\ UNCHANGED <<intent, cart, remote, handed, order, member, link, work, faults>>

\* The process stops: its requests end where they are.
Crash ==
    /\ faults < MaxFaults
    /\ faults' = faults + 1
    /\ work' = [r \in Requests |-> Resting]
    /\ UNCHANGED <<intent, expired, cart, remote, handed, order, member, link>>

Step(r) ==
    \/ \E k \in Keys : GetOutcome(r, k) \/ ReadLink(r, k)
    \/ CheckProcessing(r) \/ Reject(r) \/ CreateIntent(r)
    \/ CreateCart(r) \/ AttachCart(r) \/ MarkCheckoutStarted(r) \/ GetUrl(r)
    \/ Throw(r) \/ Compensate(r)
    \/ VerifyRecoverable(r) \/ RetireSource(r) \/ ConsumeLink(r)

Next ==
    \/ \E r \in Requests : Step(r)
    \/ \E t \in Links : CreateRecovery(t) \/ LinkExpires(t)
    \/ \E k \in Keys : InvalidateIntent(k) \/ PayOrder(k) \/ DecideOrder(k) \/ Expire(k)
    \/ MembershipRenewable
    \/ Crash

Spec == Init /\ [][Next]_vars

-----------------------------------------------------------------------------
TypeOK ==
    /\ intent \in [Keys -> IntentStatuses]
    /\ expired \in SUBSET Keys
    /\ cart \in [Keys -> CartStatuses]
    /\ remote \in [Keys -> Nat]
    /\ handed \in SUBSET Keys
    /\ order \in [Keys -> {"none", "open", "decided"}]
    /\ member \in BOOLEAN
    /\ link \in [Links -> {"none", "pending", "closed", "consumed"}]
    /\ work \in [Requests -> [key : Keys \cup {NoKey},
                              step : {"check", "create", "cart", "attach", "start", "url",
                                      "failing", "verify", "retire", "consume", "done"}]]
    /\ faults \in Nat

\* A customer has at most one live intent, whatever mix of first requests,
\* retries, sessions, recoveries and invalidations is in flight: the
\* duplicate-purchase rule of createIntent().
OneLiveIntent == \A j, k \in Keys : Live(j) /\ Live(k) => j = k

\* An intent that the administrator invalidated, a recovery retired, an
\* order resolved, an error failed or time ran out on never comes back to
\* life by the requests that are still on their way with it: their next
\* transaction finds the status.
NothingIsRevived ==
    [][\A k \in Keys : intent[k] # "none" /\ ~Live(k) => ~Live(k)']_vars

\* The two tables agree: an intent is ready or started exactly with its
\* cart, one that is being created has no cart, a failed one leaves no
\* cart behind that a retry could resume, and a URL is only handed out
\* for an intent whose cart is recorded.
CartFollowsIntent ==
    \A k \in Keys :
        /\ intent[k] \in {"ready", "checkout_started"} => cart[k] = intent[k]
        /\ intent[k] \in {"none", "creating"} => cart[k] = "none"
        /\ intent[k] = "failed" => cart[k] \in {"none", "superseded"}
        /\ k \in handed => cart[k] # "none"

\* Retries never make Shopify create a second cart for one intent.
NoDuplicateStorefrontCart == \A k \in Keys : remote[k] <= 1

\* While the process and the database work, a failed attempt does not stay
\* "creating": it would block the customer's checkouts for 30 minutes.
NoOrphanedAttempt ==
    faults = 0 =>
        \A k \in Keys : intent[k] = "creating" =>
            \E r \in Requests : work[r].key = k /\ At(r, {"cart", "attach", "failing"})

\* A recovery link hands out one checkout at most, and only by being
\* consumed, although several sessions may follow it at the same time.
LinkIsSpentOnce ==
    \A j \in handed : LinkOf[j] # NoLink =>
        /\ link[LinkOf[j]] = "consumed"
        /\ \A k \in handed : LinkOf[k] = LinkOf[j] => k = j
=============================================================================
