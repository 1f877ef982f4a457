--------------------------- MODULE OrderProjection ---------------------------
(***************************************************************************)
(* How a recorded webhook delivery becomes a decision about a paid order   *)
(* and, when the order is approved, its class entitlements or membership   *)
(* grant: ShopifyOrderProjectionService.processDelivery                    *)
(* (packages/backend/src/commerce/shopify-order-projection-service.ts)     *)
(* over PostgresMembershipCommerceRepository                               *)
(* (packages/backend/src/commerce/postgres-membership-commerce-            *)
(* repository.ts), next to the administrators who resolve decisions by     *)
(* hand.                                                                   *)
(*                                                                         *)
(* A worker is one invocation of processDelivery.  It stops at each await, *)
(* so several workers, the administrator and a crash interleave between    *)
(* its steps; a database transaction is one step.  Which invocations there *)
(* are, and when they start, is the business of WebhookIntake; here any    *)
(* idle worker may claim any delivery.                                     *)
(***************************************************************************)
EXTENDS Naturals

CONSTANTS
    Workers,         \* concurrent invocations of processDelivery
    Deliveries,      \* webhook deliveries, reconciliation deliveries included
    NoDelivery,
    Orders,          \* paid Shopify orders
    OrderOf,         \* OrderOf[d]: the order delivery d reports
    Intents,         \* checkout intents
    NoIntent,
    IntentOf,        \* IntentOf[o]: the intent whose correlation id order o carries, or NoIntent
    ClassIntents,    \* the intents that buy classes; the others buy a membership
    Lines,           \* lines of checkout intents
    LinesOf,         \* LinesOf[i]: the lines of intent i
    Consented,       \* the intents with staffAccessConsent
    NoOrder,
    Crashes,         \* bound: whether the process may stop
    MaxFaults        \* bound: upstream errors, lost leases of running workers and crashes

ASSUME ShapeOfOrders ==
    /\ OrderOf \in [Deliveries -> Orders]
    /\ IntentOf \in [Orders -> Intents \cup {NoIntent}]
    /\ NoIntent \notin Intents
    /\ NoOrder \notin Orders
    /\ NoDelivery \notin Deliveries

ASSUME ShapeOfIntents ==
    /\ ClassIntents \subseteq Intents
    /\ Consented \subseteq Intents
    /\ LinesOf \in [Intents -> SUBSET Lines]
    /\ \A i \in Intents : LinesOf[i] # {}
    /\ \A i, j \in Intents : LinesOf[i] \cap LinesOf[j] # {} => i = j

ASSUME FaultsAreCounted == MaxFaults \in Nat /\ Crashes \in BOOLEAN

VARIABLES
    delivery,     \* delivery[d]: status of the row in shopify_webhook_deliveries
    attempted,    \* attempted[d]: attempt_count > 0
    decision,     \* decision[o]: status in membership_validation_decisions
    bound,        \* bound[o]: checkout_intent_id of that decision
    intent,       \* intent[i]: status of the checkout intent, as far as it is resolved
    entitlement,  \* entitlement[l]: what was issued for line l, and to which order
    audit,        \* audit[o]: final_status of the decision's audit record
    profiled,     \* the intents whose consent and profile were projected
    work,         \* work[w]: where worker w is, and what it has read
    faults

database == <<delivery, attempted, decision, bound, intent, entitlement, audit, profiled>>
vars == <<database, work, faults>>

Decided == {"approved", "rejected", "needs_review"}

\* One row per line: the unique index on checkout_intent_line_id.  A row is
\* "changed" once a drop or a transfer took it from what was bought.
\* A membership grant is the row of its intent's only line.
Rows == [order : Orders \cup {NoOrder}, status : {"none", "confirmed", "changed"}]
NotIssued == [order |-> NoOrder, status |-> "none"]
Issued(o) == [order |-> o, status |-> "confirmed"]

Phases == {"idle", "claimed", "reading", "finalizing", "projecting",
           "acknowledging", "failing"}

\* What a worker keeps: its delivery, whether it was claimed before, the
\* decision it read, and the verdict and intent it is about to finalize.
WorkRecords ==
    [phase : Phases, delivery : Deliveries \cup {NoDelivery}, retry : BOOLEAN,
     seen : {"pending", "approved"}, status : Decided \cup {"pending"},
     intent : Intents \cup {NoIntent}]

Resting == [phase |-> "idle", delivery |-> NoDelivery, retry |-> FALSE,
            seen |-> "pending", status |-> "pending", intent |-> NoIntent]

Init ==
    /\ delivery = [d \in Deliveries |-> "absent"]
    /\ attempted = [d \in Deliveries |-> FALSE]
    /\ decision = [o \in Orders |-> "none"]
    /\ bound = [o \in Orders |-> NoIntent]
    /\ intent = [i \in Intents |-> "open"]
    /\ entitlement = [l \in Lines |-> NotIssued]
    /\ audit = [o \in Orders |-> "none"]
    /\ profiled = {}
    /\ work = [w \in Workers |-> Resting]
    /\ faults = 0

-----------------------------------------------------------------------------
(***************************************************************************)
(* Deliveries.                                                             *)
(***************************************************************************)
\* recordDelivery inserts the row.
Receive(d) ==
    /\ delivery[d] = "absent"
    /\ delivery' = [delivery EXCEPT ![d] = "received"]
    /\ UNCHANGED <<attempted, decision, bound, intent, entitlement, audit, profiled, work, faults>>

At(w, phase) == work[w].phase = phase
Handles(w) == work[w].delivery
OrderAt(w) == OrderOf[Handles(w)]

Holds(w, record) == work' = [work EXCEPT ![w] = record]
Go(w, phase) == Holds(w, [work[w] EXCEPT !.phase = phase])
Rest(w) == Holds(w, Resting)

\* Mutant: a failed delivery is not claimed again.
ClaimReceivedOnly(w, d) ==
    /\ At(w, "idle")
    /\ delivery[d] = "received"
    /\ delivery' = [delivery EXCEPT ![d] = "processing"]
    /\ attempted' = [attempted EXCEPT ![d] = TRUE]
    /\ Holds(w, [Resting EXCEPT !.phase = "claimed", !.delivery = d, !.retry = attempted[d]])
    /\ UNCHANGED <<decision, bound, intent, entitlement, audit, profiled, faults>>

\* claimDelivery.
Claim(w, d) ==
    /\ At(w, "idle")
    /\ delivery[d] \in {"received", "failed"}
    /\ delivery' = [delivery EXCEPT ![d] = "processing"]
    /\ attempted' = [attempted EXCEPT ![d] = TRUE]
    /\ Holds(w, [Resting EXCEPT !.phase = "claimed", !.delivery = d, !.retry = attempted[d]])
    /\ UNCHANGED <<decision, bound, intent, entitlement, audit, profiled, faults>>

\* listReclaimableDeliveries takes back a delivery whose lease is over: its
\* worker is gone, or (a fault) is only slow.
LeaseExpires(d) ==
    /\ delivery[d] = "processing"
    /\ IF \E w \in Workers : Handles(w) = d
       THEN faults < MaxFaults /\ faults' = faults + 1
       ELSE UNCHANGED faults
    /\ delivery' = [delivery EXCEPT ![d] = "failed"]
    /\ UNCHANGED <<attempted, decision, bound, intent, entitlement, audit, profiled, work>>

\* markDeliveryProcessed.
Acknowledge(w) ==
    /\ At(w, "acknowledging")
    /\ delivery' = [delivery EXCEPT ![Handles(w)] = "processed"]
    /\ Rest(w)
    /\ UNCHANGED <<attempted, decision, bound, intent, entitlement, audit, profiled, faults>>

\* Mutant: markDeliveryFailed does not look at the status.
FailAnyway(w) ==
    /\ At(w, "failing")
    /\ delivery' = [delivery EXCEPT ![Handles(w)] = "failed"]
    /\ Rest(w)
    /\ UNCHANGED <<attempted, decision, bound, intent, entitlement, audit, profiled, faults>>

\* The catch block: markDeliveryFailed only touches a row still processing.
Fail(w) ==
    /\ At(w, "failing")
    /\ delivery' = IF delivery[Handles(w)] = "processing"
                   THEN [delivery EXCEPT ![Handles(w)] = "failed"]
                   ELSE delivery
    /\ Rest(w)
    /\ UNCHANGED <<attempted, decision, bound, intent, entitlement, audit, profiled, faults>>

\* An awaited call throws: Shopify or the database cannot be reached.  The
\* catch block takes over, and when its own call throws, nobody does.
Throw(w) ==
    /\ ~At(w, "idle")
    /\ At(w, "projecting") => work[w].intent \in Consented
    /\ faults < MaxFaults
    /\ faults' = faults + 1
    /\ IF At(w, "failing") THEN Rest(w) ELSE Go(w, "failing")
    /\ UNCHANGED database

-----------------------------------------------------------------------------
(***************************************************************************)
(* From the claim to a verdict.                                            *)
(***************************************************************************)
\* recordPendingDecision, and the early return for an order that was
\* rejected or put up for review.
RecordPending(w) ==
    /\ At(w, "claimed")
    /\ LET o == OrderAt(w)
           status == IF decision[o] = "none" THEN "pending" ELSE decision[o]
       IN /\ decision' = [decision EXCEPT ![o] = status]
          /\ IF status \in {"pending", "approved"}
             THEN Holds(w, [work[w] EXCEPT !.phase = "reading", !.seen = status])
             ELSE Go(w, "acknowledging")
    /\ UNCHANGED <<delivery, attempted, bound, intent, entitlement, audit, profiled, faults>>

\* Mutant: an order that cannot be correlated is closed without a decision.
FindNothingAndClose(w) ==
    /\ At(w, "reading")
    /\ Go(w, "acknowledging")
    /\ UNCHANGED <<database, faults>>

\* The order read from Shopify is missing or another one, or carries no
\* correlation id that belongs to an intent.
FindNothing(w) ==
    /\ At(w, "reading")
    /\ Holds(w, [work[w] EXCEPT !.phase = "finalizing",
                                !.status = "needs_review", !.intent = NoIntent])
    /\ UNCHANGED <<database, faults>>

\* The order and its intent are found, and the order was approved before.
FindApproved(w) ==
    LET i == IntentOf[OrderAt(w)]
    IN /\ At(w, "reading")
       /\ work[w].seen = "approved"
       /\ i # NoIntent
       /\ IF work[w].retry
          THEN Holds(w, [work[w] EXCEPT !.phase = "projecting", !.intent = i])
          ELSE Go(w, "acknowledging")
       /\ UNCHANGED <<database, faults>>

\* validate() or validateClassPurchase() reads product, customer, division,
\* class and grants outside any transaction, each of which may change at any
\* time, so every verdict is possible.
Validate(w) ==
    LET i == IntentOf[OrderAt(w)]
    IN /\ At(w, "reading")
       /\ work[w].seen = "pending"
       /\ i # NoIntent
       /\ \E verdict \in Decided :
             Holds(w, [work[w] EXCEPT !.phase = "finalizing",
                                      !.status = verdict, !.intent = i])
       /\ UNCHANGED <<database, faults>>

-----------------------------------------------------------------------------
(***************************************************************************)
(* finalizeDecision, one transaction that starts by taking the advisory    *)
(* locks of intent, customer and order.  "lines" are the entitlements it   *)
(* is asked to issue.                                                      *)
(***************************************************************************)
LinesAt(w) == IF work[w].status = "approved" THEN LinesOf[work[w].intent] ELSE {}

ClassLinesAt(w) == IF work[w].intent \in ClassIntents THEN LinesAt(w) ELSE {}

IssuedTo(l, o) == entitlement[l].order = o

\* assertMatchingClassEntitlementReplay throws for an entitlement of this
\* order that is no longer what was bought.
ReplayConflicts(w) ==
    \E l \in ClassLinesAt(w) :
        IssuedTo(l, OrderAt(w)) /\ entitlement[l].status = "changed"

\* "existing" of the first check: the decision stands.
AlreadyDecided(w) ==
    /\ decision[OrderAt(w)] \in Decided
    /\ \A l \in ClassLinesAt(w) : IssuedTo(l, OrderAt(w))

\* Mutant: nobody looks for another order of the same intent.
HeldByNobody(w) == FALSE

\* "correlatedRows": the decision of another order holds this intent.
HeldByAnotherOrder(w) ==
    \E o \in Orders : /\ o # OrderAt(w)
                      /\ bound[o] = work[w].intent
                      /\ bound[o] # NoIntent

\* A unique index refuses a row: the line was issued to another order, or
\* the grant exists already.
LineTaken(w) ==
    \E l \in LinesAt(w) :
        /\ entitlement[l] # NotIssued
        /\ l \in ClassLinesAt(w) => ~IssuedTo(l, OrderAt(w))

\* processDelivery goes on to the customer's profile after an approval.
Answer(w) ==
    /\ delivery' = [delivery EXCEPT ![Handles(w)] = "processed"]
    /\ IF work[w].status = "approved" THEN Go(w, "projecting") ELSE Rest(w)

FinalizeExisting(w) ==
    /\ At(w, "finalizing")
    /\ ~ReplayConflicts(w)
    /\ AlreadyDecided(w) \/ HeldByAnotherOrder(w)
    /\ Answer(w)
    /\ UNCHANGED <<attempted, decision, bound, intent, entitlement, audit, profiled, faults>>

\* Mutant: the entitlement is made to match the replayed purchase.
FinalizeRepairs(w) ==
    /\ At(w, "finalizing")
    /\ ReplayConflicts(w)
    /\ entitlement' = [l \in Lines |-> IF l \in LinesAt(w) THEN Issued(OrderAt(w))
                                        ELSE entitlement[l]]
    /\ Answer(w)
    /\ UNCHANGED <<attempted, decision, bound, intent, audit, profiled, faults>>

FinalizeConflict(w) ==
    /\ At(w, "finalizing")
    /\ \/ ReplayConflicts(w)
       \/ ~AlreadyDecided(w) /\ ~HeldByAnotherOrder(w) /\ LineTaken(w)
    /\ Go(w, "failing")
    /\ UNCHANGED <<database, faults>>

\* Mutant: only one of the lines of a purchase is issued.
DecideOneLine(w, status, lines) ==
    LET o == OrderAt(w)
        i == work[w].intent
    IN /\ \E one \in SUBSET lines :
             /\ lines # {} => one # {}
             /\ entitlement' = [l \in Lines |->
                                  IF l \in one /\ entitlement[l] = NotIssued
                                  THEN Issued(o) ELSE entitlement[l]]
       /\ decision' = [decision EXCEPT ![o] = status]
       /\ bound' = [bound EXCEPT ![o] = i]
       /\ intent' = IF i = NoIntent THEN intent ELSE [intent EXCEPT ![i] = status]
       /\ Answer(w)

\* Issue the entitlements and write the decision and the intent's status.
\* The transaction itself demotes a membership approval to a review when the
\* identity email or a membership of the customer is in the way.
Decide(w, status, lines) ==
    LET o == OrderAt(w)
        i == work[w].intent
    IN /\ entitlement' = [l \in Lines |->
                            IF l \in lines /\ entitlement[l] = NotIssued
                            THEN Issued(o) ELSE entitlement[l]]
       /\ decision' = [decision EXCEPT ![o] = status]
       /\ bound' = [bound EXCEPT ![o] = i]
       /\ intent' = IF i = NoIntent THEN intent ELSE [intent EXCEPT ![i] = status]
       /\ Answer(w)

\* Mutant: the decision that is there already is not looked at.
FinalizeAnyway(w) ==
    /\ At(w, "finalizing")
    /\ ~HeldByAnotherOrder(w)
    /\ ~LineTaken(w)
    /\ Decide(w, work[w].status, LinesAt(w))
    /\ UNCHANGED <<attempted, audit, profiled, faults>>

FinalizeDecision(w) ==
    /\ At(w, "finalizing")
    /\ ~ReplayConflicts(w)
    /\ ~AlreadyDecided(w)
    /\ ~HeldByAnotherOrder(w)
    /\ \/ ~LineTaken(w) /\ Decide(w, work[w].status, LinesAt(w))
       \/ /\ work[w].status = "approved"
          /\ work[w].intent \notin ClassIntents
          /\ Decide(w, "needs_review", {})
    /\ UNCHANGED <<attempted, audit, profiled, faults>>

\* projectConsentedCustomerProfile, last after an approval and, for a retry
\* that finds the order approved, before its markDeliveryProcessed.
ProjectProfile(w) ==
    /\ At(w, "projecting")
    /\ profiled' = profiled \cup ({work[w].intent} \cap Consented)
    /\ IF work[w].seen = "approved" THEN Go(w, "acknowledging") ELSE Rest(w)
    /\ UNCHANGED <<delivery, attempted, decision, bound, intent, entitlement, audit, faults>>

-----------------------------------------------------------------------------
(***************************************************************************)
(* resolveDecisionManually, for an administrator's decline and approve.    *)
(***************************************************************************)
Resolvable(o) == decision[o] \in {"pending", "needs_review"}

Resolve(o, i, status) ==
    /\ decision' = [decision EXCEPT ![o] = status]
    /\ bound' = [bound EXCEPT ![o] = i]
    /\ intent' = IF i = NoIntent THEN intent ELSE [intent EXCEPT ![i] = status]
    /\ audit' = [audit EXCEPT ![o] = status]
    /\ UNCHANGED <<delivery, attempted, profiled, work, faults>>

Decline(o) ==
    /\ Resolvable(o)
    /\ Resolve(o, bound[o], "rejected")
    /\ UNCHANGED entitlement

\* prepareManualApproval validates a membership purchase, which an order for
\* classes never passes; the unique indexes refuse a second grant and a
\* second decision of one intent.
Approve(o) ==
    LET i == IntentOf[o]
    IN /\ Resolvable(o)
       /\ i \in Intents \ ClassIntents
       /\ \A l \in LinesOf[i] : entitlement[l] = NotIssued
       /\ \A other \in Orders \ {o} : bound[other] # i
       /\ Resolve(o, i, "approved")
       /\ entitlement' = [l \in Lines |->
                            IF l \in LinesOf[i] THEN Issued(o) ELSE entitlement[l]]

\* A drop or a transfer (DropTransferService) takes a class entitlement away
\* from what was bought.
ChangeEntitlement(l) ==
    /\ \E i \in ClassIntents : l \in LinesOf[i]
    /\ entitlement[l].status = "confirmed"
    /\ entitlement' = [entitlement EXCEPT ![l].status = "changed"]
    /\ UNCHANGED <<delivery, attempted, decision, bound, intent, audit, profiled, work, faults>>

\* The process stops: every invocation is lost, the database stays.
Crash ==
    /\ Crashes
    /\ \E w \in Workers : ~At(w, "idle")
    /\ faults < MaxFaults
    /\ faults' = faults + 1
    /\ work' = [w \in Workers |-> Resting]
    /\ UNCHANGED database

-----------------------------------------------------------------------------
Step(w) ==
    \/ RecordPending(w) \/ FindNothing(w) \/ FindApproved(w) \/ Validate(w)
    \/ FinalizeExisting(w) \/ FinalizeConflict(w) \/ FinalizeDecision(w)
    \/ ProjectProfile(w) \/ Acknowledge(w) \/ Fail(w)

Next ==
    \/ \E d \in Deliveries : Receive(d) \/ LeaseExpires(d)
    \/ \E w \in Workers, d \in Deliveries : Claim(w, d)
    \/ \E w \in Workers : Step(w) \/ Throw(w)
    \/ \E o \in Orders : Decline(o) \/ Approve(o)
    \/ \E l \in Lines : ChangeEntitlement(l)
    \/ Crash

Spec == Init /\ [][Next]_vars

\* Invocations go on, and the scheduled reconciliation takes back and claims
\* what nobody holds (WebhookIntake shows that it reaches every delivery).
\* What administrators and customers do is not fair.
FairSpec ==
    /\ Spec
    /\ \A w \in Workers : WF_vars(Step(w))
    /\ WF_vars(\E w \in Workers, d \in Deliveries : Claim(w, d))
    /\ \A d \in Deliveries :
          WF_vars(LeaseExpires(d) /\ \A w \in Workers : Handles(w) # d)

-----------------------------------------------------------------------------
TypeOK ==
    /\ delivery \in [Deliveries -> {"absent", "received", "processing", "failed", "processed"}]
    /\ attempted \in [Deliveries -> BOOLEAN]
    /\ decision \in [Orders -> Decided \cup {"none", "pending"}]
    /\ bound \in [Orders -> Intents \cup {NoIntent}]
    /\ intent \in [Intents -> Decided \cup {"open"}]
    /\ entitlement \in [Lines -> Rows]
    /\ audit \in [Orders -> {"none", "approved", "rejected"}]
    /\ profiled \in SUBSET Intents
    /\ work \in [Workers -> WorkRecords]
    /\ faults \in 0..MaxFaults

\* What was issued and what was decided are one: an approved order has every
\* line of its intent, and a line is only ever issued to an approved order
\* that holds its intent.  No interleaving of workers, administrators and
\* crashes leaves an order approved in part, or issued and then decided
\* otherwise.
ApprovedIffIssued ==
    \A o \in Orders :
        /\ decision[o] = "approved" =>
              bound[o] # NoIntent /\ \A l \in LinesOf[bound[o]] : IssuedTo(l, o)
        /\ \A l \in Lines : IssuedTo(l, o) =>
              /\ decision[o] = "approved"
              /\ bound[o] # NoIntent /\ l \in LinesOf[bound[o]]

\* An intent carries the status of the one order whose decision holds it.
IntentFollowsItsOrder ==
    /\ \A o, p \in Orders : bound[o] = bound[p] /\ bound[o] # NoIntent => o = p
    /\ \A i \in Intents : intent[i] # "open" =>
          \E o \in Orders : bound[o] = i /\ decision[o] = intent[i]
    /\ \A o \in Orders : bound[o] # NoIntent => intent[bound[o]] = decision[o]

\* A delivery is closed only when its order is decided, or when another
\* order holds the intent it would be decided about.
ClosedMeansDecided ==
    \A d \in Deliveries : delivery[d] = "processed" =>
        \/ decision[OrderOf[d]] \in Decided
        \/ \E o \in Orders : /\ o # OrderOf[d]
                             /\ bound[o] = IntentOf[OrderOf[d]]
                             /\ bound[o] # NoIntent

\* An approval is never taken back, by a late worker with another verdict or
\* by an administrator who read the decision before.
ApprovalIsFinal ==
    [][\A o \in Orders : decision[o] = "approved" =>
          decision'[o] = "approved" /\ bound'[o] = bound[o]]_vars

\* Once an order is decided, its decision and its intent change in two ways
\* only: an administrator resolves a review, on the record, or a worker that
\* read the order before approves a purchase of classes (finalizeDecision
\* looks for the entitlements, not for the decision).  No other race of
\* workers, replays, rival orders and administrators alters a decision.
DecisionsStand ==
    [][\A o \in Orders : decision[o] \in Decided =>
          \/ decision'[o] = decision[o] /\ bound'[o] = bound[o]
          \/ decision[o] = "needs_review" /\ audit'[o] = decision'[o]
          \/ /\ decision[o] # "approved" /\ decision'[o] = "approved"
             /\ bound'[o] \in ClassIntents]_vars

\* A replayed delivery does not give back what the customer dropped or
\* transferred.
ReplayKeepsChanges ==
    [][\A l \in Lines : entitlement[l].status = "changed" =>
          entitlement'[l] = entitlement[l]]_vars

\* How much of its purchase an order has handed over, whatever became of the
\* entitlements afterwards.
HandedOver(o) ==
    LET issued == {l \in Lines : IssuedTo(l, o)}
    IN IF issued = {} THEN "nothing"
       ELSE IF bound[o] # NoIntent /\ issued = LinesOf[bound[o]] THEN "everything"
       ELSE "part"

Promise == INSTANCE PurchaseDecision WITH
    verdict <- [o \in Orders |-> IF decision[o] \in Decided THEN decision[o] ELSE "pending"],
    purchase <- bound,
    holding <- [o \in Orders |-> HandedOver(o)]

\* Workers, replays, rival orders of one intent, administrators, lost leases
\* and crashes together look like a purchase that is decided in single
\* steps, with everything or nothing handed over.
ImplementsPurchaseDecision == Promise!Spec

\* Workers, lost leases and crashes move a delivery's row the way the intake
\* does (WebhookIntake): only a claimed row is closed, and a closed one is
\* never reopened by a worker whose lease is over.
RowStatus == [d \in Deliveries |-> IF delivery[d] = "absent" THEN "none" ELSE delivery[d]]

Row == INSTANCE DeliveryRow WITH status <- RowStatus

ImplementsDeliveryRow == Row!Spec

\* Every order whose delivery was recorded is decided in the end, in spite
\* of faults and crashes.
EveryPaidOrderIsDecided ==
    \A d \in Deliveries :
        delivery[d] = "received" ~> decision[OrderOf[d]] \in Decided

-----------------------------------------------------------------------------
(***************************************************************************)
(* What the documents and tests say and the code does not do.              *)
(***************************************************************************)
\* "`approved`, `rejected`, and `needs_review` are terminal Festival
\* decisions" (goals/issue-78-shopify-order-projection-entitlement/
\* establish-goals.v2.md:36): here, for a rejection.
RejectionIsFinal ==
    [][\A o \in Orders : decision[o] = "rejected" => decision'[o] = "rejected"]_vars

\* The test "retries a failed consent-profile projection after issuing a
\* grant" (packages/backend/tests/shopify-order-projection.test.ts:432): the
\* profile of a consented purchase that a worker approved is projected in
\* the end.
ConsentedProfileIsProjected ==
    \A o \in Orders :
        decision[o] = "approved" /\ audit[o] = "none" /\ bound[o] \in Consented
            ~> bound[o] \in profiled
=============================================================================
