---------------------------- MODULE WebhookIntake ----------------------------
(***************************************************************************)
(* From the orders/paid webhook to the end of its processing: the durable  *)
(* row in shopify_webhook_deliveries, the handler that records it, the     *)
(* in-memory queue, the invocations that claim it, the scheduled           *)
(* reconciliation that reclaims what was interrupted, and restarts.        *)
(*                                                                         *)
(*   commerce/shopify-webhook-service.ts                handle, reclaim    *)
(*   commerce/postgres-membership-commerce-repository.ts   the row         *)
(*   commerce/shopify-order-projection-service.ts       processDelivery,   *)
(*                                                      reconcile          *)
(*                                                                         *)
(* What processing a delivery does to the order is OrderProjection; here   *)
(* it succeeds or fails.                                                   *)
(***************************************************************************)
EXTENDS Naturals, Sequences, FiniteSets

CONSTANTS
    Deliveries, Concurrency, MaxBacklog, MaxPendingRecovery, MaxCopies,
    MaxDrains, ReclaimBatches,
    Reconciled,     \* deliveries that reconcile() records for the paid orders it finds
    MaxOutlived,    \* bound: leases (DELIVERY_PROCESSING_LEASE_MS) that run out while a
                    \* delivery is worked on; 0 when no handler is slower than its lease
    MaxDuplicates,  \* bound: webhook requests for a recorded delivery
    MaxFailures,    \* bound: failed attempts per delivery
    MaxRestarts     \* bound: process restarts

ASSUME IntakeBounds ==
    /\ MaxOutlived \in Nat /\ Reconciled \subseteq Deliveries
    /\ MaxDuplicates \in Nat /\ MaxFailures \in Nat /\ MaxRestarts \in Nat

\* What WebhookQueue assumes of the constants it shares.
ASSUME QueueLimits ==
    /\ Concurrency \in Nat \ {0} /\ MaxBacklog \in Nat \ {0}
    /\ MaxPendingRecovery \in Nat \ {0}
    /\ ReclaimBatches \subseteq Seq(Deliveries)
    /\ MaxCopies \in Nat /\ MaxDrains \in Nat
    /\ IsFiniteSet(Deliveries)

VARIABLES
    queue, activeIds, pendingRecoveryIds, running, drainResolvers,
    status,     \* status column of the delivery row, "none" before it exists
    expired,    \* rows whose processing_started_at is older than the lease
    arrived,    \* recorded ids in received_at order
    responding, \* responding[d]: what handle() will schedule after its await on recordDelivery
    claimed,    \* claimed[d]: invocations between claimDelivery and their last write
    returning,  \* returning[d]: invocations after that write, before runWorker's finally
    round,      \* ids the reconciliation still has to process
    holding,    \* TRUE while the reconciliation has claimed the first of them
    fetched,    \* ids read by reclaimOrganizationPending and not enqueued yet
    phase,      \* what the reconciliation is doing
    outlived,   \* outlived[d]: leases of d that ran out while somebody worked on it
    duplicates, failures, restarts  \* counters behind the other three bounds

queueVars == <<queue, activeIds, pendingRecoveryIds, running, drainResolvers>>
reconcileVars == <<round, holding, fetched, phase>>
counters == <<outlived, duplicates, failures, restarts>>
vars == <<queueVars, status, expired, arrived, responding, claimed, returning,
          reconcileVars, counters>>

Q == INSTANCE WebhookQueue

Statuses == {"none", "received", "processing", "failed", "processed"}

\* The two statuses claimDelivery accepts.
Claimable == {"received", "failed"}

Elements(s) == {s[i] : i \in 1..Len(s)}

-----------------------------------------------------------------------------
Init ==
    /\ Q!Init
    /\ status = [d \in Deliveries |-> "none"]
    /\ expired = {}
    /\ arrived = <<>>
    /\ responding = [d \in Deliveries |-> {}]
    /\ claimed = [d \in Deliveries |-> 0]
    /\ returning = [d \in Deliveries |-> 0]
    /\ round = <<>>
    /\ holding = FALSE
    /\ fetched = <<>>
    /\ phase = "asleep"
    /\ outlived = [d \in Deliveries |-> 0]
    /\ duplicates = 0
    /\ failures = [d \in Deliveries |-> 0]
    /\ restarts = 0

(***************************************************************************)
(* handle() up to its await on recordDelivery, for a request that passed   *)
(* the signature checks.  The first request inserts the row; a later one   *)
(* reads it, and the status it read is what the code after the await sees. *)
(***************************************************************************)
Receive(d) ==
    /\ d \notin Reconciled
    /\ IF status[d] = "none"
       THEN /\ status' = [status EXCEPT ![d] = "received"]
            /\ arrived' = Append(arrived, d)
            /\ responding' = [responding EXCEPT ![d] = @ \cup {"accepted"}]
            /\ UNCHANGED duplicates
       ELSE /\ duplicates < MaxDuplicates
            /\ duplicates' = duplicates + 1
            /\ responding' = [responding EXCEPT ![d] =
                  IF status[d] \in Claimable THEN @ \cup {"duplicate"} ELSE @]
            /\ UNCHANGED <<status, arrived>>
    /\ UNCHANGED <<queueVars, expired, claimed, returning, reconcileVars, outlived, failures,
                   restarts>>

\* The rest of handle(): an accepted delivery is scheduled without a look
\* at the queue, a duplicate only when it is neither queued nor active.
Schedule(d, kind) ==
    /\ kind \in responding[d]
    /\ Q!Copies(d) < MaxCopies
    /\ responding' = [responding EXCEPT ![d] = @ \ {kind}]
    /\ IF kind = "accepted" \/ ~Q!IsQueuedOrActive(d)
       THEN Q!Enqueue(d, TRUE)
       ELSE UNCHANGED queueVars
    /\ UNCHANGED <<status, expired, arrived, claimed, returning, reconcileVars, counters>>

-----------------------------------------------------------------------------
\* The UPDATE of claimDelivery: it also stamps processing_started_at.
StartProcessing(d) ==
    /\ status' = [status EXCEPT ![d] = "processing"]
    /\ expired' = expired \ {d}

\* Mutant: claimDelivery claims whatever is not processed yet.
ClaimUnfinished(d) ==
    /\ running[d] > claimed[d] + returning[d]
    /\ IF status[d] # "processed"
       THEN /\ StartProcessing(d)
            /\ claimed' = [claimed EXCEPT ![d] = @ + 1]
            /\ UNCHANGED returning
       ELSE /\ returning' = [returning EXCEPT ![d] = @ + 1]
            /\ UNCHANGED <<status, expired, claimed>>
    /\ UNCHANGED <<queueVars, arrived, responding, reconcileVars, counters>>

\* claimDelivery by a queued invocation.  One that finds the row taken
\* goes on to return "skipped".
Claim(d) ==
    /\ running[d] > claimed[d] + returning[d]
    /\ IF status[d] \in Claimable
       THEN /\ StartProcessing(d)
            /\ claimed' = [claimed EXCEPT ![d] = @ + 1]
            /\ UNCHANGED returning
       ELSE /\ returning' = [returning EXCEPT ![d] = @ + 1]
            /\ UNCHANGED <<status, expired, claimed>>
    /\ UNCHANGED <<queueVars, arrived, responding, reconcileVars, counters>>

\* markDeliveryProcessed, alone or inside finalizeDecision: unconditional.
MarkProcessed(d) == status' = [status EXCEPT ![d] = "processed"]

\* Mutant of markDeliveryFailed: without "AND status = 'processing'".
MarkFailedAlways(d) == status' = [status EXCEPT ![d] = "failed"]

\* markDeliveryFailed: WHERE id = $6 AND status = 'processing'.
MarkFailed(d) ==
    status' = [status EXCEPT ![d] = IF @ = "processing" THEN "failed" ELSE @]

\* The last write of processDelivery.
Finish(d) ==
    /\ claimed[d] > 0
    /\ claimed' = [claimed EXCEPT ![d] = @ - 1]
    /\ returning' = [returning EXCEPT ![d] = @ + 1]
    /\ \/ MarkProcessed(d) /\ UNCHANGED failures
       \/ /\ failures[d] < MaxFailures
          /\ failures' = [failures EXCEPT ![d] = @ + 1]
          /\ MarkFailed(d)
    /\ UNCHANGED <<queueVars, expired, arrived, responding, reconcileVars, outlived,
                   duplicates, restarts>>

\* Mutant: the slot is freed without a dispatch.
ReturnOnly(d) ==
    /\ returning[d] > 0
    /\ returning' = [returning EXCEPT ![d] = @ - 1]
    /\ running' = [running EXCEPT ![d] = @ - 1]
    /\ activeIds' = activeIds \ {d}
    /\ UNCHANGED <<queue, pendingRecoveryIds, drainResolvers>>
    /\ UNCHANGED <<status, expired, arrived, responding, claimed, reconcileVars, counters>>

\* runWorker's finally block.
Return(d) ==
    /\ returning[d] > 0
    /\ returning' = [returning EXCEPT ![d] = @ - 1]
    /\ Q!Complete(d)
    /\ UNCHANGED <<status, expired, arrived, responding, claimed, reconcileVars, counters>>

-----------------------------------------------------------------------------
HasHolder(d) == claimed[d] > 0 \/ (holding /\ d = Head(round))

\* Fifteen minutes pass since the claim: a restart interrupted the work, or
\* somebody is still at it.
LeaseExpires(d) ==
    /\ status[d] = "processing" /\ d \notin expired
    /\ IF HasHolder(d)
       THEN outlived[d] < MaxOutlived /\ outlived' = [outlived EXCEPT ![d] = @ + 1]
       ELSE UNCHANGED outlived
    /\ expired' = expired \cup {d}
    /\ UNCHANGED <<queueVars, status, arrived, responding, claimed, returning,
                   reconcileVars, duplicates, failures, restarts>>

\* Mutant of listReclaimableDeliveries: stale claims are left alone.
ReclaimableFresh ==
    [statuses |-> status, ids |-> SelectSeq(arrived, LAMBDA d : status[d] \in Claimable)]

\* listReclaimableDeliveries: stale claims become failed, then what can be
\* claimed is listed by arrival.
Reclaimable ==
    LET now == [d \in Deliveries |->
                   IF status[d] = "processing" /\ d \in expired THEN "failed" ELSE status[d]]
    IN [statuses |-> now, ids |-> SelectSeq(arrived, LAMBDA d : now[d] \in Claimable)]

FirstOf(limit, s) == SubSeq(s, 1, IF Len(s) <= limit THEN Len(s) ELSE limit)

\* reconcile() starts: its limit is 50 deliveries, more than there are here.
StartRound ==
    /\ phase = "asleep"
    /\ phase' = "processing"
    /\ status' = Reclaimable.statuses
    /\ round' = Reclaimable.ids /\ round' \in ReclaimBatches
    /\ UNCHANGED <<queueVars, expired, arrived, responding, claimed, returning, holding,
                   fetched, counters>>

\* listPaidOrdersSince(), after the interrupted deliveries: each paid order
\* has a delivery of its own.  Shopify may be out of reach.
Discover ==
    /\ phase = "processing" /\ round = <<>> /\ ~holding
    /\ \/ /\ \E found \in ReclaimBatches :
                Elements(found) \subseteq Reconciled /\ round' = found
          /\ phase' = "discovering"
       \/ phase' = "asleep" /\ UNCHANGED round
    /\ UNCHANGED <<queueVars, status, expired, arrived, responding, claimed, returning,
                   holding, fetched, counters>>

\* recordDelivery for the next order found.
RoundRecord ==
    /\ phase = "discovering" /\ round # <<>> /\ status[Head(round)] = "none"
    /\ status' = [status EXCEPT ![Head(round)] = "received"]
    /\ arrived' = Append(arrived, Head(round))
    /\ UNCHANGED <<queueVars, expired, responding, claimed, returning, reconcileVars, counters>>

\* processDelivery called by reconcile() itself, outside the queue.
RoundClaim ==
    /\ phase \in {"processing", "discovering"} /\ round # <<>> /\ ~holding
    /\ status[Head(round)] # "none"
    /\ IF status[Head(round)] \in Claimable
       THEN /\ StartProcessing(Head(round))
            /\ holding' = TRUE
            /\ UNCHANGED round
       ELSE /\ round' = Tail(round)
            /\ UNCHANGED <<status, expired, holding>>
    /\ UNCHANGED <<queueVars, arrived, responding, claimed, returning, fetched,
                   phase, counters>>

\* A result of "failed" makes reconcile() throw: the rest of the round and
\* the reclaim after it do not happen.
RoundFinish ==
    LET d == Head(round)
    IN /\ holding
       /\ holding' = FALSE
       /\ \/ /\ MarkProcessed(d)
             /\ round' = Tail(round)
             /\ UNCHANGED <<phase, failures>>
          \/ /\ failures[d] < MaxFailures
             /\ failures' = [failures EXCEPT ![d] = @ + 1]
             /\ MarkFailed(d)
             /\ round' = <<>>
             /\ phase' = "asleep"
       /\ UNCHANGED <<queueVars, expired, arrived, responding, claimed, returning, fetched,
                      outlived, duplicates, restarts>>

EndRound ==
    /\ phase = "discovering" /\ round = <<>> /\ ~holding
    /\ phase' = "reclaiming"
    /\ UNCHANGED <<queueVars, status, expired, arrived, responding, claimed, returning,
                   round, holding, fetched, counters>>

\* reclaimOrganizationPending: the query, then the loop after its await.
ReclaimFetch ==
    /\ phase = "reclaiming"
    /\ phase' = "enqueuing"
    /\ status' = Reclaimable.statuses
    /\ fetched' = FirstOf(MaxBacklog, Reclaimable.ids) /\ fetched' \in ReclaimBatches
    /\ UNCHANGED <<queueVars, expired, arrived, responding, claimed, returning, round,
                   holding, counters>>

ReclaimEnqueue ==
    /\ phase = "enqueuing"
    /\ Q!ReclaimLoop(fetched)
    /\ fetched' = <<>>
    /\ phase' = "asleep"
    /\ UNCHANGED <<status, expired, arrived, responding, claimed, returning, round,
                   holding, counters>>

-----------------------------------------------------------------------------
\* Everything but the delivery rows is lost.
Restart ==
    /\ restarts < MaxRestarts
    /\ restarts' = restarts + 1
    /\ Q!Restart
    /\ responding' = [d \in Deliveries |-> {}]
    /\ claimed' = [d \in Deliveries |-> 0]
    /\ returning' = [d \in Deliveries |-> 0]
    /\ round' = <<>> /\ fetched' = <<>> /\ holding' = FALSE /\ phase' = "asleep"
    /\ UNCHANGED <<status, expired, arrived, outlived, duplicates, failures>>

Reconcile ==
    \/ StartRound \/ Discover \/ RoundRecord \/ RoundClaim \/ RoundFinish
    \/ EndRound \/ ReclaimFetch \/ ReclaimEnqueue

Work(d) == Claim(d) \/ Finish(d) \/ Return(d)

Next ==
    \/ \E d \in Deliveries : Receive(d) \/ Work(d) \/ LeaseExpires(d)
    \/ \E d \in Deliveries, kind \in {"accepted", "duplicate"} : Schedule(d, kind)
    \/ Reconcile
    \/ Restart

Spec == Init /\ [][Next]_vars

(***************************************************************************)
(* Invocations return, and the scheduler goes on calling reconciliation.   *)
(* Requests may never come and restarts never happen; a queued handler of  *)
(* a request is a continuation the event loop runs.                        *)
(***************************************************************************)
FairSpec ==
    /\ Spec
    /\ WF_vars(Reconcile)
    /\ \A d \in Deliveries :
          /\ WF_vars(Work(d))
          /\ WF_vars(LeaseExpires(d))
          /\ WF_vars(\E kind \in {"accepted", "duplicate"} : Schedule(d, kind))

-----------------------------------------------------------------------------
\* The types of the queue's variables are WebhookQueue's.
TypeOK ==
    /\ status \in [Deliveries -> Statuses]
    /\ expired \in SUBSET Deliveries
    /\ arrived \in Seq(Deliveries)
    /\ responding \in [Deliveries -> SUBSET {"accepted", "duplicate"}]
    /\ claimed \in [Deliveries -> Nat] /\ returning \in [Deliveries -> Nat]
    /\ round \in Seq(Deliveries) /\ fetched \in Seq(Deliveries)
    /\ holding \in BOOLEAN
    /\ phase \in {"asleep", "processing", "discovering", "reclaiming", "enqueuing"}
    /\ outlived \in [Deliveries -> Nat]
    /\ duplicates \in Nat /\ failures \in [Deliveries -> Nat]
    /\ restarts \in Nat

\* Queue invocations and reconciliation together work on a delivery once at
\* a time, in spite of duplicate requests, double scheduling, reclaims and
\* restarts.  Every lease that runs out under a slow handler lets one more
\* in, and nothing else does.
Holders(d) == claimed[d] + (IF holding /\ d = Head(round) THEN 1 ELSE 0)

ClaimIsExclusive == \A d \in Deliveries : Holders(d) <= 1 + outlived[d]

\* "processed" is final: a slow invocation, a late failure or a reclaim
\* never reopens a delivery another invocation has finished.
ProcessedIsFinal ==
    [][\A d \in Deliveries :
          status[d] = "processed" => status'[d] = "processed"]_vars

\* Handlers, reconciliation, leases that run out under either, and restarts
\* together move each row through its life: it is recorded once, worked on
\* only after a claim, closed by a claimant, and never reopened, although
\* the statement that closes a row does not look at it.
Row == INSTANCE DeliveryRow

ImplementsDeliveryRow == Row!Spec

\* The intake drives the queue only through its methods, so the theorems
\* about WebhookQueue hold here too.
DrivesTheQueue == Q!Spec

\* A recorded delivery is processed in the end, whatever the queue refused
\* and however often the process stopped: the row, and not the queue, is
\* what the reconciliation works from.
EveryRecordedDeliveryIsProcessed ==
    \A d \in Deliveries : status[d] # "none" ~> status[d] = "processed"
=============================================================================
