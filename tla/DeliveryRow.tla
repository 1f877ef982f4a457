----------------------------- MODULE DeliveryRow -----------------------------
(***************************************************************************)
(* The life of a row of shopify_webhook_deliveries, without those who      *)
(* write it.  It is recorded once, claimed when it is new or has failed,   *)
(* closed only after it was claimed, and never touched again once it is    *)
(* closed.  claimDelivery and markDeliveryFailed check the status they     *)
(* find; markDeliveryProcessed and the transactions of finalizeDecision    *)
(* write "processed" whatever they find, so that closing has the guard it  *)
(* has here is up to their callers.                                        *)
(*                                                                         *)
(* WebhookIntake, which has the handlers, the queue and the                *)
(* reconciliation, and OrderProjection, which has the workers' decisions,  *)
(* both implement this specification: that is where the two models meet.   *)
(***************************************************************************)
CONSTANT Deliveries

VARIABLE status

Init == status = [d \in Deliveries |-> "none"]

Record(d) ==
    /\ status[d] = "none"
    /\ status' = [status EXCEPT ![d] = "received"]

Claim(d) ==
    /\ status[d] \in {"received", "failed"}
    /\ status' = [status EXCEPT ![d] = "processing"]

\* By a worker that claimed the row, even if its lease ran out since.
Close(d) ==
    /\ status[d] \in {"processing", "failed"}
    /\ status' = [status EXCEPT ![d] = "processed"]

\* One worker fails, or one query takes back every row whose lease is over.
Release(rows) ==
    /\ \A d \in rows : status[d] = "processing"
    /\ status' = [d \in Deliveries |-> IF d \in rows THEN "failed" ELSE status[d]]

Next ==
    \/ \E d \in Deliveries : Record(d) \/ Claim(d) \/ Close(d)
    \/ \E rows \in SUBSET Deliveries : Release(rows)

Spec == Init /\ [][Next]_status
=============================================================================
