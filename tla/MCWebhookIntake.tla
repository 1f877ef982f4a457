--------------------------- MODULE MCWebhookIntake ---------------------------
(***************************************************************************)
(* WebhookIntake on two deliveries, one of them recorded by the            *)
(* reconciliation only.                                                    *)
(***************************************************************************)
EXTENDS WebhookIntake

\* What listReclaimableDeliveries and listPaidOrdersSince can return: each
\* id once.
FetchedLists ==
    {s \in UNION {[1..n -> Deliveries] : n \in 0..Cardinality(Deliveries)} :
        \A i, j \in DOMAIN s : s[i] = s[j] => i = j}
=============================================================================
