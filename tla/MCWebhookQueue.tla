--------------------------- MODULE MCWebhookQueue ---------------------------
(***************************************************************************)
(* WebhookQueue on four deliveries, two slots, one queue place and two     *)
(* retained ids: the smallest sizes at which an id is refused, retained    *)
(* and promoted while another overflows.                                   *)
(***************************************************************************)
EXTENDS WebhookQueue

\* listReclaimableDeliveries returns every id once.
FetchedLists ==
    {<<>>} \cup {<<d>> : d \in Deliveries}
           \cup {p \in Deliveries \X Deliveries : p[1] # p[2]}
=============================================================================
