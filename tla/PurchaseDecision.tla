--------------------------- MODULE PurchaseDecision ---------------------------
(***************************************************************************)
(* What the projection of paid orders promises, without its workers,       *)
(* deliveries, retries and transactions.  An order is pending until it is  *)
(* decided in one step, about one purchase (a checkout intent) that no     *)
(* other order has.  An approval hands over everything that was bought in  *)
(* the same step, and nothing follows it.  A rejection and a review may be *)
(* decided again, by an administrator or by a worker that read the order   *)
(* before.                                                                 *)
(*                                                                         *)
(* OrderProjection implements this specification.                          *)
(***************************************************************************)
CONSTANTS Orders, Intents, NoIntent

VARIABLES
    verdict,    \* verdict[o]: what was decided about order o, "pending" at first
    purchase,   \* purchase[o]: the intent that decision is about, or NoIntent
    holding     \* holding[o]: how much of its purchase the order has handed over

vars == <<verdict, purchase, holding>>

Verdicts == {"approved", "rejected", "needs_review"}

Init ==
    /\ verdict = [o \in Orders |-> "pending"]
    /\ purchase = [o \in Orders |-> NoIntent]
    /\ holding = [o \in Orders |-> "nothing"]

\* A decision that names no purchase can only be a refusal, and does not
\* forget a purchase named before.
NamesNothing(o, i, v) ==
    /\ i = NoIntent
    /\ v # "approved"
    /\ purchase[o] = NoIntent

NamesItsOwn(o, i) ==
    /\ i \in Intents
    /\ purchase[o] \in {NoIntent, i}
    /\ \A p \in Orders \ {o} : purchase[p] # i

Decide(o, i, v) ==
    /\ verdict[o] # "approved"
    /\ NamesNothing(o, i, v) \/ NamesItsOwn(o, i)
    /\ verdict' = [verdict EXCEPT ![o] = v]
    /\ purchase' = [purchase EXCEPT ![o] = i]
    /\ holding' = [holding EXCEPT ![o] = IF v = "approved" THEN "everything" ELSE "nothing"]

Next == \E o \in Orders, i \in Intents \cup {NoIntent}, v \in Verdicts : Decide(o, i, v)

Spec == Init /\ [][Next]_vars
=============================================================================
