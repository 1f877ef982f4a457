---------------------------- MODULE MCBillingLedger ----------------------------
(***************************************************************************)
(* BillingLedger with two customers and inputs that share one reference:   *)
(* credit for it, the same without a type of reference, the same for the   *)
(* other customer, a charge without reference and a refund of a decision.  *)
(***************************************************************************)
EXTENDS BillingLedger

CONSTANTS c1, c2, r1, r2, r3, ref, none

MCInput(c, type, cents, reference, kind) ==
    [customer |-> c, type |-> type, cents |-> cents, reference |-> reference,
     referenceType |-> kind, direction |-> "default", approved |-> TRUE]

MCInputs ==
    {MCInput(c1, "credit_issue", 2, ref, "order"),
     MCInput(c1, "credit_issue", 1, ref, "none"),
     MCInput(c1, "refund", 2, ref, "decision"),
     MCInput(c1, "credit_apply", 1, none, "none"),
     MCInput(c2, "credit_issue", 2, ref, "order"),
     [MCInput(c2, "write_off", 2, none, "none") EXCEPT !.direction = "inflow"],
     [MCInput(c2, "refund", 2, ref, "decision") EXCEPT !.approved = FALSE]}
=============================================================================
