--------------------------- MODULE CreditAccounts ---------------------------
(***************************************************************************)
(* What the billing ledger promises, without its requests, locks,          *)
(* transactions and failures: an adjustment is applied in one step, or not *)
(* at all.  It changes the credit of its customer and nothing else, it     *)
(* never takes it out of its bounds, and it is refused once an adjustment  *)
(* it repeats has been applied.                                            *)
(*                                                                         *)
(* BillingLedger implements this specification.                            *)
(***************************************************************************)
EXTENDS Integers

CONSTANTS
    Customers,
    Adjustments,
    CustomerOf,     \* CustomerOf[a]: whose credit adjustment a changes
    Effect,         \* Effect[a]: by how much
    Limit,          \* the largest credit
    Repeats,        \* the pairs <<a, e>>: a repeats e if both are of one customer
    Duplicates      \* the pairs <<a, e>>: a repeats e whosoever they are

VARIABLES
    credit,         \* credit[c]: the credit of customer c
    applied         \* applied[c]: the adjustments of c that were applied

vars == <<credit, applied>>

Init ==
    /\ credit = [c \in Customers |-> 0]
    /\ applied = [c \in Customers |-> {}]

Apply(a) ==
    LET c == CustomerOf[a] IN
    /\ credit[c] + Effect[a] \in 0..Limit
    /\ \A e \in applied[c] : <<a, e>> \notin Repeats
    /\ \A d \in Customers : \A e \in applied[d] : <<a, e>> \notin Duplicates
    /\ credit' = [credit EXCEPT ![c] = @ + Effect[a]]
    /\ applied' = [applied EXCEPT ![c] = @ \cup {a}]

Next == \E a \in Adjustments : Apply(a)

Spec == Init /\ [][Next]_vars
=============================================================================
