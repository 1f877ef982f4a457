----------------------------- MODULE MCCheckout -----------------------------
(***************************************************************************)
(* Checkout with a membership and a recovery link of it that two sessions  *)
(* may follow.  Each of the three keys may be requested any number of      *)
(* times, two requests at a time.                                          *)
(***************************************************************************)
EXTENDS Checkout, TLC

CONSTANTS member1, link1, link2, r1, r2, t1

MCLinkOf == [k \in Keys |-> IF k \in {link1, link2} THEN t1 ELSE NoLink]

MCSourceOf == [t \in Links |-> member1]

\* The two sessions are alike, and so are the request slots.
Symmetry == Permutations(Requests) \cup Permutations({link1, link2})
=============================================================================
