-------------------------- MODULE MCOrderProjection --------------------------
(***************************************************************************)
(* Small instances of OrderProjection.                                     *)
(***************************************************************************)
EXTENDS OrderProjection, TLC

CONSTANTS w1, w2, d1, d2, d3, o1, o2, class, member, l1, l2, l3

\* Two deliveries of one order and one delivery of another.
ReplayedOrders == d1 :> o1 @@ d2 :> o1 @@ d3 :> o2

\* One order reported twice, and two orders reported once.
OneOrder == d1 :> o1 @@ d2 :> o1
OneEach == d1 :> o1 @@ d2 :> o2

\* Both orders carry the correlation id of one intent: its cart was paid twice.
OneClassIntent == o1 :> class @@ o2 :> class

\* Each order has an intent of its own.
TwoIntents == o1 :> class @@ o2 :> member
ClassAndMembership == class :> {l1} @@ member :> {l3}

\* There is one order only.
ClassOrder == o1 :> class

OneLine == class :> {l1}
TwoLines == class :> {l1, l2}

Symmetry == Permutations(Workers)
=============================================================================
