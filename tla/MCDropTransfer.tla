--------------------------- MODULE MCDropTransfer ---------------------------
(***************************************************************************)
(* Instance of DropTransfer: a class a with one seat, one registration in  *)
(* it and two waiting, and a class b with one seat that is free.           *)
(***************************************************************************)
EXTENDS DropTransfer, TLC

CONSTANTS a, b, x1, x2, x3

OneSeatEach == a :> 1 @@ b :> 1
Bought == x1 :> a @@ x2 :> a @@ x3 :> a
Arrival == x1 :> 1 @@ x2 :> 2 @@ x3 :> 3

Slots == Permutations(Requests)
=============================================================================
