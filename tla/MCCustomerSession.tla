---------------------------- MODULE MCCustomerSession ----------------------------
(***************************************************************************)
(* CustomerSession with two requests, one state that two callbacks may     *)
(* follow, two saves of the credentials and two refreshes of a session.    *)
(***************************************************************************)
EXTENDS CustomerSession

CONSTANTS s1, s2, a1, r1, r2, none
=============================================================================
