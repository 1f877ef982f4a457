-------------------------- MODULE MCOrganizationAccess --------------------------
(***************************************************************************)
(* OrganizationAccess with a founder and an invited person who also helps  *)
(* at a festival, in one organization, with two requests at a time.        *)
(***************************************************************************)
EXTENDS OrganizationAccess

CONSTANTS u1, o1, f1, t1, r1, r2, round, admin, other, none
=============================================================================
