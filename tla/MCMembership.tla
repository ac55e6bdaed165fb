--------------------------- MODULE MCMembership ---------------------------
(* Membership on a small instance.                                          *)
EXTENDS Membership
=============================================================================
