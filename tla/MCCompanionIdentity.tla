------------------------- MODULE MCCompanionIdentity -------------------------
(* Up to two tabs of a user, through up to three pairing keys.             *)
EXTENDS CompanionIdentity
=============================================================================
