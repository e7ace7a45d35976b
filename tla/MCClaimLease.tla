----------------------------- MODULE MCClaimLease -----------------------------
(* Instances of ClaimLease for TLC. *)
EXTENDS ClaimLease
=============================================================================
