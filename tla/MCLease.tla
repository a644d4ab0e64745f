------------------------------ MODULE MCLease ------------------------------
(* Instances of Lease for TLC.                                             *)
EXTENDS Lease
=============================================================================
