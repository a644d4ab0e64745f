----------------------------- MODULE MCGcQueue -----------------------------
(* Instances of GcQueue for TLC.                                           *)
EXTENDS GcQueue

CONSTANTS o1, o2
=============================================================================
