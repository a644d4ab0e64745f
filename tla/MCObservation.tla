--------------------------- MODULE MCObservation ---------------------------
(* The orders of No_Look.py, with two joints.                              *)
EXTENDS Observation

NoLookWrites == <<"low_state", "buttons", "lx", "rx", "ry", "ly">>

NoLookReads == <<"low_state", "low_state", "ly", "lx", "rx",
                 "low_state", "low_state", "low_state", "low_state">>
=============================================================================
