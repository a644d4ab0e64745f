-------------------------- MODULE MCChannelReader --------------------------
(* Instance of ChannelReader for TLC, and the constraint-free bounds.      *)
EXTENDS ChannelReader
=============================================================================
