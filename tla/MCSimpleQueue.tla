--------------------------- MODULE MCSimpleQueue ---------------------------
(* The instance of SimpleQueue for TLC: its cfg gives the constants values. *)
EXTENDS SimpleQueue
=============================================================================
