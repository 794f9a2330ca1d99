---------------------------- MODULE MCSessionLoop ----------------------------
(* Instances of SessionLoop for TLC; the bounds are in the configurations. *)
EXTENDS SessionLoop
=============================================================================
