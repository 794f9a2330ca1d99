----------------------------- MODULE MCContainer -----------------------------
(* Instances of Container for TLC; the bounds are in the configurations.   *)
EXTENDS Container
=============================================================================
