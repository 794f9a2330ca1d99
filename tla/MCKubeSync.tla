----------------------------- MODULE MCKubeSync -----------------------------
(* Instances of KubeSync for TLC; the bounds are in the configurations.    *)
EXTENDS KubeSync
=============================================================================
