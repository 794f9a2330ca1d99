----------------------------- MODULE MCExchange -----------------------------
(* Instances of Exchange for TLC; the bounds are in the configuration.     *)
EXTENDS Exchange
=============================================================================
