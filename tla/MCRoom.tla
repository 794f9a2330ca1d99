------------------------------- MODULE MCRoom -------------------------------
(* Instances of Room for TLC: two connections, two broadcasters.           *)
EXTENDS Room, TLC

Symmetry == Permutations(Conns) \cup Permutations(Senders)
=============================================================================
