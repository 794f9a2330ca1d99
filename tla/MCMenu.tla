------------------------------- MODULE MCMenu -------------------------------
(* An instance of Menu for TLC: two clusters, of which the second comes     *)
(* first in the order of the store.                                        *)
EXTENDS Menu, TLC

RankOf == 1 :> 1 @@ 2 :> 1 @@ 3 :> 2 @@ 4 :> 2 @@ 5 :> 2 @@ 6 :> 1
FindsOf == "" :> Pods @@ "odd" :> {1, 3, 5} @@ "one" :> {3} @@ "none" :> {}
=============================================================================
