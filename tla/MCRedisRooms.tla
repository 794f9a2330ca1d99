---------------------------- MODULE MCRedisRooms ----------------------------
(* An instance of RedisRooms for TLC: two guests, who ask on one manager or *)
(* on two.                                                                  *)
EXTENDS RedisRooms, TLC

CONSTANTS m1, m2, g1, g2

ReachOf == g1 :> {m1} @@ g2 :> {m1, m2}
=============================================================================
