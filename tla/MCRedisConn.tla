----------------------------- MODULE MCRedisConn -----------------------------
(* Small instances of RedisConn. *)
EXTENDS RedisConn, TLC

CONSTANTS w1, w2
=============================================================================
