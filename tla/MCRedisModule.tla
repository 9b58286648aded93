--------------------------- MODULE MCRedisModule ---------------------------
(***************************************************************************)
(* Instances of RedisModule for TLC.                                       *)
(***************************************************************************)
EXTENDS RedisModule
=============================================================================
