-------------------------- MODULE MCRedisDatabase ---------------------------
(***************************************************************************)
(* RedisDatabase for TLC: a few coroutines and commands per callback.      *)
(***************************************************************************)
EXTENDS RedisDatabase
=============================================================================
