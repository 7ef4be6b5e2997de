---------------------------- MODULE MCAsyncMutex ----------------------------
(***************************************************************************)
(* AsyncMutex for TLC: a handful of client coroutines.  The state space is *)
(* finite without bounds, since a client has at most one request at a time.*)
(***************************************************************************)
EXTENDS AsyncMutex
=============================================================================
