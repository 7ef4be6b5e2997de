------------------------------ MODULE MCServer ------------------------------
(***************************************************************************)
(* Server for TLC.  One start/stop cycle; connections come without bound.  *)
(***************************************************************************)
EXTENDS Server
=============================================================================
