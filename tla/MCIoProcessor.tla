---------------------------- MODULE MCIoProcessor ----------------------------
(***************************************************************************)
(* IoProcessor for TLC.                                                    *)
(***************************************************************************)
EXTENDS IoProcessor
=============================================================================
