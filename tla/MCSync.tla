------------------------------- MODULE MCSync -------------------------------
(***************************************************************************)
(* Sync for TLC.  Every variable ranges over a finite set, so the state    *)
(* space is finite without bounds.                                         *)
(***************************************************************************)
EXTENDS Sync, TLC

\* io threads are interchangeable; used by the runs without liveness only.
ThreadSymmetry == Permutations(Threads)
=============================================================================
