----------------------------- MODULE MCSession ------------------------------
(***************************************************************************)
(* Session for TLC: a few browsers, sessions and requests at once.         *)
(***************************************************************************)
EXTENDS Session, TLC

SessionSymmetry == Permutations(Browsers) \cup Permutations(Requests) \cup Permutations(Sids)
                   \cup Permutations(Tokens) \cup Permutations(Users) \cup Permutations(Ids)
=============================================================================
