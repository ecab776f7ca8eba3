--------------------------- MODULE MCRefreshChain ---------------------------
(***************************************************************************)
(* Small instance of RefreshChain for TLC.                                 *)
(***************************************************************************)
EXTENDS RefreshChain, TLC

IdSymmetry == Permutations(Ids)
=============================================================================
