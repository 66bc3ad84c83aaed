----------------------------- MODULE MCCmdrIsoch -----------------------------
(* CmdrIsoch with interchangeable requests, for TLC. *)
EXTENDS CmdrIsoch, TLC

RequestSymmetry == Permutations(Requests)
=============================================================================
