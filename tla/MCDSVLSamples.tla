---------------------------- MODULE MCDSVLSamples ----------------------------
(* DSVLSamples with interchangeable clients, for TLC. *)
EXTENDS DSVLSamples, TLC

ClientSymmetry == Permutations(Clients)
=============================================================================
