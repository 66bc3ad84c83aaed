-------------------------- MODULE MCArDetectMarker --------------------------
(* ArDetectMarker with interchangeable patterns, for TLC. *)
EXTENDS ArDetectMarker, TLC

PatternSymmetry == Permutations(Patterns)
=============================================================================
