----------------------------- MODULE MCTracker -----------------------------
(* Tracker with interchangeable points, for TLC. *)
EXTENDS Tracker, TLC

PointSymmetry == Permutations(Points)
=============================================================================
