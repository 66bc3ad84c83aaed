----------------------------- MODULE MCMapData -----------------------------
(* MapData for TLC: key frames and points are interchangeable. *)
EXTENDS MapData, TLC

Symmetry == Permutations(MapPoints) \cup Permutations(KeyFrames)

=============================================================================
