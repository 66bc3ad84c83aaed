---------------------------- MODULE MapLifecycle ----------------------------
(***************************************************************************)
(* What PTAM's tracker and map maker promise each other about the map that *)
(* they share: the map is built from nothing while no reset is under way,  *)
(* only grows while the tracker runs, and is taken apart only between the  *)
(* tracker asking for a reset and being told that the reset is done.       *)
(* PTAMThreads implements it with unlocked flags.                          *)
(***************************************************************************)
VARIABLES map,    \* no map, one being built or taken apart, a good one
          reset   \* the tracker runs, has asked for a reset, has been answered

vars == <<map, reset>>

TypeOK == /\ map \in {"none", "partial", "good"}
          /\ reset \in {"running", "asked", "done"}

\* The tracker's constructor asks for a reset.
Init == map = "none" /\ reset = "asked"

\* Tracker::Reset() calls RequestReset().
RequestReset == reset = "running" /\ reset' = "asked" /\ UNCHANGED map

\* MapMaker::Reset() starts to take a good map apart ...
Dismantle == reset = "asked" /\ map = "good" /\ map' = "partial" /\ UNCHANGED reset

\* ... drops what is left ...
Clear == reset = "asked" /\ map = "partial" /\ map' = "none" /\ UNCHANGED reset

\* ... and answers only when nothing is left.
ResetDone == reset = "asked" /\ map = "none" /\ reset' = "done" /\ UNCHANGED map

\* Tracker::Reset() returns.
ResetReturns == reset = "done" /\ reset' = "running" /\ UNCHANGED map

\* MapMaker::InitFromStereo() makes a map of two key frames ...
StartMap == reset = "running" /\ map = "none" /\ map' = "partial" /\ UNCHANGED reset

\* ... and declares it good.
FinishMap == reset = "running" /\ map = "partial" /\ map' = "good" /\ UNCHANGED reset

Next == \/ RequestReset \/ Dismantle \/ Clear \/ ResetDone \/ ResetReturns
        \/ StartMap \/ FinishMap

Spec == Init /\ [][Next]_vars

=============================================================================
