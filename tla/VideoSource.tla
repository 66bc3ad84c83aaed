---------------------------- MODULE VideoSource ----------------------------
(* What a program may count on between a camera and arVideoGetImage: the   *)
(* images come in the order of the camera, some may be missing, none comes *)
(* twice and none before it is complete.                                   *)
EXTENDS Naturals

VARIABLES
    newest,   \* the newest frame that is complete
    given     \* the frame of the last image that was handed out

Init == newest = 0 /\ given = 0

Complete == newest' \in Nat /\ newest' > newest /\ UNCHANGED given

GetImage == given' \in (given + 1)..newest /\ UNCHANGED newest

Next == Complete \/ GetImage

Spec == Init /\ [][Next]_<<newest, given>>
=============================================================================
