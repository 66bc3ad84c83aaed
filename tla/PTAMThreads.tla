---------------------------- MODULE PTAMThreads ----------------------------
(***************************************************************************)
(* The signalling between PTAM's threads.  The tracker thread (System::Run *)
(* calling Tracker::TrackFrame) and the map-maker thread (MapMaker::run)   *)
(* share plain bools, two vectors of key frames and the map's bGood flag,  *)
(* without a lock; the GUI parser thread pushes commands at both.          *)
(* Every read or write of a shared variable is a step of its own; what a   *)
(* thread does between two of them is folded into the next one.            *)
(*                                                                         *)
(* Data is abstracted to what the flags depend on: vpKeyFrames and         *)
(* mvpKeyFrameQueue to their sizes, a bundle adjustment to its iteration   *)
(* count and outcome, the map maker's commands, all of them SaveMap, to    *)
(* their number.  MapData models what the key frames contain.              *)
(***************************************************************************)
EXTENDS Naturals, Sequences

CONSTANTS MaxQueue,      \* TrackFrame adds key frames while QueueSize() < MaxQueue (3 in the code)
          RecentMin,     \* BundleAdjustRecent needs this many key frames (8 in the code)
          MaxIterations, \* Bundle.MaxIterations, 20 by default
          MaxKeyFrames,  \* bound of the model: key frames in the map and the queue
          MaxCommands,   \* bound of the model: commands waiting for the tracker
          MaxSaves       \* bound of the model: commands waiting for the map maker

ASSUME ConstantsAssumption ==
    /\ MaxQueue \in Nat \ {0}
    /\ RecentMin \in Nat
    /\ MaxIterations \in Nat \ {0}
    /\ MaxKeyFrames \in Nat
    /\ MaxCommands \in Nat
    /\ MaxSaves \in Nat

VARIABLES
    trk,                      \* where the tracker thread is
    returnTo,                 \* where Tracker::Reset() returns to
    mnInitialStage, mbUserPressedSpacebar,
    mvQueuedCommands,         \* Tracker::mvQueuedCommands
    mm,                       \* where the map-maker thread is
    mbResetRequested, mbResetDone,
    mbBundleAbortRequested, mbBundleRunning, mbBundleRunningIsRecent,
    mbBundleConverged_Full, mbBundleConverged_Recent,
    lm,                       \* the map maker's Bundle object while it computes
    nSaves,                   \* MapMaker::mvQueuedCommands.size()
    bGood,                    \* mMap.bGood
    nKeyFrames,               \* mMap.vpKeyFrames.size()
    nQueued                   \* mvpKeyFrameQueue.size()

localVars   == <<returnTo, mnInitialStage, mbUserPressedSpacebar>>
trackerVars == <<trk, localVars, mvQueuedCommands>>
mapMakerVars == <<mm, lm, nSaves>>
resetVars   == <<mbResetRequested, mbResetDone>>
abortVars   == <<mbBundleAbortRequested, mbBundleRunning>>
flagVars    == <<mbBundleRunningIsRecent, mbBundleConverged_Full,
                 mbBundleConverged_Recent>>
mapVars     == <<bGood, nKeyFrames, nQueued>>
sharedVars  == <<resetVars, abortVars, flagVars, mapVars>>
vars        == <<trackerVars, mapMakerVars, sharedVars>>

Stages   == {"NOT_STARTED", "STARTED", "COMPLETE"}
Commands == {"Reset", "Space"}  \* "Reset", KeyPress r / KeyPress Space, PokeTracker

\* The tracker inside TrackFrame with a good map, and inside InitFromStereo.
FramePCs == {"track", "push", "signal", "abort"}
BuildPCs == {"build", "build_end", "build_check"}
TrackerPCs == {"frame", "initial", "commands", "erase",
               "reset", "request", "wait"} \cup FramePCs \cup BuildPCs

\* The CHECK_RESET points of MapMaker::run in program order, and where the
\* thread goes on unless a reset is requested.  ReFindNewlyMade,
\* ReFindFromFailureQueue and HandleBadPoints touch no variable of this module
\* and are passed over.
AfterCheck == [check_top     |-> "check_slept",
               check_slept   |-> "commands",
               check_recent  |-> "recent",
               check_refind  |-> "check_all",
               check_all     |-> "all",
               check_failure |-> "check_bad",
               check_bad     |-> "check_add",
               check_add     |-> "add"]
CheckPCs == DOMAIN AfterCheck

\* The map maker inside Reset() until mbResetDone is set, inside the handler of
\* SaveMap, and inside the part of run() that works on the map.
WipePCs == {"wipe_map", "wipe_keyframes", "wipe_queue", "set_done"}
SavePCs == {"save_points", "save_keyframes"}
JobPCs  == {"check_recent", "recent", "bundle_start", "compute", "bundle_stop",
            "bundle_clear", "check_refind", "check_all", "all",
            "check_failure", "check_bad", "check_add", "add", "add_push"}
MapMakerPCs == {"check_top", "check_slept", "commands", "erase_save", "is_good",
                "clear_request", "clear_abort"} \cup WipePCs \cup SavePCs \cup JobPCs

NoBundle == [iter |-> 0, accepted |-> FALSE, converged |-> FALSE]

TypeOK ==
    /\ trk \in TrackerPCs
    /\ returnTo \in {"frame", "commands", "erase"}
    /\ mnInitialStage \in Stages
    /\ mbUserPressedSpacebar \in BOOLEAN
    /\ mvQueuedCommands \in Seq(Commands)
    /\ mm \in MapMakerPCs
    /\ mbResetRequested \in BOOLEAN /\ mbResetDone \in BOOLEAN
    /\ mbBundleAbortRequested \in BOOLEAN /\ mbBundleRunning \in BOOLEAN
    /\ mbBundleRunningIsRecent \in BOOLEAN
    /\ mbBundleConverged_Full \in BOOLEAN
    /\ mbBundleConverged_Recent \in BOOLEAN
    /\ lm \in [iter : 0..MaxIterations, accepted : BOOLEAN, converged : BOOLEAN]
    /\ nSaves \in Nat
    /\ bGood \in BOOLEAN
    /\ nKeyFrames \in Nat
    /\ nQueued \in Nat

\* MapMaker's constructor has run Reset() and started the thread; Tracker's
\* constructor enters Tracker::Reset().
Init ==
    /\ trk = "reset" /\ returnTo = "frame"
    /\ mnInitialStage = "NOT_STARTED" /\ mbUserPressedSpacebar = FALSE
    /\ mvQueuedCommands = <<>>
    /\ mm = "check_top"
    /\ mbResetRequested = FALSE /\ mbResetDone = TRUE
    /\ mbBundleAbortRequested = FALSE /\ mbBundleRunning = FALSE
    /\ mbBundleRunningIsRecent \in BOOLEAN    \* never initialised by the code
    /\ mbBundleConverged_Full = TRUE /\ mbBundleConverged_Recent = TRUE
    /\ lm = NoBundle /\ nSaves = 0
    /\ bGood = FALSE /\ nKeyFrames = 0 /\ nQueued = 0

\* A step of one thread that moves it on and leaves its other locals alone.
TrackerGoto(pc)  == trk' = pc /\ UNCHANGED <<localVars, mvQueuedCommands, mapMakerVars>>
MapMakerGoto(pc) == mm' = pc /\ UNCHANGED <<trackerVars, lm, nSaves>>

-----------------------------------------------------------------------------
(* Faulty variants of actions below, each the result of a small slip in the *)
(* code.  The specification uses none of them; every property is violated   *)
(* by one when it takes the place of the action it is a variant of.         *)

\* RequestReset() without mbResetDone = false.
Reset_ClearDone_DoneKept ==
    /\ trk = "reset" /\ trk' = "request"
    /\ mnInitialStage' = "NOT_STARTED"
    /\ mbUserPressedSpacebar' = FALSE
    /\ UNCHANGED <<returnTo, mvQueuedCommands, mapMakerVars, resetVars,
                   abortVars, flagVars, mapVars>>

\* QueueSize() <= 3 in TrackFrame().
TrackMap_WantKeyFrame_OffByOne ==
    /\ trk = "track" /\ TrackerGoto("push")
    /\ nQueued <= MaxQueue
    /\ nKeyFrames + nQueued < MaxKeyFrames
    /\ UNCHANGED sharedVars

\* The initial stage is left when InitFromStereo() succeeds only.
InitFromStereo_Abandon_StageKept ==
    /\ trk = "build_check" /\ TrackerGoto("commands")
    /\ mbResetRequested
    /\ UNCHANGED sharedVars

\* CHECK_RESET only once the map is good.
CheckReset_OnlyWithMap ==
    /\ mm \in CheckPCs
    /\ MapMakerGoto(IF mbResetRequested /\ mm \notin {"check_top", "check_slept"}
                      THEN "wipe_map" ELSE AfterCheck[mm])
    /\ UNCHANGED sharedVars

\* run() without if(!mMap.IsGood()) continue;
ReadIsGood_Unchecked ==
    /\ mm = "is_good" /\ MapMakerGoto("check_recent")
    /\ UNCHANGED sharedVars

\* Map::Reset() without bGood = false.
Wipe_Map_GoodKept ==
    /\ mm = "wipe_map" /\ MapMakerGoto("wipe_keyframes")
    /\ UNCHANGED sharedVars

\* Reset() announces completion first, not last.
Wipe_Map_DoneFirst ==
    /\ mm = "wipe_map" /\ MapMakerGoto("wipe_keyframes")
    /\ bGood' = FALSE
    /\ mbResetDone' = TRUE
    /\ UNCHANGED <<mbResetRequested, abortVars, flagVars, nKeyFrames, nQueued>>

\* Bundle::Compute() without its iteration limit.
Finished_NoMax == lm.converged \/ mbBundleAbortRequested

\* AddKeyFrameFromTopOfQueue() leaves the last key frame in the queue.
AddKeyFrame_Pop_OffByOne ==
    /\ mm = "add" /\ MapMakerGoto(IF nQueued > 1 THEN "add_push" ELSE "check_top")
    /\ nQueued' = IF nQueued > 1 THEN nQueued - 1 ELSE nQueued
    /\ UNCHANGED <<resetVars, abortVars, flagVars, bGood, nKeyFrames>>

-----------------------------------------------------------------------------
(* The GUI parser thread: GUICommandCallBack of the tracker and of the map  *)
(* maker, which is registered for SaveMap only.                             *)

GUICommandCallBack ==
    /\ Len(mvQueuedCommands) < MaxCommands
    /\ \E c \in Commands : mvQueuedCommands' = Append(mvQueuedCommands, c)
    /\ UNCHANGED <<trk, localVars, mapMakerVars, sharedVars>>

GUICommandCallBack_SaveMap ==
    /\ nSaves < MaxSaves
    /\ nSaves' = nSaves + 1
    /\ UNCHANGED <<trackerVars, mm, lm, sharedVars>>

-----------------------------------------------------------------------------
(* The tracker thread: Tracker::Reset(). *)

\* The tracker's own state is cleared; RequestReset() stores mbResetDone ...
Reset_ClearDone ==
    /\ trk = "reset" /\ trk' = "request"
    /\ mnInitialStage' = "NOT_STARTED"
    /\ mbUserPressedSpacebar' = FALSE
    /\ mbResetDone' = FALSE
    /\ UNCHANGED <<returnTo, mvQueuedCommands, mapMakerVars, mbResetRequested,
                   abortVars, flagVars, mapVars>>

\* ... and then mbResetRequested.
Reset_Request ==
    /\ trk = "request" /\ TrackerGoto("wait")
    /\ mbResetRequested' = TRUE
    /\ UNCHANGED <<mbResetDone, abortVars, flagVars, mapVars>>

\* while(!mMapMaker.ResetDone()) usleep(10): the loop ends.
Reset_Return ==
    /\ trk = "wait" /\ TrackerGoto(returnTo)
    /\ mbResetDone
    /\ UNCHANGED sharedVars

-----------------------------------------------------------------------------
(* The tracker thread: Tracker::TrackFrame(). *)

\* A new video frame; the branch on mMap.IsGood().
TrackFrame ==
    /\ trk = "frame" /\ TrackerGoto(IF bGood THEN "track" ELSE "initial")
    /\ UNCHANGED sharedVars

\* The map is tracked, or recovery is attempted, and no key frame is added.
TrackMap_NoKeyFrame ==
    /\ trk = "track" /\ TrackerGoto("commands")
    /\ UNCHANGED sharedVars

\* Tracking is good, NeedNewKeyFrame holds and QueueSize() < 3 is read.
TrackMap_WantKeyFrame ==
    /\ trk = "track" /\ TrackerGoto("push")
    /\ nQueued < MaxQueue
    /\ nKeyFrames + nQueued < MaxKeyFrames
    /\ UNCHANGED sharedVars

\* MapMaker::AddKeyFrame: the queue grows, ...
AddKeyFrame_Push ==
    /\ trk = "push" /\ TrackerGoto("signal")
    /\ nQueued' = nQueued + 1
    /\ UNCHANGED <<resetVars, abortVars, flagVars, bGood, nKeyFrames>>

\* ... then mbBundleRunning is read ...
AddKeyFrame_ReadRunning ==
    /\ trk = "signal"
    /\ TrackerGoto(IF mbBundleRunning THEN "abort" ELSE "commands")
    /\ UNCHANGED sharedVars

\* ... and a running adjustment is told to stop.
AddKeyFrame_Abort ==
    /\ trk = "abort" /\ TrackerGoto("commands")
    /\ mbBundleAbortRequested' = TRUE
    /\ UNCHANGED <<resetVars, mbBundleRunning, flagVars, mapVars>>

-----------------------------------------------------------------------------
(* The tracker thread: TrackForInitialMap(), and MapMaker::InitFromStereo() *)
(* which runs in it.                                                        *)

\* The first spacebar press starts the trails; a frame before it does nothing.
TrackForInitialMap_Start ==
    /\ trk = "initial" /\ trk' = "commands"
    /\ mnInitialStage = "NOT_STARTED"
    /\ mnInitialStage' = IF mbUserPressedSpacebar THEN "STARTED" ELSE "NOT_STARTED"
    /\ mbUserPressedSpacebar' = FALSE
    /\ UNCHANGED <<returnTo, mvQueuedCommands, mapMakerVars, sharedVars>>

\* Fewer than ten trails survive: start again.
TrackForInitialMap_TrailsLost ==
    /\ trk = "initial" /\ trk' = "reset"
    /\ mnInitialStage = "STARTED"
    /\ returnTo' = "commands"
    /\ UNCHANGED <<mnInitialStage, mbUserPressedSpacebar, mvQueuedCommands, mapMakerVars, sharedVars>>

\* No second spacebar press yet, or the stage is COMPLETE.
TrackForInitialMap_Skip ==
    /\ trk = "initial" /\ TrackerGoto("commands")
    /\ \/ mnInitialStage = "STARTED" /\ ~mbUserPressedSpacebar
       \/ mnInitialStage = "COMPLETE"
    /\ UNCHANGED sharedVars

\* Second spacebar press, but InitFromStereo finds no homography or no
\* baseline.  Its result is ignored.
InitFromStereo_NoHomography ==
    /\ trk = "initial" /\ trk' = "commands"
    /\ mnInitialStage = "STARTED" /\ mbUserPressedSpacebar
    /\ mnInitialStage' = "COMPLETE"
    /\ mbUserPressedSpacebar' = FALSE
    /\ UNCHANGED <<returnTo, mvQueuedCommands, mapMakerVars, sharedVars>>

\* Second spacebar press: two key frames and their points go into the map and
\* are adjusted, and both convergence flags are cleared.
InitFromStereo_MakeMap ==
    /\ trk = "initial" /\ trk' = "build"
    /\ mnInitialStage = "STARTED" /\ mbUserPressedSpacebar
    /\ mbUserPressedSpacebar' = FALSE
    /\ nKeyFrames' = nKeyFrames + 2
    /\ mbBundleRunning' = FALSE /\ mbBundleAbortRequested' = FALSE
    /\ mbBundleRunningIsRecent' = FALSE
    /\ mbBundleConverged_Full' = FALSE /\ mbBundleConverged_Recent' = FALSE
    /\ UNCHANGED <<returnTo, mnInitialStage, mvQueuedCommands, mapMakerVars, resetVars,
                   bGood, nQueued>>

\* One BundleAdjustAll of the final loop runs ...
InitFromStereo_Bundle ==
    /\ trk = "build" /\ TrackerGoto("build_end")
    /\ mbBundleRunning' = TRUE
    /\ UNCHANGED <<resetVars, mbBundleAbortRequested, flagVars, mapVars>>

\* What BundleAdjust leaves in the convergence flags.
BundleResult(accepted, converged, recent) ==
    /\ mbBundleConverged_Full' =
         ((converged /\ ~recent) \/ (mbBundleConverged_Full /\ ~accepted))
    /\ mbBundleConverged_Recent' =
         (converged \/ (mbBundleConverged_Recent /\ ~(accepted /\ recent)))

\* ... and ends, converged or not.
InitFromStereo_BundleEnd ==
    /\ trk = "build_end" /\ TrackerGoto("build_check")
    /\ \E accepted, converged \in BOOLEAN : BundleResult(accepted, converged, FALSE)
    /\ mbBundleRunning' = FALSE /\ mbBundleAbortRequested' = FALSE
    /\ UNCHANGED <<resetVars, mbBundleRunningIsRecent, mapVars>>

\* if(mbResetRequested) return false;
InitFromStereo_Abandon ==
    /\ trk = "build_check" /\ trk' = "commands"
    /\ mbResetRequested
    /\ mnInitialStage' = "COMPLETE"
    /\ UNCHANGED <<returnTo, mbUserPressedSpacebar, mvQueuedCommands, mapMakerVars,
                   sharedVars>>

\* while(!mbBundleConverged_Full): once more ...
InitFromStereo_Loop ==
    /\ trk = "build_check" /\ TrackerGoto("build")
    /\ ~mbResetRequested /\ ~mbBundleConverged_Full
    /\ UNCHANGED sharedVars

\* ... or the map is good.
InitFromStereo_Good ==
    /\ trk = "build_check" /\ trk' = "commands"
    /\ ~mbResetRequested /\ mbBundleConverged_Full
    /\ bGood' = TRUE
    /\ mnInitialStage' = "COMPLETE"
    /\ UNCHANGED <<returnTo, mbUserPressedSpacebar, mvQueuedCommands, mapMakerVars,
                   resetVars, abortVars, flagVars, nKeyFrames, nQueued>>

-----------------------------------------------------------------------------
(* The tracker thread: the command loop at the end of TrackFrame(). *)

NoMoreCommands ==
    /\ trk = "commands" /\ TrackerGoto("frame")
    /\ mvQueuedCommands = <<>>
    /\ UNCHANGED sharedVars

\* GUICommandHandler: KeyPress Space and PokeTracker.
HandleSpace ==
    /\ trk = "commands" /\ trk' = "erase"
    /\ mvQueuedCommands # <<>> /\ Head(mvQueuedCommands) = "Space"
    /\ mbUserPressedSpacebar' = TRUE
    /\ UNCHANGED <<returnTo, mnInitialStage, mvQueuedCommands, mapMakerVars, sharedVars>>

\* GUICommandHandler: Reset and KeyPress r call Tracker::Reset().
HandleReset ==
    /\ trk = "commands" /\ trk' = "reset"
    /\ mvQueuedCommands # <<>> /\ Head(mvQueuedCommands) = "Reset"
    /\ returnTo' = "erase"
    /\ UNCHANGED <<mnInitialStage, mbUserPressedSpacebar, mvQueuedCommands, mapMakerVars, sharedVars>>

\* A command is erased after its handler returned.
EraseCommand ==
    /\ trk = "erase" /\ trk' = "commands"
    /\ mvQueuedCommands # <<>>
    /\ mvQueuedCommands' = Tail(mvQueuedCommands)
    /\ UNCHANGED <<localVars, mapMakerVars, sharedVars>>

Tracker ==
    \/ Reset_ClearDone \/ Reset_Request \/ Reset_Return
    \/ TrackFrame \/ TrackMap_NoKeyFrame \/ TrackMap_WantKeyFrame
    \/ AddKeyFrame_Push \/ AddKeyFrame_ReadRunning \/ AddKeyFrame_Abort
    \/ TrackForInitialMap_Start \/ TrackForInitialMap_TrailsLost
    \/ TrackForInitialMap_Skip
    \/ InitFromStereo_NoHomography \/ InitFromStereo_MakeMap
    \/ InitFromStereo_Bundle \/ InitFromStereo_BundleEnd
    \/ InitFromStereo_Abandon \/ InitFromStereo_Loop \/ InitFromStereo_Good
    \/ NoMoreCommands \/ HandleSpace \/ HandleReset \/ EraseCommand

-----------------------------------------------------------------------------
(* The map-maker thread: MapMaker::run(). *)

\* CHECK_RESET: if(mbResetRequested) {Reset(); continue;};
CheckReset ==
    /\ mm \in CheckPCs
    /\ MapMakerGoto(IF mbResetRequested THEN "wipe_map" ELSE AfterCheck[mm])
    /\ UNCHANGED sharedVars

\* while(!mvQueuedCommands.empty()): before IsGood() is asked, ...
Commands_Test ==
    /\ mm = "commands" /\ MapMakerGoto(IF nSaves = 0 THEN "is_good" ELSE "save_points")
    /\ UNCHANGED sharedVars

\* ... GUICommandHandler() writes the points of the map to a file, ...
SaveMap_Points ==
    /\ mm = "save_points" /\ MapMakerGoto("save_keyframes")
    /\ UNCHANGED sharedVars

\* ... then the poses of its key frames, ...
SaveMap_KeyFrames ==
    /\ mm = "save_keyframes" /\ MapMakerGoto("erase_save")
    /\ UNCHANGED sharedVars

\* ... and the command is erased.
Commands_Erase ==
    /\ mm = "erase_save" /\ mm' = "commands"
    /\ nSaves > 0
    /\ nSaves' = nSaves - 1
    /\ UNCHANGED <<trackerVars, lm, sharedVars>>

\* if(!mMap.IsGood()) continue;
ReadIsGood ==
    /\ mm = "is_good" /\ MapMakerGoto(IF bGood THEN "check_recent" ELSE "check_top")
    /\ UNCHANGED sharedVars

-----------------------------------------------------------------------------
(* The map-maker thread: MapMaker::Reset(), in the order of its stores. *)

Wipe_Map ==
    /\ mm = "wipe_map" /\ MapMakerGoto("wipe_keyframes")
    /\ bGood' = FALSE
    /\ UNCHANGED <<resetVars, abortVars, flagVars, nKeyFrames, nQueued>>

Wipe_KeyFrames ==
    /\ mm = "wipe_keyframes" /\ MapMakerGoto("wipe_queue")
    /\ nKeyFrames' = 0
    /\ UNCHANGED <<resetVars, abortVars, flagVars, bGood, nQueued>>

Wipe_Queue ==
    /\ mm = "wipe_queue" /\ MapMakerGoto("set_done")
    /\ nQueued' = 0
    /\ mbBundleRunning' = FALSE
    /\ mbBundleConverged_Full' = TRUE /\ mbBundleConverged_Recent' = TRUE
    /\ UNCHANGED <<resetVars, mbBundleAbortRequested, mbBundleRunningIsRecent,
                   bGood, nKeyFrames>>

Wipe_SetDone ==
    /\ mm = "set_done" /\ MapMakerGoto("clear_request")
    /\ mbResetDone' = TRUE
    /\ UNCHANGED <<mbResetRequested, abortVars, flagVars, mapVars>>

Wipe_ClearRequest ==
    /\ mm = "clear_request" /\ MapMakerGoto("clear_abort")
    /\ mbResetRequested' = FALSE
    /\ UNCHANGED <<mbResetDone, abortVars, flagVars, mapVars>>

Wipe_ClearAbort ==
    /\ mm = "clear_abort" /\ MapMakerGoto("check_top")
    /\ mbBundleAbortRequested' = FALSE
    /\ UNCHANGED <<resetVars, mbBundleRunning, flagVars, mapVars>>

-----------------------------------------------------------------------------
(* The map-maker thread: bundle adjustment. *)

WantRecent == ~mbBundleConverged_Recent /\ nQueued = 0
WantAll    == mbBundleConverged_Recent /\ ~mbBundleConverged_Full /\ nQueued = 0

\* The guard of run() and BundleAdjustRecent().
BundleAdjustRecent ==
    /\ mm = "recent"
    /\ LET small == nKeyFrames < RecentMin
       IN  /\ MapMakerGoto(IF WantRecent /\ ~small THEN "bundle_start"
                                                   ELSE "check_refind")
           /\ mbBundleConverged_Recent' =
                (mbBundleConverged_Recent \/ (WantRecent /\ small))
           /\ mbBundleRunningIsRecent' =
                (IF WantRecent /\ ~small THEN TRUE ELSE mbBundleRunningIsRecent)
    /\ UNCHANGED <<resetVars, abortVars, mbBundleConverged_Full, mapVars>>

\* The guard of run() and BundleAdjustAll().
BundleAdjustAll ==
    /\ mm = "all" /\ MapMakerGoto(IF WantAll THEN "bundle_start" ELSE "check_failure")
    /\ mbBundleRunningIsRecent' =
         (IF WantAll THEN FALSE ELSE mbBundleRunningIsRecent)
    /\ UNCHANGED <<resetVars, abortVars, mbBundleConverged_Full,
                   mbBundleConverged_Recent, mapVars>>

\* BundleAdjust() announces itself.
BundleAdjust_Start ==
    /\ mm = "bundle_start" /\ MapMakerGoto("compute")
    /\ mbBundleRunning' = TRUE
    /\ UNCHANGED <<resetVars, mbBundleAbortRequested, flagVars, mapVars>>

Finished == lm.converged \/ lm.iter = MaxIterations \/ mbBundleAbortRequested

\* One iteration of Bundle::Compute / Do_LM_Step.
Compute_Step ==
    /\ mm = "compute" /\ ~Finished
    /\ \E accepted, converged \in BOOLEAN :
         lm' = [iter |-> lm.iter + 1,
                accepted |-> lm.accepted \/ accepted,
                converged |-> converged]
    /\ UNCHANGED <<trackerVars, mm, nSaves, sharedVars>>

Compute_End ==
    /\ mm = "compute" /\ MapMakerGoto("bundle_stop")
    /\ Finished
    /\ UNCHANGED sharedVars

\* The outcome goes into the convergence flags; mbBundleRunning = false ...
BundleAdjust_Stop ==
    /\ mm = "bundle_stop" /\ mm' = "bundle_clear"
    /\ BundleResult(lm.accepted, lm.converged, mbBundleRunningIsRecent)
    /\ mbBundleRunning' = FALSE
    /\ lm' = NoBundle
    /\ UNCHANGED <<trackerVars, nSaves, resetVars, mbBundleAbortRequested,
                   mbBundleRunningIsRecent, mapVars>>

\* ... and then mbBundleAbortRequested = false.
BundleAdjust_ClearAbort ==
    /\ mm = "bundle_clear"
    /\ MapMakerGoto(IF mbBundleRunningIsRecent THEN "check_refind"
                                               ELSE "check_failure")
    /\ mbBundleAbortRequested' = FALSE
    /\ UNCHANGED <<resetVars, mbBundleRunning, flagVars, mapVars>>

-----------------------------------------------------------------------------
(* The map-maker thread: AddKeyFrameFromTopOfQueue(). *)

AddKeyFrame_Pop ==
    /\ mm = "add" /\ MapMakerGoto(IF nQueued > 0 THEN "add_push" ELSE "check_top")
    /\ nQueued' = IF nQueued > 0 THEN nQueued - 1 ELSE nQueued
    /\ UNCHANGED <<resetVars, abortVars, flagVars, bGood, nKeyFrames>>

\* The key frame goes into the map and is processed.
AddKeyFrame_Integrate ==
    /\ mm = "add_push" /\ MapMakerGoto("check_top")
    /\ nKeyFrames' = nKeyFrames + 1
    /\ mbBundleConverged_Full' = FALSE /\ mbBundleConverged_Recent' = FALSE
    /\ UNCHANGED <<resetVars, abortVars, mbBundleRunningIsRecent, bGood, nQueued>>

MapMaker ==
    \/ CheckReset
    \/ Commands_Test \/ SaveMap_Points \/ SaveMap_KeyFrames \/ Commands_Erase
    \/ ReadIsGood
    \/ Wipe_Map \/ Wipe_KeyFrames \/ Wipe_Queue
    \/ Wipe_SetDone \/ Wipe_ClearRequest \/ Wipe_ClearAbort
    \/ BundleAdjustRecent \/ BundleAdjustAll \/ BundleAdjust_Start
    \/ Compute_Step \/ Compute_End \/ BundleAdjust_Stop \/ BundleAdjust_ClearAbort
    \/ AddKeyFrame_Pop \/ AddKeyFrame_Integrate

-----------------------------------------------------------------------------
Next == GUICommandCallBack \/ GUICommandCallBack_SaveMap \/ Tracker \/ MapMaker

Spec == Init /\ [][Next]_vars

\* Both threads are scheduled by the system.  The user need not do anything,
\* but does not save the map again and again for ever: the command loop of
\* MapMaker::run() has no CHECK_RESET and no other end than an empty queue.
SavesEnd == <>[][nSaves' <= nSaves]_vars

FairSpec == Spec /\ WF_vars(Tracker) /\ WF_vars(MapMaker) /\ SavesEnd

-----------------------------------------------------------------------------
(* Properties. *)

\* MapMaker::Reset() deletes every map point and drops every key frame without
\* a lock.  It does so only while the tracker sits in the wait loop of
\* Tracker::Reset(), which cannot end before the wipe is complete: nobody reads
\* a map that is being deleted.
WipeOnlyWhileTrackerWaits ==
    mm \in WipePCs => trk = "wait" /\ ~mbResetDone

\* InitFromStereo() fills the map and adjusts it in the tracker's thread; the
\* map maker's jobs and its Reset() change the same map and the same flags.  The
\* two never overlap, although only the unlocked bGood separates them.  This is
\* about those that change the map: SaveMap, which comes before the test of
\* bGood, may read it meanwhile (NoSaveDuringBuild).
BuildExcludesMaintenance ==
    trk \in BuildPCs => mm \notin WipePCs \cup JobPCs

\* While the tracker works on a frame that it began with a good map, the map
\* stays good and keeps its first two key frames: ClosestKeyFrame's
\* assert(nClosest != -1) holds, and the relocaliser finds a key frame.
MapKeptDuringFrame ==
    trk \in FramePCs => bGood /\ nKeyFrames >= 2

\* The queue is checked in TrackFrame and filled in AddKeyFrame, with the map
\* maker popping and wiping in between: it never holds more than three key
\* frames, and none that outlives the map it belongs to.
QueueBelongsToMap ==
    /\ nQueued <= MaxQueue
    /\ nQueued > 0 => bGood \/ mm \in {"wipe_keyframes", "wipe_queue"}

\* A frame that may start or finish the initial map finds the map empty: a
\* second map is never built on top of an old or half-built one.
NoMapOverMap ==
    trk = "initial" /\ mnInitialStage # "COMPLETE" =>
        ~bGood /\ nKeyFrames = 0 /\ nQueued = 0

\* Tracker::Reset() returns to a program without a map, without queued key
\* frames and without a bundle adjustment in progress.
ResetReturnsClean ==
    [][trk = "wait" /\ trk' # "wait" =>
         ~bGood /\ nKeyFrames = 0 /\ nQueued = 0 /\ ~mbBundleRunning]_vars

\* A reset request that the map maker has not already overwritten is served:
\* every job, bundle adjustment included, comes back to a CHECK_RESET.
ResetServed ==
    (trk = "wait" /\ mbResetRequested /\ mm # "clear_request") ~> (trk # "wait")

\* A queued key frame is integrated or wiped: bundle adjustments and resets do
\* not keep the map maker from its queue for ever.
QueueServed == (nQueued > 0) ~> (mm = "add_push" \/ nQueued = 0)

-----------------------------------------------------------------------------
(* The refinement of MapLifecycle. *)

Lifecycle == INSTANCE MapLifecycle WITH
    map   <- IF bGood THEN "good" ELSE IF nKeyFrames = 0 THEN "none" ELSE "partial",
    reset <- IF trk \in {"request", "wait"}
               THEN IF mbResetDone THEN "done" ELSE "asked"
               ELSE IF trk = "reset" /\ returnTo = "frame" THEN "asked" ELSE "running"

\* The two threads keep what MapLifecycle promises: the unlocked flags are
\* enough to build the map from nothing and to take it apart only between the
\* tracker's request and the answer.
ImplementsLifecycle == Lifecycle!Spec

-----------------------------------------------------------------------------
(* What comments and messages of the code say, and the code does not do. *)

\* Tracker.cc, Reset(): "this may take some time [...] so sleep while waiting":
\* the wait for the map maker ends.
ResetTerminates == (trk = "wait") ~> (trk # "wait")

\* MapMaker.cc, AddKeyFrame(): "Tell the mapmaker to stop doing low-priority
\* stuff and concentrate on this KF first": once AddKeyFrame has returned, a
\* bundle adjustment that goes on computing with a key frame in the queue has
\* been told to stop.
KeyFrameInterruptsBundle ==
    mm = "compute" /\ nQueued > 0 /\ trk \notin {"signal", "abort"} =>
        mbBundleAbortRequested

\* Bundle.cc, Compute(): the abort signal is one "which mapmaker will set to
\* high if another keyframe is incoming": no bundle adjustment starts its work
\* with the signal high and no key frame waiting.
AbortOnlyForKeyFrame ==
    mm = "compute" /\ lm = NoBundle /\ mbBundleAbortRequested => nQueued > 0

\* MapMaker.cc, run(): "Nothing to do if there is no map yet!": SaveMap does not
\* walk through the points and key frames of a map that InitFromStereo() is
\* still building in the other thread.
NoSaveDuringBuild == mm \in SavePCs => trk \notin BuildPCs

\* MapMaker.cc, InitFromStereo(): "Could not init from stereo pair, try
\* again.": without a map, a frame listens to the spacebar.
UserCanTryAgain == trk = "initial" => mnInitialStage # "COMPLETE"

=============================================================================
