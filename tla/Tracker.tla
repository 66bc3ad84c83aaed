------------------------------- MODULE Tracker -------------------------------
(***************************************************************************)
(* What PTAM's tracker does within a video frame (Tracker::TrackFrame):    *)
(* the trails before there is a map; with a map the choice of the points   *)
(* that are searched (TrackMap, SearchForPoints), the assessment of the    *)
(* result (AssessTrackingQuality), key frames and recovery.  PTAMThreads   *)
(* models how the tracker and the map maker wait for each other; here the  *)
(* map maker only answers: whether a new key frame is wanted, whether the  *)
(* queue has room, whether InitFromStereo made a map.                      *)
(*                                                                         *)
(* Where a point projects to, and whether it is found, is any choice.  A   *)
(* frame is split where one stage hands its points to the next.            *)
(***************************************************************************)
EXTENDS Integers, FiniteSets

CONSTANTS
    Points,            \* the map points
    CoarseMin,         \* Tracker.CoarseMin (20)
    CoarseMax,         \* Tracker.CoarseMax (60)
    MaxPatches,        \* Tracker.MaxPatchesPerFrame (1000)
    LargeMin,          \* fewer attempts at large levels do not count (10)
    QualityGood,       \* Tracker.TrackingQualityGood in percent (30)
    QualityLost,       \* Tracker.TrackingQualityLost in percent (13)
    KeyFrameGap,       \* frames between two key frames (20)
    MaxTrails,         \* MaxInitialTrails (1000)
    MinTrails          \* fewer good trails end the attempt (10)

ASSUME TrackerAssumption ==
    /\ IsFiniteSet(Points)
    /\ {CoarseMin, CoarseMax, MaxPatches, LargeMin, QualityGood, QualityLost,
        KeyFrameGap, MaxTrails, MinTrails} \subseteq Nat
    /\ QualityLost <= QualityGood

VARIABLES
    pc,                        \* where TrackFrame is; "frame" between two frames
    mnInitialStage, mbUserPressedSpacebar,
    nTrails,                   \* mlTrails.size()
    bGood,                     \* mMap.IsGood()
    nSearchLevel,              \* TrackerData::nSearchLevel, -1 if not to be searched
    pvs,                       \* the points still in one of the vectors avPVS
    vIterationSet,             \* pairs of a point and the stage that attached it
    bFound,                    \* the points with TrackerData::bFound
    manMeasAttempted, manMeasFound,
    mMeasurements,             \* the points measured by mCurrentKF
    mbDidCoarse, mbJustRecoveredSoUseCoarse,
    mTrackingQuality, mnLostFrames,
    nSinceKeyFrame             \* mnFrame - mnLastKeyFrameDropped, up to KeyFrameGap + 1

initVars    == <<mnInitialStage, mbUserPressedSpacebar, nTrails, bGood>>
searchVars  == <<nSearchLevel, pvs, vIterationSet, bFound, manMeasAttempted, manMeasFound>>
qualityVars == <<mTrackingQuality, mnLostFrames>>
vars == <<pc, initVars, searchVars, mMeasurements, mbDidCoarse,
          mbJustRecoveredSoUseCoarse, qualityVars, nSinceKeyFrame>>

LEVELS   == 4
Levels   == 0..(LEVELS - 1)
NoLevel  == -1
NoCounts == [l \in Levels |-> 0]
MaxLost  == 3     \* TrackFrame tracks on while mnLostFrames < 3; counted up to 4 here

TypeOK ==
    /\ pc \in {"frame", "stereo", "coarse", "top", "fine", "assess", "keyframe"}
    /\ mnInitialStage \in {"NOT_STARTED", "STARTED", "COMPLETE"}
    /\ mbUserPressedSpacebar \in BOOLEAN /\ bGood \in BOOLEAN
    /\ nTrails \in 0..MaxTrails
    /\ nSearchLevel \in [Points -> Levels \cup {NoLevel}]
    /\ pvs \subseteq Points
    /\ vIterationSet \subseteq {"coarse", "top", "fine"} \X Points
    /\ bFound \subseteq Points /\ mMeasurements \subseteq Points
    /\ manMeasAttempted \in [Levels -> Nat] /\ manMeasFound \in [Levels -> Nat]
    /\ mbDidCoarse \in BOOLEAN /\ mbJustRecoveredSoUseCoarse \in BOOLEAN
    /\ mTrackingQuality \in {"GOOD", "DODGY", "BAD"}
    /\ mnLostFrames \in 0..(MaxLost + 1)
    /\ nSinceKeyFrame \in 0..(KeyFrameGap + 1)

\* Tracker::Reset(), without the wait for the map maker.
Reset ==
    /\ pc' = "frame"
    /\ mnInitialStage' = "NOT_STARTED" /\ mbUserPressedSpacebar' = FALSE
    /\ nTrails' = 0 /\ bGood' = FALSE
    /\ mMeasurements' = {}
    /\ mbDidCoarse' = FALSE /\ mbJustRecoveredSoUseCoarse' = FALSE
    /\ mTrackingQuality' = "GOOD" /\ mnLostFrames' = 0
    /\ nSinceKeyFrame' = KeyFrameGap
    /\ UNCHANGED searchVars

Init ==
    /\ pc = "frame"
    /\ mnInitialStage = "NOT_STARTED" /\ mbUserPressedSpacebar = FALSE
    /\ nTrails = 0 /\ bGood = FALSE
    /\ nSearchLevel = [p \in Points |-> NoLevel]
    /\ pvs = {} /\ bFound = {} /\ mMeasurements = {}
    /\ vIterationSet = {}
    /\ manMeasAttempted = NoCounts /\ manMeasFound = NoCounts
    /\ mbDidCoarse = FALSE /\ mbJustRecoveredSoUseCoarse = FALSE
    /\ mTrackingQuality = "GOOD" /\ mnLostFrames = 0
    /\ nSinceKeyFrame = KeyFrameGap

\* mnFrame++
CountFrame ==
    nSinceKeyFrame' = IF nSinceKeyFrame > KeyFrameGap THEN nSinceKeyFrame
                                                      ELSE nSinceKeyFrame + 1

-----------------------------------------------------------------------------
(* Commands, handled after a frame: GUICommandHandler. *)

HandleSpace ==
    /\ pc = "frame" /\ ~mbUserPressedSpacebar
    /\ mbUserPressedSpacebar' = TRUE
    /\ UNCHANGED <<pc, mnInitialStage, nTrails, bGood, searchVars, mMeasurements,
                   mbDidCoarse, mbJustRecoveredSoUseCoarse, qualityVars, nSinceKeyFrame>>

HandleReset == pc = "frame" /\ Reset

-----------------------------------------------------------------------------
(* A frame without a map: TrackForInitialMap. *)

\* What a frame without a map leaves alone.
NotTracking ==
    /\ mMeasurements' = {}    \* cleared by TrackFrame
    /\ UNCHANGED <<searchVars, mbDidCoarse, mbJustRecoveredSoUseCoarse, qualityVars>>

\* No spacebar press, or an attempt that is over.
NoInitialMap ==
    /\ pc = "frame" /\ ~bGood
    /\ \/ mnInitialStage = "NOT_STARTED" /\ ~mbUserPressedSpacebar
       \/ mnInitialStage = "COMPLETE"
    /\ CountFrame /\ NotTracking
    /\ UNCHANGED <<pc, initVars>>

\* Faulty: without the limit nToAdd.
TrailTracking_Start_NoLimit ==
    /\ pc = "frame" /\ ~bGood
    /\ mnInitialStage = "NOT_STARTED" /\ mbUserPressedSpacebar
    /\ mnInitialStage' = "STARTED" /\ mbUserPressedSpacebar' = FALSE
    /\ nTrails' \in 0..(MaxTrails + 1)
    /\ CountFrame /\ NotTracking
    /\ UNCHANGED <<pc, bGood>>

TrailTracking_Start ==
    /\ pc = "frame" /\ ~bGood
    /\ mnInitialStage = "NOT_STARTED" /\ mbUserPressedSpacebar
    /\ mnInitialStage' = "STARTED" /\ mbUserPressedSpacebar' = FALSE
    /\ nTrails' \in 0..MaxTrails
    /\ CountFrame /\ NotTracking
    /\ UNCHANGED <<pc, bGood>>

\* nGood trails are found in the new frame, but only those that are found back
\* in the previous one are kept.
TrailTracking_Advance ==
    /\ pc = "frame" /\ ~bGood /\ mnInitialStage = "STARTED"
    /\ \E nGood \in 0..nTrails, kept \in 0..nTrails :
         /\ kept <= nGood
         /\ \/ nGood < MinTrails /\ Reset
            \/ /\ nGood >= MinTrails
               /\ nTrails' = kept
               /\ pc' = IF mbUserPressedSpacebar THEN "stereo" ELSE "frame"
               /\ mbUserPressedSpacebar' = FALSE
               /\ CountFrame /\ NotTracking
               /\ UNCHANGED <<mnInitialStage, bGood>>

\* MapMaker::InitFromStereo with the trails as matches, whatever it returns.
InitFromStereo ==
    /\ pc = "stereo" /\ pc' = "frame"
    /\ mnInitialStage' = "COMPLETE"
    /\ bGood' \in BOOLEAN
    /\ UNCHANGED <<mbUserPressedSpacebar, nTrails, searchVars, mMeasurements, mbDidCoarse,
                   mbJustRecoveredSoUseCoarse, qualityVars, nSinceKeyFrame>>

-----------------------------------------------------------------------------
(* A frame with a map: TrackMap. *)

Level(l) == {p \in pvs : nSearchLevel[p] = l}
Top      == Level(LEVELS - 1)
Second   == Level(LEVELS - 2)

\* Every point is projected; those in view are searched at some level.
MakePVS ==
    /\ pc' = "coarse"
    /\ nSearchLevel' \in [Points -> Levels \cup {NoLevel}]
    /\ pvs' = {p \in Points : nSearchLevel'[p] # NoLevel}
    /\ bFound' = bFound \ pvs'
    /\ vIterationSet' = {}
    /\ manMeasAttempted' = NoCounts /\ manMeasFound' = NoCounts
    /\ mbDidCoarse' = FALSE
    /\ mMeasurements' = {}
    /\ CountFrame
    /\ UNCHANGED <<initVars, qualityVars>>

\* Tracking goes on from the last pose ...
TrackFrame ==
    /\ pc = "frame" /\ bGood
    /\ mnLostFrames < MaxLost
    /\ MakePVS
    /\ UNCHANGED mbJustRecoveredSoUseCoarse

\* ... or from the pose the relocaliser finds, ...
AttemptRecovery ==
    /\ pc = "frame" /\ bGood
    /\ mnLostFrames >= MaxLost
    /\ MakePVS
    /\ mbJustRecoveredSoUseCoarse' = TRUE

\* ... which may be none.
RecoveryFails ==
    /\ pc = "frame" /\ bGood
    /\ mnLostFrames >= MaxLost
    /\ CountFrame /\ NotTracking
    /\ UNCHANGED <<pc, initVars>>

\* Faulty: points lost by the sub-pixel search stay counted.
SearchForPoints_StillCounted(S, searched, found) ==
    /\ found \subseteq searched
    /\ bFound' = (bFound \ S) \cup found
    /\ manMeasAttempted' = [l \in Levels |-> manMeasAttempted[l]
          + Cardinality({p \in searched : nSearchLevel[p] = l})]
    /\ manMeasFound' = [l \in Levels |-> manMeasFound[l]
          + Cardinality({p \in searched : nSearchLevel[p] = l})]

Count(m, S) == [l \in Levels |-> m[l] + Cardinality({p \in S : nSearchLevel[p] = l})]

\* SearchForPoints: points with a bad template are not searched, those found in
\* the coarse search may be lost again in the sub-pixel one.
SearchForPoints(S, searched, found) ==
    /\ found \subseteq searched
    /\ bFound' = (bFound \ S) \cup found
    /\ manMeasAttempted' = Count(manMeasAttempted, searched)
    /\ manMeasFound' = Count(manMeasFound, found)


\* All of S if it has at most n members, else n of them at random.
Chopped(S, n) == IF Cardinality(S) <= n THEN {S} ELSE {T \in SUBSET S : Cardinality(T) = n}

\* No coarse stage: the camera moves slowly, or too few points are coarse.
SkipCoarse ==
    /\ pc = "coarse" /\ pc' = "top"
    /\ \/ ~mbJustRecoveredSoUseCoarse
       \/ Cardinality(Top) + Cardinality(Second) <= CoarseMin
    /\ mbJustRecoveredSoUseCoarse' = FALSE
    /\ UNCHANGED <<initVars, searchVars, mMeasurements, mbDidCoarse, qualityVars,
                   nSinceKeyFrame>>

\* The points of the coarse stage: up to max from the top level; if these are
\* fewer, more from the second level.  When all of the second level are taken
\* they replace those from the top level.
CoarseNext(top, second, max) ==
    IF Cardinality(top) < max /\ second = Second THEN second ELSE top \cup second

\* Faulty: without avPVS[LEVELS-1].clear().
CoarseRest_TopKept(top, second) == pvs \ second

\* The points chosen, and those replaced, leave avPVS.
CoarseRest(top, second) == pvs \ (top \cup second)

\* The coarse stage.
TryCoarse ==
    /\ pc = "coarse" /\ pc' = "top"
    /\ CoarseMax > 0 \/ mbJustRecoveredSoUseCoarse
    /\ Cardinality(Top) + Cardinality(Second) > CoarseMin
    /\ LET max == IF mbJustRecoveredSoUseCoarse THEN 2 * CoarseMax ELSE CoarseMax IN
         \E top \in Chopped(Top, max) : \E second \in Chopped(Second, max - Cardinality(top)) :
           LET next == CoarseNext(top, second, max) IN
             /\ pvs' = CoarseRest(top, second)
             /\ vIterationSet' = {"coarse"} \X next
             /\ \E searched \in SUBSET next : \E found \in SUBSET searched :
                  /\ SearchForPoints(next, searched, found)
                  /\ mbDidCoarse' = (Cardinality(found) >= CoarseMin)
    /\ mbJustRecoveredSoUseCoarse' = FALSE
    /\ UNCHANGED <<initVars, nSearchLevel, mMeasurements, qualityVars, nSinceKeyFrame>>

\* The fine stage begins with all that is left of the top level.
SearchTop ==
    /\ pc = "top" /\ pc' = "fine"
    /\ vIterationSet' = vIterationSet \cup ({"top"} \X Top)
    /\ \E searched \in SUBSET Top : \E found \in SUBSET searched :
         SearchForPoints(Top, searched, found)
    /\ UNCHANGED <<initVars, nSearchLevel, pvs, mMeasurements, mbDidCoarse,
                   mbJustRecoveredSoUseCoarse, qualityVars, nSinceKeyFrame>>

\* Faulty: the patches already attached are not subtracted.
Budget_Fresh == MaxPatches

\* How many patches of the other levels may be searched.
Budget ==
    IF Cardinality(vIterationSet) <= MaxPatches
      THEN MaxPatches - Cardinality(vIterationSet) ELSE 0

\* The other levels, and the measurements of all points found.
SearchFine ==
    /\ pc = "fine" /\ pc' = "assess"
    /\ \E next \in Chopped(pvs \ Top, Budget) :
         /\ vIterationSet' = vIterationSet \cup ({"fine"} \X next)
         /\ \E searched \in SUBSET next : \E found \in SUBSET searched :
              SearchForPoints(next, searched, found)
    /\ mMeasurements' = {i[2] : i \in vIterationSet'} \cap bFound'
    /\ UNCHANGED <<initVars, nSearchLevel, pvs, mbDidCoarse,
                   mbJustRecoveredSoUseCoarse, qualityVars, nSinceKeyFrame>>

-----------------------------------------------------------------------------
(* The assessment and its consequences. *)

Large(m) == m[2] + m[3]
Total(m) == m[0] + m[1] + Large(m)

\* part / whole > percent / 100, and <
Above(part, whole, percent) == 100 * part > percent * whole
Below(part, whole, percent) == 100 * part < percent * whole

\* dLargeFracFound < TrackingQualityLost
LargeLost ==
    IF Large(manMeasAttempted) > LargeMin
      THEN Below(Large(manMeasFound), Large(manMeasAttempted), QualityLost)
      ELSE Below(Total(manMeasFound), Total(manMeasAttempted), QualityLost)

\* Faulty: the other threshold.
Quality_NotLost(far) ==
    IF Total(manMeasFound) = 0 THEN "BAD"
    ELSE IF Above(Total(manMeasFound), Total(manMeasAttempted), QualityLost) THEN "GOOD"
    ELSE IF LargeLost \/ far THEN "BAD" ELSE "DODGY"

\* far: IsDistanceToNearestKeyFrameExcessive
Quality(far) ==
    IF Total(manMeasFound) = 0 THEN "BAD"
    ELSE IF Above(Total(manMeasFound), Total(manMeasAttempted), QualityGood) THEN "GOOD"
    ELSE IF LargeLost \/ far THEN "BAD" ELSE "DODGY"

LostFrames(quality) ==
    IF quality # "BAD" THEN 0
    ELSE IF mnLostFrames > MaxLost THEN mnLostFrames ELSE mnLostFrames + 1

\* What the next frame does not read is forgotten here: the vectors of TrackMap,
\* and what MakePVS and TrackFrame overwrite before they read it.
EndFrame ==
    /\ pc' = "frame"
    /\ nSearchLevel' = [p \in Points |-> NoLevel]
    /\ pvs' = {} /\ bFound' = {} /\ vIterationSet' = {} /\ mMeasurements' = {}
    /\ manMeasAttempted' = NoCounts /\ manMeasFound' = NoCounts

\* After a recovery no key frame is considered.
AssessTrackingQuality ==
    /\ pc = "assess"
    /\ \E far \in BOOLEAN : mTrackingQuality' = Quality(far)
    /\ mnLostFrames' = LostFrames(mTrackingQuality')
    /\ IF mnLostFrames < MaxLost THEN pc' = "keyframe" /\ UNCHANGED <<searchVars, mMeasurements>>
                                 ELSE EndFrame
    /\ UNCHANGED <<initVars, mbDidCoarse, mbJustRecoveredSoUseCoarse, nSinceKeyFrame>>

\* NeedNewKeyFrame and QueueSize() < 3 are the map maker's to say.
AddNewKeyFrame ==
    /\ pc = "keyframe" /\ EndFrame
    /\ mTrackingQuality = "GOOD"
    /\ nSinceKeyFrame > KeyFrameGap
    /\ nSinceKeyFrame' = 0
    /\ UNCHANGED <<initVars, mbDidCoarse, mbJustRecoveredSoUseCoarse, qualityVars>>

NoKeyFrame ==
    /\ pc = "keyframe" /\ EndFrame
    /\ UNCHANGED <<initVars, mbDidCoarse, mbJustRecoveredSoUseCoarse, qualityVars,
                   nSinceKeyFrame>>

Next ==
    \/ HandleSpace \/ HandleReset
    \/ NoInitialMap \/ TrailTracking_Start \/ TrailTracking_Advance \/ InitFromStereo
    \/ TrackFrame \/ AttemptRecovery \/ RecoveryFails
    \/ SkipCoarse \/ TryCoarse \/ SearchTop \/ SearchFine
    \/ AssessTrackingQuality \/ AddNewKeyFrame \/ NoKeyFrame

Spec == Init /\ [][Next]_vars

-----------------------------------------------------------------------------
(* Properties. *)

\* A point is searched, and weighs in the pose update, at most once per frame,
\* although TrackMap moves points between four vectors by hand.
SearchedOnce ==
    \A i, j \in vIterationSet : i[2] = j[2] => i = j

\* The counters that decide on the quality of the frame agree with what the
\* frame measured: the measurements of the current key frame are counted once each.
CountsMatch ==
    pc = "assess" => /\ Total(manMeasFound) = Cardinality(mMeasurements)
                     /\ \A l \in Levels : manMeasFound[l] <= manMeasAttempted[l]

\* A frame good enough for a key frame measured more than the given share of
\* the points it attempted, hence at least one.
GoodFrameMeasured ==
    pc = "keyframe" /\ mTrackingQuality = "GOOD" =>
      /\ mMeasurements # {}
      /\ 100 * Cardinality(mMeasurements) > QualityGood * Total(manMeasAttempted)

\* Between frames the tracker counts lost frames exactly while the last
\* assessment was bad, and only with a map: no recovery without key frames.
LostIsBad ==
    /\ pc \in {"frame", "keyframe"} => (mnLostFrames > 0 <=> mTrackingQuality = "BAD")
    /\ mnLostFrames > 0 => bGood

\* The larger search after a recovery is for that frame only, and the frame
\* after a successful recovery is tracked from its pose.
RecoveryForOneFrame ==
    mbJustRecoveredSoUseCoarse => pc = "coarse" /\ mnLostFrames >= MaxLost

\* Points of the lower levels are searched only while the limit on patches per
\* frame leaves room for them.
PatchLimit ==
    (\E i \in vIterationSet : i[1] = "fine") => Cardinality(vIterationSet) <= MaxPatches

\* "The high-level ones are quite important, so do all of these": every point of
\* the top level in view is searched.  Not so, see CoarseNext.
TopLevelSearched ==
    pc = "fine" => \A p \in Points :
        nSearchLevel[p] = LEVELS - 1 => \E i \in vIterationSet : i[2] = p

\* assert(nPoints >= 4) in HomographyInit: with fewer than ten matches all of
\* them are used at once, so InitFromStereo needs four.
EnoughMatches == pc = "stereo" => nTrails >= 4
=============================================================================
