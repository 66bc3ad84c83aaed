------------------------------ MODULE MapData ------------------------------
(***************************************************************************)
(* PTAM's map and its book-keeping.  A map point records in which key      *)
(* frames it has been measured (MapMakerData::sMeasurementKFs) and in      *)
(* which it must not be searched for again (sNeverRetryKFs); a key frame   *)
(* records its measurements (KeyFrame::mMeasurements); two queues hold     *)
(* more pointers to both.  The map maker's jobs, each an action here,      *)
(* update both sides by hand while the tracker holds pointers to points    *)
(* across them.                                                            *)
(*                                                                         *)
(* The reset handshake and the exclusion of the map maker while the        *)
(* tracker runs InitFromStereo() are the subject of PTAMThreads and are    *)
(* taken from it here: a reset is one action while the tracker waits.      *)
(* What geometry and images decide (which points are found, which          *)
(* measurements are outliers, which key frame is closest, whether an       *)
(* adjustment converges) is nondeterministic.  As in the Windows release   *)
(* build, which defines NDEBUG, asserts are not compiled in.               *)
(***************************************************************************)
EXTENDS Integers, Sequences, FiniteSets

CONSTANTS MapPoints,    \* addresses of map points
          KeyFrames,    \* addresses of key frames
          NoKeyFrame,
          MaxQueue,     \* TrackFrame adds key frames while QueueSize() < MaxQueue (3 in the code)
          RecentMin,    \* BundleAdjustRecent needs this many key frames (8 in the code)
          MaxOutliers   \* bound of the model: outliers reported by one adjustment

ASSUME DataAssumption ==
    /\ IsFiniteSet(KeyFrames) /\ IsFiniteSet(MapPoints)
    /\ NoKeyFrame \notin KeyFrames
    /\ MaxQueue \in Nat /\ RecentMin \in Nat /\ MaxOutliers \in Nat

VARIABLES
    vpPoints, vpPointsTrash,    \* Map::vpPoints, Map::vpPointsTrash
    bBad,                       \* the points with MapPoint::bBad set
    vpKeyFrames,                \* Map::vpKeyFrames
    newest,                     \* ... and its last element
    bGood,                      \* Map::bGood
    mMeasurements,              \* KeyFrame::mMeasurements: the Source of each
    sMeasurementKFs, sNeverRetryKFs,
    mvpKeyFrameQueue, mvFailureQueue, mqNewQueue,
    mbBundleConverged_Full, mbBundleConverged_Recent,
    trk,                        \* where the tracker thread is
    tracked,                    \* the points it holds: potentially visible, then measured
    mm                          \* the map maker's next job in run()

mapVars   == <<vpPoints, vpPointsTrash, bBad, vpKeyFrames, newest, bGood>>
measVars  == <<mMeasurements, sMeasurementKFs, sNeverRetryKFs>>
workVars  == <<mvFailureQueue, mqNewQueue>>
flagVars  == <<mbBundleConverged_Full, mbBundleConverged_Recent>>
trackVars == <<trk, tracked>>
vars == <<mapVars, measVars, mvpKeyFrameQueue, workVars, flagVars, trackVars, mm>>

\* Measurement::Source, as far as BundleAdjust tells the values apart: ROOT;
\* TRACKER and EPIPOLAR, to be retried; REFIND and TRAIL, given up.  The
\* tracker leaves Source unset.
Sources == {"root", "retry", "final", "unset"}

TypeOK ==
    /\ vpPoints \subseteq MapPoints /\ vpPointsTrash \subseteq MapPoints
    /\ bBad \subseteq MapPoints
    /\ vpKeyFrames \subseteq KeyFrames /\ newest \in KeyFrames \cup {NoKeyFrame}
    /\ bGood \in BOOLEAN
    /\ mMeasurements \in [KeyFrames -> [MapPoints -> Sources \cup {"none"}]]
    /\ sMeasurementKFs \in [MapPoints -> SUBSET KeyFrames]
    /\ sNeverRetryKFs \in [MapPoints -> SUBSET KeyFrames]
    /\ mvpKeyFrameQueue \in Seq(KeyFrames) /\ Len(mvpKeyFrameQueue) <= MaxQueue
    /\ mvFailureQueue \subseteq KeyFrames \X MapPoints
    /\ mqNewQueue \subseteq MapPoints
    /\ mbBundleConverged_Full \in BOOLEAN /\ mbBundleConverged_Recent \in BOOLEAN
    /\ trk \in {"frame", "tracking", "tracked", "stereo_bundle", "stereo_add",
                "stereo_converge", "wait"}
    /\ tracked \subseteq MapPoints
    /\ mm \in {"recent", "newlymade", "all", "failure", "bad", "addkf"}

Queued    == {mvpKeyFrameQueue[i] : i \in DOMAIN mvpKeyFrameQueue}
Allocated == vpPoints \cup vpPointsTrash    \* the points that are not deleted

Measured(k)     == {p \in MapPoints : mMeasurements[k][p] # "none"}
Measuring(p)    == {k \in vpKeyFrames : mMeasurements[k][p] # "none"}
NoMeasurements  == [p \in MapPoints |-> "none"]
GoodMeasCount(p) == Cardinality(sMeasurementKFs[p])

Init ==
    /\ vpPoints = {} /\ vpPointsTrash = {} /\ bBad = {}
    /\ vpKeyFrames = {} /\ newest = NoKeyFrame /\ bGood = FALSE
    /\ mMeasurements = [k \in KeyFrames |-> NoMeasurements]
    /\ sMeasurementKFs = [p \in MapPoints |-> {}]
    /\ sNeverRetryKFs = [p \in MapPoints |-> {}]
    /\ mvpKeyFrameQueue = <<>> /\ mvFailureQueue = {} /\ mqNewQueue = {}
    /\ mbBundleConverged_Full = TRUE /\ mbBundleConverged_Recent = TRUE
    /\ trk = "frame" /\ tracked = {}
    /\ mm = "recent"

-----------------------------------------------------------------------------
(* Faulty variants of definitions below, each the result of a small slip in  *)
(* the code.  The specification uses none of them; every property is         *)
(* violated by one when it takes the place of the definition it varies.      *)

\* QueueSize() <= 3 in TrackFrame().
RoomInQueue_OffByOne == Len(mvpKeyFrameQueue) <= MaxQueue

\* A point that is not found is not told from one that is.
ReFind_Common_NeverRetryAll(searched, found) ==
    /\ mMeasurements' = [k \in KeyFrames |-> [p \in MapPoints |->
         IF <<k, p>> \in found THEN "final" ELSE mMeasurements[k][p]]]
    /\ sMeasurementKFs' = [p \in MapPoints |->
         sMeasurementKFs[p] \cup {k \in KeyFrames : <<k, p>> \in found}]
    /\ sNeverRetryKFs' = [p \in MapPoints |->
         sNeverRetryKFs[p] \cup {k \in KeyFrames : <<k, p>> \in searched}]

\* GoodMeasCount() < 2 in BundleAdjust().
Erasable_OffByOne(outliers, erased) ==
    /\ \A kp \in erased : mMeasurements[kp[1]][kp[2]] # "root"
    /\ \A p \in MapPoints :
         LET candidates == {kp \in outliers : kp[2] = p
                                /\ mMeasurements[kp[1]][p] # "root"}
             gone == {kp \in erased : kp[2] = p}
             left == GoodMeasCount(p) - Cardinality(gone)
         IN  /\ gone # {} => left >= 1
             /\ gone # candidates => left <= 1

\* BundleAdjust() erases the measurement, not its record.
HandleOutliers_RecordKept(outliers, erased) ==
    /\ bBad' = bBad \cup {kp[2] : kp \in outliers \ erased}
    /\ mMeasurements' = [k \in KeyFrames |-> [p \in MapPoints |->
         IF <<k, p>> \in erased THEN "none" ELSE mMeasurements[k][p]]]
    /\ mvFailureQueue' = mvFailureQueue \cup
         {kp \in erased : mMeasurements[kp[1]][kp[2]] = "retry"}
    /\ UNCHANGED <<sMeasurementKFs, sNeverRetryKFs>>

\* HandleBadPoints() looks at the tracker's counts only.
Condemned_ByTracker(rejected) == vpPoints \cap rejected

\* MoveBadPointsToTrash() deletes the points.
Trashed_Deleted(bad) == vpPointsTrash

\* AddKeyFrameFromTopOfQueue() does not assign Source ...
IntegratedMeasurements_SourceKept(k, tgt, P, found) ==
    [j \in KeyFrames |-> [p \in MapPoints |->
        IF j = k /\ p \in P THEN "root"
        ELSE IF j = k /\ p \in found THEN "final"
        ELSE IF j = tgt /\ p \in P THEN "retry"
        ELSE mMeasurements[j][p]]]

\* ... or does not record the tracker's measurements.
IntegratedRecords_NotTracked(k, tgt, P, found) ==
    [p \in MapPoints |->
        IF p \in P THEN {k, tgt}
        ELSE IF p \in found THEN sMeasurementKFs[p] \cup {k}
        ELSE sMeasurementKFs[p]]

-----------------------------------------------------------------------------
(* Pieces shared by the jobs. *)

\* New points measured as ROOT in src and as second in tgt.
NewPoints(P, src, tgt, second) ==
    /\ vpPoints' = vpPoints \cup P
    /\ mMeasurements' = [k \in KeyFrames |-> [p \in MapPoints |->
         IF p \in P /\ k = src THEN "root"
         ELSE IF p \in P /\ k = tgt THEN second
         ELSE mMeasurements[k][p]]]
    /\ sMeasurementKFs' = [p \in MapPoints |->
         IF p \in P THEN {src, tgt} ELSE sMeasurementKFs[p]]

\* The points-in-key-frames that ReFind_Common() does not refuse at once.
Searchable(pairs) ==
    {kp \in pairs : /\ kp[1] \notin sMeasurementKFs[kp[2]]
                    /\ kp[1] \notin sNeverRetryKFs[kp[2]]}

\* ReFind_Common() over searched: a point is found, or never looked for again.
ReFind_Common(searched, found) ==
    /\ mMeasurements' = [k \in KeyFrames |-> [p \in MapPoints |->
         IF <<k, p>> \in found THEN "final" ELSE mMeasurements[k][p]]]
    /\ sMeasurementKFs' = [p \in MapPoints |->
         sMeasurementKFs[p] \cup {k \in KeyFrames : <<k, p>> \in found}]
    /\ sNeverRetryKFs' = [p \in MapPoints |->
         sNeverRetryKFs[p] \cup {k \in KeyFrames : <<k, p>> \in searched \ found}]

\* The outliers that BundleAdjust() erases from both sides.  It takes the
\* outliers in any order and erases one while its point has more than two
\* measurements and it is not the ROOT one; all others make their point bad.
Erasable(outliers, erased) ==
    /\ \A kp \in erased : mMeasurements[kp[1]][kp[2]] # "root"
    /\ \A p \in MapPoints :
         LET candidates == {kp \in outliers : kp[2] = p
                                /\ mMeasurements[kp[1]][p] # "root"}
             gone == {kp \in erased : kp[2] = p}
             left == GoodMeasCount(p) - Cardinality(gone)
         IN  /\ gone # {} => left >= 2
             /\ gone # candidates => left <= 2

HandleOutliers(outliers, erased) ==
    /\ bBad' = bBad \cup {kp[2] : kp \in outliers \ erased}
    /\ mMeasurements' = [k \in KeyFrames |-> [p \in MapPoints |->
         IF <<k, p>> \in erased THEN "none" ELSE mMeasurements[k][p]]]
    /\ sMeasurementKFs' = [p \in MapPoints |->
         sMeasurementKFs[p] \ {k \in KeyFrames : <<k, p>> \in erased}]
    /\ mvFailureQueue' = mvFailureQueue \cup
         {kp \in erased : mMeasurements[kp[1]][kp[2]] = "retry"}
    /\ sNeverRetryKFs' = [p \in MapPoints |-> sNeverRetryKFs[p] \cup
         {k \in KeyFrames : <<k, p>> \in erased /\ mMeasurements[k][p] # "retry"}]

\* BundleAdjust() of the points P in the key frames of the map that measure
\* them; recent tells a local adjustment.
BundleAdjust(P, recent) ==
    \E accepted, converged \in BOOLEAN,
       outliers \in SUBSET {kp \in vpKeyFrames \X P :
                              mMeasurements[kp[1]][kp[2]] # "none"} :
    /\ Cardinality(outliers) <= MaxOutliers
    /\ \E erased \in SUBSET outliers :
         Erasable(outliers, erased) /\ HandleOutliers(outliers, erased)
    /\ mbBundleConverged_Full' =
         ((converged /\ ~recent) \/ (mbBundleConverged_Full /\ ~accepted))
    /\ mbBundleConverged_Recent' =
         (converged \/ (mbBundleConverged_Recent /\ ~(accepted /\ recent)))
    /\ UNCHANGED <<vpPoints, vpPointsTrash, vpKeyFrames, newest, bGood,
                   mvpKeyFrameQueue, mqNewQueue>>

-----------------------------------------------------------------------------
(* The tracker thread. *)

\* TrackFrame() with a good map: TrackMap() projects every point of the map
\* and keeps pointers to those it will look for.
TrackMap_Project ==
    /\ trk = "frame" /\ bGood
    /\ trk' = "tracking"
    /\ tracked' = vpPoints
    /\ UNCHANGED <<mapVars, measVars, mvpKeyFrameQueue, workVars, flagVars, mm>>

\* At the end of TrackMap() the points found become mCurrentKF.mMeasurements.
TrackMap_Record ==
    /\ trk = "tracking"
    /\ trk' = "tracked"
    /\ tracked' \in SUBSET tracked
    /\ UNCHANGED <<mapVars, measVars, mvpKeyFrameQueue, workVars, flagVars, mm>>

\* QueueSize() < 3
RoomInQueue == Len(mvpKeyFrameQueue) < MaxQueue

\* AddNewKeyFrame(), MapMaker::AddKeyFrame(): a copy of mCurrentKF is queued.
AddKeyFrame ==
    /\ trk = "tracked"
    /\ RoomInQueue
    /\ \E k \in KeyFrames \ (vpKeyFrames \cup Queued) :
         /\ mvpKeyFrameQueue' = Append(mvpKeyFrameQueue, k)
         /\ mMeasurements' = [mMeasurements EXCEPT ![k] =
              [p \in MapPoints |-> IF p \in tracked THEN "unset" ELSE "none"]]
    /\ trk' = "frame" /\ tracked' = {}
    /\ UNCHANGED <<mapVars, sMeasurementKFs, sNeverRetryKFs, workVars, flagVars, mm>>

\* No key frame is added; the next frame clears mMeasurements.
EndFrame ==
    /\ trk = "tracked"
    /\ trk' = "frame" /\ tracked' = {}
    /\ UNCHANGED <<mapVars, measVars, mvpKeyFrameQueue, workVars, flagVars, mm>>

\* Tracker::Reset() between two frames, up to the wait for the map maker.
RequestReset ==
    /\ trk = "frame"
    /\ trk' = "wait"
    /\ UNCHANGED <<mapVars, measVars, mvpKeyFrameQueue, workVars, flagVars,
                   tracked, mm>>

-----------------------------------------------------------------------------
(* MapMaker::InitFromStereo(), in the tracker's thread and on an empty map. *)

\* Two key frames, and points measured in both (SRC_ROOT and SRC_TRAIL).
InitFromStereo_MakeMap ==
    /\ trk = "frame" /\ ~bGood /\ vpKeyFrames = {}
    /\ \E first, second \in KeyFrames, P \in SUBSET MapPoints :
         /\ first # second
         /\ NewPoints(P, first, second, "final")
         /\ vpKeyFrames' = {first, second} /\ newest' = second
    /\ trk' = "stereo_bundle"
    /\ UNCHANGED <<vpPointsTrash, bBad, bGood, sNeverRetryKFs, mvpKeyFrameQueue,
                   workVars, flagVars, tracked, mm>>

\* Five times BundleAdjustAll(): their outliers together.
InitFromStereo_Bundle ==
    /\ trk = "stereo_bundle"
    /\ BundleAdjust(vpPoints, FALSE)
    /\ trk' = "stereo_add"
    /\ UNCHANGED <<tracked, mm>>

\* AddSomeMapPoints() on each level: points from the newest key frame, found
\* in the one closest to it.  Then both convergence flags are cleared.
InitFromStereo_AddPoints ==
    /\ trk = "stereo_add"
    /\ \E P \in SUBSET (MapPoints \ Allocated), tgt \in vpKeyFrames \ {newest} :
         /\ NewPoints(P, newest, tgt, "retry")
         /\ mqNewQueue' = mqNewQueue \cup P
    /\ mbBundleConverged_Full' = FALSE /\ mbBundleConverged_Recent' = FALSE
    /\ trk' = "stereo_converge"
    /\ UNCHANGED <<vpPointsTrash, bBad, vpKeyFrames, newest, bGood,
                   sNeverRetryKFs, mvpKeyFrameQueue, mvFailureQueue, tracked, mm>>

\* while(!mbBundleConverged_Full) BundleAdjustAll();
InitFromStereo_Converge ==
    /\ trk = "stereo_converge" /\ ~mbBundleConverged_Full
    /\ BundleAdjust(vpPoints, FALSE)
    /\ UNCHANGED <<trk, tracked, mm>>

\* The map is good; or mbResetRequested is still set from the last reset.
InitFromStereo_Return ==
    /\ trk = "stereo_converge"
    /\ \/ mbBundleConverged_Full /\ bGood' = TRUE
       \/ bGood' = FALSE
    /\ trk' = "frame"
    /\ UNCHANGED <<vpPoints, vpPointsTrash, bBad, vpKeyFrames, newest, measVars,
                   mvpKeyFrameQueue, workVars, flagVars, tracked, mm>>

-----------------------------------------------------------------------------
(* The map-maker thread: MapMaker::run(), one action per job. *)

Idle == mvpKeyFrameQueue = <<>>     \* QueueSize() == 0

Skip(next) ==
    /\ mm' = next
    /\ UNCHANGED <<mapVars, measVars, mvpKeyFrameQueue, workVars, flagVars>>

\* if(mMap.IsGood()), then BundleAdjustRecent(): the newest key frame, its
\* neighbours, and every point that these measure.
BundleAdjustRecent ==
    /\ mm = "recent" /\ bGood
    /\ IF mbBundleConverged_Recent \/ ~Idle
         THEN Skip("newlymade")
         ELSE /\ mm' = "newlymade"
              /\ IF Cardinality(vpKeyFrames) < RecentMin
                   THEN /\ mbBundleConverged_Recent' = TRUE
                        /\ UNCHANGED <<mapVars, measVars, mvpKeyFrameQueue,
                                       workVars, mbBundleConverged_Full>>
                   ELSE \E adjusted \in SUBSET vpKeyFrames :
                          /\ newest \in adjusted
                          /\ BundleAdjust(UNION {Measured(k) : k \in adjusted}, TRUE)
    /\ UNCHANGED trackVars

\* The new points are looked for in every key frame of the map; a key frame
\* arriving in the queue stops the search.
ReFindNewlyMade ==
    /\ mm = "newlymade"
    /\ \/ ~(mbBundleConverged_Recent /\ Idle) /\ Skip("all")
       \/ /\ mbBundleConverged_Recent /\ Idle
          /\ mm' = "all"
          /\ \E done \in SUBSET mqNewQueue :
               LET searched == Searchable(vpKeyFrames \X (done \ bBad))
               IN  /\ \E found \in SUBSET searched : ReFind_Common(searched, found)
                   /\ mqNewQueue' = mqNewQueue \ done
          /\ UNCHANGED <<mapVars, mvpKeyFrameQueue, mvFailureQueue, flagVars>>
    /\ UNCHANGED trackVars

BundleAdjustAll ==
    /\ mm = "all"
    /\ IF mbBundleConverged_Recent /\ ~mbBundleConverged_Full /\ Idle
         THEN BundleAdjust(vpPoints, FALSE) /\ mm' = "failure"
         ELSE Skip("failure")
    /\ UNCHANGED trackVars

\* One time in twenty, dud measurements get a second chance.
ReFindFromFailureQueue ==
    /\ mm = "failure"
    /\ \/ Skip("bad")
       \/ /\ mbBundleConverged_Recent /\ mbBundleConverged_Full /\ Idle
          /\ mm' = "bad"
          /\ LET searched == Searchable(mvFailureQueue)
             IN  \E found \in SUBSET searched : ReFind_Common(searched, found)
          /\ mvFailureQueue' = {}
          /\ UNCHANGED <<mapVars, mvpKeyFrameQueue, mqNewQueue, flagVars>>
    /\ UNCHANGED trackVars

\* The points of the map that are bad once the tracker's rejects are flagged,
\* and what MoveBadPointsToTrash() makes of the trash.
Condemned(rejected) == vpPoints \cap (bBad \cup rejected)
Trashed(bad)        == vpPointsTrash \cup bad

\* Points that the tracker rejects too often are flagged; bad points are
\* erased from the key frames of the map and moved to the trash.
HandleBadPoints ==
    /\ mm = "bad"
    /\ \E rejected \in SUBSET vpPoints :
         LET bad == Condemned(rejected)
         IN  /\ bBad' = bBad \cup rejected
             /\ mMeasurements' = [k \in KeyFrames |-> [p \in MapPoints |->
                  IF k \in vpKeyFrames /\ p \in bad THEN "none"
                  ELSE mMeasurements[k][p]]]
             /\ vpPoints' = vpPoints \ bad
             /\ vpPointsTrash' = Trashed(bad)
    /\ mm' = "addkf"
    /\ UNCHANGED <<vpKeyFrames, newest, bGood, sMeasurementKFs, sNeverRetryKFs,
                   mvpKeyFrameQueue, workVars, flagVars, trackVars>>

\* AddKeyFrameFromTopOfQueue(): the key frame k enters the map, its
\* measurements are recorded with their points, the other points are looked
\* for in it, and new points P are made from it and its closest neighbour tgt.
IntegratedMeasurements(k, tgt, P, found) ==
    [j \in KeyFrames |-> [p \in MapPoints |->
        IF j = k /\ p \in P THEN "root"
        ELSE IF j = k /\ p \in found THEN "final"
        ELSE IF j = k /\ p \in Measured(k) THEN "retry"
        ELSE IF j = tgt /\ p \in P THEN "retry"
        ELSE mMeasurements[j][p]]]

IntegratedRecords(k, tgt, P, found) ==
    [p \in MapPoints |->
        IF p \in P THEN {k, tgt}
        ELSE IF p \in Measured(k) \cup found THEN sMeasurementKFs[p] \cup {k}
        ELSE sMeasurementKFs[p]]

Integrate(k, tgt, P) ==
    LET missed == {p \in vpPoints \ Measured(k) :
                     k \notin sMeasurementKFs[p] \cup sNeverRetryKFs[p]}
    IN \E found \in SUBSET missed :
         /\ vpKeyFrames' = vpKeyFrames \cup {k} /\ newest' = k
         /\ vpPoints' = vpPoints \cup P
         /\ mqNewQueue' = mqNewQueue \cup P
         /\ mMeasurements' = IntegratedMeasurements(k, tgt, P, found)
         /\ sMeasurementKFs' = IntegratedRecords(k, tgt, P, found)
         /\ sNeverRetryKFs' = [p \in MapPoints |->
              IF p \in missed \ found THEN sNeverRetryKFs[p] \cup {k}
              ELSE sNeverRetryKFs[p]]
         /\ mbBundleConverged_Full' = FALSE /\ mbBundleConverged_Recent' = FALSE
         /\ UNCHANGED <<vpPointsTrash, bBad, bGood, mvFailureQueue>>

AddKeyFrameFromTopOfQueue ==
    /\ mm = "addkf" /\ mm' = "recent"
    /\ IF Idle
         THEN UNCHANGED <<mapVars, measVars, mvpKeyFrameQueue, workVars, flagVars>>
         ELSE /\ mvpKeyFrameQueue' = Tail(mvpKeyFrameQueue)
              /\ \E tgt \in vpKeyFrames, P \in SUBSET (MapPoints \ Allocated) :
                   Integrate(Head(mvpKeyFrameQueue), tgt, P)
    /\ UNCHANGED trackVars

\* CHECK_RESET and MapMaker::Reset(), which may come before any job: the
\* points are deleted, the key frames are dropped.
Reset ==
    /\ trk = "wait"
    /\ vpPoints' = {} /\ vpPointsTrash' = {} /\ bBad' = {}
    /\ vpKeyFrames' = {} /\ newest' = NoKeyFrame /\ bGood' = FALSE
    /\ mMeasurements' = [k \in KeyFrames |-> NoMeasurements]
    /\ sMeasurementKFs' = [p \in MapPoints |-> {}]
    /\ sNeverRetryKFs' = [p \in MapPoints |-> {}]
    /\ mvpKeyFrameQueue' = <<>> /\ mvFailureQueue' = {} /\ mqNewQueue' = {}
    /\ mbBundleConverged_Full' = TRUE /\ mbBundleConverged_Recent' = TRUE
    /\ trk' = "frame"
    /\ mm' = "recent"
    /\ UNCHANGED tracked

-----------------------------------------------------------------------------
Tracker ==
    \/ TrackMap_Project \/ TrackMap_Record \/ AddKeyFrame \/ EndFrame
    \/ RequestReset
    \/ InitFromStereo_MakeMap \/ InitFromStereo_Bundle
    \/ InitFromStereo_AddPoints \/ InitFromStereo_Converge \/ InitFromStereo_Return

MapMaker ==
    \/ BundleAdjustRecent \/ ReFindNewlyMade \/ BundleAdjustAll
    \/ ReFindFromFailureQueue \/ HandleBadPoints \/ AddKeyFrameFromTopOfQueue
    \/ Reset

Next == Tracker \/ MapMaker

Spec == Init /\ [][Next]_vars

\* The map-maker thread is scheduled by the system.
FairSpec == Spec /\ WF_vars(MapMaker)

-----------------------------------------------------------------------------
(* Properties. *)

\* A measurement in a key frame of the map is recorded with its point, so
\* that ReFind_Common(), which checks the point's record only, never finds a
\* second measurement: its assert(0), "This should never happen", does not.
MeasurementsRecorded ==
    \A k \in vpKeyFrames : \A p \in Measured(k) : k \in sMeasurementKFs[p]

\* For the points of the map the record is exact: GoodMeasCount(), on which
\* BundleAdjust() decides whether a point can lose a measurement, is the
\* number of measurements that the key frames of the map hold.
RecordsExact == \A p \in vpPoints : sMeasurementKFs[p] = Measuring(p)

\* No key frame is both recorded as measuring a point and excluded from
\* measuring it, for points in the trash as well.
RetryExcludesMeasured ==
    \A p \in MapPoints : sMeasurementKFs[p] \cap sNeverRetryKFs[p] = {}

\* Whatever adjustments take away, a point that is not bad keeps its ROOT
\* measurement and at least one other: it can still be triangulated.
GoodPointsWellMeasured ==
    \A p \in vpPoints \ bBad :
        /\ \E k \in vpKeyFrames : mMeasurements[k][p] = "root"
        /\ Cardinality(Measuring(p)) >= 2

\* Points are deleted by Reset() only, and no pointer to a point survives its
\* deletion: not in a key frame of the map, a queued one, a work queue or the
\* tracker's current frame.
NoDanglingPoints ==
    /\ \A k \in vpKeyFrames \cup Queued : Measured(k) \subseteq Allocated
    /\ \A kp \in mvFailureQueue : kp[1] \in vpKeyFrames /\ kp[2] \in Allocated
    /\ mqNewQueue \subseteq Allocated
    /\ tracked \subseteq Allocated

\* BundleAdjust() reads the Source of measurements in key frames of the map;
\* the tracker leaves it uninitialised in those it queues.
SourceInitialised ==
    \A k \in vpKeyFrames, p \in MapPoints : mMeasurements[k][p] # "unset"

\* A point that an adjustment or the tracker condemns leaves the map of a
\* running program: no order of jobs, aborts and resets keeps it in for ever.
BadPointsLeave ==
    \A p \in MapPoints :
        (bGood /\ p \in vpPoints \cap bBad) ~> (p \notin vpPoints)

-----------------------------------------------------------------------------
(* What comments of the code say, and the code does not do. *)

\* MapMaker.cc, HandleBadPoints(): "All points marked as bad will be erased -
\* erase all records of them from keyframes in which they might have been
\* measured": no key frame of the map measures a point in the trash.
TrashNotMeasured ==
    \A k \in vpKeyFrames : Measured(k) \cap vpPointsTrash = {}

=============================================================================
