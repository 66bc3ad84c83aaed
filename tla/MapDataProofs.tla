--------------------------- MODULE MapDataProofs ---------------------------
(***************************************************************************)
(* Proofs about MapData: the two sides of the map's book-keeping agree,    *)
(* and no pointer outlives its point, for every number of points and key   *)
(* frames.                                                                 *)
(***************************************************************************)
EXTENDS MapData, FiniteSetTheorems, FunctionTheorems, TLAPS

-----------------------------------------------------------------------------
(* The inductive invariant. *)

\* What the tracker's phase says of the map.
Phase ==
    /\ trk \in {"tracking", "tracked"} => bGood
    /\ trk \notin {"tracking", "tracked"} => tracked = {}
    /\ trk \in {"stereo_bundle", "stereo_add", "stereo_converge"} => ~bGood
    /\ tracked \subseteq Allocated

\* A key frame is in the map, or waits in the queue once, or in neither; only
\* a good map has a queue.
KeyFrameUse ==
    /\ vpKeyFrames # {} => newest \in vpKeyFrames
    /\ ~bGood => mvpKeyFrameQueue = <<>>
    /\ Queued \cap vpKeyFrames = {}
    /\ \A i, j \in DOMAIN mvpKeyFrameQueue :
         mvpKeyFrameQueue[i] = mvpKeyFrameQueue[j] => i = j

\* The map maker's work queues point to key frames of the map and to points.
WorkQueues ==
    /\ \A kp \in mvFailureQueue : kp[1] \in vpKeyFrames /\ kp[2] \in Allocated
    /\ mqNewQueue \subseteq Allocated

\* What key frame k and point p know of each other.  The records agree with
\* the measurements, exactly so for the points of the map, and name neither a
\* deleted point nor a key frame that is not in the map.
Entry(k, p) ==
    /\ mMeasurements[k][p] # "none" => k \in vpKeyFrames \cup Queued /\ p \in Allocated
    /\ k \in vpKeyFrames /\ mMeasurements[k][p] # "none" => k \in sMeasurementKFs[p]
    /\ p \in vpPoints /\ k \in sMeasurementKFs[p] => mMeasurements[k][p] # "none"
    /\ k \in sMeasurementKFs[p] \/ k \in sNeverRetryKFs[p] =>
         k \in vpKeyFrames /\ p \in Allocated
    /\ ~(k \in sMeasurementKFs[p] /\ k \in sNeverRetryKFs[p])
    /\ k \in vpKeyFrames => mMeasurements[k][p] # "unset"

Entries == \A k \in KeyFrames, p \in MapPoints : Entry(k, p)

IInv == TypeOK /\ Phase /\ KeyFrameUse /\ WorkQueues /\ Entries

-----------------------------------------------------------------------------
(* Types, in two parts as the provers want it: Zenon for the flags, the SMT *)
(* solver for the rest.                                                     *)

FlagTypes ==
    /\ bGood \in BOOLEAN
    /\ mbBundleConverged_Full \in BOOLEAN /\ mbBundleConverged_Recent \in BOOLEAN

MapTypes ==
    /\ vpPoints \subseteq MapPoints /\ vpPointsTrash \subseteq MapPoints
    /\ bBad \subseteq MapPoints
    /\ vpKeyFrames \subseteq KeyFrames /\ newest \in KeyFrames \cup {NoKeyFrame}
    /\ mMeasurements \in [KeyFrames -> [MapPoints -> Sources \cup {"none"}]]
    /\ sMeasurementKFs \in [MapPoints -> SUBSET KeyFrames]
    /\ sNeverRetryKFs \in [MapPoints -> SUBSET KeyFrames]
    /\ mvpKeyFrameQueue \in Seq(KeyFrames) /\ Len(mvpKeyFrameQueue) <= MaxQueue
    /\ mvFailureQueue \subseteq KeyFrames \X MapPoints
    /\ mqNewQueue \subseteq MapPoints

PhaseTypes ==
    /\ trk \in {"frame", "tracking", "tracked", "stereo_bundle", "stereo_add",
                "stereo_converge", "wait"}
    /\ tracked \subseteq MapPoints
    /\ mm \in {"recent", "newlymade", "all", "failure", "bad", "addkf"}

\* The three groups together are the type invariant.
LEMMA TypeSplit == TypeOK <=> FlagTypes /\ MapTypes /\ PhaseTypes
  BY DEF TypeOK, FlagTypes, MapTypes, PhaseTypes

\* MapMaker::Reset() in the constructor leaves every variable in its type.
LEMMA TypeInit == Init => TypeOK
  <1> SUFFICES ASSUME Init PROVE FlagTypes /\ MapTypes /\ PhaseTypes
    BY TypeSplit
  <1>1. FlagTypes
    BY DEF Init, FlagTypes
  <1>2. MapTypes
    BY DataAssumption
    DEF DataAssumption, Init, MapTypes, Sources, NoMeasurements
  <1>3. PhaseTypes
    BY DEF Init, PhaseTypes
  <1>4. QED
    BY <1>1, <1>2, <1>3

\* BundleAdjust() keeps flags, measurements and queues in their types.
LEMMA BundleAdjustTypes ==
  ASSUME TypeOK, NEW P \in SUBSET MapPoints, NEW recent \in BOOLEAN,
         BundleAdjust(P, recent)
  PROVE  FlagTypes' /\ MapTypes'
  <1> PICK accepted \in BOOLEAN, converged \in BOOLEAN,
           outliers \in SUBSET {kp \in vpKeyFrames \X P :
                                  mMeasurements[kp[1]][kp[2]] # "none"} :
        /\ \E erased \in SUBSET outliers :
             Erasable(outliers, erased) /\ HandleOutliers(outliers, erased)
        /\ mbBundleConverged_Full' =
             ((converged /\ ~recent) \/ (mbBundleConverged_Full /\ ~accepted))
        /\ mbBundleConverged_Recent' =
             (converged \/ (mbBundleConverged_Recent /\ ~(accepted /\ recent)))
        /\ UNCHANGED <<vpPoints, vpPointsTrash, vpKeyFrames, newest, bGood,
                       mvpKeyFrameQueue, mqNewQueue>>
    BY DEF BundleAdjust
  <1> PICK erased \in SUBSET outliers : HandleOutliers(outliers, erased)
    OBVIOUS
  <1>1. FlagTypes'
    BY DEF FlagTypes, TypeOK
  <1>2. MapTypes'
    BY DEF MapTypes, TypeOK, HandleOutliers, Sources
  <1>3. QED
    BY <1>1, <1>2

\* Pointers into the map, as ReFindNewlyMade() and ReFindFromFailureQueue() use
\* them.
LEMMA ReFindTypes ==
  ASSUME MapTypes, NEW pairs \in SUBSET (KeyFrames \X MapPoints),
         NEW found \in SUBSET Searchable(pairs),
         ReFind_Common(Searchable(pairs), found)
  PROVE  /\ mMeasurements' \in [KeyFrames -> [MapPoints -> Sources \cup {"none"}]]
         /\ sMeasurementKFs' \in [MapPoints -> SUBSET KeyFrames]
         /\ sNeverRetryKFs' \in [MapPoints -> SUBSET KeyFrames]
  BY DEF MapTypes, ReFind_Common, Searchable, Sources

\* AddKeyFrameFromTopOfQueue() keeps them, given a key frame to measure in.
LEMMA IntegrateTypes ==
  ASSUME TypeOK, NEW k \in KeyFrames, NEW tgt \in vpKeyFrames,
         NEW P \in SUBSET MapPoints, Integrate(k, tgt, P),
         mvpKeyFrameQueue' = Tail(mvpKeyFrameQueue), mvpKeyFrameQueue # <<>>
  PROVE  FlagTypes' /\ MapTypes'
  <1> DEFINE missed == {p \in vpPoints \ Measured(k) :
                          k \notin sMeasurementKFs[p] \cup sNeverRetryKFs[p]}
  <1> PICK found \in SUBSET missed :
        /\ vpKeyFrames' = vpKeyFrames \cup {k} /\ newest' = k
        /\ vpPoints' = vpPoints \cup P
        /\ mqNewQueue' = mqNewQueue \cup P
        /\ mMeasurements' = IntegratedMeasurements(k, tgt, P, found)
        /\ sMeasurementKFs' = IntegratedRecords(k, tgt, P, found)
        /\ sNeverRetryKFs' = [p \in MapPoints |->
             IF p \in missed \ found THEN sNeverRetryKFs[p] \cup {k}
             ELSE sNeverRetryKFs[p]]
        /\ mbBundleConverged_Full' = FALSE /\ mbBundleConverged_Recent' = FALSE
        /\ UNCHANGED <<vpPointsTrash, bBad, bGood, mvFailureQueue>>
    BY DEF Integrate
  <1>1. FlagTypes'
    BY DEF FlagTypes, TypeOK
  <1>2. MapTypes'
    BY DataAssumption
    DEF DataAssumption, MapTypes, TypeOK, IntegratedMeasurements,
        IntegratedRecords, Sources
  <1>3. QED
    BY <1>1, <1>2

\* The newest key frame is one whenever points are made from it.
LEMMA TypeStep == TypeOK /\ KeyFrameUse /\ [Next]_vars => TypeOK'
  <1> SUFFICES ASSUME TypeOK, KeyFrameUse, [Next]_vars
               PROVE  FlagTypes' /\ MapTypes' /\ PhaseTypes'
    BY DEF TypeOK, FlagTypes, MapTypes, PhaseTypes
  <1> USE DataAssumption
      DEF DataAssumption, mapVars, measVars, workVars, flagVars, trackVars
  <1>1. CASE TrackMap_Project
    BY <1>1, Zenon, TypeSplit DEF TrackMap_Project, FlagTypes, MapTypes, PhaseTypes
  <1>2. CASE TrackMap_Record
    BY <1>2 DEF TrackMap_Record, TypeOK, FlagTypes, MapTypes, PhaseTypes
  <1>3. CASE AddKeyFrame
    <2> PICK k \in KeyFrames \ (vpKeyFrames \cup Queued) :
          /\ mvpKeyFrameQueue' = Append(mvpKeyFrameQueue, k)
          /\ mMeasurements' = [mMeasurements EXCEPT ![k] =
               [p \in MapPoints |-> IF p \in tracked THEN "unset" ELSE "none"]]
      BY <1>3 DEF AddKeyFrame
    <2> QED
      BY <1>3 DEF AddKeyFrame, RoomInQueue, TypeOK, FlagTypes, MapTypes,
                  PhaseTypes, Sources
  <1>4. CASE EndFrame
    BY <1>4 DEF EndFrame, TypeOK, FlagTypes, MapTypes, PhaseTypes
  <1>5. CASE RequestReset
    BY <1>5 DEF RequestReset, TypeOK, FlagTypes, MapTypes, PhaseTypes
  <1>6. CASE InitFromStereo_MakeMap
    <2> PICK first \in KeyFrames, second \in KeyFrames, P \in SUBSET MapPoints :
          /\ first # second
          /\ NewPoints(P, first, second, "final")
          /\ vpKeyFrames' = {first, second} /\ newest' = second
      BY <1>6 DEF InitFromStereo_MakeMap
    <2> QED
      BY <1>6 DEF InitFromStereo_MakeMap, NewPoints, TypeOK, FlagTypes, MapTypes,
                  PhaseTypes, Sources
  <1>7. CASE InitFromStereo_Bundle
    BY <1>7, BundleAdjustTypes DEF InitFromStereo_Bundle, TypeOK, PhaseTypes
  <1>8. CASE InitFromStereo_AddPoints
    <2> PICK P \in SUBSET (MapPoints \ Allocated), tgt \in vpKeyFrames \ {newest} :
          /\ NewPoints(P, newest, tgt, "retry")
          /\ mqNewQueue' = mqNewQueue \cup P
      BY <1>8 DEF InitFromStereo_AddPoints
    <2>1. FlagTypes'
      BY <1>8 DEF InitFromStereo_AddPoints, TypeOK, FlagTypes
    <2>2. newest \in KeyFrames
      BY DEF KeyFrameUse, TypeOK
    <2> QED
      BY <1>8, <2>1, <2>2 DEF InitFromStereo_AddPoints, NewPoints, TypeOK,
                  MapTypes, PhaseTypes, Sources
  <1>9. CASE InitFromStereo_Converge
    BY <1>9, BundleAdjustTypes DEF InitFromStereo_Converge, TypeOK, PhaseTypes
  <1>10. CASE InitFromStereo_Return
    <2>1. FlagTypes'
      BY <1>10 DEF InitFromStereo_Return, TypeOK, FlagTypes
    <2> QED
      BY <1>10, <2>1 DEF InitFromStereo_Return, TypeOK, MapTypes, PhaseTypes
  <1>11. CASE BundleAdjustRecent
    <2>1. CASE Skip("newlymade")
      BY <1>11, <2>1 DEF BundleAdjustRecent, Skip, TypeOK, FlagTypes, MapTypes, PhaseTypes
    <2>2. CASE /\ mbBundleConverged_Recent' = TRUE
               /\ UNCHANGED <<mapVars, measVars, mvpKeyFrameQueue, workVars,
                              mbBundleConverged_Full>>
      <3>1. FlagTypes'
        BY <2>2 DEF TypeOK, FlagTypes
      <3> QED
        BY <1>11, <2>2, <3>1 DEF BundleAdjustRecent, Skip, TypeOK, MapTypes, PhaseTypes
    <2>3. ASSUME NEW adjusted \in SUBSET vpKeyFrames,
                 BundleAdjust(UNION {Measured(k) : k \in adjusted}, TRUE)
          PROVE  FlagTypes' /\ MapTypes' /\ PhaseTypes'
      <3>1. UNION {Measured(k) : k \in adjusted} \in SUBSET MapPoints
        BY DEF Measured
      <3>2. FlagTypes' /\ MapTypes'
        BY <2>3, <3>1, BundleAdjustTypes
      <3>3. QED
        BY <1>11, <3>2 DEF BundleAdjustRecent, Skip, TypeOK, PhaseTypes
    <2>4. QED
      BY <1>11, <2>1, <2>2, <2>3 DEF BundleAdjustRecent
  <1>12. CASE ReFindNewlyMade
    <2>1. CASE Skip("all")
      BY <1>12, <2>1 DEF ReFindNewlyMade, Skip, TypeOK, FlagTypes, MapTypes, PhaseTypes
    <2>2. ASSUME NEW done \in SUBSET mqNewQueue,
                 NEW found \in SUBSET Searchable(vpKeyFrames \X (done \ bBad)),
                 ReFind_Common(Searchable(vpKeyFrames \X (done \ bBad)), found),
                 mqNewQueue' = mqNewQueue \ done, mm' = "all",
                 UNCHANGED <<mapVars, mvpKeyFrameQueue, mvFailureQueue, flagVars>>
          PROVE  FlagTypes' /\ MapTypes' /\ PhaseTypes'
      <3>1. vpKeyFrames \X (done \ bBad) \in SUBSET (KeyFrames \X MapPoints)
        BY DEF TypeOK
      <3>2. MapTypes
        BY TypeSplit
      <3>3. FlagTypes'
        BY <2>2 DEF TypeOK, FlagTypes
      <3>4. MapTypes'
        BY <2>2, <3>1, <3>2, ReFindTypes DEF MapTypes
      <3>5. QED
        BY <1>12, <2>2, <3>3, <3>4 DEF ReFindNewlyMade, TypeOK, PhaseTypes
    <2>3. QED
      BY <1>12, <2>1, <2>2 DEF ReFindNewlyMade
  <1>13. CASE BundleAdjustAll
    <2>1. CASE Skip("failure")
      BY <1>13, <2>1 DEF BundleAdjustAll, Skip, TypeOK, FlagTypes, MapTypes, PhaseTypes
    <2>2. CASE BundleAdjust(vpPoints, FALSE) /\ mm' = "failure"
      BY <1>13, <2>2, BundleAdjustTypes DEF BundleAdjustAll, TypeOK, PhaseTypes
    <2>3. QED
      BY <1>13, <2>1, <2>2 DEF BundleAdjustAll
  <1>14. CASE ReFindFromFailureQueue
    <2>1. CASE Skip("bad")
      BY <1>14, <2>1 DEF ReFindFromFailureQueue, Skip, TypeOK, FlagTypes, MapTypes, PhaseTypes
    <2>2. ASSUME NEW found \in SUBSET Searchable(mvFailureQueue),
                 ReFind_Common(Searchable(mvFailureQueue), found),
                 mvFailureQueue' = {}, mm' = "bad",
                 UNCHANGED <<mapVars, mvpKeyFrameQueue, mqNewQueue, flagVars>>
          PROVE  FlagTypes' /\ MapTypes' /\ PhaseTypes'
      <3>1. mvFailureQueue \in SUBSET (KeyFrames \X MapPoints)
        BY DEF TypeOK
      <3>2. MapTypes
        BY TypeSplit
      <3>3. FlagTypes'
        BY <2>2 DEF TypeOK, FlagTypes
      <3>4. MapTypes'
        BY <2>2, <3>1, <3>2, ReFindTypes DEF MapTypes
      <3>5. QED
        BY <1>14, <2>2, <3>3, <3>4 DEF ReFindFromFailureQueue, TypeOK, PhaseTypes
    <2>3. QED
      BY <1>14, <2>1, <2>2 DEF ReFindFromFailureQueue
  <1>15. CASE HandleBadPoints
    BY <1>15 DEF HandleBadPoints, Condemned, Trashed, TypeOK, FlagTypes,
                 MapTypes, PhaseTypes, Sources
  <1>16. CASE AddKeyFrameFromTopOfQueue
    <2>1. CASE UNCHANGED <<mapVars, measVars, mvpKeyFrameQueue, workVars, flagVars>>
      BY <1>16, <2>1 DEF AddKeyFrameFromTopOfQueue, TypeOK, FlagTypes, MapTypes,
                         PhaseTypes
    <2>2. ASSUME mvpKeyFrameQueue # <<>>,
                 mvpKeyFrameQueue' = Tail(mvpKeyFrameQueue),
                 NEW tgt \in vpKeyFrames, NEW P \in SUBSET (MapPoints \ Allocated),
                 Integrate(Head(mvpKeyFrameQueue), tgt, P)
          PROVE  FlagTypes' /\ MapTypes' /\ PhaseTypes'
      <3>1. Head(mvpKeyFrameQueue) \in KeyFrames
        BY <2>2 DEF TypeOK
      <3>2. FlagTypes' /\ MapTypes'
        BY <2>2, <3>1, IntegrateTypes
      <3>3. QED
        BY <1>16, <3>2 DEF AddKeyFrameFromTopOfQueue, TypeOK, PhaseTypes
    <2>3. QED
      BY <1>16, <2>1, <2>2 DEF AddKeyFrameFromTopOfQueue, Idle
  <1>17. CASE Reset
    <2>1. FlagTypes'
      BY <1>17 DEF Reset, FlagTypes
    <2>2. QED
      BY <1>17, <2>1 DEF Reset, TypeOK, MapTypes, PhaseTypes, NoMeasurements, Sources
  <1>18. CASE UNCHANGED vars
    BY <1>18 DEF vars, TypeOK, FlagTypes, MapTypes, PhaseTypes
  <1>19. QED
    BY <1>1, <1>2, <1>3, <1>4, <1>5, <1>6, <1>7, <1>8, <1>9, <1>10, <1>11,
       <1>12, <1>13, <1>14, <1>15, <1>16, <1>17, <1>18
    DEF Next, Tracker, MapMaker

-----------------------------------------------------------------------------
(* The book-keeping survives each of the pieces that the jobs share.        *)

\* Queued key frames and allocated points are key frames and points.
LEMMA KeyFrameSets ==
  ASSUME TypeOK
  PROVE  vpKeyFrames \subseteq KeyFrames /\ Queued \subseteq KeyFrames
  BY DEF TypeOK, Queued

\* BundleAdjust(): an erased outlier leaves both sides.
LEMMA BundleAdjustStep ==
  ASSUME IInv, NEW P \in SUBSET MapPoints, NEW recent \in BOOLEAN,
         BundleAdjust(P, recent)
  PROVE  /\ KeyFrameUse' /\ WorkQueues' /\ Entries'
         /\ UNCHANGED <<bGood, vpKeyFrames, mvpKeyFrameQueue>>
         /\ Allocated' = Allocated
  <1> PICK outliers \in SUBSET {kp \in vpKeyFrames \X P :
                                  mMeasurements[kp[1]][kp[2]] # "none"} :
        /\ \E erased \in SUBSET outliers :
             Erasable(outliers, erased) /\ HandleOutliers(outliers, erased)
        /\ UNCHANGED <<vpPoints, vpPointsTrash, vpKeyFrames, newest, bGood,
                       mvpKeyFrameQueue, mqNewQueue>>
    BY DEF BundleAdjust
  <1> PICK erased \in SUBSET outliers : HandleOutliers(outliers, erased)
    OBVIOUS
  <1>1. Queued' = Queued /\ Allocated' = Allocated
    BY DEF Queued, Allocated
  <1>2. \A kp \in erased : kp[1] \in vpKeyFrames /\ kp[2] \in Allocated
    BY KeyFrameSets DEF IInv, Entries, Entry
  <1>3. KeyFrameUse'
    BY <1>1 DEF IInv, KeyFrameUse
  <1>4. WorkQueues'
    <2>1. mvFailureQueue' \subseteq mvFailureQueue \cup erased
      BY DEF HandleOutliers
    <2>2. QED
      BY <1>1, <1>2, <2>1 DEF IInv, WorkQueues
  <1>5. ASSUME NEW k \in KeyFrames, NEW p \in MapPoints
        PROVE  Entry(k, p)'
    <2>1. mMeasurements'[k][p] =
            IF <<k, p>> \in erased THEN "none" ELSE mMeasurements[k][p]
      BY DEF HandleOutliers
    <2>2. k \in sMeasurementKFs'[p] <=>
            k \in sMeasurementKFs[p] /\ <<k, p>> \notin erased
      BY DEF HandleOutliers
    <2>3. k \in sNeverRetryKFs'[p] <=>
            \/ k \in sNeverRetryKFs[p]
            \/ <<k, p>> \in erased /\ mMeasurements[k][p] # "retry"
      BY DEF HandleOutliers
    <2>4. QED
      BY <1>1, <1>2, <2>1, <2>2, <2>3 DEF IInv, Entries, Entry
  <1>6. QED
    BY <1>1, <1>3, <1>4, <1>5 DEF Entries

\* ReFind_Common(): a point that is found enters both sides, one that is not
\* found is excluded from both.
LEMMA ReFindStep ==
  ASSUME IInv, NEW pairs \in SUBSET (vpKeyFrames \X Allocated),
         NEW found \in SUBSET Searchable(pairs),
         ReFind_Common(Searchable(pairs), found),
         mqNewQueue' \subseteq mqNewQueue, mvFailureQueue' \subseteq mvFailureQueue,
         UNCHANGED <<mapVars, mvpKeyFrameQueue>>
  PROVE  KeyFrameUse' /\ WorkQueues' /\ Entries'
  <1>1. UNCHANGED <<vpPoints, vpPointsTrash, vpKeyFrames, newest, bGood>>
    BY DEF mapVars
  <1>2. Queued' = Queued /\ Allocated' = Allocated
    BY <1>1 DEF Queued, Allocated
  <1>3. KeyFrameUse'
    BY <1>1, <1>2 DEF IInv, KeyFrameUse
  <1>4. WorkQueues'
    BY <1>1, <1>2 DEF IInv, WorkQueues
  <1>5. ASSUME NEW k \in KeyFrames, NEW p \in MapPoints
        PROVE  Entry(k, p)'
    <2>1. mMeasurements'[k][p] =
            IF <<k, p>> \in found THEN "final" ELSE mMeasurements[k][p]
      BY DEF ReFind_Common
    <2>2. k \in sMeasurementKFs'[p] <=>
            k \in sMeasurementKFs[p] \/ <<k, p>> \in found
      BY DEF ReFind_Common
    <2>3. k \in sNeverRetryKFs'[p] <=>
            k \in sNeverRetryKFs[p] \/ <<k, p>> \in Searchable(pairs) \ found
      BY DEF ReFind_Common
    <2>4. <<k, p>> \in Searchable(pairs) =>
            /\ k \in vpKeyFrames /\ p \in Allocated
            /\ k \notin sMeasurementKFs[p] /\ k \notin sNeverRetryKFs[p]
      BY DEF Searchable
    <2>5. QED
      BY <1>1, <1>2, <2>1, <2>2, <2>3, <2>4 DEF IInv, Entries, Entry
  <1>6. QED
    BY <1>3, <1>4, <1>5 DEF Entries

\* AddSomeMapPoints(): new points enter both sides.
LEMMA AddPointsStep ==
  ASSUME IInv, NEW P \in SUBSET (MapPoints \ Allocated),
         NEW tgt \in vpKeyFrames \ {newest}, NewPoints(P, newest, tgt, "retry"),
         mqNewQueue' = mqNewQueue \cup P,
         UNCHANGED <<vpPointsTrash, vpKeyFrames, newest, bGood, sNeverRetryKFs,
                     mvpKeyFrameQueue, mvFailureQueue>>
  PROVE  KeyFrameUse' /\ WorkQueues' /\ Entries' /\ Allocated \subseteq Allocated'
  <1>1. Queued' = Queued /\ Allocated' = Allocated \cup P
    BY DEF Queued, Allocated, NewPoints
  <1>2. newest \in vpKeyFrames
    BY DEF IInv, KeyFrameUse
  <1>3. KeyFrameUse'
    BY <1>1 DEF IInv, KeyFrameUse
  <1>4. WorkQueues'
    BY <1>1 DEF IInv, WorkQueues
  <1>5. ASSUME NEW k \in KeyFrames, NEW p \in MapPoints
        PROVE  Entry(k, p)'
    <2>1. mMeasurements'[k][p] = IF p \in P /\ k = newest THEN "root"
                                 ELSE IF p \in P /\ k = tgt THEN "retry"
                                 ELSE mMeasurements[k][p]
      BY DEF NewPoints
    <2>2. sMeasurementKFs'[p] = IF p \in P THEN {newest, tgt} ELSE sMeasurementKFs[p]
      BY DEF NewPoints
    <2>3. p \in vpPoints' <=> p \in vpPoints \cup P
      BY DEF NewPoints
    <2>4. p \in P => p \notin Allocated
      OBVIOUS
    <2>5. QED
      BY <1>1, <1>2, <2>1, <2>2, <2>3, <2>4 DEF IInv, Entries, Entry
  <1>6. QED
    BY <1>1, <1>3, <1>4, <1>5 DEF Entries

\* InitFromStereo() on an empty map.
LEMMA MakeMapStep ==
  ASSUME IInv, InitFromStereo_MakeMap
  PROVE  KeyFrameUse' /\ WorkQueues' /\ Entries' /\ Allocated \subseteq Allocated'
  <1> PICK first \in KeyFrames, second \in KeyFrames, P \in SUBSET MapPoints :
        /\ first # second
        /\ NewPoints(P, first, second, "final")
        /\ vpKeyFrames' = {first, second} /\ newest' = second
    BY DEF InitFromStereo_MakeMap
  <1> USE DEF workVars
  <1>1. ~bGood /\ vpKeyFrames = {} /\ Queued = {}
    BY DEF InitFromStereo_MakeMap, IInv, KeyFrameUse, Queued
  <1>2. Queued' = Queued /\ Allocated' = Allocated \cup P
    BY DEF Queued, Allocated, NewPoints, InitFromStereo_MakeMap
  <1>3. KeyFrameUse'
    BY <1>1, <1>2 DEF IInv, KeyFrameUse, InitFromStereo_MakeMap
  <1>4. WorkQueues'
    BY <1>1, <1>2 DEF IInv, WorkQueues, InitFromStereo_MakeMap
  <1>5. ASSUME NEW k \in KeyFrames, NEW p \in MapPoints
        PROVE  Entry(k, p)'
    <2>1. mMeasurements'[k][p] = IF p \in P /\ k = first THEN "root"
                                 ELSE IF p \in P /\ k = second THEN "final"
                                 ELSE mMeasurements[k][p]
      BY DEF NewPoints
    <2>2. sMeasurementKFs'[p] = IF p \in P THEN {first, second} ELSE sMeasurementKFs[p]
      BY DEF NewPoints
    <2>3. sNeverRetryKFs' = sNeverRetryKFs
      BY DEF InitFromStereo_MakeMap
    <2>4. Entry(k, p)
      BY DEF IInv, Entries
    <2>5. /\ mMeasurements[k][p] = "none"
          /\ k \notin sMeasurementKFs[p] /\ k \notin sNeverRetryKFs[p]
      BY <1>1, <2>4 DEF Entry
    <2>6. QED
      BY <1>1, <1>2, <2>1, <2>2, <2>3, <2>5 DEF Entry
  <1>6. QED
    BY <1>2, <1>3, <1>4, <1>5 DEF Entries

\* MapMaker::AddKeyFrame(): blank memory becomes a queued key frame that
\* measures points which are allocated.
LEMMA AddKeyFrameStep ==
  ASSUME IInv, AddKeyFrame
  PROVE  KeyFrameUse' /\ WorkQueues' /\ Entries' /\ Allocated' = Allocated
  <1> PICK k \in KeyFrames \ (vpKeyFrames \cup Queued) :
        /\ mvpKeyFrameQueue' = Append(mvpKeyFrameQueue, k)
        /\ mMeasurements' = [mMeasurements EXCEPT ![k] =
             [p \in MapPoints |-> IF p \in tracked THEN "unset" ELSE "none"]]
    BY DEF AddKeyFrame
  <1> USE DEF mapVars, workVars
  <1>1. mvpKeyFrameQueue \in Seq(KeyFrames)
    BY DEF IInv, TypeOK
  <1>2. UNCHANGED <<vpPoints, vpPointsTrash, vpKeyFrames, newest, bGood,
                    sMeasurementKFs, sNeverRetryKFs, mvFailureQueue, mqNewQueue>>
    BY DEF AddKeyFrame
  <1>3. Allocated' = Allocated /\ Queued' = Queued \cup {k}
    BY <1>1, <1>2 DEF Allocated, Queued
  <1>4. KeyFrameUse'
    <2>1. bGood
      BY DEF AddKeyFrame, IInv, Phase
    <2>2. \A i \in DOMAIN mvpKeyFrameQueue : mvpKeyFrameQueue[i] # k
      BY DEF Queued
    <2>3. \A i, j \in DOMAIN mvpKeyFrameQueue' :
            mvpKeyFrameQueue'[i] = mvpKeyFrameQueue'[j] => i = j
      BY <1>1, <2>2 DEF IInv, KeyFrameUse
    <2>4. QED
      BY <1>2, <1>3, <2>1, <2>3 DEF IInv, KeyFrameUse
  <1>5. WorkQueues'
    BY <1>2, <1>3 DEF IInv, WorkQueues
  <1>6. ASSUME NEW j \in KeyFrames, NEW p \in MapPoints
        PROVE  Entry(j, p)'
    <2>1. mMeasurements'[j][p] = IF j = k THEN IF p \in tracked THEN "unset" ELSE "none"
                                 ELSE mMeasurements[j][p]
      BY DEF IInv, TypeOK
    <2>2. tracked \subseteq Allocated
      BY DEF IInv, Phase
    <2>3. Entry(j, p)
      BY DEF IInv, Entries
    <2>4. QED
      BY <1>2, <1>3, <2>1, <2>2, <2>3 DEF Entry
  <1>7. QED
    BY <1>3, <1>4, <1>5, <1>6 DEF Entries

\* HandleBadPoints(): a bad point leaves the map together with its
\* measurements; its records stay behind.
LEMMA HandleBadPointsStep ==
  ASSUME IInv, HandleBadPoints
  PROVE  KeyFrameUse' /\ WorkQueues' /\ Entries' /\ Allocated' = Allocated
  <1> PICK rejected \in SUBSET vpPoints :
        /\ mMeasurements' = [k \in KeyFrames |-> [p \in MapPoints |->
             IF k \in vpKeyFrames /\ p \in Condemned(rejected) THEN "none"
             ELSE mMeasurements[k][p]]]
        /\ vpPoints' = vpPoints \ Condemned(rejected)
        /\ vpPointsTrash' = Trashed(Condemned(rejected))
    BY DEF HandleBadPoints
  <1> USE DEF workVars
  <1>1. Allocated' = Allocated
    BY DEF Allocated, Condemned, Trashed
  <1>2. UNCHANGED <<vpKeyFrames, newest, bGood, sMeasurementKFs, sNeverRetryKFs,
                    mvpKeyFrameQueue, mvFailureQueue, mqNewQueue>>
    BY DEF HandleBadPoints
  <1>3. Queued' = Queued
    BY <1>2 DEF Queued
  <1>4. KeyFrameUse' /\ WorkQueues'
    BY <1>1, <1>2, <1>3 DEF IInv, KeyFrameUse, WorkQueues
  <1>5. ASSUME NEW k \in KeyFrames, NEW p \in MapPoints
        PROVE  Entry(k, p)'
    <2>1. mMeasurements'[k][p] =
            IF k \in vpKeyFrames /\ p \in Condemned(rejected) THEN "none"
            ELSE mMeasurements[k][p]
      OBVIOUS
    <2>2. p \in vpPoints' => p \in vpPoints /\ p \notin Condemned(rejected)
      OBVIOUS
    <2>3. Entry(k, p)
      BY DEF IInv, Entries
    <2>4. QED
      BY <1>1, <1>2, <1>3, <2>1, <2>2, <2>3 DEF Entry
  <1>6. QED
    BY <1>1, <1>4, <1>5 DEF Entries

\* AddKeyFrameFromTopOfQueue() with a key frame in the queue.
LEMMA IntegrateStep ==
  ASSUME IInv, mvpKeyFrameQueue # <<>>,
         mvpKeyFrameQueue' = Tail(mvpKeyFrameQueue),
         NEW tgt \in vpKeyFrames, NEW P \in SUBSET (MapPoints \ Allocated),
         Integrate(Head(mvpKeyFrameQueue), tgt, P)
  PROVE  /\ KeyFrameUse' /\ WorkQueues' /\ Entries'
         /\ bGood' = bGood /\ Allocated \subseteq Allocated'
  <1> DEFINE k == Head(mvpKeyFrameQueue)
             missed == {p \in vpPoints \ Measured(k) :
                          k \notin sMeasurementKFs[p] \cup sNeverRetryKFs[p]}
  <1> PICK found \in SUBSET missed :
        /\ vpKeyFrames' = vpKeyFrames \cup {k} /\ newest' = k
        /\ vpPoints' = vpPoints \cup P
        /\ mqNewQueue' = mqNewQueue \cup P
        /\ mMeasurements' = IntegratedMeasurements(k, tgt, P, found)
        /\ sMeasurementKFs' = IntegratedRecords(k, tgt, P, found)
        /\ sNeverRetryKFs' = [p \in MapPoints |->
             IF p \in missed \ found THEN sNeverRetryKFs[p] \cup {k}
             ELSE sNeverRetryKFs[p]]
        /\ UNCHANGED <<vpPointsTrash, bGood, mvFailureQueue>>
    BY DEF Integrate
  <1>1. mvpKeyFrameQueue \in Seq(KeyFrames)
    BY DEF IInv, TypeOK
  <1>2. Allocated' = Allocated \cup P
    BY DEF Allocated
  <1>3. /\ k \in Queued /\ k \in KeyFrames /\ k \notin vpKeyFrames
        /\ Queued' = Queued \ {k}
    <2>1. k \in Queued /\ k \in KeyFrames
      BY <1>1 DEF Queued
    <2>2. k \notin Queued' /\ Queued' \subseteq Queued
      BY <1>1 DEF Queued, IInv, KeyFrameUse
    <2>3. \A i \in DOMAIN mvpKeyFrameQueue :
            mvpKeyFrameQueue[i] = k \/ mvpKeyFrameQueue[i] \in Queued'
      <3>1. ASSUME NEW i \in DOMAIN mvpKeyFrameQueue, i # 1
            PROVE  /\ i - 1 \in DOMAIN mvpKeyFrameQueue'
                   /\ mvpKeyFrameQueue'[i - 1] = mvpKeyFrameQueue[i]
        BY <1>1, <3>1
      <3>2. QED
        BY <1>1, <3>1 DEF Queued
    <2>4. QED
      BY <2>1, <2>2, <2>3 DEF Queued, IInv, KeyFrameUse
  <1>4. KeyFrameUse'
    <2>1. bGood /\ bGood' = bGood
      BY DEF IInv, KeyFrameUse
    <2>2. \A i, j \in DOMAIN mvpKeyFrameQueue' :
            mvpKeyFrameQueue'[i] = mvpKeyFrameQueue'[j] => i = j
      BY <1>1 DEF IInv, KeyFrameUse
    <2>3. QED
      BY <1>3, <2>1, <2>2 DEF IInv, KeyFrameUse
  <1>5. WorkQueues'
    BY <1>2 DEF IInv, WorkQueues
  <1>6. ASSUME NEW j \in KeyFrames, NEW p \in MapPoints
        PROVE  Entry(j, p)'
    <2>1. mMeasurements'[j][p] = IF j = k /\ p \in P THEN "root"
                                 ELSE IF j = k /\ p \in found THEN "final"
                                 ELSE IF j = k /\ p \in Measured(k) THEN "retry"
                                 ELSE IF j = tgt /\ p \in P THEN "retry"
                                 ELSE mMeasurements[j][p]
      BY DEF IntegratedMeasurements
    <2>2. sMeasurementKFs'[p] = IF p \in P THEN {k, tgt}
                                ELSE IF p \in Measured(k) \cup found
                                     THEN sMeasurementKFs[p] \cup {k}
                                ELSE sMeasurementKFs[p]
      BY DEF IntegratedRecords
    <2>3. sNeverRetryKFs'[p] = IF p \in missed \ found THEN sNeverRetryKFs[p] \cup {k}
                               ELSE sNeverRetryKFs[p]
      OBVIOUS
    <2>4. p \in found => p \in missed
      OBVIOUS
    <2>5. p \in missed => p \in vpPoints /\ p \in Allocated /\ p \notin Measured(k)
      BY DEF Allocated
    <2>6. p \in Measured(k) <=> mMeasurements[k][p] # "none"
      BY DEF Measured
    <2>7. p \in P => p \notin Allocated
      OBVIOUS
    <2>8. p \in vpPoints' <=> p \in vpPoints \/ p \in P
      OBVIOUS
    <2>9. Entry(j, p) /\ Entry(k, p)
      BY <1>3 DEF IInv, Entries
    <2> HIDE DEF k, missed
    <2>10. QED
      BY <1>2, <1>3, <2>1, <2>2, <2>3, <2>4, <2>5, <2>6, <2>7, <2>8, <2>9 DEF Entry
  <1>7. QED
    BY <1>2, <1>4, <1>5, <1>6 DEF Entries

-----------------------------------------------------------------------------
(* The inductive invariant is one. *)

\* An empty map has nothing to disagree about.
LEMMA IInvInit == Init => IInv
  <1> SUFFICES ASSUME Init PROVE Phase /\ KeyFrameUse /\ WorkQueues /\ Entries
    BY TypeInit DEF IInv
  <1>1. Queued = {}
    BY DEF Init, Queued
  <1>2. QED
    BY <1>1 DEF Init, Phase, KeyFrameUse, WorkQueues, Entries, Entry, NoMeasurements

\* A step of a thread that leaves the map and its books alone.
LEMMA DataUnchanged ==
  ASSUME IInv, UNCHANGED <<mapVars, measVars, mvpKeyFrameQueue, workVars>>
  PROVE  KeyFrameUse' /\ WorkQueues' /\ Entries' /\ Allocated' = Allocated
  BY DEF IInv, KeyFrameUse, WorkQueues, Entries, Entry, Queued, Allocated,
         mapVars, measVars, workVars

\* The tracker keeps both sides of the books in agreement.
LEMMA TrackerStep ==
  ASSUME IInv, Tracker
  PROVE  Phase' /\ KeyFrameUse' /\ WorkQueues' /\ Entries'
  <1> USE DEF mapVars, measVars, workVars
  <1>1. CASE TrackMap_Project
    BY <1>1, DataUnchanged DEF TrackMap_Project, IInv, Phase, Allocated
  <1>2. CASE TrackMap_Record
    BY <1>2, DataUnchanged DEF TrackMap_Record, IInv, Phase
  <1>3. CASE AddKeyFrame
    BY <1>3, AddKeyFrameStep DEF AddKeyFrame, IInv, Phase
  <1>4. CASE EndFrame
    BY <1>4, DataUnchanged DEF EndFrame, IInv, Phase
  <1>5. CASE RequestReset
    BY <1>5, DataUnchanged DEF RequestReset, IInv, Phase
  <1>6. CASE InitFromStereo_MakeMap
    BY <1>6, MakeMapStep DEF InitFromStereo_MakeMap, IInv, Phase
  <1>7. CASE InitFromStereo_Bundle
    BY <1>7, BundleAdjustStep DEF InitFromStereo_Bundle, IInv, TypeOK, Phase
  <1>8. CASE InitFromStereo_AddPoints
    <2> PICK P \in SUBSET (MapPoints \ Allocated), tgt \in vpKeyFrames \ {newest} :
          /\ NewPoints(P, newest, tgt, "retry")
          /\ mqNewQueue' = mqNewQueue \cup P
      BY <1>8 DEF InitFromStereo_AddPoints
    <2> QED
      BY <1>8, AddPointsStep DEF InitFromStereo_AddPoints, IInv, Phase
  <1>9. CASE InitFromStereo_Converge
    BY <1>9, BundleAdjustStep DEF InitFromStereo_Converge, IInv, TypeOK, Phase
  <1>10. CASE InitFromStereo_Return
    <2>1. Queued' = Queued /\ Allocated' = Allocated
      BY <1>10 DEF InitFromStereo_Return, Queued, Allocated
    <2>2. Entries' /\ WorkQueues' /\ KeyFrameUse'
      BY <1>10, <2>1
      DEF InitFromStereo_Return, IInv, Phase, Entries, Entry, WorkQueues, KeyFrameUse
    <2>3. Phase'
      BY <1>10, <2>1 DEF InitFromStereo_Return, IInv, Phase
    <2>4. QED
      BY <2>2, <2>3
  <1>11. QED
    BY <1>1, <1>2, <1>3, <1>4, <1>5, <1>6, <1>7, <1>8, <1>9, <1>10 DEF Tracker

\* So does every job of the map maker.
LEMMA MapMakerStep ==
  ASSUME IInv, MapMaker
  PROVE  Phase' /\ KeyFrameUse' /\ WorkQueues' /\ Entries'
  <1> USE DEF mapVars, measVars, workVars, trackVars
  <1> DEFINE Kept == /\ KeyFrameUse' /\ WorkQueues' /\ Entries'
                     /\ bGood' = bGood /\ Allocated \subseteq Allocated'
  <1>1. Kept /\ UNCHANGED trackVars => Phase'
    BY DEF IInv, Phase
  <1>2. UNCHANGED <<mapVars, measVars, mvpKeyFrameQueue, workVars>> => Kept
    BY DataUnchanged
  <1>3. \A P \in SUBSET MapPoints, recent \in BOOLEAN : BundleAdjust(P, recent) => Kept
    BY BundleAdjustStep
  <1> HIDE DEF Kept
  <1>4. CASE BundleAdjustRecent
    <2>1. ASSUME NEW adjusted \in SUBSET vpKeyFrames,
                 BundleAdjust(UNION {Measured(k) : k \in adjusted}, TRUE)
          PROVE  Kept
      <3>1. UNION {Measured(k) : k \in adjusted} \in SUBSET MapPoints
        BY DEF Measured
      <3>2. QED
        BY <2>1, <3>1, <1>3
    <2>2. Kept
      BY <1>4, <2>1, <1>2 DEF BundleAdjustRecent, Skip
    <2>3. QED
      BY <1>4, <1>1, <2>2 DEF BundleAdjustRecent, Kept
  <1>5. CASE ReFindNewlyMade
    <2>1. ASSUME NEW done \in SUBSET mqNewQueue,
                 NEW found \in SUBSET Searchable(vpKeyFrames \X (done \ bBad)),
                 ReFind_Common(Searchable(vpKeyFrames \X (done \ bBad)), found),
                 mqNewQueue' = mqNewQueue \ done,
                 UNCHANGED <<mapVars, mvpKeyFrameQueue, mvFailureQueue, flagVars>>
          PROVE  Kept
      <3>1. vpKeyFrames \X (done \ bBad) \in SUBSET (vpKeyFrames \X Allocated)
        BY DEF IInv, WorkQueues
      <3>2. KeyFrameUse' /\ WorkQueues' /\ Entries'
        BY <2>1, <3>1, ReFindStep
      <3>3. QED
        BY <2>1, <3>2 DEF Kept, Allocated
    <2>2. Kept
      BY <1>5, <2>1, <1>2 DEF ReFindNewlyMade, Skip
    <2>3. QED
      BY <1>5, <1>1, <2>2 DEF ReFindNewlyMade, Kept
  <1>6. CASE BundleAdjustAll
    <2>1. vpPoints \in SUBSET MapPoints
      BY DEF IInv, TypeOK
    <2>2. Kept
      BY <1>6, <2>1, <1>2, <1>3 DEF BundleAdjustAll, Skip
    <2>3. QED
      BY <1>6, <1>1, <2>2 DEF BundleAdjustAll, Kept
  <1>7. CASE ReFindFromFailureQueue
    <2>1. ASSUME NEW found \in SUBSET Searchable(mvFailureQueue),
                 ReFind_Common(Searchable(mvFailureQueue), found),
                 mvFailureQueue' = {},
                 UNCHANGED <<mapVars, mvpKeyFrameQueue, mqNewQueue, flagVars>>
          PROVE  Kept
      <3>1. mvFailureQueue \in SUBSET (vpKeyFrames \X Allocated)
        BY DEF IInv, TypeOK, WorkQueues
      <3>2. KeyFrameUse' /\ WorkQueues' /\ Entries'
        BY <2>1, <3>1, ReFindStep
      <3>3. QED
        BY <2>1, <3>2 DEF Kept, Allocated
    <2>2. Kept
      BY <1>7, <2>1, <1>2 DEF ReFindFromFailureQueue, Skip
    <2>3. QED
      BY <1>7, <1>1, <2>2 DEF ReFindFromFailureQueue, Kept
  <1>8. CASE HandleBadPoints
    <2>1. Kept
      BY <1>8, HandleBadPointsStep DEF HandleBadPoints, Kept
    <2>2. QED
      BY <1>8, <1>1, <2>1 DEF HandleBadPoints, Kept
  <1>9. CASE AddKeyFrameFromTopOfQueue
    <2>1. ASSUME mvpKeyFrameQueue # <<>>,
                 mvpKeyFrameQueue' = Tail(mvpKeyFrameQueue),
                 NEW tgt \in vpKeyFrames, NEW P \in SUBSET (MapPoints \ Allocated),
                 Integrate(Head(mvpKeyFrameQueue), tgt, P)
          PROVE  Kept
      BY <2>1, IntegrateStep DEF Kept
    <2>2. Kept
      BY <1>9, <2>1, <1>2 DEF AddKeyFrameFromTopOfQueue, Idle
    <2>3. QED
      BY <1>9, <1>1, <2>2 DEF AddKeyFrameFromTopOfQueue, Kept
  <1>10. CASE Reset
    <2>1. Queued' = {}
      BY <1>10 DEF Reset, Queued
    <2>2. QED
      BY <1>10, <2>1 DEF Reset, IInv, Phase, KeyFrameUse, WorkQueues, Entries,
                         Entry, NoMeasurements
  <1>11. QED
    BY <1>4, <1>5, <1>6, <1>7, <1>8, <1>9, <1>10 DEF MapMaker

\* The invariant is inductive.
LEMMA IInvStep == IInv /\ [Next]_vars => IInv'
  <1> SUFFICES ASSUME IInv, [Next]_vars
               PROVE  Phase' /\ KeyFrameUse' /\ WorkQueues' /\ Entries'
    BY TypeStep DEF IInv
  <1>1. CASE UNCHANGED vars
    <2>1. KeyFrameUse' /\ WorkQueues' /\ Entries' /\ Allocated' = Allocated
      BY <1>1, DataUnchanged DEF vars
    <2>2. QED
      BY <1>1, <2>1 DEF vars, mapVars, trackVars, IInv, Phase
  <1>2. QED
    BY <1>1, TrackerStep, MapMakerStep DEF Next

\* IInv holds in every reachable state: after every job of MapMaker::run(), the
\* records of the points and the measurements of the key frames agree.
THEOREM Invariance == Spec => []IInv
  <1>1. QED
    BY IInvInit, IInvStep, PTL DEF Spec

-----------------------------------------------------------------------------
(* The properties. *)

\* Every variable keeps its type; in particular the queue of key frames never
\* holds more than MaxQueue.
THEOREM TypeCorrect == Spec => []TypeOK
  <1>1. IInv => TypeOK
    BY DEF IInv
  <1>2. QED
    BY <1>1, Invariance, PTL

\* ReFind_Common() never meets a measurement that is not on record: its
\* assert(0) cannot fire.
THEOREM NoSecondMeasurement == Spec => []MeasurementsRecorded
  <1>1. IInv => MeasurementsRecorded
    BY KeyFrameSets DEF IInv, Entries, Entry, MeasurementsRecorded, Measured
  <1>2. QED
    BY <1>1, Invariance, PTL

\* GoodMeasCount() is the number of measurements in the map.
THEOREM CountIsTrue == Spec => []RecordsExact
  <1>1. ASSUME IInv, NEW p \in vpPoints PROVE sMeasurementKFs[p] = Measuring(p)
    BY <1>1, KeyFrameSets DEF IInv, TypeOK, Entries, Entry, Measuring
  <1>2. IInv => RecordsExact
    BY <1>1 DEF RecordsExact
  <1>3. QED
    BY <1>2, Invariance, PTL

\* Whatever the order of searches, outliers and second chances, a key frame is
\* not both recorded with a point and excluded from measuring it.
THEOREM RetryExclusion == Spec => []RetryExcludesMeasured
  <1>1. IInv => RetryExcludesMeasured
    BY DEF IInv, TypeOK, Entries, Entry, RetryExcludesMeasured
  <1>2. QED
    BY <1>1, Invariance, PTL

\* No pointer outlives its point.
THEOREM PointersLive == Spec => []NoDanglingPoints
  <1>1. IInv => NoDanglingPoints
    BY KeyFrameSets
    DEF IInv, Phase, WorkQueues, Entries, Entry, NoDanglingPoints, Measured
  <1>2. QED
    BY <1>1, Invariance, PTL

\* Every measurement that an adjustment may read has a Source.
THEOREM SourceSet == Spec => []SourceInitialised
  <1>1. IInv => SourceInitialised
    BY KeyFrameSets DEF IInv, Entries, Entry, SourceInitialised
  <1>2. QED
    BY <1>1, Invariance, PTL

-----------------------------------------------------------------------------
(* Good points stay well measured.                                          *)

WellMeasured(p) ==
    /\ \E k \in vpKeyFrames : mMeasurements[k][p] = "root"
    /\ GoodMeasCount(p) >= 2

GoodPoints == \A p \in vpPoints \ bBad : WellMeasured(p)

\* Two different elements make a cardinality of two.
LEMMA TwoElements ==
  ASSUME NEW S, IsFiniteSet(S), NEW a \in S, NEW b \in S, a # b
  PROVE  Cardinality(S) >= 2
  <1>1. IsFiniteSet({a}) /\ Cardinality({a}) = 1
    BY FS_Singleton
  <1>2. Cardinality({a} \cup {b}) = 2
    BY <1>1, FS_AddElement
  <1>3. Cardinality({a} \cup {b}) <= Cardinality(S) /\ Cardinality(S) \in Nat
    BY FS_Subset, FS_CardinalityType
  <1>4. QED
    BY <1>2, <1>3

\* A point is recorded with finitely many key frames.
LEMMA RecordsFinite ==
  ASSUME TypeOK, NEW p \in MapPoints
  PROVE  IsFiniteSet(sMeasurementKFs[p]) /\ GoodMeasCount(p) \in Nat
  BY DataAssumption, FS_Subset, FS_CardinalityType
  DEF DataAssumption, TypeOK, GoodMeasCount

\* Pairs with the same point are as many as their key frames.
LEMMA PairsOfPoint ==
  ASSUME NEW erased \in SUBSET (KeyFrames \X MapPoints), NEW p \in MapPoints
  PROVE  Cardinality({kp \in erased : kp[2] = p}) =
           Cardinality({k \in KeyFrames : <<k, p>> \in erased})
  <1> DEFINE K == {k \in KeyFrames : <<k, p>> \in erased}
             gone == {kp \in erased : kp[2] = p}
             f == [k \in K |-> <<k, p>>]
  <1>1. IsFiniteSet(K)
    BY DataAssumption, FS_Subset DEF DataAssumption
  <1>2. f \in Surjection(K, gone)
    <2>1. f \in [K -> gone]
      OBVIOUS
    <2>2. \A kp \in gone : \E k \in K : f[k] = kp
      <3>1. ASSUME NEW kp \in gone PROVE kp[1] \in K /\ f[kp[1]] = kp
        OBVIOUS
      <3>2. QED
        BY <3>1
    <2>3. QED
      BY <2>1, <2>2, Fun_IsSurj
  <1>3. f \in Injection(K, gone)
    <2>1. f \in [K -> gone]
      BY <1>2 DEF Surjection
    <2>2. \A a, b \in K : f[a] = f[b] => a = b
      OBVIOUS
    <2>3. QED
      BY <2>1, <2>2, Fun_IsInj
  <1>4. QED
    BY <1>1, <1>2, <1>3, FS_Surjection

\* BundleAdjust() takes at most all but two measurements of a point, and never
\* its ROOT one, unless it makes the point bad.
LEMMA BundleAdjustGood ==
  ASSUME IInv, GoodPoints, NEW P \in SUBSET MapPoints, NEW recent \in BOOLEAN,
         BundleAdjust(P, recent)
  PROVE  GoodPoints'
  <1> PICK outliers \in SUBSET {kp \in vpKeyFrames \X P :
                                  mMeasurements[kp[1]][kp[2]] # "none"} :
        /\ \E erased \in SUBSET outliers :
             Erasable(outliers, erased) /\ HandleOutliers(outliers, erased)
        /\ UNCHANGED <<vpPoints, vpKeyFrames>>
    BY DEF BundleAdjust
  <1> PICK erased \in SUBSET outliers :
        Erasable(outliers, erased) /\ HandleOutliers(outliers, erased)
    OBVIOUS
  <1> SUFFICES ASSUME NEW p \in vpPoints \ bBad'
               PROVE  WellMeasured(p)'
    BY DEF GoodPoints
  <1> DEFINE K == {k \in KeyFrames : <<k, p>> \in erased}
             gone == {kp \in erased : kp[2] = p}
  <1>1. p \in MapPoints /\ p \notin bBad
    BY DEF IInv, TypeOK, HandleOutliers
  <1>2. WellMeasured(p)
    BY <1>1 DEF GoodPoints
  <1>3. \E k \in vpKeyFrames : mMeasurements'[k][p] = "root"
    <2>1. PICK k \in vpKeyFrames : mMeasurements[k][p] = "root"
      BY <1>2 DEF WellMeasured
    <2>2. k \in KeyFrames
      BY KeyFrameSets DEF IInv
    <2>3. <<k, p>> \notin erased
      BY <2>1 DEF Erasable
    <2>4. mMeasurements'[k][p] = mMeasurements[k][p]
      BY <1>1, <2>2, <2>3 DEF HandleOutliers
    <2>5. QED
      BY <2>1, <2>4
  <1>4. sMeasurementKFs'[p] = sMeasurementKFs[p] \ K
    BY <1>1 DEF HandleOutliers
  <1>5. IsFiniteSet(sMeasurementKFs[p]) /\ GoodMeasCount(p) \in Nat
    BY <1>1, RecordsFinite DEF IInv
  <1>6. Cardinality(sMeasurementKFs'[p]) >= 2
    <2>1. CASE gone = {}
      <3>1. K = {}
        BY <2>1
      <3>2. QED
        BY <1>2, <1>4, <3>1 DEF WellMeasured, GoodMeasCount
    <2>2. CASE gone # {}
      <3>1. GoodMeasCount(p) - Cardinality(gone) >= 2
        BY <1>1, <2>2 DEF Erasable
      <3>2. erased \in SUBSET (KeyFrames \X MapPoints)
        BY KeyFrameSets DEF IInv
      <3>3. Cardinality(gone) = Cardinality(K)
        BY <1>1, <3>2, PairsOfPoint
      <3>4. K \subseteq sMeasurementKFs[p]
        BY <1>1 DEF IInv, Entries, Entry
      <3>5. Cardinality(sMeasurementKFs[p] \ K) = GoodMeasCount(p) - Cardinality(K)
        <4>1. sMeasurementKFs[p] \cap K = K
          BY <3>4
        <4>2. QED
          BY <1>5, <4>1, FS_Difference DEF GoodMeasCount
      <3>6. QED
        BY <1>4, <3>1, <3>3, <3>5
    <2>3. QED
      BY <2>1, <2>2
  <1>7. QED
    BY <1>3, <1>6 DEF WellMeasured, GoodMeasCount

\* A point that keeps its ROOT measurement and every record is as good as before.
LEMMA GoodKept ==
  ASSUME IInv, TypeOK', NEW p \in MapPoints, WellMeasured(p),
         vpKeyFrames \subseteq vpKeyFrames',
         \A k \in vpKeyFrames : mMeasurements[k][p] = "root" =>
                                  mMeasurements'[k][p] = "root",
         sMeasurementKFs[p] \subseteq sMeasurementKFs'[p]
  PROVE  WellMeasured(p)'
  <1>1. IsFiniteSet(sMeasurementKFs'[p])
    BY DataAssumption, FS_Subset DEF DataAssumption, TypeOK
  <1>2. /\ Cardinality(sMeasurementKFs[p]) \in Nat
        /\ Cardinality(sMeasurementKFs'[p]) \in Nat
        /\ Cardinality(sMeasurementKFs[p]) <= Cardinality(sMeasurementKFs'[p])
    BY <1>1, FS_Subset, FS_CardinalityType
  <1>3. QED
    BY <1>2 DEF WellMeasured, GoodMeasCount

\* A new point has two measurements.
LEMMA GoodNew ==
  ASSUME TypeOK', NEW p \in MapPoints, NEW src \in vpKeyFrames', NEW tgt,
         src # tgt, sMeasurementKFs'[p] = {src, tgt},
         mMeasurements'[src][p] = "root"
  PROVE  WellMeasured(p)'
  <1>1. IsFiniteSet(sMeasurementKFs'[p])
    BY DataAssumption, FS_Subset DEF DataAssumption, TypeOK
  <1>2. Cardinality(sMeasurementKFs'[p]) >= 2
    BY <1>1, TwoElements
  <1>3. QED
    BY <1>2 DEF WellMeasured, GoodMeasCount

\* ReFind_Common() only adds measurements to a point.
LEMMA ReFindGood ==
  ASSUME IInv, TypeOK', GoodPoints, NEW pairs \in SUBSET (vpKeyFrames \X Allocated),
         NEW found \in SUBSET Searchable(pairs),
         ReFind_Common(Searchable(pairs), found), UNCHANGED mapVars
  PROVE  GoodPoints'
  <1> SUFFICES ASSUME NEW p \in vpPoints \ bBad
               PROVE  WellMeasured(p)'
    BY DEF GoodPoints, mapVars
  <1>1. p \in MapPoints /\ WellMeasured(p)
    BY DEF IInv, TypeOK, GoodPoints
  <1>2. sMeasurementKFs[p] \subseteq sMeasurementKFs'[p]
    BY <1>1 DEF ReFind_Common
  <1>3. ASSUME NEW k \in vpKeyFrames, mMeasurements[k][p] = "root"
        PROVE  mMeasurements'[k][p] = "root"
    <2>1. k \in KeyFrames
      BY KeyFrameSets DEF IInv
    <2>2. <<k, p>> \notin found
      BY <1>1, <1>3, <2>1 DEF Searchable, IInv, Entries, Entry
    <2>3. QED
      BY <1>1, <1>3, <2>1, <2>2 DEF ReFind_Common
  <1>4. vpKeyFrames \subseteq vpKeyFrames'
    BY DEF mapVars
  <1>5. QED
    BY <1>1, <1>2, <1>3, <1>4, GoodKept

\* A key frame that enters the map takes nothing from a point that is measured
\* well, and its new points are.
LEMMA IntegrateGood ==
  ASSUME IInv, TypeOK', GoodPoints, mvpKeyFrameQueue # <<>>,
         NEW tgt \in vpKeyFrames, NEW P \in SUBSET (MapPoints \ Allocated),
         Integrate(Head(mvpKeyFrameQueue), tgt, P)
  PROVE  GoodPoints'
  <1> DEFINE k == Head(mvpKeyFrameQueue)
             missed == {p \in vpPoints \ Measured(k) :
                          k \notin sMeasurementKFs[p] \cup sNeverRetryKFs[p]}
  <1> PICK found \in SUBSET missed :
        /\ vpKeyFrames' = vpKeyFrames \cup {k}
        /\ vpPoints' = vpPoints \cup P
        /\ mMeasurements' = IntegratedMeasurements(k, tgt, P, found)
        /\ sMeasurementKFs' = IntegratedRecords(k, tgt, P, found)
        /\ bBad' = bBad
    BY DEF Integrate
  <1> SUFFICES ASSUME NEW p \in (vpPoints \cup P) \ bBad
               PROVE  WellMeasured(p)'
    BY DEF GoodPoints
  <1>1. /\ k \in KeyFrames /\ k \notin vpKeyFrames /\ p \in MapPoints
    BY DEF IInv, TypeOK, KeyFrameUse, Queued
  <1>2. CASE p \in P
    <2>1. sMeasurementKFs'[p] = {k, tgt} /\ mMeasurements'[k][p] = "root"
      BY <1>1, <1>2 DEF IntegratedRecords, IntegratedMeasurements
    <2>2. QED
      BY <1>1, <2>1, GoodNew
  <1>3. CASE p \notin P
    <2>1. WellMeasured(p)
      BY <1>3 DEF GoodPoints
    <2>2. sMeasurementKFs[p] \subseteq sMeasurementKFs'[p]
      BY <1>1, <1>3 DEF IntegratedRecords
    <2>3. ASSUME NEW j \in vpKeyFrames PROVE mMeasurements'[j][p] = mMeasurements[j][p]
      BY <1>1, <1>3, KeyFrameSets DEF IntegratedMeasurements, IInv
    <2>4. QED
      BY <1>1, <2>1, <2>2, <2>3, GoodKept
  <1>4. QED
    BY <1>2, <1>3

\* New points in a step that leaves the points it finds alone: src measures
\* them as ROOT, tgt for the second time.
LEMMA NewPointsGood ==
  ASSUME IInv, TypeOK', GoodPoints, NEW P \in SUBSET MapPoints,
         NEW src \in vpKeyFrames', NEW tgt \in vpKeyFrames', NEW second \in Sources,
         src # tgt, NewPoints(P, src, tgt, second),
         P \cap vpPoints = {}, vpKeyFrames \subseteq vpKeyFrames', bBad' = bBad
  PROVE  GoodPoints'
  <1> SUFFICES ASSUME NEW p \in (vpPoints \cup P) \ bBad
               PROVE  WellMeasured(p)'
    BY DEF GoodPoints, NewPoints
  <1>1. p \in MapPoints /\ src \in KeyFrames
    BY DEF IInv, TypeOK
  <1>2. CASE p \in P
    <2>1. sMeasurementKFs'[p] = {src, tgt} /\ mMeasurements'[src][p] = "root"
      BY <1>1, <1>2 DEF NewPoints
    <2>2. QED
      BY <1>1, <2>1, GoodNew
  <1>3. CASE p \notin P
    <2>1. WellMeasured(p)
      BY <1>3 DEF GoodPoints
    <2>2. sMeasurementKFs[p] \subseteq sMeasurementKFs'[p]
      BY <1>1, <1>3 DEF NewPoints
    <2>3. ASSUME NEW j \in vpKeyFrames PROVE mMeasurements'[j][p] = mMeasurements[j][p]
      BY <1>1, <1>3, KeyFrameSets DEF NewPoints, IInv
    <2>4. QED
      BY <1>1, <2>1, <2>2, <2>3, GoodKept
  <1>4. QED
    BY <1>2, <1>3

\* No step takes a point that is not bad below a ROOT measurement and another.
LEMMA GoodPointsStep == IInv /\ TypeOK' /\ GoodPoints /\ [Next]_vars => GoodPoints'
  <1> SUFFICES ASSUME IInv, TypeOK', GoodPoints, [Next]_vars PROVE GoodPoints'
    OBVIOUS
  <1> USE DEF mapVars, measVars
  <1>1. UNCHANGED <<mapVars, measVars>> => GoodPoints'
    BY DEF GoodPoints, WellMeasured, GoodMeasCount
  <1>2. \A P \in SUBSET MapPoints, recent \in BOOLEAN :
          BundleAdjust(P, recent) => GoodPoints'
    BY BundleAdjustGood
  <1>3. vpPoints \in SUBSET MapPoints
    BY DEF IInv, TypeOK
  <1>4. CASE TrackMap_Project \/ TrackMap_Record \/ EndFrame \/ RequestReset
    BY <1>1, <1>4 DEF TrackMap_Project, TrackMap_Record, EndFrame, RequestReset
  <1>5. CASE AddKeyFrame
    <2> PICK k \in KeyFrames \ (vpKeyFrames \cup Queued) :
          mMeasurements' = [mMeasurements EXCEPT ![k] =
            [p \in MapPoints |-> IF p \in tracked THEN "unset" ELSE "none"]]
      BY <1>5 DEF AddKeyFrame
    <2>1. \A j \in vpKeyFrames : mMeasurements'[j] = mMeasurements[j]
      BY KeyFrameSets DEF IInv, TypeOK
    <2>2. QED
      BY <1>5, <2>1 DEF AddKeyFrame, GoodPoints, WellMeasured, GoodMeasCount
  <1>6. CASE InitFromStereo_MakeMap
    <2> PICK first \in KeyFrames, second \in KeyFrames, P \in SUBSET MapPoints :
          /\ first # second
          /\ NewPoints(P, first, second, "final")
          /\ vpKeyFrames' = {first, second}
      BY <1>6 DEF InitFromStereo_MakeMap
    <2>1. vpKeyFrames = {} /\ bBad' = bBad
      BY <1>6 DEF InitFromStereo_MakeMap
    <2>2. ASSUME NEW p \in vpPoints PROVE p \in bBad
      BY <1>3, <2>1 DEF GoodPoints, WellMeasured
    <2>3. ASSUME NEW p \in P \ bBad PROVE WellMeasured(p)'
      <3>1. sMeasurementKFs'[p] = {first, second} /\ mMeasurements'[first][p] = "root"
        BY DEF NewPoints
      <3>2. QED
        BY <3>1, GoodNew
    <2>4. QED
      BY <2>1, <2>2, <2>3 DEF GoodPoints, NewPoints
  <1>7. CASE InitFromStereo_Bundle \/ InitFromStereo_Converge
    BY <1>2, <1>3, <1>7 DEF InitFromStereo_Bundle, InitFromStereo_Converge
  <1>8. CASE InitFromStereo_AddPoints
    <2> PICK P \in SUBSET (MapPoints \ Allocated), tgt \in vpKeyFrames \ {newest} :
          NewPoints(P, newest, tgt, "retry")
      BY <1>8 DEF InitFromStereo_AddPoints
    <2>1. vpKeyFrames' = vpKeyFrames /\ bBad' = bBad
      BY <1>8 DEF InitFromStereo_AddPoints
    <2>2. newest \in vpKeyFrames
      BY DEF IInv, KeyFrameUse
    <2>3. P \cap vpPoints = {}
      BY DEF Allocated
    <2>4. "retry" \in Sources
      BY DEF Sources
    <2>5. QED
      BY <2>1, <2>2, <2>3, <2>4, NewPointsGood
  <1>9. CASE InitFromStereo_Return
    BY <1>9 DEF InitFromStereo_Return, GoodPoints, WellMeasured, GoodMeasCount
  <1>10. CASE BundleAdjustRecent
    <2>1. \A adjusted \in SUBSET vpKeyFrames :
            UNION {Measured(k) : k \in adjusted} \in SUBSET MapPoints
      BY DEF Measured
    <2>2. QED
      BY <1>1, <1>2, <1>10, <2>1 DEF BundleAdjustRecent, Skip
  <1>11. CASE ReFindNewlyMade
    <2>1. ASSUME NEW done \in SUBSET mqNewQueue,
                 NEW found \in SUBSET Searchable(vpKeyFrames \X (done \ bBad)),
                 ReFind_Common(Searchable(vpKeyFrames \X (done \ bBad)), found),
                 UNCHANGED mapVars
          PROVE  GoodPoints'
      <3>1. vpKeyFrames \X (done \ bBad) \in SUBSET (vpKeyFrames \X Allocated)
        BY DEF IInv, WorkQueues
      <3>2. QED
        BY <2>1, <3>1, ReFindGood
    <2>2. QED
      BY <1>1, <1>11, <2>1 DEF ReFindNewlyMade, Skip
  <1>12. CASE BundleAdjustAll
    BY <1>1, <1>2, <1>3, <1>12 DEF BundleAdjustAll, Skip
  <1>13. CASE ReFindFromFailureQueue
    <2>1. mvFailureQueue \in SUBSET (vpKeyFrames \X Allocated)
      BY DEF IInv, TypeOK, WorkQueues
    <2>2. QED
      BY <1>1, <1>13, <2>1, ReFindGood DEF ReFindFromFailureQueue, Skip
  <1>14. CASE HandleBadPoints
    <2> PICK rejected \in SUBSET vpPoints :
          /\ bBad' = bBad \cup rejected
          /\ mMeasurements' = [k \in KeyFrames |-> [p \in MapPoints |->
               IF k \in vpKeyFrames /\ p \in Condemned(rejected) THEN "none"
               ELSE mMeasurements[k][p]]]
          /\ vpPoints' = vpPoints \ Condemned(rejected)
      BY <1>14 DEF HandleBadPoints
    <2>1. ASSUME NEW p \in vpPoints', p \notin bBad'
          PROVE  WellMeasured(p)'
      <3>1. p \in vpPoints /\ p \notin bBad /\ p \in MapPoints
        BY <1>3, <2>1
      <3>2. \A k \in vpKeyFrames : mMeasurements'[k][p] = mMeasurements[k][p]
        BY <3>1, <2>1, KeyFrameSets DEF IInv
      <3>3. QED
        BY <1>14, <3>1, <3>2
        DEF HandleBadPoints, GoodPoints, WellMeasured, GoodMeasCount
    <2>2. QED
      BY <2>1 DEF GoodPoints
  <1>15. CASE AddKeyFrameFromTopOfQueue
    BY <1>1, <1>15, IntegrateGood DEF AddKeyFrameFromTopOfQueue, Idle
  <1>16. CASE Reset
    BY <1>16 DEF Reset, GoodPoints
  <1>17. CASE UNCHANGED vars
    BY <1>1, <1>17 DEF vars
  <1>18. QED
    BY <1>4, <1>5, <1>6, <1>7, <1>8, <1>9, <1>10, <1>11, <1>12, <1>13, <1>14,
       <1>15, <1>16, <1>17
    DEF Next, Tracker, MapMaker

\* Adjustments never leave a point that is not bad with less than its ROOT
\* measurement and one other.
THEOREM GoodStaysMeasured == Spec => []GoodPointsWellMeasured
  <1>1. Init => GoodPoints
    BY DEF Init, GoodPoints
  <1>2. IInv /\ GoodPoints /\ RecordsExact => GoodPointsWellMeasured
    BY DEF GoodPoints, WellMeasured, GoodMeasCount, RecordsExact,
           GoodPointsWellMeasured
  <1>3. QED
    BY <1>1, <1>2, GoodPointsStep, Invariance, TypeCorrect, CountIsTrue, PTL DEF Spec

=============================================================================
