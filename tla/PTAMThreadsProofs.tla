------------------------- MODULE PTAMThreadsProofs -------------------------
(***************************************************************************)
(* Proofs about PTAMThreads.  The safety properties rest on one inductive  *)
(* invariant, IInv, which says what the unlocked flags mean at each point  *)
(* of the two threads; the refinement of MapLifecycle uses it too.         *)
(***************************************************************************)
EXTENDS PTAMThreads, TLAPS

-----------------------------------------------------------------------------
(* The inductive invariant. *)

\* The map that Tracker::Reset() promises: nothing in it, nothing queued.
Empty == ~bGood /\ nKeyFrames = 0 /\ nQueued = 0

\* A request that the map maker has yet to act on, and a wipe, hold the
\* tracker in its wait loop; an answer is an answer to the last question.
Handshake ==
    /\ mm \in WipePCs => trk = "wait" /\ ~mbResetDone
    /\ mbResetRequested /\ mm # "clear_request" => trk = "wait" /\ ~mbResetDone
    /\ trk = "request" => ~mbResetDone
    /\ trk = "wait" /\ mbResetDone => Empty /\ ~mbBundleRunning

\* How far a wipe has got.
WipeProgress ==
    /\ mm \in {"wipe_keyframes", "wipe_queue", "set_done"} => ~bGood
    /\ mm \in {"wipe_queue", "set_done"} => nKeyFrames = 0
    /\ mm = "set_done" => nQueued = 0 /\ ~mbBundleRunning

\* What the two threads know of the map.
MapKnown ==
    /\ bGood => nKeyFrames >= 2
    /\ mm \in JobPCs => bGood
    /\ trk \in FramePCs => bGood
    /\ trk \in {"initial"} \cup BuildPCs => ~bGood
    /\ trk \in BuildPCs => nKeyFrames >= 2 /\ nQueued = 0

\* Outside a reset and the building of the map, a stage before COMPLETE means
\* that there is no map.
StageKnown ==
    trk \notin {"request", "wait"} \cup BuildPCs /\ mnInitialStage # "COMPLETE" => Empty

QueueKnown ==
    /\ nQueued <= MaxQueue
    /\ trk = "push" => nQueued < MaxQueue
    /\ nQueued > 0 => bGood \/ mm \in {"wipe_keyframes", "wipe_queue"}

Known == Handshake /\ WipeProgress /\ MapKnown /\ StageKnown /\ QueueKnown

IInv == TypeOK /\ Known

-----------------------------------------------------------------------------
(* Types.  The flags and the other variables are separate lemmas: Zenon     *)
(* proves the one, the SMT solver the other.                                *)

FlagTypes ==
    /\ mbUserPressedSpacebar \in BOOLEAN
    /\ mbResetRequested \in BOOLEAN /\ mbResetDone \in BOOLEAN
    /\ mbBundleAbortRequested \in BOOLEAN /\ mbBundleRunning \in BOOLEAN
    /\ mbBundleRunningIsRecent \in BOOLEAN
    /\ mbBundleConverged_Full \in BOOLEAN
    /\ mbBundleConverged_Recent \in BOOLEAN
    /\ bGood \in BOOLEAN

DataTypes ==
    /\ trk \in TrackerPCs
    /\ returnTo \in {"frame", "commands", "erase"}
    /\ mnInitialStage \in Stages
    /\ mvQueuedCommands \in Seq(Commands)
    /\ mm \in MapMakerPCs
    /\ lm \in [iter : 0..MaxIterations, accepted : BOOLEAN, converged : BOOLEAN]
    /\ nSaves \in Nat
    /\ nKeyFrames \in Nat
    /\ nQueued \in Nat

\* The two groups together are the type invariant.
LEMMA TypeSplit == TypeOK <=> FlagTypes /\ DataTypes
  BY DEF TypeOK, FlagTypes, DataTypes

\* The constructors leave every variable in its type.
LEMMA TypeInit == Init => TypeOK
  <1> SUFFICES ASSUME Init PROVE FlagTypes /\ DataTypes
    BY TypeSplit
  <1>1. FlagTypes
    BY DEF Init, FlagTypes
  <1>2. DataTypes
    BY ConstantsAssumption
    DEF ConstantsAssumption, Init, DataTypes, TrackerPCs, Stages, Commands,
        MapMakerPCs, NoBundle
  <1>3. QED
    BY <1>1, <1>2

\* No step stores anything but a truth value in a flag.
LEMMA FlagTypesStep == TypeOK /\ [Next]_vars => FlagTypes'
  <1> SUFFICES ASSUME TypeOK, [Next]_vars PROVE FlagTypes'
    OBVIOUS
  <1> USE DEF TypeOK, FlagTypes, localVars, trackerVars, mapMakerVars, resetVars,
      abortVars, flagVars, mapVars, sharedVars
  <1>1. CASE GUICommandCallBack
    BY <1>1 DEF GUICommandCallBack
  <1>2. CASE Reset_ClearDone
    BY <1>2 DEF Reset_ClearDone
  <1>3. CASE Reset_Request
    BY <1>3 DEF Reset_Request, TrackerGoto
  <1>4. CASE Reset_Return
    BY <1>4 DEF Reset_Return, TrackerGoto
  <1>5. CASE TrackFrame
    BY <1>5 DEF TrackFrame, TrackerGoto
  <1>6. CASE TrackMap_NoKeyFrame
    BY <1>6 DEF TrackMap_NoKeyFrame, TrackerGoto
  <1>7. CASE TrackMap_WantKeyFrame
    BY <1>7 DEF TrackMap_WantKeyFrame, TrackerGoto
  <1>8. CASE AddKeyFrame_Push
    BY <1>8 DEF AddKeyFrame_Push, TrackerGoto
  <1>9. CASE AddKeyFrame_ReadRunning
    BY <1>9 DEF AddKeyFrame_ReadRunning, TrackerGoto
  <1>10. CASE AddKeyFrame_Abort
    BY <1>10 DEF AddKeyFrame_Abort, TrackerGoto
  <1>11. CASE TrackForInitialMap_Start
    BY <1>11 DEF TrackForInitialMap_Start
  <1>12. CASE TrackForInitialMap_TrailsLost
    BY <1>12 DEF TrackForInitialMap_TrailsLost
  <1>13. CASE TrackForInitialMap_Skip
    BY <1>13 DEF TrackForInitialMap_Skip, TrackerGoto
  <1>14. CASE InitFromStereo_NoHomography
    BY <1>14 DEF InitFromStereo_NoHomography
  <1>15. CASE InitFromStereo_MakeMap
    BY <1>15 DEF InitFromStereo_MakeMap
  <1>16. CASE InitFromStereo_Bundle
    BY <1>16 DEF InitFromStereo_Bundle, TrackerGoto
  <1>17. CASE InitFromStereo_BundleEnd
    BY <1>17 DEF InitFromStereo_BundleEnd, TrackerGoto, BundleResult
  <1>18. CASE InitFromStereo_Abandon
    BY <1>18 DEF InitFromStereo_Abandon
  <1>19. CASE InitFromStereo_Loop
    BY <1>19 DEF InitFromStereo_Loop, TrackerGoto
  <1>20. CASE InitFromStereo_Good
    BY <1>20 DEF InitFromStereo_Good
  <1>21. CASE NoMoreCommands
    BY <1>21 DEF NoMoreCommands, TrackerGoto
  <1>22. CASE HandleSpace
    BY <1>22 DEF HandleSpace
  <1>23. CASE HandleReset
    BY <1>23 DEF HandleReset
  <1>24. CASE EraseCommand
    BY <1>24 DEF EraseCommand
  <1>25. CASE CheckReset
    BY <1>25 DEF CheckReset, MapMakerGoto
  <1>26. CASE ReadIsGood
    BY <1>26 DEF ReadIsGood, MapMakerGoto
  <1>27. CASE Wipe_Map
    BY <1>27 DEF Wipe_Map, MapMakerGoto
  <1>28. CASE Wipe_KeyFrames
    BY <1>28 DEF Wipe_KeyFrames, MapMakerGoto
  <1>29. CASE Wipe_Queue
    BY <1>29 DEF Wipe_Queue, MapMakerGoto
  <1>30. CASE Wipe_SetDone
    BY <1>30 DEF Wipe_SetDone, MapMakerGoto
  <1>31. CASE Wipe_ClearRequest
    BY <1>31 DEF Wipe_ClearRequest, MapMakerGoto
  <1>32. CASE Wipe_ClearAbort
    BY <1>32 DEF Wipe_ClearAbort, MapMakerGoto
  <1>33. CASE BundleAdjustRecent
    BY <1>33 DEF BundleAdjustRecent, MapMakerGoto
  <1>34. CASE BundleAdjustAll
    BY <1>34 DEF BundleAdjustAll, MapMakerGoto
  <1>35. CASE BundleAdjust_Start
    BY <1>35 DEF BundleAdjust_Start, MapMakerGoto
  <1>36. CASE Compute_Step
    BY <1>36 DEF Compute_Step
  <1>37. CASE Compute_End
    BY <1>37 DEF Compute_End, MapMakerGoto
  <1>38. CASE BundleAdjust_Stop
    BY <1>38 DEF BundleAdjust_Stop, BundleResult
  <1>39. CASE BundleAdjust_ClearAbort
    BY <1>39 DEF BundleAdjust_ClearAbort, MapMakerGoto
  <1>40. CASE AddKeyFrame_Pop
    BY <1>40 DEF AddKeyFrame_Pop, MapMakerGoto
  <1>41. CASE AddKeyFrame_Integrate
    BY <1>41 DEF AddKeyFrame_Integrate, MapMakerGoto
  <1>42. CASE UNCHANGED vars
    BY <1>42 DEF vars
  <1>43. CASE GUICommandCallBack_SaveMap
    BY <1>43 DEF GUICommandCallBack_SaveMap
  <1>44. CASE Commands_Test
    BY <1>44 DEF Commands_Test, MapMakerGoto
  <1>45. CASE SaveMap_Points
    BY <1>45 DEF SaveMap_Points, MapMakerGoto
  <1>46. CASE SaveMap_KeyFrames
    BY <1>46 DEF SaveMap_KeyFrames, MapMakerGoto
  <1>47. CASE Commands_Erase
    BY <1>47 DEF Commands_Erase
  <1>48. QED
    BY <1>1, <1>2, <1>3, <1>4, <1>5, <1>6, <1>7, <1>8, <1>9, <1>10, <1>11,
       <1>12, <1>13, <1>14, <1>15, <1>16, <1>17, <1>18, <1>19, <1>20, <1>21,
       <1>22, <1>23, <1>24, <1>25, <1>26, <1>27, <1>28, <1>29, <1>30, <1>31,
       <1>32, <1>33, <1>34, <1>35, <1>36, <1>37, <1>38, <1>39, <1>40, <1>41,
       <1>42, <1>43, <1>44, <1>45, <1>46, <1>47
    DEF Next, Tracker, MapMaker

\* Program counters, commands, sizes and iteration counts stay in range.
LEMMA DataTypesStep == TypeOK /\ [Next]_vars => DataTypes'
  <1> SUFFICES ASSUME TypeOK, [Next]_vars PROVE DataTypes'
    OBVIOUS
  <1> USE ConstantsAssumption
      DEF ConstantsAssumption, TypeOK, DataTypes, TrackerPCs, FramePCs,
          BuildPCs, Stages, Commands, MapMakerPCs, WipePCs, SavePCs, JobPCs, localVars,
          trackerVars, mapMakerVars, resetVars, abortVars, flagVars, mapVars, sharedVars
  <1>1. CASE GUICommandCallBack
    BY <1>1 DEF GUICommandCallBack
  <1>2. CASE Reset_ClearDone
    BY <1>2 DEF Reset_ClearDone
  <1>3. CASE Reset_Request
    BY <1>3 DEF Reset_Request, TrackerGoto
  <1>4. CASE Reset_Return
    BY <1>4 DEF Reset_Return, TrackerGoto
  <1>5. CASE TrackFrame
    BY <1>5 DEF TrackFrame, TrackerGoto
  <1>6. CASE TrackMap_NoKeyFrame
    BY <1>6 DEF TrackMap_NoKeyFrame, TrackerGoto
  <1>7. CASE TrackMap_WantKeyFrame
    BY <1>7 DEF TrackMap_WantKeyFrame, TrackerGoto
  <1>8. CASE AddKeyFrame_Push
    BY <1>8 DEF AddKeyFrame_Push, TrackerGoto
  <1>9. CASE AddKeyFrame_ReadRunning
    BY <1>9 DEF AddKeyFrame_ReadRunning, TrackerGoto
  <1>10. CASE AddKeyFrame_Abort
    BY <1>10 DEF AddKeyFrame_Abort, TrackerGoto
  <1>11. CASE TrackForInitialMap_Start
    BY <1>11 DEF TrackForInitialMap_Start
  <1>12. CASE TrackForInitialMap_TrailsLost
    BY <1>12 DEF TrackForInitialMap_TrailsLost
  <1>13. CASE TrackForInitialMap_Skip
    BY <1>13 DEF TrackForInitialMap_Skip, TrackerGoto
  <1>14. CASE InitFromStereo_NoHomography
    BY <1>14 DEF InitFromStereo_NoHomography
  <1>15. CASE InitFromStereo_MakeMap
    BY <1>15 DEF InitFromStereo_MakeMap
  <1>16. CASE InitFromStereo_Bundle
    BY <1>16 DEF InitFromStereo_Bundle, TrackerGoto
  <1>17. CASE InitFromStereo_BundleEnd
    BY <1>17 DEF InitFromStereo_BundleEnd, TrackerGoto
  <1>18. CASE InitFromStereo_Abandon
    BY <1>18 DEF InitFromStereo_Abandon
  <1>19. CASE InitFromStereo_Loop
    BY <1>19 DEF InitFromStereo_Loop, TrackerGoto
  <1>20. CASE InitFromStereo_Good
    BY <1>20 DEF InitFromStereo_Good
  <1>21. CASE NoMoreCommands
    BY <1>21 DEF NoMoreCommands, TrackerGoto
  <1>22. CASE HandleSpace
    BY <1>22 DEF HandleSpace
  <1>23. CASE HandleReset
    BY <1>23 DEF HandleReset
  <1>24. CASE EraseCommand
    BY <1>24 DEF EraseCommand
  <1>25. CASE CheckReset
    BY <1>25 DEF CheckReset, MapMakerGoto, CheckPCs, AfterCheck
  <1>26. CASE ReadIsGood
    BY <1>26 DEF ReadIsGood, MapMakerGoto
  <1>27. CASE Wipe_Map
    BY <1>27 DEF Wipe_Map, MapMakerGoto
  <1>28. CASE Wipe_KeyFrames
    BY <1>28 DEF Wipe_KeyFrames, MapMakerGoto
  <1>29. CASE Wipe_Queue
    BY <1>29 DEF Wipe_Queue, MapMakerGoto
  <1>30. CASE Wipe_SetDone
    BY <1>30 DEF Wipe_SetDone, MapMakerGoto
  <1>31. CASE Wipe_ClearRequest
    BY <1>31 DEF Wipe_ClearRequest, MapMakerGoto
  <1>32. CASE Wipe_ClearAbort
    BY <1>32 DEF Wipe_ClearAbort, MapMakerGoto
  <1>33. CASE BundleAdjustRecent
    BY <1>33 DEF BundleAdjustRecent, MapMakerGoto
  <1>34. CASE BundleAdjustAll
    BY <1>34 DEF BundleAdjustAll, MapMakerGoto
  <1>35. CASE BundleAdjust_Start
    BY <1>35 DEF BundleAdjust_Start, MapMakerGoto
  <1>36. CASE Compute_Step
    BY <1>36 DEF Compute_Step, Finished
  <1>37. CASE Compute_End
    BY <1>37 DEF Compute_End, MapMakerGoto
  <1>38. CASE BundleAdjust_Stop
    BY <1>38 DEF BundleAdjust_Stop, NoBundle
  <1>39. CASE BundleAdjust_ClearAbort
    BY <1>39 DEF BundleAdjust_ClearAbort, MapMakerGoto
  <1>40. CASE AddKeyFrame_Pop
    BY <1>40 DEF AddKeyFrame_Pop, MapMakerGoto
  <1>41. CASE AddKeyFrame_Integrate
    BY <1>41 DEF AddKeyFrame_Integrate, MapMakerGoto
  <1>42. CASE UNCHANGED vars
    BY <1>42 DEF vars
  <1>43. CASE GUICommandCallBack_SaveMap
    BY <1>43 DEF GUICommandCallBack_SaveMap
  <1>44. CASE Commands_Test
    BY <1>44 DEF Commands_Test, MapMakerGoto
  <1>45. CASE SaveMap_Points
    BY <1>45 DEF SaveMap_Points, MapMakerGoto
  <1>46. CASE SaveMap_KeyFrames
    BY <1>46 DEF SaveMap_KeyFrames, MapMakerGoto
  <1>47. CASE Commands_Erase
    BY <1>47 DEF Commands_Erase
  <1>48. QED
    BY <1>1, <1>2, <1>3, <1>4, <1>5, <1>6, <1>7, <1>8, <1>9, <1>10, <1>11,
       <1>12, <1>13, <1>14, <1>15, <1>16, <1>17, <1>18, <1>19, <1>20, <1>21,
       <1>22, <1>23, <1>24, <1>25, <1>26, <1>27, <1>28, <1>29, <1>30, <1>31,
       <1>32, <1>33, <1>34, <1>35, <1>36, <1>37, <1>38, <1>39, <1>40, <1>41,
       <1>42, <1>43, <1>44, <1>45, <1>46, <1>47
    DEF Next, Tracker, MapMaker

\* Every step keeps the type invariant.
LEMMA TypeStep == TypeOK /\ [Next]_vars => TypeOK'
  BY FlagTypesStep, DataTypesStep DEF TypeOK, FlagTypes, DataTypes

\* Every variable keeps its type, whatever the sizes: in particular an
\* adjustment never computes more than MaxIterations iterations.
THEOREM TypeCorrect == Spec => []TypeOK
  <1>1. QED
    BY TypeInit, TypeStep, PTL DEF Spec

-----------------------------------------------------------------------------
(* The inductive invariant is one. *)

\* After the constructors nothing is in the map and no request is pending.
LEMMA IInvInit == Init => IInv
  BY TypeInit, ConstantsAssumption
  DEF ConstantsAssumption, Init, IInv, Known, Handshake, WipeProgress, MapKnown,
      StageKnown, QueueKnown, Empty, FramePCs, BuildPCs, WipePCs, JobPCs

\* The tracker keeps what is known of the handshake, the map and the queue.
LEMMA TrackerStep == IInv /\ Tracker => Known'
  <1> SUFFICES ASSUME IInv, Tracker PROVE Known'
    OBVIOUS
  <1> USE ConstantsAssumption
      DEF ConstantsAssumption, IInv, Known, Handshake, WipeProgress, MapKnown,
          StageKnown, QueueKnown, Empty, TypeOK, FramePCs, BuildPCs, WipePCs,
          JobPCs, localVars, trackerVars, mapMakerVars, resetVars, abortVars, flagVars,
          mapVars, sharedVars
  <1>1. CASE Reset_ClearDone
    BY <1>1 DEF Reset_ClearDone
  <1>2. CASE Reset_Request
    BY <1>2 DEF Reset_Request, TrackerGoto
  <1>3. CASE Reset_Return
    BY <1>3 DEF Reset_Return, TrackerGoto
  <1>4. CASE TrackFrame
    BY <1>4 DEF TrackFrame, TrackerGoto
  <1>5. CASE TrackMap_NoKeyFrame
    BY <1>5 DEF TrackMap_NoKeyFrame, TrackerGoto
  <1>6. CASE TrackMap_WantKeyFrame
    BY <1>6 DEF TrackMap_WantKeyFrame, TrackerGoto
  <1>7. CASE AddKeyFrame_Push
    BY <1>7 DEF AddKeyFrame_Push, TrackerGoto
  <1>8. CASE AddKeyFrame_ReadRunning
    BY <1>8 DEF AddKeyFrame_ReadRunning, TrackerGoto
  <1>9. CASE AddKeyFrame_Abort
    BY <1>9 DEF AddKeyFrame_Abort, TrackerGoto
  <1>10. CASE TrackForInitialMap_Start
    BY <1>10 DEF TrackForInitialMap_Start
  <1>11. CASE TrackForInitialMap_TrailsLost
    BY <1>11 DEF TrackForInitialMap_TrailsLost
  <1>12. CASE TrackForInitialMap_Skip
    BY <1>12 DEF TrackForInitialMap_Skip, TrackerGoto
  <1>13. CASE InitFromStereo_NoHomography
    BY <1>13 DEF InitFromStereo_NoHomography
  <1>14. CASE InitFromStereo_MakeMap
    BY <1>14 DEF InitFromStereo_MakeMap
  <1>15. CASE InitFromStereo_Bundle
    BY <1>15 DEF InitFromStereo_Bundle, TrackerGoto
  <1>16. CASE InitFromStereo_BundleEnd
    BY <1>16 DEF InitFromStereo_BundleEnd, TrackerGoto, BundleResult
  <1>17. CASE InitFromStereo_Abandon
    BY <1>17 DEF InitFromStereo_Abandon
  <1>18. CASE InitFromStereo_Loop
    BY <1>18 DEF InitFromStereo_Loop, TrackerGoto
  <1>19. CASE InitFromStereo_Good
    BY <1>19 DEF InitFromStereo_Good
  <1>20. CASE NoMoreCommands
    BY <1>20 DEF NoMoreCommands, TrackerGoto
  <1>21. CASE HandleSpace
    BY <1>21 DEF HandleSpace
  <1>22. CASE HandleReset
    BY <1>22 DEF HandleReset
  <1>23. CASE EraseCommand
    BY <1>23 DEF EraseCommand
  <1>24. QED
    BY <1>1, <1>2, <1>3, <1>4, <1>5, <1>6, <1>7, <1>8, <1>9, <1>10, <1>11,
       <1>12, <1>13, <1>14, <1>15, <1>16, <1>17, <1>18, <1>19, <1>20, <1>21,
       <1>22, <1>23
    DEF Tracker

\* So does the map maker.
LEMMA MapMakerStep == IInv /\ MapMaker => Known'
  <1> SUFFICES ASSUME IInv, MapMaker PROVE Known'
    OBVIOUS
  <1> USE ConstantsAssumption
      DEF ConstantsAssumption, IInv, Known, Handshake, WipeProgress, MapKnown,
          StageKnown, QueueKnown, Empty, TypeOK, FramePCs, BuildPCs, WipePCs,
          JobPCs, localVars, trackerVars, mapMakerVars, resetVars, abortVars, flagVars,
          mapVars, sharedVars
  <1>1. CASE CheckReset
    BY <1>1 DEF CheckReset, MapMakerGoto, CheckPCs, AfterCheck
  <1>2. CASE ReadIsGood
    BY <1>2 DEF ReadIsGood, MapMakerGoto
  <1>3. CASE Wipe_Map
    BY <1>3 DEF Wipe_Map, MapMakerGoto
  <1>4. CASE Wipe_KeyFrames
    BY <1>4 DEF Wipe_KeyFrames, MapMakerGoto
  <1>5. CASE Wipe_Queue
    BY <1>5 DEF Wipe_Queue, MapMakerGoto
  <1>6. CASE Wipe_SetDone
    BY <1>6 DEF Wipe_SetDone, MapMakerGoto
  <1>7. CASE Wipe_ClearRequest
    BY <1>7 DEF Wipe_ClearRequest, MapMakerGoto
  <1>8. CASE Wipe_ClearAbort
    BY <1>8 DEF Wipe_ClearAbort, MapMakerGoto
  <1>9. CASE BundleAdjustRecent
    BY <1>9 DEF BundleAdjustRecent, MapMakerGoto, WantRecent
  <1>10. CASE BundleAdjustAll
    BY <1>10 DEF BundleAdjustAll, MapMakerGoto, WantAll
  <1>11. CASE BundleAdjust_Start
    BY <1>11 DEF BundleAdjust_Start, MapMakerGoto
  <1>12. CASE Compute_Step
    BY <1>12 DEF Compute_Step
  <1>13. CASE Compute_End
    BY <1>13 DEF Compute_End, MapMakerGoto
  <1>14. CASE BundleAdjust_Stop
    BY <1>14 DEF BundleAdjust_Stop, BundleResult, NoBundle
  <1>15. CASE BundleAdjust_ClearAbort
    BY <1>15 DEF BundleAdjust_ClearAbort, MapMakerGoto
  <1>16. CASE AddKeyFrame_Pop
    BY <1>16 DEF AddKeyFrame_Pop, MapMakerGoto
  <1>17. CASE AddKeyFrame_Integrate
    BY <1>17 DEF AddKeyFrame_Integrate, MapMakerGoto
  <1>18. CASE Commands_Test
    BY <1>18 DEF Commands_Test, MapMakerGoto
  <1>19. CASE SaveMap_Points
    BY <1>19 DEF SaveMap_Points, MapMakerGoto
  <1>20. CASE SaveMap_KeyFrames
    BY <1>20 DEF SaveMap_KeyFrames, MapMakerGoto
  <1>21. CASE Commands_Erase
    BY <1>21 DEF Commands_Erase
  <1>22. QED
    BY <1>1, <1>2, <1>3, <1>4, <1>5, <1>6, <1>7, <1>8, <1>9, <1>10, <1>11,
       <1>12, <1>13, <1>14, <1>15, <1>16, <1>17, <1>18, <1>19, <1>20, <1>21
    DEF MapMaker

\* The invariant is inductive: the GUI parser thread touches none of it.
LEMMA IInvStep == IInv /\ [Next]_vars => IInv'
  <1> SUFFICES ASSUME IInv, [Next]_vars PROVE Known'
    BY TypeStep DEF IInv
  <1> USE DEF IInv, Known, Handshake, WipeProgress, MapKnown, StageKnown,
      QueueKnown, Empty, localVars, trackerVars, mapMakerVars, resetVars,
      abortVars, flagVars, mapVars, sharedVars
  <1>1. CASE GUICommandCallBack
    BY <1>1 DEF GUICommandCallBack
  <1>2. CASE GUICommandCallBack_SaveMap
    BY <1>2 DEF GUICommandCallBack_SaveMap
  <1>3. CASE UNCHANGED vars
    BY <1>3 DEF vars
  <1>4. QED
    BY <1>1, <1>2, <1>3, TrackerStep, MapMakerStep DEF Next

\* IInv holds in every reachable state: the unlocked flags of Tracker::Reset(),
\* MapMaker::Reset() and InitFromStereo() mean what the threads take them for.
THEOREM Invariance == Spec => []IInv
  <1>1. QED
    BY IInvInit, IInvStep, PTL DEF Spec

-----------------------------------------------------------------------------
(* The safety properties. *)

\* MapMaker::Reset() takes the map apart only while the tracker waits in
\* Tracker::Reset() for an answer that has not been given.
THEOREM WipeIsAlone == Spec => []WipeOnlyWhileTrackerWaits
  <1>1. IInv => WipeOnlyWhileTrackerWaits
    BY DEF IInv, Known, Handshake, WipeOnlyWhileTrackerWaits
  <1>2. QED
    BY <1>1, Invariance, PTL

\* InitFromStereo(), in the tracker's thread, is the only one that changes the
\* map and its flags while it runs: the map maker is neither in a job nor in
\* Reset().  It may be in SaveMap, which reads the map.
THEOREM BuildIsAlone == Spec => []BuildExcludesMaintenance
  <1>1. IInv => BuildExcludesMaintenance
    BY DEF IInv, Known, Handshake, MapKnown, BuildPCs, BuildExcludesMaintenance
  <1>2. QED
    BY <1>1, Invariance, PTL

\* The map that TrackFrame() began with is still there when it ends.
THEOREM FrameKeepsMap == Spec => []MapKeptDuringFrame
  <1>1. IInv => MapKeptDuringFrame
    BY DEF IInv, Known, MapKnown, MapKeptDuringFrame
  <1>2. QED
    BY <1>1, Invariance, PTL

\* The queue of key frames is bounded, and dies with its map.
THEOREM QueueBounded == Spec => []QueueBelongsToMap
  <1>1. IInv => QueueBelongsToMap
    BY DEF IInv, Known, QueueKnown, QueueBelongsToMap
  <1>2. QED
    BY <1>1, Invariance, PTL

\* A map is only ever built from nothing.
THEOREM MapFromNothing == Spec => []NoMapOverMap
  <1>1. IInv => NoMapOverMap
    BY DEF IInv, Known, StageKnown, Empty, BuildPCs, NoMapOverMap
  <1>2. QED
    BY <1>1, Invariance, PTL

\* Tracker::Reset() leaves its wait loop only once the map and the queue are
\* empty and no adjustment runs.
THEOREM ResetClean == Spec => ResetReturnsClean
  <1> DEFINE Clean == ~bGood /\ nKeyFrames = 0 /\ nQueued = 0 /\ ~mbBundleRunning
             Returns == trk = "wait" /\ trk' # "wait"
  <1>1. IInv /\ [Next]_vars /\ Returns => mbResetDone
    <2> SUFFICES ASSUME IInv, [Next]_vars, Returns PROVE mbResetDone
      OBVIOUS
    <2>1. CASE Tracker
      BY <2>1 DEF Tracker, AddKeyFrame_Abort, AddKeyFrame_Push,
          AddKeyFrame_ReadRunning, EraseCommand, HandleReset, HandleSpace,
          InitFromStereo_Abandon, InitFromStereo_Bundle,
          InitFromStereo_BundleEnd, InitFromStereo_Good, InitFromStereo_Loop,
          InitFromStereo_MakeMap, InitFromStereo_NoHomography, NoMoreCommands,
          Reset_ClearDone, Reset_Request, Reset_Return,
          TrackForInitialMap_Skip, TrackForInitialMap_Start,
          TrackForInitialMap_TrailsLost, TrackFrame, TrackMap_NoKeyFrame,
          TrackMap_WantKeyFrame, TrackerGoto
    <2>2. CASE MapMaker
      BY <2>2 DEF MapMaker, AddKeyFrame_Integrate, AddKeyFrame_Pop,
          BundleAdjustAll, BundleAdjustRecent, BundleAdjust_ClearAbort,
          BundleAdjust_Start, BundleAdjust_Stop, CheckReset, Commands_Erase,
          Commands_Test, Compute_End, Compute_Step, MapMakerGoto, ReadIsGood,
          SaveMap_KeyFrames, SaveMap_Points, Wipe_ClearAbort,
          Wipe_ClearRequest, Wipe_KeyFrames, Wipe_Map, Wipe_Queue,
          Wipe_SetDone, trackerVars
    <2>3. CASE \/ GUICommandCallBack \/ GUICommandCallBack_SaveMap
               \/ UNCHANGED vars
      BY <2>3 DEF GUICommandCallBack, GUICommandCallBack_SaveMap, vars, trackerVars
    <2>4. QED
      BY <2>1, <2>2, <2>3 DEF Next
  <1>2. IInv /\ [Next]_vars => [Returns => Clean]_vars
    BY <1>1 DEF IInv, Known, Handshake, Empty
  <1>3. QED
    BY <1>2, Invariance, PTL DEF Spec, ResetReturnsClean

-----------------------------------------------------------------------------
(* The refinement of MapLifecycle: seven actions are its steps, all others  *)
(* leave what it sees unchanged.                                            *)

\* The constructors have asked for the first reset of an empty map.
LEMMA LifecycleInit == Init => Lifecycle!Init
  BY DEF Init, Lifecycle!Init

\* Every step of a thread is a step of the map's life, or leaves it alone.
LEMMA LifecycleStep == IInv /\ [Next]_vars => [Lifecycle!Next]_(Lifecycle!vars)
  <1> SUFFICES ASSUME IInv, [Next]_vars PROVE [Lifecycle!Next]_(Lifecycle!vars)
    OBVIOUS
  <1> USE DEF IInv, Known, Handshake, WipeProgress, MapKnown, StageKnown,
      Empty, TypeOK, BuildPCs, WipePCs, JobPCs, localVars, trackerVars,
      mapMakerVars, resetVars, abortVars, flagVars, mapVars, sharedVars,
      Lifecycle!Next, Lifecycle!vars
  <1>1. CASE Reset_ClearDone
    BY <1>1 DEF Reset_ClearDone, Lifecycle!RequestReset
  <1>2. CASE Reset_Return
    BY <1>2 DEF Reset_Return, TrackerGoto, Lifecycle!ResetReturns
  <1>3. CASE InitFromStereo_MakeMap
    BY <1>3 DEF InitFromStereo_MakeMap, Lifecycle!StartMap
  <1>4. CASE InitFromStereo_Good
    BY <1>4 DEF InitFromStereo_Good, Lifecycle!FinishMap
  <1>5. CASE Wipe_Map
    BY <1>5 DEF Wipe_Map, MapMakerGoto, Lifecycle!Dismantle
  <1>6. CASE Wipe_KeyFrames
    BY <1>6 DEF Wipe_KeyFrames, MapMakerGoto, Lifecycle!Clear
  <1>7. CASE Wipe_SetDone
    BY <1>7 DEF Wipe_SetDone, MapMakerGoto, Lifecycle!ResetDone
  <1>8. CASE Reset_Request
    BY <1>8 DEF Reset_Request, TrackerGoto
  <1>9. CASE TrackFrame
    BY <1>9 DEF TrackFrame, TrackerGoto
  <1>10. CASE TrackMap_NoKeyFrame
    BY <1>10 DEF TrackMap_NoKeyFrame, TrackerGoto
  <1>11. CASE TrackMap_WantKeyFrame
    BY <1>11 DEF TrackMap_WantKeyFrame, TrackerGoto
  <1>12. CASE AddKeyFrame_Push
    BY <1>12 DEF AddKeyFrame_Push, TrackerGoto
  <1>13. CASE AddKeyFrame_ReadRunning
    BY <1>13 DEF AddKeyFrame_ReadRunning, TrackerGoto
  <1>14. CASE AddKeyFrame_Abort
    BY <1>14 DEF AddKeyFrame_Abort, TrackerGoto
  <1>15. CASE TrackForInitialMap_Start
    BY <1>15 DEF TrackForInitialMap_Start
  <1>16. CASE TrackForInitialMap_TrailsLost
    BY <1>16 DEF TrackForInitialMap_TrailsLost
  <1>17. CASE TrackForInitialMap_Skip
    BY <1>17 DEF TrackForInitialMap_Skip, TrackerGoto
  <1>18. CASE InitFromStereo_NoHomography
    BY <1>18 DEF InitFromStereo_NoHomography
  <1>19. CASE InitFromStereo_Bundle
    BY <1>19 DEF InitFromStereo_Bundle, TrackerGoto
  <1>20. CASE InitFromStereo_BundleEnd
    BY <1>20 DEF InitFromStereo_BundleEnd, TrackerGoto, BundleResult
  <1>21. CASE InitFromStereo_Abandon
    BY <1>21 DEF InitFromStereo_Abandon
  <1>22. CASE InitFromStereo_Loop
    BY <1>22 DEF InitFromStereo_Loop, TrackerGoto
  <1>23. CASE NoMoreCommands
    BY <1>23 DEF NoMoreCommands, TrackerGoto
  <1>24. CASE HandleSpace
    BY <1>24 DEF HandleSpace
  <1>25. CASE HandleReset
    BY <1>25 DEF HandleReset
  <1>26. CASE EraseCommand
    BY <1>26 DEF EraseCommand
  <1>27. CASE CheckReset
    BY <1>27 DEF CheckReset, MapMakerGoto, CheckPCs, AfterCheck
  <1>28. CASE ReadIsGood
    BY <1>28 DEF ReadIsGood, MapMakerGoto
  <1>29. CASE Wipe_Queue
    BY <1>29 DEF Wipe_Queue, MapMakerGoto
  <1>30. CASE Wipe_ClearRequest
    BY <1>30 DEF Wipe_ClearRequest, MapMakerGoto
  <1>31. CASE Wipe_ClearAbort
    BY <1>31 DEF Wipe_ClearAbort, MapMakerGoto
  <1>32. CASE BundleAdjustRecent
    BY <1>32 DEF BundleAdjustRecent, MapMakerGoto, WantRecent
  <1>33. CASE BundleAdjustAll
    BY <1>33 DEF BundleAdjustAll, MapMakerGoto, WantAll
  <1>34. CASE BundleAdjust_Start
    BY <1>34 DEF BundleAdjust_Start, MapMakerGoto
  <1>35. CASE Compute_Step
    BY <1>35 DEF Compute_Step
  <1>36. CASE Compute_End
    BY <1>36 DEF Compute_End, MapMakerGoto
  <1>37. CASE BundleAdjust_Stop
    BY <1>37 DEF BundleAdjust_Stop, BundleResult, NoBundle
  <1>38. CASE BundleAdjust_ClearAbort
    BY <1>38 DEF BundleAdjust_ClearAbort, MapMakerGoto
  <1>39. CASE AddKeyFrame_Pop
    BY <1>39 DEF AddKeyFrame_Pop, MapMakerGoto
  <1>40. CASE AddKeyFrame_Integrate
    BY <1>40 DEF AddKeyFrame_Integrate, MapMakerGoto
  <1>41. CASE GUICommandCallBack
    BY <1>41 DEF GUICommandCallBack
  <1>42. CASE UNCHANGED vars
    BY <1>42 DEF vars
  <1>43. CASE GUICommandCallBack_SaveMap
    BY <1>43 DEF GUICommandCallBack_SaveMap
  <1>44. CASE Commands_Test
    BY <1>44 DEF Commands_Test, MapMakerGoto
  <1>45. CASE SaveMap_Points
    BY <1>45 DEF SaveMap_Points, MapMakerGoto
  <1>46. CASE SaveMap_KeyFrames
    BY <1>46 DEF SaveMap_KeyFrames, MapMakerGoto
  <1>47. CASE Commands_Erase
    BY <1>47 DEF Commands_Erase
  <1>48. QED
    BY <1>1, <1>2, <1>3, <1>4, <1>5, <1>6, <1>7, <1>8, <1>9, <1>10, <1>11,
       <1>12, <1>13, <1>14, <1>15, <1>16, <1>17, <1>18, <1>19, <1>20, <1>21,
       <1>22, <1>23, <1>24, <1>25, <1>26, <1>27, <1>28, <1>29, <1>30, <1>31,
       <1>32, <1>33, <1>34, <1>35, <1>36, <1>37, <1>38, <1>39, <1>40, <1>41,
       <1>42, <1>43, <1>44, <1>45, <1>46, <1>47
    DEF Next, Tracker, MapMaker

\* The unlocked flags implement the promise that the map is built from nothing
\* and taken apart only between a reset's request and its answer.
THEOREM Implementation == Spec => ImplementsLifecycle
  <1>1. Spec => Lifecycle!Spec
    BY LifecycleInit, LifecycleStep, Invariance, PTL DEF Spec, Lifecycle!Spec
  <1>2. QED
    BY <1>1 DEF ImplementsLifecycle

=============================================================================
