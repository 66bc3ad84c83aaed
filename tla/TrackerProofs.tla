--------------------------- MODULE TrackerProofs ---------------------------
(***************************************************************************)
(* Proofs about Tracker.  The inductive invariant says what each stage of  *)
(* a frame may count on: the points that are still in avPVS have not been  *)
(* searched, and the counters count the points found so far by level.      *)
(***************************************************************************)
EXTENDS Tracker, FiniteSetTheorems, TLAPS

\* The points searched so far in this frame.
Searched == {i[2] : i \in vIterationSet}

Stages == {"coarse", "top", "fine", "assess"}

\* A point leaves avPVS before, or when, it is searched.
Fresh ==
    /\ pc \in {"frame", "stereo", "coarse"} => bFound = {}
    /\ pc = "coarse" => vIterationSet = {}
    /\ pc = "top" => \A i \in vIterationSet : i[1] = "coarse" /\ i[2] \notin pvs
    /\ pc = "fine" => \A i \in vIterationSet :
                        i[1] # "fine" /\ i[2] \notin pvs \ Top

\* The points of S that were searched at level l.
AtLevel(S, l) == {p \in S : nSearchLevel[p] = l}

\* In a frame the counters count the points found, level by level.
Counted ==
    /\ pc \in Stages => /\ bFound \subseteq Searched
                        /\ \A p \in bFound : nSearchLevel[p] \in Levels
                        /\ pc \in {"coarse", "top", "fine"} =>
                             \A p \in pvs : nSearchLevel[p] \in Levels
    /\ pc \in Stages => \A l \in Levels :
         /\ manMeasFound[l] = Cardinality(AtLevel(bFound, l))
         /\ manMeasFound[l] <= manMeasAttempted[l]
    /\ pc = "assess" => mMeasurements = bFound

\* A frame with a map is tracked with a map; between frames the flag of the
\* recovery is clear.
Phase ==
    /\ pc \in Stages \cup {"keyframe"} => bGood
    /\ pc = "stereo" => ~bGood
    /\ mnLostFrames > 0 <=> mTrackingQuality = "BAD"

IInv ==
    /\ TypeOK /\ Fresh /\ SearchedOnce /\ Counted /\ Phase
    /\ GoodFrameMeasured /\ LostIsBad /\ RecoveryForOneFrame /\ PatchLimit

-----------------------------------------------------------------------------
(* Finite sets. *)

LEMMA PointsFinite ==
    ASSUME NEW S \in SUBSET Points
    PROVE  IsFiniteSet(S) /\ Cardinality(S) \in Nat
  BY TrackerAssumption, FS_Subset, FS_CardinalityType

\* The pairs of a stage and a point.
LEMMA PairsFinite ==
    ASSUME TypeOK
    PROVE  IsFiniteSet(vIterationSet) /\ Cardinality(vIterationSet) \in Nat
<1>1. IsFiniteSet({"coarse", "top", "fine"})
  <2>1. IsFiniteSet({"coarse"}) BY FS_Singleton
  <2>2. IsFiniteSet({"coarse"} \cup {"top"}) BY <2>1, FS_AddElement
  <2>3. IsFiniteSet(({"coarse"} \cup {"top"}) \cup {"fine"}) BY <2>2, FS_AddElement
  <2>4. ({"coarse"} \cup {"top"}) \cup {"fine"} = {"coarse", "top", "fine"} OBVIOUS
  <2> QED BY <2>3, <2>4
<1>2. IsFiniteSet({"coarse", "top", "fine"} \X Points)
  BY <1>1, FS_Product, TrackerAssumption
<1> QED BY <1>2, FS_Subset, FS_CardinalityType DEF TypeOK

\* Chopped chooses from S, and no more than n.
LEMMA ChoppedBound ==
    ASSUME NEW S \in SUBSET Points, NEW n \in Nat, NEW T \in Chopped(S, n)
    PROVE  T \subseteq S /\ Cardinality(T) <= n
<1>1. CASE Cardinality(S) <= n BY <1>1 DEF Chopped
<1>2. CASE ~(Cardinality(S) <= n) BY <1>2 DEF Chopped
<1> QED BY <1>1, <1>2

LEMMA DisjointUnion ==
    ASSUME NEW S \in SUBSET Points, NEW T \in SUBSET Points, S \cap T = {}
    PROVE  Cardinality(S \cup T) = Cardinality(S) + Cardinality(T)
<1>1. Cardinality(S \cup T) = Cardinality(S) + Cardinality(T) - Cardinality(S \cap T)
  BY PointsFinite, FS_Union
<1>2. Cardinality(S \cap T) = 0 BY FS_EmptySet
<1> QED BY <1>1, <1>2, PointsFinite

\* A set of points splits into its levels.
LEMMA SplitByLevel ==
    ASSUME NEW S \in SUBSET Points, nSearchLevel \in [Points -> Levels \cup {NoLevel}],
           \A p \in S : nSearchLevel[p] \in Levels
    PROVE  Cardinality(S) = Cardinality(AtLevel(S, 0)) + Cardinality(AtLevel(S, 1))
                            + (Cardinality(AtLevel(S, 2)) + Cardinality(AtLevel(S, 3)))
<1> DEFINE A == AtLevel(S, 0)  B == AtLevel(S, 1)  C == AtLevel(S, 2)  D == AtLevel(S, 3)
<1>1. /\ A \in SUBSET Points /\ B \in SUBSET Points
      /\ C \in SUBSET Points /\ D \in SUBSET Points BY DEF AtLevel
<1>2. A \cap B = {} /\ (A \cup B) \cap C = {} /\ (A \cup B \cup C) \cap D = {}
  BY DEF AtLevel
<1>3. S = A \cup B \cup C \cup D BY DEF AtLevel, Levels, LEVELS
<1> HIDE DEF A, B, C, D
<1>4. Cardinality(A \cup B) = Cardinality(A) + Cardinality(B)
  BY <1>1, <1>2, DisjointUnion
<1>5. Cardinality(A \cup B \cup C) = Cardinality(A \cup B) + Cardinality(C)
  BY <1>1, <1>2, DisjointUnion
<1>6. Cardinality(A \cup B \cup C \cup D) = Cardinality(A \cup B \cup C) + Cardinality(D)
  BY <1>1, <1>2, DisjointUnion
<1>7. /\ Cardinality(A) \in Nat /\ Cardinality(B) \in Nat
      /\ Cardinality(C) \in Nat /\ Cardinality(D) \in Nat
  BY <1>1, PointsFinite
<1>8. Cardinality(S) = Cardinality(A) + Cardinality(B) + (Cardinality(C) + Cardinality(D))
  BY <1>3, <1>4, <1>5, <1>6, <1>7
<1> QED BY <1>8 DEF A, B, C, D

\* A search of points not found before adds what it finds to the counters.
LEMMA SearchCounts ==
    ASSUME TypeOK, NEW S \in SUBSET Points, S \cap bFound = {},
           NEW searched \in SUBSET S, NEW found \in SUBSET searched,
           SearchForPoints(S, searched, found),
           \A l \in Levels : /\ manMeasFound[l] = Cardinality(AtLevel(bFound, l))
                             /\ manMeasFound[l] <= manMeasAttempted[l]
    PROVE  /\ bFound' = bFound \cup found
           /\ manMeasAttempted' \in [Levels -> Nat] /\ manMeasFound' \in [Levels -> Nat]
           /\ \A l \in Levels : /\ manMeasFound'[l] = Cardinality(AtLevel(bFound \cup found, l))
                                /\ manMeasFound'[l] <= manMeasAttempted'[l]
<1>1. bFound' = bFound \cup found BY DEF SearchForPoints
<1>2. ASSUME NEW l \in Levels
      PROVE  /\ Cardinality(AtLevel(searched, l)) \in Nat
             /\ Cardinality(AtLevel(found, l)) \in Nat
             /\ Cardinality(AtLevel(found, l)) <= Cardinality(AtLevel(searched, l))
             /\ Cardinality(AtLevel(bFound \cup found, l))
                  = Cardinality(AtLevel(bFound, l)) + Cardinality(AtLevel(found, l))
  <2>1. /\ AtLevel(searched, l) \in SUBSET Points /\ AtLevel(found, l) \in SUBSET Points
        /\ AtLevel(bFound, l) \in SUBSET Points
        /\ AtLevel(found, l) \subseteq AtLevel(searched, l)
    BY DEF AtLevel, TypeOK
  <2>2. /\ AtLevel(bFound \cup found, l) = AtLevel(bFound, l) \cup AtLevel(found, l)
        /\ AtLevel(bFound, l) \cap AtLevel(found, l) = {}
    BY DEF AtLevel
  <2>3. Cardinality(AtLevel(found, l)) <= Cardinality(AtLevel(searched, l))
    BY <2>1, PointsFinite, FS_Subset
  <2>4. Cardinality(AtLevel(bFound \cup found, l))
          = Cardinality(AtLevel(bFound, l)) + Cardinality(AtLevel(found, l))
    BY <2>1, <2>2, DisjointUnion
  <2> QED BY <2>1, <2>3, <2>4, PointsFinite
<1>3. /\ manMeasAttempted' = [l \in Levels |-> manMeasAttempted[l] + Cardinality(AtLevel(searched, l))]
      /\ manMeasFound' = [l \in Levels |-> manMeasFound[l] + Cardinality(AtLevel(found, l))]
  BY DEF SearchForPoints, Count, AtLevel
<1>4. manMeasAttempted \in [Levels -> Nat] /\ manMeasFound \in [Levels -> Nat] BY DEF TypeOK
<1>5. ASSUME NEW l \in Levels
      PROVE  /\ manMeasFound'[l] = Cardinality(AtLevel(bFound \cup found, l))
             /\ manMeasFound'[l] <= manMeasAttempted'[l]
  <2>1. /\ manMeasFound[l] \in Nat /\ manMeasAttempted[l] \in Nat
        /\ manMeasFound[l] = Cardinality(AtLevel(bFound, l))
        /\ manMeasFound[l] <= manMeasAttempted[l]
    BY <1>4
  <2>2. manMeasFound'[l] = manMeasFound[l] + Cardinality(AtLevel(found, l)) BY <1>3
  <2>3. manMeasAttempted'[l] = manMeasAttempted[l] + Cardinality(AtLevel(searched, l)) BY <1>3
  <2>4. /\ Cardinality(AtLevel(searched, l)) \in Nat
        /\ Cardinality(AtLevel(found, l)) \in Nat
        /\ Cardinality(AtLevel(found, l)) <= Cardinality(AtLevel(searched, l))
        /\ Cardinality(AtLevel(bFound \cup found, l))
             = Cardinality(AtLevel(bFound, l)) + Cardinality(AtLevel(found, l))
    BY <1>2
  <2>5. manMeasFound'[l] <= manMeasAttempted'[l] BY <2>1, <2>2, <2>3, <2>4
  <2>6. manMeasFound'[l] = Cardinality(AtLevel(bFound \cup found, l)) BY <2>1, <2>2, <2>4
  <2> QED BY <2>5, <2>6
<1>6. manMeasAttempted' \in [Levels -> Nat] /\ manMeasFound' \in [Levels -> Nat]
  BY <1>2, <1>3, <1>4
<1> QED BY <1>1, <1>5, <1>6

-----------------------------------------------------------------------------
(* The search: the part of the invariant that the stages of a frame hand    *)
(* to each other.                                                           *)

SearchInv == TypeOK /\ Fresh /\ SearchedOnce /\ Counted /\ PatchLimit

LEMMA Limits ==
    /\ CoarseMin \in Nat /\ CoarseMax \in Nat /\ MaxPatches \in Nat /\ LargeMin \in Nat
    /\ QualityGood \in Nat /\ QualityLost \in Nat /\ KeyFrameGap \in Nat
    /\ MaxTrails \in Nat /\ MinTrails \in Nat
  BY TrackerAssumption

\* The flags are proved to be Boolean by themselves: Zenon does that.
FlagTypes ==
    /\ mbUserPressedSpacebar \in BOOLEAN /\ bGood \in BOOLEAN
    /\ mbDidCoarse \in BOOLEAN /\ mbJustRecoveredSoUseCoarse \in BOOLEAN

OtherTypes ==
    /\ pc \in {"frame", "stereo", "coarse", "top", "fine", "assess", "keyframe"}
    /\ mnInitialStage \in {"NOT_STARTED", "STARTED", "COMPLETE"}
    /\ nTrails \in 0..MaxTrails
    /\ nSearchLevel \in [Points -> Levels \cup {NoLevel}]
    /\ pvs \subseteq Points
    /\ vIterationSet \subseteq {"coarse", "top", "fine"} \X Points
    /\ bFound \subseteq Points /\ mMeasurements \subseteq Points
    /\ manMeasAttempted \in [Levels -> Nat] /\ manMeasFound \in [Levels -> Nat]
    /\ mTrackingQuality \in {"GOOD", "DODGY", "BAD"}
    /\ mnLostFrames \in 0..(MaxLost + 1)
    /\ nSinceKeyFrame \in 0..(KeyFrameGap + 1)

LEMMA TypeParts == TypeOK <=> FlagTypes /\ OtherTypes
  BY Zenon DEF TypeOK, FlagTypes, OtherTypes

LEMMA InitType == Init => TypeOK
<1>1. Init => FlagTypes BY Zenon DEF Init, FlagTypes
<1>2. Init => OtherTypes
  BY Limits DEF Init, OtherTypes, Levels, LEVELS, NoLevel, NoCounts, MaxLost
<1> QED BY <1>1, <1>2, TypeParts

LEMMA InitSearch == Init => SearchInv
  BY InitType DEF Init, SearchInv, Fresh, SearchedOnce, Counted, PatchLimit, Stages

LEMMA ResetType == TypeOK /\ Reset => TypeOK'
<1>1. Reset => FlagTypes' BY Zenon DEF Reset, FlagTypes
<1>2. OtherTypes /\ Reset => OtherTypes'
  BY Limits DEF Reset, OtherTypes, searchVars, MaxLost
<1>3. TypeOK' <=> FlagTypes' /\ OtherTypes' BY TypeParts, PTL
<1> QED BY <1>1, <1>2, <1>3, TypeParts

\* Whatever leaves the search alone and is not one of its stages.
LEMMA NoSearch ==
    ASSUME SearchInv, TypeOK', UNCHANGED searchVars, pc' \notin Stages,
           pc' \in {"frame", "stereo"} => bFound = {}
    PROVE  SearchInv'
<1>1. Fresh' /\ Counted' BY DEF Fresh, Counted, Stages, searchVars
<1>2. SearchedOnce' /\ PatchLimit' BY DEF SearchInv, SearchedOnce, PatchLimit, searchVars
<1> QED BY <1>1, <1>2 DEF SearchInv

LEMMA CountType == TypeOK /\ CountFrame => nSinceKeyFrame' \in 0..(KeyFrameGap + 1)
  BY Limits DEF CountFrame, TypeOK

\* Projecting the points opens a frame: nothing is searched or counted yet.
LEMMA MakePVSStep ==
    ASSUME SearchInv, MakePVS, pc = "frame", mbJustRecoveredSoUseCoarse' \in BOOLEAN
    PROVE  SearchInv'
<1>1. /\ pvs' \subseteq Points /\ bFound' = {} /\ vIterationSet' = {} /\ pc' = "coarse"
      /\ \A l \in Levels : manMeasAttempted'[l] = 0 /\ manMeasFound'[l] = 0
      /\ \A p \in pvs' : nSearchLevel'[p] \in Levels
  BY DEF MakePVS, NoCounts, SearchInv, Fresh, TypeOK
<1>2. TypeOK'
  BY CountType DEF MakePVS, SearchInv, TypeOK, NoCounts, initVars, qualityVars
<1>3. \A l \in Levels : Cardinality(AtLevel(bFound, l)') = 0
  <2>1. \A l \in Levels : AtLevel(bFound, l)' = {} BY <1>1 DEF AtLevel
  <2> QED BY <2>1, FS_EmptySet
<1>4. Counted' BY <1>1, <1>3 DEF Counted
<1>5. Fresh' /\ SearchedOnce' /\ PatchLimit'
  BY <1>1 DEF Fresh, SearchedOnce, PatchLimit
<1> QED BY <1>2, <1>4, <1>5 DEF SearchInv


\* What each stage does with points that were not searched before.
LEMMA StageStep ==
    ASSUME SearchInv, pc \in {"coarse", "top", "fine"}, NEW stage \in {"coarse", "top", "fine"},
           NEW S \in SUBSET Points, S \cap Searched = {},
           \A p \in S : nSearchLevel[p] \in Levels,
           NEW searched \in SUBSET S, NEW found \in SUBSET searched,
           SearchForPoints(S, searched, found),
           vIterationSet' = vIterationSet \cup ({stage} \X S), nSearchLevel' = nSearchLevel
    PROVE  /\ SearchedOnce'
           /\ bFound' \subseteq Points /\ vIterationSet' \subseteq {"coarse", "top", "fine"} \X Points
           /\ bFound' \subseteq Searched' /\ \A p \in bFound' : nSearchLevel'[p] \in Levels
           /\ manMeasAttempted' \in [Levels -> Nat] /\ manMeasFound' \in [Levels -> Nat]
           /\ \A l \in Levels : /\ manMeasFound'[l] = Cardinality(AtLevel(bFound, l)')
                                /\ manMeasFound'[l] <= manMeasAttempted'[l]
<1>1. TypeOK /\ bFound \subseteq Searched /\ \A p \in bFound : nSearchLevel[p] \in Levels
  BY DEF SearchInv, Counted, Stages
<1>2. \A l \in Levels : /\ manMeasFound[l] = Cardinality(AtLevel(bFound, l))
                        /\ manMeasFound[l] <= manMeasAttempted[l]
  BY DEF SearchInv, Counted, Stages
<1>3. /\ bFound' = bFound \cup found
      /\ manMeasAttempted' \in [Levels -> Nat] /\ manMeasFound' \in [Levels -> Nat]
      /\ \A l \in Levels : /\ manMeasFound'[l] = Cardinality(AtLevel(bFound \cup found, l))
                           /\ manMeasFound'[l] <= manMeasAttempted'[l]
  <2>1. S \cap bFound = {} BY <1>1
  <2> QED BY <1>1, <1>2, <2>1, SearchCounts
<1>4. \A l \in Levels : AtLevel(bFound, l)' = AtLevel(bFound \cup found, l)
  BY <1>3 DEF AtLevel
<1>5. Searched' = Searched \cup S
  <2>1. \A i \in {stage} \X S : i[2] \in S OBVIOUS
  <2>2. \A p \in S : <<stage, p>> \in {stage} \X S /\ <<stage, p>>[2] = p OBVIOUS
  <2> QED BY <2>1, <2>2 DEF Searched
<1>6. SearchedOnce'
  <2>1. ASSUME NEW i \in {stage} \X S, NEW j \in {stage} \X S, i[2] = j[2] PROVE i = j
    BY <2>1
  <2>2. ASSUME NEW i \in vIterationSet, NEW j \in {stage} \X S PROVE i[2] # j[2]
    BY <2>2 DEF Searched
  <2> QED BY <2>1, <2>2 DEF SearchedOnce, SearchInv
<1>7. bFound' \subseteq Points /\ vIterationSet' \subseteq {"coarse", "top", "fine"} \X Points
  BY <1>1, <1>3 DEF TypeOK
<1>8. bFound' \subseteq Searched' /\ \A p \in bFound' : nSearchLevel'[p] \in Levels
  BY <1>1, <1>3, <1>5
<1> QED BY <1>3, <1>4, <1>6, <1>7, <1>8

LEMMA TryCoarseStep == SearchInv /\ TryCoarse => SearchInv'
<1> SUFFICES ASSUME SearchInv, TryCoarse PROVE SearchInv' OBVIOUS
<1> DEFINE max == IF mbJustRecoveredSoUseCoarse THEN 2 * CoarseMax ELSE CoarseMax
<1>1. PICK top \in Chopped(Top, max) : \E second \in Chopped(Second, max - Cardinality(top)) :
        LET next == CoarseNext(top, second, max) IN
          /\ pvs' = CoarseRest(top, second)
          /\ vIterationSet' = {"coarse"} \X next
          /\ \E searched \in SUBSET next : \E found \in SUBSET searched :
               /\ SearchForPoints(next, searched, found)
               /\ mbDidCoarse' = (Cardinality(found) >= CoarseMin)
  BY Zenon DEF TryCoarse
<1>2. PICK second \in Chopped(Second, max - Cardinality(top)) :
        LET next == CoarseNext(top, second, max) IN
          /\ pvs' = CoarseRest(top, second)
          /\ vIterationSet' = {"coarse"} \X next
          /\ \E searched \in SUBSET next : \E found \in SUBSET searched :
               /\ SearchForPoints(next, searched, found)
               /\ mbDidCoarse' = (Cardinality(found) >= CoarseMin)
  BY <1>1, Zenon
<1> DEFINE next == CoarseNext(top, second, max)
<1>3. PICK searched \in SUBSET next : \E found \in SUBSET searched :
        SearchForPoints(next, searched, found) /\ mbDidCoarse' = (Cardinality(found) >= CoarseMin)
  BY <1>2, Zenon
<1>4. PICK found \in SUBSET searched :
        SearchForPoints(next, searched, found) /\ mbDidCoarse' = (Cardinality(found) >= CoarseMin)
  BY <1>3, Zenon
<1>5. pvs' = CoarseRest(top, second) /\ vIterationSet' = {"coarse"} \X next BY <1>2, Zenon
<1>6. top \subseteq Top /\ second \subseteq Second BY DEF Chopped
<1>7. next \subseteq top \cup second BY DEF CoarseNext
<1> HIDE DEF next, max
<1>8. /\ pc = "coarse" /\ pc' = "top" /\ vIterationSet = {} /\ bFound = {}
      /\ nSearchLevel' = nSearchLevel
      /\ UNCHANGED <<initVars, mMeasurements, qualityVars, nSinceKeyFrame>>
      /\ mbJustRecoveredSoUseCoarse' = FALSE
  BY DEF TryCoarse, SearchInv, Fresh
<1>9. next \subseteq pvs /\ next \in SUBSET Points /\ \A p \in next : nSearchLevel[p] \in Levels
  BY <1>6, <1>7 DEF Top, Second, Level, SearchInv, TypeOK, Levels, LEVELS
<1>10. next \cap pvs' = {} /\ pvs' \subseteq pvs BY <1>5, <1>7 DEF CoarseRest
<1>11. next \cap Searched = {} BY <1>8 DEF Searched
<1>12. vIterationSet' = vIterationSet \cup ({"coarse"} \X next) BY <1>5, <1>8
<1>13. /\ SearchedOnce'
       /\ bFound' \subseteq Points /\ vIterationSet' \subseteq {"coarse", "top", "fine"} \X Points
       /\ bFound' \subseteq Searched' /\ \A p \in bFound' : nSearchLevel'[p] \in Levels
       /\ manMeasAttempted' \in [Levels -> Nat] /\ manMeasFound' \in [Levels -> Nat]
       /\ \A l \in Levels : /\ manMeasFound'[l] = Cardinality(AtLevel(bFound, l)')
                            /\ manMeasFound'[l] <= manMeasAttempted'[l]
  BY <1>4, <1>8, <1>9, <1>11, <1>12, StageStep
<1>14. TypeOK'
  <2>1. mbDidCoarse' \in BOOLEAN BY <1>4
  <2> QED BY <1>8, <1>10, <1>13, <2>1 DEF SearchInv, TypeOK, initVars, qualityVars
<1>15. Fresh'
  BY <1>5, <1>8, <1>10 DEF Fresh
<1>16. Counted'
  BY <1>8, <1>10, <1>13 DEF Counted, SearchInv, Stages
<1>17. PatchLimit' BY <1>5 DEF PatchLimit
<1> QED BY <1>13, <1>14, <1>15, <1>16, <1>17 DEF SearchInv


LEMMA SearchTopStep == SearchInv /\ SearchTop => SearchInv'
<1> SUFFICES ASSUME SearchInv, SearchTop PROVE SearchInv' OBVIOUS
<1>1. PICK searched \in SUBSET Top : \E found \in SUBSET searched :
        SearchForPoints(Top, searched, found)
  BY DEF SearchTop
<1>2. PICK found \in SUBSET searched : SearchForPoints(Top, searched, found) BY <1>1
<1>3. /\ pc = "top" /\ pc' = "fine" /\ vIterationSet' = vIterationSet \cup ({"top"} \X Top)
      /\ nSearchLevel' = nSearchLevel /\ pvs' = pvs
      /\ UNCHANGED <<initVars, mMeasurements, mbDidCoarse, mbJustRecoveredSoUseCoarse,
                     qualityVars, nSinceKeyFrame>>
  BY DEF SearchTop
<1>4. Top \subseteq pvs /\ Top \in SUBSET Points /\ \A p \in Top : nSearchLevel[p] \in Levels
  BY DEF Top, Level, SearchInv, TypeOK, Levels, LEVELS
<1>5. \A i \in vIterationSet : i[1] = "coarse" /\ i[2] \notin pvs BY <1>3 DEF SearchInv, Fresh
<1>6. Top \cap Searched = {} BY <1>4, <1>5 DEF Searched
<1>7. /\ SearchedOnce'
      /\ bFound' \subseteq Points /\ vIterationSet' \subseteq {"coarse", "top", "fine"} \X Points
      /\ bFound' \subseteq Searched' /\ \A p \in bFound' : nSearchLevel'[p] \in Levels
      /\ manMeasAttempted' \in [Levels -> Nat] /\ manMeasFound' \in [Levels -> Nat]
      /\ \A l \in Levels : /\ manMeasFound'[l] = Cardinality(AtLevel(bFound, l)')
                           /\ manMeasFound'[l] <= manMeasAttempted'[l]
  BY <1>2, <1>3, <1>4, <1>6, StageStep
<1>8. TypeOK' BY <1>3, <1>7 DEF SearchInv, TypeOK, initVars, qualityVars
<1>9. Top' = Top BY <1>3 DEF Top, Level
<1>10. \A i \in {"top"} \X Top : i[1] = "top" /\ i[2] \in Top OBVIOUS
<1>11. \A i \in vIterationSet' : i[1] # "fine" /\ i[2] \notin pvs \ Top
  BY <1>3, <1>5, <1>10
<1>12. Fresh' /\ PatchLimit' BY <1>3, <1>9, <1>11 DEF Fresh, PatchLimit
<1>13. Counted' BY <1>3, <1>7 DEF Counted, SearchInv, Stages
<1> QED BY <1>7, <1>8, <1>12, <1>13 DEF SearchInv

\* A pair of the stage "fine" takes room that Budget found.
LEMMA PatchLimitStep ==
    ASSUME TypeOK, NEW next \in SUBSET Points, Cardinality(next) <= Budget,
           vIterationSet' = vIterationSet \cup ({"fine"} \X next),
           \A i \in vIterationSet : i[1] # "fine"
    PROVE  PatchLimit'
<1> SUFFICES ASSUME NEW i \in vIterationSet', i[1] = "fine"
             PROVE  Cardinality(vIterationSet') <= MaxPatches
  BY DEF PatchLimit
<1>1. next # {} BY vIterationSet' = vIterationSet \cup ({"fine"} \X next)
<1>2. IsFiniteSet(next) /\ Cardinality(next) \in Nat BY PointsFinite
<1>3. Cardinality(next) # 0 BY <1>1, <1>2, FS_EmptySet
<1>4. IsFiniteSet(vIterationSet) /\ Cardinality(vIterationSet) \in Nat BY PairsFinite
<1>5. Budget = MaxPatches - Cardinality(vIterationSet)
  BY <1>2, <1>3, <1>4, Limits DEF Budget
<1>6. IsFiniteSet({"fine"} \X next) /\ Cardinality({"fine"} \X next) = Cardinality(next)
  <2>1. IsFiniteSet({"fine"}) /\ Cardinality({"fine"}) = 1 BY FS_Singleton
  <2>2. IsFiniteSet({"fine"} \X next) /\ Cardinality({"fine"} \X next) = 1 * Cardinality(next)
    BY <2>1, <1>2, FS_Product
  <2> QED BY <2>2, <1>2
<1>7. vIterationSet \cap ({"fine"} \X next) = {} OBVIOUS
<1>8. Cardinality(vIterationSet') = Cardinality(vIterationSet) + Cardinality(next)
  <2>1. Cardinality(vIterationSet') = Cardinality(vIterationSet) + Cardinality({"fine"} \X next)
          - Cardinality(vIterationSet \cap ({"fine"} \X next))
    BY <1>4, <1>6, FS_Union
  <2>2. Cardinality(vIterationSet \cap ({"fine"} \X next)) = 0 BY <1>7, FS_EmptySet
  <2> QED BY <2>1, <2>2, <1>2, <1>4, <1>6
<1> QED BY <1>2, <1>4, <1>5, <1>8, Limits

LEMMA SearchFineStep == SearchInv /\ SearchFine => SearchInv'
<1> SUFFICES ASSUME SearchInv, SearchFine PROVE SearchInv' OBVIOUS
<1>1. PICK next \in Chopped(pvs \ Top, Budget) :
        /\ vIterationSet' = vIterationSet \cup ({"fine"} \X next)
        /\ \E searched \in SUBSET next : \E found \in SUBSET searched :
             SearchForPoints(next, searched, found)
  BY Zenon DEF SearchFine
<1>2. PICK searched \in SUBSET next : \E found \in SUBSET searched :
        SearchForPoints(next, searched, found)
  BY <1>1
<1>3. PICK found \in SUBSET searched : SearchForPoints(next, searched, found) BY <1>2
<1>4. /\ pc = "fine" /\ pc' = "assess" /\ mMeasurements' = {i[2] : i \in vIterationSet'} \cap bFound'
      /\ nSearchLevel' = nSearchLevel /\ pvs' = pvs
      /\ UNCHANGED <<initVars, mbDidCoarse, mbJustRecoveredSoUseCoarse,
                     qualityVars, nSinceKeyFrame>>
  BY DEF SearchFine
<1>5. pvs \ Top \in SUBSET Points /\ TypeOK BY DEF SearchInv, TypeOK
<1>6. Budget \in Nat BY <1>5, Limits, PairsFinite DEF Budget
<1>7. next \subseteq pvs \ Top /\ Cardinality(next) <= Budget
  BY <1>5, <1>6, ChoppedBound
<1>8. next \in SUBSET Points /\ \A p \in next : nSearchLevel[p] \in Levels
  BY <1>4, <1>5, <1>7 DEF SearchInv, Counted, Stages
<1>9. \A i \in vIterationSet : i[1] # "fine" /\ i[2] \notin pvs \ Top
  BY <1>4 DEF SearchInv, Fresh
<1>10. next \cap Searched = {} BY <1>7, <1>9 DEF Searched
<1>11. /\ SearchedOnce'
       /\ bFound' \subseteq Points /\ vIterationSet' \subseteq {"coarse", "top", "fine"} \X Points
       /\ bFound' \subseteq Searched' /\ \A p \in bFound' : nSearchLevel'[p] \in Levels
       /\ manMeasAttempted' \in [Levels -> Nat] /\ manMeasFound' \in [Levels -> Nat]
       /\ \A l \in Levels : /\ manMeasFound'[l] = Cardinality(AtLevel(bFound, l)')
                            /\ manMeasFound'[l] <= manMeasAttempted'[l]
  BY <1>1, <1>3, <1>4, <1>8, <1>10, StageStep
<1>12. mMeasurements' = bFound' BY <1>4, <1>11 DEF Searched
<1>13. TypeOK' BY <1>4, <1>11, <1>12 DEF SearchInv, TypeOK, initVars, qualityVars
<1>14. PatchLimit' BY <1>1, <1>5, <1>7, <1>8, <1>9, PatchLimitStep
<1>15. Counted' BY <1>4, <1>11, <1>12 DEF Counted, SearchInv, Stages
<1>16. Fresh' BY <1>4 DEF Fresh
<1> QED BY <1>11, <1>13, <1>14, <1>15, <1>16 DEF SearchInv

\* The end of a frame forgets the search.
LEMMA EndFrameStep ==
    ASSUME EndFrame, TypeOK' PROVE SearchInv'
<1>1. pc' = "frame" /\ bFound' = {} /\ vIterationSet' = {} BY DEF EndFrame
<1> QED BY <1>1 DEF SearchInv, Fresh, SearchedOnce, Counted, PatchLimit, Stages


\* The end of a frame, as far as types go.
LEMMA EndFrameType ==
    ASSUME TypeOK, EndFrame, UNCHANGED <<initVars, mbDidCoarse, mbJustRecoveredSoUseCoarse>>,
           mTrackingQuality' \in {"GOOD", "DODGY", "BAD"},
           mnLostFrames' \in 0..(MaxLost + 1), nSinceKeyFrame' \in 0..(KeyFrameGap + 1)
    PROVE  TypeOK'
  BY DEF EndFrame, NoCounts, TypeOK, initVars

LEMMA SearchStep == SearchInv /\ [Next]_vars => SearchInv'
<1> SUFFICES ASSUME SearchInv, [Next]_vars PROVE SearchInv' OBVIOUS
<1>0. TypeOK /\ (pc \in {"frame", "stereo"} => bFound = {}) BY DEF SearchInv, Fresh
<1>a. ASSUME NotTracking, CountFrame, pc' \in {"frame", "stereo"}, pc \in {"frame", "stereo"},
             nTrails' \in 0..MaxTrails, mnInitialStage' \in {"NOT_STARTED", "STARTED", "COMPLETE"},
             mbUserPressedSpacebar' \in BOOLEAN, bGood' \in BOOLEAN
      PROVE  SearchInv'
  <2>1. nSinceKeyFrame' \in 0..(KeyFrameGap + 1) BY <1>a, <1>0, CountType
  <2>2. TypeOK' BY <1>0, <1>a, <2>1 DEF NotTracking, TypeOK, searchVars, qualityVars
  <2> QED BY <1>0, <1>a, <2>2, NoSearch DEF NotTracking, Stages
<1>1. CASE HandleSpace
  <2>1. TypeOK' BY <1>0, <1>1 DEF HandleSpace, TypeOK, searchVars, qualityVars
  <2> QED BY <1>0, <1>1, <2>1, NoSearch DEF HandleSpace, Stages
<1>b. ASSUME Reset, pc = "frame" PROVE SearchInv'
  <2>1. TypeOK' BY <1>0, <1>b, ResetType
  <2> QED BY <1>0, <1>b, <2>1, NoSearch DEF Reset, Stages
<1>2. CASE HandleReset BY <1>2, <1>b DEF HandleReset
<1>3. CASE NoInitialMap BY <1>0, <1>3, <1>a DEF NoInitialMap, TypeOK, initVars
<1>4. CASE TrailTracking_Start BY <1>0, <1>4, <1>a DEF TrailTracking_Start, TypeOK
<1>5. CASE TrailTracking_Advance
  <2>1. pc = "frame" BY <1>5 DEF TrailTracking_Advance
  <2>2. CASE Reset BY <2>1, <2>2, <1>b
  <2>3. nTrails \in 0..MaxTrails BY <1>0 DEF TypeOK
  <2>4. CASE ~Reset
    <3>1. /\ pc' \in {"frame", "stereo"} /\ mbUserPressedSpacebar' = FALSE
          /\ CountFrame /\ NotTracking /\ UNCHANGED <<mnInitialStage, bGood>>
          /\ nTrails' \in 0..nTrails
      BY <1>5, <2>4 DEF TrailTracking_Advance
    <3>2. nTrails' \in 0..MaxTrails BY <2>3, <3>1, Limits
    <3> QED BY <1>0, <1>a, <2>1, <3>1, <3>2 DEF TypeOK
  <2> QED BY <2>2, <2>4
<1>6. CASE InitFromStereo
  <2>1. TypeOK' BY <1>0, <1>6 DEF InitFromStereo, TypeOK, searchVars, qualityVars
  <2> QED BY <1>0, <1>6, <2>1, NoSearch DEF InitFromStereo, Stages
<1>7. CASE TrackFrame BY <1>0, <1>7, MakePVSStep DEF TrackFrame, TypeOK
<1>8. CASE AttemptRecovery BY <1>8, MakePVSStep DEF AttemptRecovery
<1>9. CASE RecoveryFails BY <1>0, <1>9, <1>a DEF RecoveryFails, TypeOK, initVars
<1>10. CASE SkipCoarse
  <2>1. TypeOK' BY <1>0, <1>10 DEF SkipCoarse, TypeOK, initVars, searchVars, qualityVars
  <2>2. Fresh' BY <1>10 DEF SkipCoarse, SearchInv, Fresh, searchVars
  <2>3. Counted' BY <1>10 DEF SkipCoarse, SearchInv, Counted, Stages, searchVars, Searched, AtLevel
  <2>4. SearchedOnce' /\ PatchLimit'
    BY <1>10 DEF SkipCoarse, SearchInv, SearchedOnce, PatchLimit, searchVars
  <2> QED BY <2>1, <2>2, <2>3, <2>4 DEF SearchInv
<1>11. CASE TryCoarse BY <1>11, TryCoarseStep
<1>12. CASE SearchTop BY <1>12, SearchTopStep
<1>13. CASE SearchFine BY <1>13, SearchFineStep
<1>14. CASE AssessTrackingQuality
  <2>1. mTrackingQuality' \in {"GOOD", "DODGY", "BAD"}
    BY <1>14 DEF AssessTrackingQuality, Quality
  <2>2. mnLostFrames' \in 0..(MaxLost + 1)
    BY <1>0, <1>14 DEF AssessTrackingQuality, LostFrames, MaxLost, TypeOK
  <2>3. nSinceKeyFrame' \in 0..(KeyFrameGap + 1)
    BY <1>0, <1>14 DEF AssessTrackingQuality, TypeOK
  <2>4. CASE mnLostFrames < MaxLost
    <3>1. TypeOK' /\ UNCHANGED searchVars /\ pc' = "keyframe"
      BY <1>0, <1>14, <2>1, <2>2, <2>4 DEF AssessTrackingQuality, TypeOK, initVars, searchVars
    <3> QED BY <3>1, NoSearch DEF Stages
  <2>5. CASE ~(mnLostFrames < MaxLost)
    <3>1. EndFrame /\ UNCHANGED <<initVars, mbDidCoarse, mbJustRecoveredSoUseCoarse>>
      BY <1>14, <2>5 DEF AssessTrackingQuality
    <3> QED BY <1>0, <2>1, <2>2, <2>3, <3>1, EndFrameType, EndFrameStep
  <2> QED BY <2>4, <2>5
<1>15. CASE AddNewKeyFrame
  <2>1. TypeOK'
    BY <1>0, <1>15, EndFrameType, Limits DEF AddNewKeyFrame, TypeOK, qualityVars
  <2> QED BY <1>15, <2>1, EndFrameStep DEF AddNewKeyFrame
<1>16. CASE NoKeyFrame
  <2>1. TypeOK' BY <1>0, <1>16, EndFrameType DEF NoKeyFrame, TypeOK, qualityVars
  <2> QED BY <1>16, <2>1, EndFrameStep DEF NoKeyFrame
<1>17. CASE UNCHANGED vars
  BY <1>17 DEF vars, SearchInv, TypeOK, Fresh, SearchedOnce, Counted, PatchLimit,
     initVars, searchVars, qualityVars, Searched, AtLevel, Top, Level
<1> QED
  BY <1>1, <1>2, <1>3, <1>4, <1>5, <1>6, <1>7, <1>8, <1>9, <1>10, <1>11, <1>12, <1>13, <1>14,
     <1>15, <1>16, <1>17 DEF Next

THEOREM SearchInvariant == Spec => []SearchInv
  BY InitSearch, SearchStep, PTL DEF Spec

-----------------------------------------------------------------------------
(* The theorems about the search. *)

\* Types, with the limits on trails and lost frames, for every number of points.
THEOREM TypeCorrect == Spec => []TypeOK
<1>1. SearchInv => TypeOK BY DEF SearchInv
<1> QED BY <1>1, SearchInvariant, PTL

\* However the four vectors are chopped, no point is searched twice in a frame.
THEOREM NoPointTwice == Spec => []SearchedOnce
<1>1. SearchInv => SearchedOnce BY DEF SearchInv
<1> QED BY <1>1, SearchInvariant, PTL

\* The limit on patches per frame holds whatever the first stages attached.
THEOREM PatchesLimited == Spec => []PatchLimit
<1>1. SearchInv => PatchLimit BY DEF SearchInv
<1> QED BY <1>1, SearchInvariant, PTL

\* The counters are the measurements of the frame, sorted by level.
LEMMA CountedMatch == SearchInv => CountsMatch
<1> SUFFICES ASSUME SearchInv, pc = "assess"
             PROVE  /\ Total(manMeasFound) = Cardinality(mMeasurements)
                    /\ \A l \in Levels : manMeasFound[l] <= manMeasAttempted[l]
  BY DEF CountsMatch
<1>1. /\ mMeasurements = bFound /\ bFound \in SUBSET Points
      /\ \A p \in bFound : nSearchLevel[p] \in Levels
      /\ \A l \in Levels : /\ manMeasFound[l] = Cardinality(AtLevel(bFound, l))
                           /\ manMeasFound[l] <= manMeasAttempted[l]
  BY DEF SearchInv, Counted, Stages, TypeOK
<1>2. nSearchLevel \in [Points -> Levels \cup {NoLevel}] BY DEF SearchInv, TypeOK
<1>3. Cardinality(bFound) = Cardinality(AtLevel(bFound, 0)) + Cardinality(AtLevel(bFound, 1))
        + (Cardinality(AtLevel(bFound, 2)) + Cardinality(AtLevel(bFound, 3)))
  BY <1>1, <1>2, SplitByLevel
<1>4. Total(manMeasFound) = manMeasFound[0] + manMeasFound[1] + (manMeasFound[2] + manMeasFound[3])
  BY DEF Total, Large
<1>5. 0 \in Levels /\ 1 \in Levels /\ 2 \in Levels /\ 3 \in Levels BY DEF Levels, LEVELS
<1> QED BY <1>1, <1>3, <1>4, <1>5

\* The counters behind the quality agree with what was measured.
THEOREM CountersExact == Spec => []CountsMatch
  BY CountedMatch, SearchInvariant, PTL


-----------------------------------------------------------------------------
(* Quality, lost frames and recovery. *)

LEMMA InitPhase == Init => Phase /\ GoodFrameMeasured /\ LostIsBad /\ RecoveryForOneFrame
  BY DEF Init, Phase, GoodFrameMeasured, LostIsBad, RecoveryForOneFrame, Stages

\* mnLostFrames counts exactly the frames whose quality is BAD.
LEMMA LostStep ==
    ASSUME TypeOK, AssessTrackingQuality PROVE mnLostFrames' > 0 <=> mTrackingQuality' = "BAD"
  BY DEF AssessTrackingQuality, LostFrames, TypeOK, MaxLost

LEMMA PhaseStep == SearchInv /\ Phase /\ RecoveryForOneFrame /\ [Next]_vars
                     => Phase' /\ RecoveryForOneFrame'
<1> SUFFICES ASSUME SearchInv, Phase, RecoveryForOneFrame, [Next]_vars
             PROVE  Phase' /\ RecoveryForOneFrame'
  OBVIOUS
<1>0. TypeOK BY DEF SearchInv
<1> USE DEF Phase, RecoveryForOneFrame, Stages, initVars, searchVars, qualityVars
<1>a. ASSUME Reset PROVE Phase' /\ RecoveryForOneFrame' BY <1>a DEF Reset
<1>1. CASE HandleSpace BY <1>1 DEF HandleSpace
<1>2. CASE HandleReset BY <1>2, <1>a DEF HandleReset
<1>3. CASE NoInitialMap BY <1>3 DEF NoInitialMap, NotTracking
<1>4. CASE TrailTracking_Start BY <1>4 DEF TrailTracking_Start, NotTracking
<1>5. CASE TrailTracking_Advance
  <2>1. CASE Reset BY <2>1, <1>a
  <2>2. CASE ~Reset BY <1>5, <2>2 DEF TrailTracking_Advance, NotTracking
  <2> QED BY <2>1, <2>2
<1>6. CASE InitFromStereo BY <1>6 DEF InitFromStereo
<1>7. CASE TrackFrame BY <1>7 DEF TrackFrame, MakePVS
<1>8. CASE AttemptRecovery BY <1>8 DEF AttemptRecovery, MakePVS
<1>9. CASE RecoveryFails BY <1>9 DEF RecoveryFails, NotTracking
<1>10. CASE SkipCoarse BY <1>10 DEF SkipCoarse
<1>11. CASE TryCoarse BY <1>11 DEF TryCoarse
<1>12. CASE SearchTop BY <1>12 DEF SearchTop
<1>13. CASE SearchFine BY <1>13 DEF SearchFine
<1>14. CASE AssessTrackingQuality
  <2>1. mnLostFrames' > 0 <=> mTrackingQuality' = "BAD" BY <1>0, <1>14, LostStep
  <2> QED BY <1>14, <2>1 DEF AssessTrackingQuality, EndFrame
<1>15. CASE AddNewKeyFrame BY <1>15 DEF AddNewKeyFrame, EndFrame
<1>16. CASE NoKeyFrame BY <1>16 DEF NoKeyFrame, EndFrame
<1>17. CASE UNCHANGED vars BY <1>17 DEF vars
<1> QED
  BY <1>1, <1>2, <1>3, <1>4, <1>5, <1>6, <1>7, <1>8, <1>9, <1>10, <1>11, <1>12, <1>13, <1>14,
     <1>15, <1>16, <1>17 DEF Next

\* Lost frames presuppose a map: they are counted in frames with one, and both
\* are cleared by a reset.
LEMMA LostMapStep ==
    ASSUME SearchInv, Phase, LostIsBad, [Next]_vars PROVE mnLostFrames' > 0 => bGood'
<1>1. mnLostFrames > 0 => bGood BY DEF LostIsBad
<1>2. CASE Reset BY <1>2 DEF Reset
<1>3. CASE InitFromStereo BY <1>1, <1>3 DEF InitFromStereo, Phase, qualityVars
<1>4. CASE AssessTrackingQuality
  BY <1>4 DEF AssessTrackingQuality, Phase, Stages, initVars
<1>5. CASE UNCHANGED <<mnLostFrames, bGood>> BY <1>1, <1>5
<1>6. CASE TrailTracking_Advance /\ ~Reset
  BY <1>5, <1>6 DEF TrailTracking_Advance, NotTracking, qualityVars
<1>7. CASE HandleSpace \/ NoInitialMap \/ TrailTracking_Start
  BY <1>5, <1>7 DEF HandleSpace, NoInitialMap, TrailTracking_Start, NotTracking, initVars, qualityVars
<1>8. CASE TrackFrame \/ AttemptRecovery \/ RecoveryFails
  BY <1>5, <1>8 DEF TrackFrame, AttemptRecovery, RecoveryFails, MakePVS, NotTracking,
     initVars, qualityVars
<1>9. CASE SkipCoarse \/ TryCoarse \/ SearchTop \/ SearchFine \/ AddNewKeyFrame \/ NoKeyFrame
  BY <1>5, <1>9 DEF SkipCoarse, TryCoarse, SearchTop, SearchFine, AddNewKeyFrame, NoKeyFrame,
     initVars, qualityVars
<1>10. CASE UNCHANGED vars BY <1>5, <1>10 DEF vars, initVars, qualityVars
<1> QED
  BY <1>2, <1>3, <1>4, <1>6, <1>7, <1>8, <1>9, <1>10 DEF Next, HandleReset

\* A good frame has measured something, and enough of what it attempted.
LEMMA GoodFrameStep == SearchInv /\ GoodFrameMeasured /\ [Next]_vars => GoodFrameMeasured'
<1> SUFFICES ASSUME SearchInv, [Next]_vars, GoodFrameMeasured,
                    pc' = "keyframe", mTrackingQuality' = "GOOD"
             PROVE  /\ mMeasurements' # {}
                    /\ 100 * Cardinality(mMeasurements') > QualityGood * Total(manMeasAttempted')
  BY DEF GoodFrameMeasured
<1>1. CASE UNCHANGED vars BY <1>1 DEF vars, searchVars, qualityVars, GoodFrameMeasured
<1>2. CASE AssessTrackingQuality
  <2>1. /\ pc = "assess" /\ UNCHANGED <<searchVars, mMeasurements>>
        /\ \E far \in BOOLEAN : mTrackingQuality' = Quality(far)
    BY <1>2 DEF AssessTrackingQuality, EndFrame
  <2>2. Total(manMeasFound) # 0 /\ Above(Total(manMeasFound), Total(manMeasAttempted), QualityGood)
    BY <2>1 DEF Quality
  <2>3. Total(manMeasFound) = Cardinality(mMeasurements)
    BY <2>1, CountedMatch DEF CountsMatch
  <2>4. mMeasurements # {} BY <2>2, <2>3, FS_EmptySet
  <2>5. 100 * Cardinality(mMeasurements) > QualityGood * Total(manMeasAttempted)
    BY <2>2, <2>3 DEF Above
  <2>6. Total(manMeasAttempted') = Total(manMeasAttempted)
    BY <2>1 DEF Total, Large, searchVars
  <2> QED BY <2>1, <2>4, <2>5, <2>6
<1>3. CASE Reset BY <1>3 DEF Reset
<1>4. CASE TrailTracking_Advance /\ ~Reset BY <1>4 DEF TrailTracking_Advance
<1>5. CASE pc' = pc /\ pc = "frame" BY <1>5
<1>6. CASE EndFrame BY <1>6 DEF EndFrame
<1> QED
  BY <1>1, <1>2, <1>3, <1>4, <1>5, <1>6 DEF Next, HandleSpace, HandleReset, NoInitialMap,
     TrailTracking_Start, InitFromStereo, TrackFrame, AttemptRecovery, RecoveryFails, MakePVS,
     SkipCoarse, TryCoarse, SearchTop, SearchFine, AddNewKeyFrame, NoKeyFrame

\* The inductive invariant holds in every state.
THEOREM Invariance == Spec => []IInv
<1>1. Init => IInv BY InitSearch, InitPhase DEF IInv, SearchInv
<1>2. IInv /\ [Next]_vars => IInv'
  <2> SUFFICES ASSUME IInv, [Next]_vars PROVE IInv' OBVIOUS
  <2>1. SearchInv BY DEF IInv, SearchInv
  <2>2. SearchInv' BY <2>1, SearchStep
  <2>3. Phase' /\ RecoveryForOneFrame' BY <2>1, PhaseStep DEF IInv
  <2>4. mnLostFrames' > 0 => bGood' BY <2>1, LostMapStep DEF IInv
  <2>5. LostIsBad' BY <2>3, <2>4 DEF LostIsBad, Phase
  <2>6. GoodFrameMeasured' BY <2>1, GoodFrameStep DEF IInv
  <2> QED BY <2>2, <2>3, <2>5, <2>6 DEF IInv, SearchInv
<1> QED BY <1>1, <1>2, PTL DEF Spec

\* No key frame is made of a frame that measured less than its quality says.
THEOREM GoodFramesMeasured == Spec => []GoodFrameMeasured
<1>1. IInv => GoodFrameMeasured BY DEF IInv
<1> QED BY <1>1, Invariance, PTL

\* Recovery is attempted only after bad frames, and only with a map.
THEOREM LostFramesBad == Spec => []LostIsBad
<1>1. IInv => LostIsBad BY DEF IInv
<1> QED BY <1>1, Invariance, PTL

\* The wider search after a recovery ends with its frame.
THEOREM RecoveryEnds == Spec => []RecoveryForOneFrame
<1>1. IInv => RecoveryForOneFrame BY DEF IInv
<1> QED BY <1>1, Invariance, PTL
=============================================================================
