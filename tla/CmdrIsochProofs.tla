--------------------------- MODULE CmdrIsochProofs ---------------------------
(***************************************************************************)
(* Proofs about CmdrIsoch.  Being on the list is a token: who takes a      *)
(* request off the list is the only one that goes on to complete it.       *)
(***************************************************************************)
EXTENDS CmdrIsoch, TLAPS

\* A request that has not been made has no data, and that of a refused one
\* is freed.
DataOfAttach ==
    \A r \in Requests :
        /\ attach[r] = "none" => data[r] = "none"
        /\ attach[r] = "refused" => data[r] = "freed"

\* Below, the two parts of OneOwner are shown one by one.
IInv == TypeOK /\ Exclusive /\ NoneLost /\ CompletedOnce /\ DataOfAttach

-----------------------------------------------------------------------------
LEMMA InitInv == Init => IInv
<1> SUFFICES ASSUME Init PROVE IInv OBVIOUS
<1> USE CmdrAssumption DEF Init
<1>1. TypeOK BY DEF TypeOK, AttachPCs, Cleaners
<1>2. Exclusive BY DEF Exclusive, Owned, Attaching, PoppedBy, Cleaners
<1>3. NoneLost BY DEF NoneLost
<1>4. CompletedOnce /\ DataOfAttach BY DEF CompletedOnce, DataOfAttach
<1> QED BY <1>1, <1>2, <1>3, <1>4 DEF IInv

\* The steps of the stream and of power management leave the requests alone.
LEMMA StateStep ==
    ASSUME IInv, UNCHANGED requests,
           bShutdown' \in BOOLEAN, bListening' \in BOOLEAN, busySetup' \in BOOLEAN,
           held' \in SUBSET Resources,
           stream' \in {"idle", "teardown", "detach", "free"},
           removal' \in {"idle", "detach", "removed"}
    PROVE  IInv'
<1> USE DEF IInv, requests
<1>1. TypeOK' BY DEF TypeOK
<1>2. Exclusive' /\ NoneLost' BY DEF Exclusive, NoneLost, Owned, Attaching, PoppedBy
<1>3. CompletedOnce' /\ DataOfAttach' BY DEF CompletedOnce, DataOfAttach
<1> QED BY <1>1, <1>2, <1>3

\* The thread that attaches.
LEMMA ThreadStep ==
    ASSUME IInv, NEW r \in Requests, AttachBuffer(r) \/ Thread(r)
    PROVE  IInv'
<1> USE CmdrAssumption DEF IInv, state
<1>1. CASE AttachBuffer(r)
  <2> USE <1>1 DEF AttachBuffer
  <2>1. TypeOK' BY DEF TypeOK, AttachPCs
  <2>2. data[r] = "none" /\ data'[r] = "live" BY DEF DataOfAttach, TypeOK
  <2>3. /\ \A q \in Requests \ {r} : data'[q] = data[q] /\ attach'[q] = attach[q]
        /\ attach'[r] = "check"
    BY DEF TypeOK
  <2>4. Attaching' = Attaching \cup {r} BY <2>3 DEF Attaching
  <2>5. r \notin IsochDetachData \cup detaching \cup PoppedBy("teardown") \cup PoppedBy("removal")
    BY <2>2 DEF Exclusive, Owned
  <2>6. Exclusive' BY <2>2, <2>3, <2>4, <2>5 DEF Exclusive, Owned, PoppedBy, TypeOK, Cleaners
  <2>7. NoneLost' BY <2>3, <2>4 DEF NoneLost, Owned, PoppedBy
  <2>8. CompletedOnce' /\ DataOfAttach' BY <2>2, <2>3 DEF CompletedOnce, DataOfAttach, TypeOK
  <2> QED BY <2>1, <2>6, <2>7, <2>8
<1>2. CASE AttachBuffer_Check(r)
  <2> USE <1>2 DEF AttachBuffer_Check
  <2>1. TypeOK' BY DEF TypeOK, AttachPCs
  <2>2. r \in Attaching /\ data[r] = "live" BY DEF Exclusive, Owned, Attaching
  <2>3. \A q \in Requests \ {r} : data'[q] = data[q] /\ attach'[q] = attach[q] BY DEF TypeOK
  <2>4. \/ Attaching' = Attaching /\ data' = data /\ attach'[r] = "insert"
        \/ Attaching' = Attaching \ {r} /\ data'[r] = "freed" /\ attach'[r] = "refused"
    BY <2>2, <2>3 DEF Attaching, TypeOK
  <2>5. r \notin IsochDetachData \cup detaching \cup PoppedBy("teardown") \cup PoppedBy("removal")
    BY <2>2 DEF Exclusive, Owned
  <2>6. Exclusive' BY <2>3, <2>4, <2>5 DEF Exclusive, Owned, PoppedBy, TypeOK, Cleaners, Attaching
  <2>7. NoneLost' BY <2>3, <2>4 DEF NoneLost, Owned, PoppedBy
  <2>8. CompletedOnce' /\ DataOfAttach'
    BY <2>2, <2>3, <2>4 DEF CompletedOnce, DataOfAttach, TypeOK
  <2> QED BY <2>1, <2>6, <2>7, <2>8
<1>3. CASE AttachBuffer_Insert(r)
  <2> USE <1>3 DEF AttachBuffer_Insert
  <2>1. TypeOK' BY DEF TypeOK, AttachPCs
  <2>2. r \in Attaching BY DEF Attaching
  <2>3. Attaching' = Attaching \ {r} BY DEF Attaching, TypeOK
  <2>4. Exclusive' /\ NoneLost' BY <2>2, <2>3 DEF Exclusive, NoneLost, Owned, PoppedBy
  <2>5. CompletedOnce' /\ DataOfAttach' BY DEF CompletedOnce, DataOfAttach, TypeOK
  <2> QED BY <2>1, <2>4, <2>5
<1>4. CASE AttachBuffer_Submit(r)
  <2> USE <1>4 DEF AttachBuffer_Submit
  <2>1. TypeOK' BY DEF TypeOK, AttachPCs
  <2>2. Attaching' = Attaching BY DEF Attaching, TypeOK
  <2>3. Exclusive' /\ NoneLost' BY <2>2 DEF Exclusive, NoneLost, Owned, PoppedBy
  <2>4. CompletedOnce' /\ DataOfAttach' BY DEF CompletedOnce, DataOfAttach, TypeOK
  <2> QED BY <2>1, <2>3, <2>4
<1> QED BY <1>1, <1>2, <1>3, <1>4 DEF Thread

\* The request that is completed has live data and goes to nobody else.
LEMMA CompleteStep ==
    ASSUME IInv, NEW r \in Requests, Complete(r), UNCHANGED <<attach, popped, state>>,
           bus' \in [Requests -> {"none", "attaching", "attached"}],
           \/ r \in IsochDetachData /\ IsochDetachData' = IsochDetachData \ {r}
                /\ UNCHANGED detaching
           \/ r \in detaching /\ detaching' = detaching \ {r} /\ UNCHANGED IsochDetachData
    PROVE  IInv'
<1> USE CmdrAssumption DEF IInv, state, Complete
<1>1. TypeOK'
  <2>1. completed[r] \in Nat /\ completed[r] + 1 \in Nat BY DEF TypeOK
  <2>2. completed' \in [Requests -> Nat] BY <2>1 DEF TypeOK
  <2>3. data' \in [Requests -> {"none", "live", "freed"}] BY DEF TypeOK
  <2>4. IsochDetachData' \in SUBSET Requests /\ detaching' \in SUBSET Requests BY DEF TypeOK
  <2> QED BY <2>2, <2>3, <2>4, Zenon DEF TypeOK
<1>2. data[r] = "live" BY DEF Exclusive, Owned
<1>3. \A q \in Requests \ {r} : data'[q] = data[q] /\ completed'[q] = completed[q]
  BY DEF TypeOK
<1>4. data'[r] = "freed" /\ completed'[r] = completed[r] + 1 BY DEF TypeOK
<1>5. attach[r] # "refused" /\ attach[r] # "none" /\ completed[r] = 0
  BY <1>2 DEF DataOfAttach, CompletedOnce
<1>6. r \notin Attaching \cup IsochDetachData' \cup detaching' \cup PoppedBy("teardown")
        \cup PoppedBy("removal")
  BY DEF Exclusive, Owned
<1>7. Attaching' = Attaching /\ PoppedBy("teardown")' = PoppedBy("teardown")
        /\ PoppedBy("removal")' = PoppedBy("removal")
  BY DEF Attaching, PoppedBy
<1>8. Attaching \subseteq Requests /\ IsochDetachData' \subseteq Requests
        /\ detaching' \subseteq Requests
        /\ PoppedBy("teardown") \subseteq Requests /\ PoppedBy("removal") \subseteq Requests
  BY DEF Attaching, PoppedBy, TypeOK, Cleaners
<1>9. Exclusive' BY <1>3, <1>6, <1>7, <1>8 DEF Exclusive, Owned
<1>10. NoneLost' BY <1>3, <1>4, <1>7 DEF NoneLost, Owned
<1>11. CompletedOnce' /\ DataOfAttach'
  BY <1>3, <1>4, <1>5 DEF CompletedOnce, DataOfAttach
<1> QED BY <1>1, <1>9, <1>10, <1>11

\* The bus driver and its callbacks.
LEMMA BusStep ==
    ASSUME IInv, NEW r \in Requests,
           \/ AttachCompletion_Success(r) \/ AttachCompletion_Failure(r)
           \/ IsochCallback(r) \/ DetachCompletion(r)
    PROVE  IInv'
<1>0. \A v \in {"none", "attached"} :
        [bus EXCEPT ![r] = v] \in [Requests -> {"none", "attaching", "attached"}]
  BY DEF IInv, TypeOK
<1>1. CASE AttachCompletion_Success(r)
  <2> USE <1>0, <1>1 DEF AttachCompletion_Success, IInv, state
  <2>1. TypeOK' BY DEF TypeOK
  <2>2. Exclusive' /\ NoneLost' BY DEF Exclusive, NoneLost, Owned, Attaching, PoppedBy
  <2>3. CompletedOnce' /\ DataOfAttach' BY DEF CompletedOnce, DataOfAttach
  <2> QED BY <2>1, <2>2, <2>3
<1>2. CASE AttachCompletion_Failure(r)
  <2>1. CASE r \in IsochDetachData
    BY <1>0, <1>2, <2>1, CompleteStep DEF AttachCompletion_Failure
  <2>2. CASE r \notin IsochDetachData
    <3> USE <1>0, <1>2, <2>2 DEF AttachCompletion_Failure, IInv, state
    <3>1. TypeOK' BY DEF TypeOK
    <3>2. Exclusive' /\ NoneLost' BY DEF Exclusive, NoneLost, Owned, Attaching, PoppedBy
    <3>3. CompletedOnce' /\ DataOfAttach' BY DEF CompletedOnce, DataOfAttach
    <3> QED BY <3>1, <3>2, <3>3
  <2> QED BY <2>1, <2>2
<1>3. CASE IsochCallback(r)
  <2> USE <1>0, <1>3 DEF IsochCallback, t1394_IsochCleanup, IInv, state
  <2>1. TypeOK' BY DEF TypeOK
  <2>2. Exclusive' /\ NoneLost'
    <3>1. Attaching' = Attaching /\ UNCHANGED <<popped, data>> BY DEF Attaching
    <3>2. \/ UNCHANGED <<IsochDetachData, detaching>>
          \/ /\ r \in IsochDetachData /\ IsochDetachData' = IsochDetachData \ {r}
             /\ \/ detaching' = detaching \cup {r}
                \/ NoMemory /\ detaching' = detaching
      OBVIOUS
    <3>3. Exclusive' BY <3>1, <3>2 DEF Exclusive, Owned, PoppedBy
    <3>4. NoneLost' BY <3>1, <3>2 DEF NoneLost, Owned, PoppedBy
    <3> QED BY <3>3, <3>4
  <2>3. CompletedOnce' /\ DataOfAttach' BY DEF CompletedOnce, DataOfAttach
  <2> QED BY <2>1, <2>2, <2>3
<1>4. CASE DetachCompletion(r)
  BY <1>0, <1>4, CompleteStep DEF DetachCompletion
<1> QED BY <1>1, <1>2, <1>3, <1>4

\* Tear-down and removal take requests off the list and detach them.
LEMMA CleanerStep ==
    ASSUME IInv, NEW t \in Cleaners, Pop(t) \/ CleanUp(t)
    PROVE  IInv'
<1> USE CmdrAssumption DEF IInv, state, Cleaners
<1>0. /\ Attaching' = Attaching /\ UNCHANGED <<data, completed, attach, bus, state>>
  BY DEF Pop, CleanUp, Attaching
<1>1. PICK u \in Cleaners : u # t /\ {t, u} = Cleaners OBVIOUS
<1>2. /\ \A q \in PoppedBy(t) \cup PoppedBy(u) \cup Attaching \cup IsochDetachData
                    \cup detaching : data[q] = "live"
      /\ Attaching \cap IsochDetachData = {}
      /\ (Attaching \cup IsochDetachData) \cap detaching = {}
      /\ (Attaching \cup IsochDetachData \cup detaching) \cap (PoppedBy(t) \cup PoppedBy(u)) = {}
      /\ PoppedBy(t) \cap PoppedBy(u) = {}
  BY <1>1 DEF Exclusive, Owned
<1>3. Owned = Attaching \cup IsochDetachData \cup detaching \cup PoppedBy(t) \cup PoppedBy(u)
  BY <1>1 DEF Owned
<1>4. PoppedBy(u)' = PoppedBy(u) BY <1>1 DEF Pop, CleanUp, PoppedBy, TypeOK
<1>5. CASE Pop(t)
  <2>1. PICK r \in IsochDetachData :
          /\ popped[t] = None /\ popped' = [popped EXCEPT ![t] = r]
          /\ IsochDetachData' = IsochDetachData \ {r} /\ detaching' = detaching
    BY <1>5 DEF Pop
  <2>2. r \in Requests /\ PoppedBy(t)' = {r} BY <2>1 DEF PoppedBy, TypeOK
  <2>3. TypeOK' BY <1>0, <2>1, <2>2 DEF TypeOK
  <2>4. /\ \A q \in PoppedBy(t)' \cup PoppedBy(u)' \cup Attaching' \cup IsochDetachData'
                      \cup detaching' : data'[q] = "live"
        /\ Attaching' \cap IsochDetachData' = {}
        /\ (Attaching' \cup IsochDetachData') \cap detaching' = {}
        /\ (Attaching' \cup IsochDetachData' \cup detaching')
              \cap (PoppedBy(t)' \cup PoppedBy(u)') = {}
        /\ PoppedBy(t)' \cap PoppedBy(u)' = {}
    BY <1>0, <1>2, <1>4, <2>1, <2>2
  <2>5. Exclusive' BY <1>1, <2>4 DEF Exclusive, Owned
  <2>6. NoneLost'
    <3>1. PoppedBy(t) = {} BY <2>1 DEF PoppedBy
    <3>2. Owned' = Owned BY <1>0, <1>1, <1>3, <1>4, <2>1, <2>2, <3>1 DEF Owned
    <3> QED BY <1>0, <3>2 DEF NoneLost
  <2>7. CompletedOnce' /\ DataOfAttach' BY <1>0 DEF CompletedOnce, DataOfAttach
  <2> QED BY <2>3, <2>5, <2>6, <2>7
<1>6. CASE CleanUp(t)
  <2>1. PICK r \in Requests :
          /\ popped[t] = r /\ popped' = [popped EXCEPT ![t] = None]
          /\ \/ detaching' = detaching \cup {r}
             \/ NoMemory /\ detaching' = detaching
          /\ IsochDetachData' = IsochDetachData
    BY <1>6 DEF CleanUp, t1394_IsochCleanup, TypeOK
  <2>2. PoppedBy(t) = {r} /\ PoppedBy(t)' = {} BY <2>1 DEF PoppedBy, TypeOK
  <2>3. TypeOK' BY <1>0, <2>1 DEF TypeOK
  <2>4. /\ \A q \in PoppedBy(t)' \cup PoppedBy(u)' \cup Attaching' \cup IsochDetachData'
                      \cup detaching' : data'[q] = "live"
        /\ Attaching' \cap IsochDetachData' = {}
        /\ (Attaching' \cup IsochDetachData') \cap detaching' = {}
        /\ (Attaching' \cup IsochDetachData' \cup detaching')
              \cap (PoppedBy(t)' \cup PoppedBy(u)') = {}
        /\ PoppedBy(t)' \cap PoppedBy(u)' = {}
    BY <1>0, <1>2, <1>4, <2>1, <2>2
  <2>5. Exclusive' BY <1>1, <2>4 DEF Exclusive, Owned
  <2>6. NoneLost' BY <1>0, <1>1, <1>3, <1>4, <2>1, <2>2 DEF NoneLost, Owned
  <2>7. CompletedOnce' /\ DataOfAttach' BY <1>0 DEF CompletedOnce, DataOfAttach
  <2> QED BY <2>3, <2>5, <2>6, <2>7
<1> QED BY <1>5, <1>6

LEMMA NextInv == IInv /\ [Next]_vars => IInv'
<1> SUFFICES ASSUME IInv, [Next]_vars PROVE IInv' OBVIOUS
<1>1. ASSUME NEW r \in Requests,
             \/ AttachBuffer(r) \/ Thread(r)
             \/ AttachCompletion_Success(r) \/ AttachCompletion_Failure(r)
             \/ IsochCallback(r) \/ DetachCompletion(r)
      PROVE  IInv'
  BY <1>1, ThreadStep, BusStep
<1>2. CASE TearDown_Detach BY <1>2, CleanerStep DEF TearDown_Detach, Cleaners
<1>3. CASE PnpRemove_Detach BY <1>3, CleanerStep DEF PnpRemove_Detach, Cleaners
<1>4. CASE \/ IsochListen \/ IsochSetupStream \/ IsochSetupStream_Fails
           \/ IsochTearDownStream \/ SetPower \/ PnpRemoveDevice
           \/ IsochStop \/ TearDown_Detached \/ TearDown_Free \/ PnpRemove_Detached
           \/ UNCHANGED vars
  <2> USE <1>4 DEF IsochListen, IsochSetupStream, IsochSetupStream_Fails,
          IsochTearDownStream, SetPower, PnpRemoveDevice, IsochStop, TearDown_Detached,
          TearDown_Free, PnpRemove_Detached, vars, state, IInv
  <2>1. UNCHANGED requests OBVIOUS
  <2>2. bShutdown' \in BOOLEAN /\ bListening' \in BOOLEAN /\ busySetup' \in BOOLEAN
    BY DEF TypeOK
  <2>3. held' \in SUBSET Resources BY DEF TypeOK, Resources
  <2>4. stream' \in {"idle", "teardown", "detach", "free"} BY DEF TypeOK
  <2>5. removal' \in {"idle", "detach", "removed"} BY DEF TypeOK
  <2> QED BY <2>1, <2>2, <2>3, <2>4, <2>5, StateStep
<1> QED BY <1>1, <1>2, <1>3, <1>4 DEF Next, Cleaner

-----------------------------------------------------------------------------
LEMMA Inductive == Spec => []IInv
  BY InitInv, NextInv, PTL DEF Spec

\* Types, with any number of requests.
THEOREM TypeCorrect == Spec => []TypeOK
<1>1. IInv => TypeOK BY DEF IInv
<1> QED BY <1>1, Inductive, PTL

\* No two of the threads and callbacks ever have the same request, none has one
\* whose data is freed and, but for a lack of memory, no request is lost.
THEOREM SingleOwner == Spec => []OneOwner
<1>1. IInv => OneOwner BY DEF IInv, OneOwner
<1> QED BY <1>1, Inductive, PTL

\* IoCompleteRequest is called at most once for each request.
THEOREM CompletesOnce == Spec => []CompletedOnce
<1>1. IInv => CompletedOnce BY DEF IInv
<1> QED BY <1>1, Inductive, PTL
=============================================================================
