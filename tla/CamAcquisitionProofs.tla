------------------------ MODULE CamAcquisitionProofs ------------------------
(***************************************************************************)
(* Proofs about CamAcquisition.  Every step of AcquireImageEx moves one    *)
(* buffer between the list and the current one, and no error path does     *)
(* more than leave both as they are, for any number of buffers and parts.  *)
(* The second half follows the parts through the driver: those not yet     *)
(* complete are the last ones of the list, so frames come in order.        *)
(***************************************************************************)
EXTENDS CamAcquisition, SequenceTheorems, TLAPS

\* Inside AcquireImageEx images are acquired, and from the poll on there is
\* no current buffer; an acquisition has an open handle.
Phase ==
    /\ pc \in {"attach", "poll", "wait"} => m_hDeviceAcquisition
    /\ pc \in {"poll", "wait"} => m_pCurrentBuffer = NULL
    /\ m_hDeviceAcquisition => handles > 0

IInv == TypeOK /\ BuffersKept /\ StoppedIsEmpty /\ Phase

-----------------------------------------------------------------------------
(* Sequences of parts. *)

LEMMA FunctionSeq ==
    ASSUME NEW S, NEW n \in Nat, NEW f \in [1..n -> S] PROVE f \in Seq(S)
  BY SeqDef

\* The part of AllParts at position k belongs to one of the buffers.
LEMMA QuotientInRange ==
    ASSUME NEW k \in 1..(N * SubBuffers)
    PROVE  /\ ((k - 1) \div SubBuffers) + 1 \in 1..N
           /\ ((k - 1) % SubBuffers) + 1 \in 1..SubBuffers
<1> USE CamAssumption
<1>1. N * SubBuffers \in Nat OBVIOUS
<1>2. k - 1 \in Nat /\ k - 1 < N * SubBuffers BY <1>1
<1>3. (k - 1) \div SubBuffers \in Nat /\ (k - 1) % SubBuffers \in 0..(SubBuffers - 1)
  BY <1>2
<1>4. SubBuffers * ((k - 1) \div SubBuffers) <= k - 1 BY <1>2
<1>5. ASSUME (k - 1) \div SubBuffers >= N PROVE FALSE
  <2>1. PICK q \in Nat : q = (k - 1) \div SubBuffers BY <1>3
  <2>2. SubBuffers * q >= SubBuffers * N BY <1>5, <2>1
  <2>3. SubBuffers * q < SubBuffers * N BY <1>2, <1>4, <2>1
  <2> QED BY <2>2, <2>3
<1> QED BY <1>3, <1>5

LEMMA AllPartsType == AllParts \in Seq(Parts)
<1> USE CamAssumption
<1>1. N * SubBuffers \in Nat OBVIOUS
<1>2. AllParts \in [1..(N * SubBuffers) -> Parts]
  BY QuotientInRange DEF AllParts, Parts, Buffers
<1> QED BY <1>1, <1>2, FunctionSeq

LEMMA PartsOfType ==
    ASSUME NEW b \in Buffers, NEW n \in 0..SubBuffers PROVE PartsOf(b, n) \in Seq(Parts)
<1>1. PartsOf(b, n) \in [1..n -> Parts] BY CamAssumption DEF PartsOf, Parts
<1> QED BY <1>1, FunctionSeq, CamAssumption

LEMMA NewQueueType == NewQueue \in Seq(Buffers)
  BY FunctionSeq, CamAssumption DEF NewQueue, Buffers

\* The tail of a list without its head's value: an injective list loses
\* exactly its head.
LEMMA TailOf ==
    ASSUME NEW S, NEW q \in Seq(S), q # <<>>,
           \A j, k \in DOMAIN q : q[j] = q[k] => j = k
    PROVE  /\ Head(q) \in S /\ Tail(q) \in Seq(S)
           /\ \A j, k \in DOMAIN Tail(q) : Tail(q)[j] = Tail(q)[k] => j = k
           /\ Head(q) \notin {Tail(q)[k] : k \in DOMAIN Tail(q)}
           /\ {q[k] : k \in DOMAIN q} = {Tail(q)[k] : k \in DOMAIN Tail(q)} \cup {Head(q)}
<1>1. Len(q) \in Nat \ {0} /\ DOMAIN q = 1..Len(q) BY EmptySeq, LenProperties
<1>2. /\ Head(q) \in S /\ Tail(q) \in Seq(S) /\ Len(Tail(q)) = Len(q) - 1
      /\ \A i \in 1..Len(Tail(q)) : Tail(q)[i] = q[i + 1]
  BY HeadTailProperties
<1>3. DOMAIN Tail(q) = 1..(Len(q) - 1) BY <1>2, LenProperties
<1>4. Head(q) = q[1] OBVIOUS
<1>5. \A i \in DOMAIN Tail(q) : i + 1 \in DOMAIN q /\ Tail(q)[i] = q[i + 1] BY <1>1, <1>2, <1>3
<1>6. \A j, k \in DOMAIN Tail(q) : Tail(q)[j] = Tail(q)[k] => j = k
  BY <1>1, <1>3, <1>5
<1>7. Head(q) \notin {Tail(q)[k] : k \in DOMAIN Tail(q)} BY <1>1, <1>3, <1>4, <1>5
<1>8. \A i \in DOMAIN q : i = 1 \/ (i - 1 \in DOMAIN Tail(q) /\ q[i] = Tail(q)[i - 1])
  BY <1>1, <1>2, <1>3
<1>9. {q[k] : k \in DOMAIN q} = {Tail(q)[k] : k \in DOMAIN Tail(q)} \cup {Head(q)}
  <2>1. 1 \in DOMAIN q BY <1>1
  <2>2. {q[k] : k \in DOMAIN q} \subseteq {Tail(q)[k] : k \in DOMAIN Tail(q)} \cup {Head(q)}
    <3> SUFFICES ASSUME NEW k \in DOMAIN q
                 PROVE  q[k] \in {Tail(q)[i] : i \in DOMAIN Tail(q)} \cup {Head(q)}
      OBVIOUS
    <3>1. CASE k = 1 BY <1>4, <3>1
    <3>2. CASE k # 1
      <4>1. k - 1 \in DOMAIN Tail(q) /\ q[k] = Tail(q)[k - 1] BY <1>8, <3>2
      <4> QED BY <4>1
    <3> QED BY <3>1, <3>2
  <2>3. {Tail(q)[k] : k \in DOMAIN Tail(q)} \cup {Head(q)} \subseteq {q[k] : k \in DOMAIN q}
    BY <1>4, <1>5, <2>1
  <2> QED BY <2>2, <2>3
<1> QED BY <1>2, <1>6, <1>7, <1>9

\* Appending a value that is not in an injective list.
LEMMA AppendOf ==
    ASSUME NEW S, NEW q \in Seq(S), NEW e \in S,
           e \notin {q[k] : k \in DOMAIN q},
           \A j, k \in DOMAIN q : q[j] = q[k] => j = k
    PROVE  /\ Append(q, e) \in Seq(S)
           /\ \A j, k \in DOMAIN Append(q, e) : Append(q, e)[j] = Append(q, e)[k] => j = k
           /\ {Append(q, e)[k] : k \in DOMAIN Append(q, e)} = {q[k] : k \in DOMAIN q} \cup {e}
<1>1. Len(q) \in Nat /\ DOMAIN q = 1..Len(q) BY LenProperties
<1>2. /\ Append(q, e) \in Seq(S) /\ Len(Append(q, e)) = Len(q) + 1
      /\ \A i \in 1..Len(q) : Append(q, e)[i] = q[i]
      /\ Append(q, e)[Len(q) + 1] = e
  BY AppendProperties
<1>3. DOMAIN Append(q, e) = 1..(Len(q) + 1) BY <1>2, LenProperties
<1>4. \A j, k \in DOMAIN Append(q, e) : Append(q, e)[j] = Append(q, e)[k] => j = k
  BY <1>1, <1>2, <1>3
<1>5. {Append(q, e)[k] : k \in DOMAIN Append(q, e)} = {q[k] : k \in DOMAIN q} \cup {e}
  BY <1>1, <1>2, <1>3
<1> QED BY <1>2, <1>4, <1>5

-----------------------------------------------------------------------------
(* The invariant holds initially and is preserved. *)

LEMMA InitInv == Init => IInv
<1> SUFFICES ASSUME Init PROVE IInv OBVIOUS
<1> USE CamAssumption DEF Init
<1>1. queue \in Seq(Buffers) /\ isoch \in Seq(Parts) BY EmptySeq
<1>2. frames \in 0..MaxFrames /\ stamp \in [Buffers -> 0..MaxFrames] OBVIOUS
<1>3. handles \in Nat /\ m_pCurrentBuffer \in Buffers \cup {NULL} /\ done \in SUBSET Parts OBVIOUS
<1>4. pc \in PCs /\ ret \in Rets BY DEF PCs, Rets
<1>5. /\ m_cameraInitialized \in BOOLEAN /\ m_hDeviceAcquisition \in BOOLEAN
      /\ m_AcquisitionFlags \in BOOLEAN /\ listening \in BOOLEAN /\ streaming \in BOOLEAN
      /\ bWaited \in BOOLEAN /\ DropStaleFrames \in BOOLEAN /\ mustNotBlock \in BOOLEAN
  OBVIOUS
<1>6. TypeOK BY <1>1, <1>2, <1>3, <1>4, <1>5 DEF TypeOK
<1>7. BuffersKept /\ StoppedIsEmpty /\ Phase BY DEF BuffersKept, StoppedIsEmpty, Phase
<1> QED BY <1>6, <1>7 DEF IInv

LEMMA FrameStep == IInv /\ Frame => IInv'
<1> SUFFICES ASSUME IInv, Frame PROVE IInv' OBVIOUS
<1> USE CamAssumption DEF IInv, Frame, device, ring, call
<1>1. isoch \in Seq(Parts) /\ isoch # <<>> BY DEF TypeOK
<1>2. Head(isoch) \in Parts /\ Tail(isoch) \in Seq(Parts) BY <1>1, HeadTailProperties
<1>3. isoch' \in Seq(Parts) /\ done' \in SUBSET Parts BY <1>2 DEF TypeOK
<1>4. frames' \in 0..MaxFrames BY DEF TypeOK
<1>5. stamp' \in [Buffers -> 0..MaxFrames] BY <1>4 DEF TypeOK
<1>6. TypeOK' BY <1>3, <1>4, <1>5 DEF TypeOK
<1>7. BuffersKept' /\ StoppedIsEmpty' /\ Phase'
  BY DEF BuffersKept, StoppedIsEmpty, Phase, Listed
<1> QED BY <1>6, <1>7

LEMMA StartStep ==
    ASSUME IInv, NEW startStream \in BOOLEAN, StartImageAcquisitionEx(startStream)
    PROVE  IInv'
<1> USE CamAssumption DEF IInv, StartImageAcquisitionEx, call
<1>1. isoch' \in Seq(Parts) /\ queue' \in Seq(Buffers) BY AllPartsType, NewQueueType
<1>2. stamp' \in [Buffers -> 0..MaxFrames] /\ streaming' \in BOOLEAN BY DEF TypeOK
<1>3. ret' \in Rets /\ pc' \in PCs /\ handles' \in Nat BY DEF Rets, TypeOK
<1>4. TypeOK' BY <1>1, <1>2, <1>3 DEF TypeOK
<1>5. DOMAIN queue' = Buffers /\ \A i \in Buffers : queue'[i] = i BY DEF NewQueue
<1>6. Listed' = Buffers BY <1>5 DEF Listed
<1>7. BuffersKept' BY <1>5, <1>6 DEF BuffersKept, Buffers
<1>8. StoppedIsEmpty' /\ Phase' BY DEF StoppedIsEmpty, Phase, TypeOK
<1> QED BY <1>4, <1>7, <1>8

LEMMA StartFailsStep ==
    ASSUME IInv, NEW startStream \in BOOLEAN, StartImageAcquisitionEx_Fails(startStream)
    PROVE  IInv'
<1> USE CamAssumption DEF IInv, StartImageAcquisitionEx_Fails, call
<1>1. ASSUME NEW n \in 0..(N * SubBuffers) PROVE SubSeq(AllParts, 1, n) \in Seq(Parts)
  <2>1. N * SubBuffers \in Nat OBVIOUS
  <2>2. \A i \in 1..n : i \in 1..(N * SubBuffers) BY <2>1
  <2>3. AllParts \in [1..(N * SubBuffers) -> Parts]
    BY QuotientInRange DEF AllParts, Parts, Buffers
  <2>4. \A i \in 1..n : AllParts[i] \in Parts BY <2>2, <2>3
  <2> QED BY <2>1, <2>4, SubSeqProperties
<1>2. isoch' \in Seq(Parts) BY <1>1, AllPartsType, EmptySeq
<1>3. queue' \in Seq(Buffers) /\ stamp' \in [Buffers -> 0..MaxFrames]
  <2>1. ASSUME NEW n \in 0..N PROVE [i \in 1..n |-> i] \in Seq(Buffers)
    <3>1. n \in Nat /\ [i \in 1..n |-> i] \in [1..n -> Buffers] BY DEF Buffers
    <3> QED BY <3>1, FunctionSeq
  <2> QED BY <2>1, NewQueueType
<1>4. handles' \in Nat /\ listening' \in BOOLEAN
  <2>1. handles \in Nat BY DEF TypeOK
  <2>2. handles' = handles \/ handles' = handles + 1 OBVIOUS
  <2>3. listening' = TRUE \/ listening' = FALSE OBVIOUS
  <2>4. handles' \in Nat BY <2>1, <2>2
  <2>5. listening' \in BOOLEAN BY <2>3
  <2> QED BY <2>4, <2>5
<1>5. ret' \in Rets /\ pc' \in PCs BY DEF Rets, PCs
<1>6. TypeOK' BY <1>2, <1>3, <1>4, <1>5 DEF TypeOK
<1>7. BuffersKept' /\ StoppedIsEmpty' /\ Phase' BY DEF BuffersKept, StoppedIsEmpty, Phase
<1> QED BY <1>6, <1>7

LEMMA ReleaseStep == IInv /\ StopImageAcquisition_Release => IInv'
<1> SUFFICES ASSUME IInv, StopImageAcquisition_Release PROVE IInv' OBVIOUS
<1> USE CamAssumption DEF IInv, StopImageAcquisition_Release, device, call
<1>1. isoch' \in Seq(Parts) /\ done' \in SUBSET Parts /\ listening' \in BOOLEAN
  BY EmptySeq DEF FreeResources, TypeOK, driver
<1>2. queue' \in Seq(Buffers)
  <2>1. CASE m_pCurrentBuffer = NULL BY <2>1 DEF TypeOK
  <2>2. CASE m_pCurrentBuffer # NULL
    <3>1. <<m_pCurrentBuffer>> \in Seq(Buffers) BY <2>2 DEF TypeOK
    <3> QED BY <2>2, <3>1, ConcatProperties DEF TypeOK
  <2> QED BY <2>1, <2>2
<1>3. streaming' \in BOOLEAN BY DEF TypeOK
<1>4. pc' \in PCs BY DEF PCs
<1>5. TypeOK' BY <1>1, <1>2, <1>3, <1>4 DEF TypeOK
<1>6. BuffersKept' /\ StoppedIsEmpty' /\ Phase' BY DEF BuffersKept, StoppedIsEmpty, Phase
<1> QED BY <1>5, <1>6

LEMMA FreeStep == IInv /\ StopImageAcquisition_Free => IInv'
<1> SUFFICES ASSUME IInv, StopImageAcquisition_Free PROVE IInv' OBVIOUS
<1> USE CamAssumption DEF IInv, StopImageAcquisition_Free, driver, camera, call
<1>1. handles' \in Nat BY DEF TypeOK, Phase
<1>2. queue' \in Seq(Buffers) BY EmptySeq
<1>3. TypeOK' BY <1>1, <1>2 DEF TypeOK, PCs
<1>4. BuffersKept' /\ StoppedIsEmpty' /\ Phase' BY DEF BuffersKept, StoppedIsEmpty, Phase
<1> QED BY <1>3, <1>4

LEMMA InitCameraStep == IInv /\ InitCamera => IInv'
<1> SUFFICES ASSUME IInv, InitCamera PROVE IInv' OBVIOUS
<1> USE DEF IInv
<1>1. UNCHANGED <<m_hDeviceAcquisition, handles, m_AcquisitionFlags, queue, m_pCurrentBuffer,
                  pc, bWaited, DropStaleFrames, mustNotBlock, streaming, frames, stamp>>
  BY DEF InitCamera, ring, call, camera
<1>2. isoch' \in Seq(Parts) /\ done' \in SUBSET Parts /\ listening' \in BOOLEAN
  BY EmptySeq DEF InitCamera, FreeResources, TypeOK, driver
<1>3. m_cameraInitialized' \in BOOLEAN /\ ret' \in Rets BY DEF InitCamera, Rets
<1>4. TypeOK' BY <1>1, <1>2, <1>3 DEF TypeOK
<1>5. BuffersKept' /\ StoppedIsEmpty' /\ Phase'
  BY <1>1 DEF BuffersKept, StoppedIsEmpty, Phase, Listed
<1> QED BY <1>4, <1>5

\* The current buffer goes to the end of the list.
LEMMA AttachStep == IInv /\ AcquireImageEx_Attach => IInv'
<1> SUFFICES ASSUME IInv, AcquireImageEx_Attach PROVE IInv' OBVIOUS
<1> USE CamAssumption DEF IInv, AcquireImageEx_Attach, device, call, camera
<1>1. CASE m_pCurrentBuffer = NULL
  <2>1. TypeOK' BY <1>1 DEF TypeOK, PCs, ring, driver
  <2>2. BuffersKept' /\ StoppedIsEmpty' /\ Phase'
    BY <1>1 DEF BuffersKept, StoppedIsEmpty, Phase, Listed, ring, driver
  <2> QED BY <2>1, <2>2
<1>2. CASE m_pCurrentBuffer # NULL
  <2>1. m_pCurrentBuffer \in Buffers /\ queue \in Seq(Buffers) BY <1>2 DEF TypeOK
  <2>2. m_hDeviceAcquisition /\ m_hDeviceAcquisition' BY DEF Phase
  <2>3. /\ \A j, k \in DOMAIN queue : queue[j] = queue[k] => j = k
        /\ m_pCurrentBuffer \notin {queue[k] : k \in DOMAIN queue}
        /\ {queue[k] : k \in DOMAIN queue} \cup {m_pCurrentBuffer} = Buffers
    BY <1>2, <2>2 DEF BuffersKept, Listed
  <2>4. queue' = Append(queue, m_pCurrentBuffer) /\ m_pCurrentBuffer' = NULL
    BY <1>2 DEF Requeued
  <2>5. /\ queue' \in Seq(Buffers)
        /\ \A j, k \in DOMAIN queue' : queue'[j] = queue'[k] => j = k
        /\ {queue'[k] : k \in DOMAIN queue'} = Buffers
    BY <2>1, <2>3, <2>4, AppendOf
  <2>6. isoch' \in Seq(Parts)
    <3>1. PartsOf(m_pCurrentBuffer, SubBuffers) \in Seq(Parts) BY <2>1, PartsOfType
    <3>2. isoch' = isoch \o PartsOf(m_pCurrentBuffer, SubBuffers) BY <1>2 DEF Attach
    <3>3. isoch \in Seq(Parts) BY DEF TypeOK
    <3> QED BY <3>1, <3>2, <3>3, ConcatProperties
  <2>7. done' \in SUBSET Parts BY <1>2 DEF Attach, TypeOK
  <2>8. TypeOK' BY <1>2, <2>4, <2>5, <2>6, <2>7 DEF TypeOK, PCs
  <2>9. BuffersKept' BY <2>4, <2>5 DEF BuffersKept, Listed, Buffers
  <2>10. StoppedIsEmpty' /\ Phase' BY <2>2, <2>4 DEF StoppedIsEmpty, Phase
  <2> QED BY <2>8, <2>9, <2>10
<1> QED BY <1>1, <1>2

LEMMA AttachFailsStep == IInv /\ AcquireImageEx_AttachFails => IInv'
<1> SUFFICES ASSUME IInv, AcquireImageEx_AttachFails PROVE IInv' OBVIOUS
<1> USE CamAssumption DEF IInv, AcquireImageEx_AttachFails, device, ring, call, camera
<1>1. m_pCurrentBuffer \in Buffers BY DEF TypeOK
<1>2. PICK n \in 0..SubBuffers :
        /\ isoch' = isoch \o PartsOf(m_pCurrentBuffer, n)
        /\ done' = done \ ({m_pCurrentBuffer} \X (1..n))
  BY DEF AttachFails
<1>3. isoch' \in Seq(Parts) BY <1>1, <1>2, PartsOfType, ConcatProperties DEF TypeOK
<1>4. done' \in SUBSET Parts BY <1>2 DEF TypeOK
<1>5. TypeOK' BY <1>3, <1>4 DEF TypeOK, PCs, Rets
<1>6. BuffersKept' /\ StoppedIsEmpty' /\ Phase'
  BY DEF BuffersKept, StoppedIsEmpty, Phase, Listed
<1> QED BY <1>5, <1>6

\* The oldest buffer becomes the current one.
LEMMA TakeStep ==
    ASSUME IInv, pc \in {"poll", "wait"}, FrameEvent, TakeOldest, LoopOrReturn,
           bWaited' \in BOOLEAN,
           UNCHANGED <<device, DropStaleFrames, mustNotBlock, driver, camera>>
    PROVE  IInv'
<1> USE CamAssumption DEF IInv, device, driver, camera
<1>1. queue \in Seq(Buffers) /\ queue # <<>> BY DEF TypeOK, FrameEvent
<1>2. m_hDeviceAcquisition /\ m_pCurrentBuffer = NULL BY DEF Phase
<1>3. /\ \A j, k \in DOMAIN queue : queue[j] = queue[k] => j = k
      /\ {queue[k] : k \in DOMAIN queue} = Buffers
  BY <1>2 DEF BuffersKept, Listed
<1>4. m_pCurrentBuffer' = Head(queue) /\ queue' = Tail(queue) BY DEF TakeOldest
<1>5. /\ m_pCurrentBuffer' \in Buffers /\ queue' \in Seq(Buffers)
      /\ \A j, k \in DOMAIN queue' : queue'[j] = queue'[k] => j = k
      /\ m_pCurrentBuffer' \notin {queue'[k] : k \in DOMAIN queue'}
      /\ {queue'[k] : k \in DOMAIN queue'} \cup {m_pCurrentBuffer'} = Buffers
  <2>1. /\ Head(queue) \in Buffers /\ Tail(queue) \in Seq(Buffers)
        /\ \A j, k \in DOMAIN Tail(queue) : Tail(queue)[j] = Tail(queue)[k] => j = k
        /\ Head(queue) \notin {Tail(queue)[k] : k \in DOMAIN Tail(queue)}
        /\ {queue[k] : k \in DOMAIN queue}
              = {Tail(queue)[k] : k \in DOMAIN Tail(queue)} \cup {Head(queue)}
    BY <1>1, <1>3, TailOf
  <2> QED BY <1>3, <1>4, <2>1
<1>6. pc' \in {"attach", "idle"} /\ ret' \in Rets BY DEF LoopOrReturn, Rets, TypeOK
<1>7. TypeOK' BY <1>5, <1>6 DEF TypeOK, PCs
<1>8. BuffersKept' BY <1>5, CamAssumption DEF BuffersKept, Listed, Buffers
<1>9. StoppedIsEmpty' /\ Phase' BY <1>2, <1>6 DEF StoppedIsEmpty, Phase
<1> QED BY <1>7, <1>8, <1>9

\* The steps that leave the buffers alone.
LEMMA OtherStep ==
    ASSUME IInv,
           \/ StartVideoStream \/ StartImageAcquisitionEx_Refused
           \/ StopImageAcquisition \/ AcquireImageEx_Timeout \/ AcquireImageEx_Error
           \/ \E drop \in BOOLEAN : AcquireImageEx(drop)
           \/ UNCHANGED vars
    PROVE  IInv'
<1> USE CamAssumption DEF IInv, vars, device, ring, call, driver, camera
<1>1. UNCHANGED <<m_hDeviceAcquisition, handles, m_AcquisitionFlags, ring, driver, frames, stamp>>
  BY DEF StartVideoStream, StartImageAcquisitionEx_Refused,
         StopImageAcquisition, AcquireImageEx_Timeout, AcquireImageEx_Error, AcquireImageEx
<1>2. /\ pc' = pc \/ pc' \in {"stop", "idle"} \/ (pc' = "attach" /\ m_hDeviceAcquisition)
      /\ pc' = "idle" => pc = "idle" \/ m_hDeviceAcquisition
      /\ pc = "free" => pc' = "free"
  BY DEF StartVideoStream, StartImageAcquisitionEx_Refused, Phase,
         StopImageAcquisition, AcquireImageEx_Timeout, AcquireImageEx_Error, AcquireImageEx
<1>3. ret' \in Rets
  BY DEF StartVideoStream, StartImageAcquisitionEx_Refused, Rets, TypeOK,
         StopImageAcquisition, AcquireImageEx_Timeout, AcquireImageEx_Error, AcquireImageEx
<1>4. m_cameraInitialized' \in BOOLEAN /\ streaming' \in BOOLEAN
  BY DEF StartVideoStream, StartImageAcquisitionEx_Refused, TypeOK,
         StopImageAcquisition, AcquireImageEx_Timeout, AcquireImageEx_Error, AcquireImageEx
<1>5. bWaited' \in BOOLEAN /\ DropStaleFrames' \in BOOLEAN /\ mustNotBlock' \in BOOLEAN
  BY DEF StartVideoStream, StartImageAcquisitionEx_Refused, TypeOK, FrameEvent,
         StopImageAcquisition, AcquireImageEx_Timeout, AcquireImageEx_Error, AcquireImageEx
<1>6. TypeOK' BY <1>1, <1>2, <1>3, <1>4, <1>5 DEF TypeOK, PCs
<1>7. Listed' = Listed BY <1>1 DEF Listed
<1>8. BuffersKept' BY <1>1, <1>2, <1>7 DEF BuffersKept
<1>9. StoppedIsEmpty' BY <1>1, <1>2 DEF StoppedIsEmpty
<1>10. Phase' BY <1>1, <1>2 DEF Phase
<1> QED BY <1>6, <1>8, <1>9, <1>10

LEMMA NextInv == IInv /\ [Next]_vars => IInv'
<1> SUFFICES ASSUME IInv, [Next]_vars PROVE IInv' OBVIOUS
<1>1. CASE Frame BY <1>1, FrameStep
<1>2. ASSUME NEW startStream \in BOOLEAN,
             \/ StartImageAcquisitionEx(startStream)
             \/ StartImageAcquisitionEx_Fails(startStream)
      PROVE  IInv'
  BY <1>2, StartStep, StartFailsStep
<1>3. CASE Stop BY <1>3, ReleaseStep, FreeStep DEF Stop
<1>4. CASE AcquireImageEx_Attach BY <1>4, AttachStep
<1>5. CASE AcquireImageEx_AttachFails BY <1>5, AttachFailsStep
<1>6. CASE AcquireImageEx_Poll
  <2>1. CASE FrameEvent
    <3>1. bWaited' \in BOOLEAN BY <1>6 DEF AcquireImageEx_Poll, IInv, TypeOK, call
    <3> QED BY <1>6, <2>1, <3>1, TakeStep DEF AcquireImageEx_Poll, call
  <2>2. CASE ~FrameEvent
    <3> USE DEF IInv, AcquireImageEx_Poll, device, ring, call, driver, camera
    <3>1. TypeOK' BY <1>6, <2>2 DEF TypeOK, PCs
    <3>2. BuffersKept' /\ StoppedIsEmpty' /\ Phase'
      BY <1>6, <2>2 DEF BuffersKept, StoppedIsEmpty, Phase, Listed
    <3> QED BY <3>1, <3>2
  <2> QED BY <2>1, <2>2
<1>7. CASE AcquireImageEx_Waited BY <1>7, TakeStep DEF AcquireImageEx_Waited
<1> QED BY <1>1, <1>2, <1>3, <1>4, <1>5, <1>6, <1>7, InitCameraStep, OtherStep DEF Next, Acquire, Fail

-----------------------------------------------------------------------------
(* The theorems. *)

LEMMA Inductive == Spec => []IInv
  BY InitInv, NextInv, PTL DEF Spec

\* Types: any number of buffers and of parts, with all failures.
THEOREM TypeCorrect == Spec => []TypeOK
<1>1. IInv => TypeOK BY DEF IInv
<1> QED BY <1>1, Inductive, PTL

\* No buffer is lost or listed twice while images are acquired, whatever
\* AcquireImageEx returns.
THEOREM KeepsBuffers == Spec => []BuffersKept
<1>1. IInv => BuffersKept BY DEF IInv
<1> QED BY <1>1, Inductive, PTL

\* The list is never empty where AcquireImageEx reads its head unchecked.
THEOREM ListNotEmpty == Spec => []PollsABuffer
<1>1. IInv => PollsABuffer
  <2> SUFFICES ASSUME IInv, pc \in {"poll", "wait"}, queue = <<>> PROVE FALSE
    BY DEF PollsABuffer
  <2>1. m_hDeviceAcquisition /\ m_pCurrentBuffer = NULL BY DEF IInv, Phase
  <2>2. Listed = Buffers BY <2>1 DEF IInv, BuffersKept
  <2>3. Listed = {} BY DEF Listed
  <2>4. 1 \in Buffers BY CamAssumption DEF Buffers
  <2> QED BY <2>2, <2>3, <2>4
<1> QED BY <1>1, Inductive, PTL

\* After the end of an acquisition no freed buffer can be reached.
THEOREM StopEmpties == Spec => []StoppedIsEmpty
<1>1. IInv => StoppedIsEmpty BY DEF IInv
<1> QED BY <1>1, Inductive, PTL

-----------------------------------------------------------------------------
(* The driver in step with the list.  The list is seen as one sequence of  *)
(* parts, of which the first Complete ones are complete.                   *)

Pos(q, p) == (q - 1) * SubBuffers + p
Complete == Len(queue) * SubBuffers - Len(isoch)

\* Positions are ordered by buffer first.
LEMMA PosOrder ==
    ASSUME NEW q \in Nat \ {0}, NEW r \in Nat \ {0},
           NEW p \in 1..SubBuffers, NEW s \in 1..SubBuffers
    PROVE  /\ Pos(q, p) \in Nat \ {0}
           /\ q < r => Pos(q, p) < Pos(r, s) /\ Pos(q, SubBuffers) < Pos(r, s)
           /\ Pos(q, p) = Pos(r, s) => q = r /\ p = s
           /\ Pos(q + 1, p) = Pos(q, p) + SubBuffers
<1> USE CamAssumption
<1>1. ASSUME NEW a \in Nat \ {0}, NEW b \in Nat \ {0}, a < b,
             NEW u \in 1..SubBuffers, NEW v \in 1..SubBuffers
      PROVE  Pos(a, u) < Pos(b, v)
  <2>1. (a - 1) * SubBuffers + SubBuffers = a * SubBuffers OBVIOUS
  <2>2. PICK c \in Nat : b - 1 = a + c BY <1>1, b - 1 - a \in Nat
  <2>3. (b - 1) * SubBuffers = a * SubBuffers + c * SubBuffers BY <2>2
  <2>4. c * SubBuffers \in Nat OBVIOUS
  <2>5. a * SubBuffers \in Nat OBVIOUS
  <2>6. (a - 1) * SubBuffers \in Nat OBVIOUS
  <2> QED BY <2>1, <2>3, <2>4, <2>5, <2>6 DEF Pos
<1>2. (q - 1) * SubBuffers \in Nat /\ (r - 1) * SubBuffers \in Nat OBVIOUS
<1>3. Pos(q, p) \in Nat \ {0} BY <1>2 DEF Pos
<1>4. q < r => Pos(q, p) < Pos(r, s) /\ Pos(q, SubBuffers) < Pos(r, s)
  BY <1>1
<1>5. Pos(q, p) = Pos(r, s) => q = r /\ p = s
  <2> SUFFICES ASSUME Pos(q, p) = Pos(r, s) PROVE q = r /\ p = s OBVIOUS
  <2>1. Pos(r, s) \in Nat BY <1>2 DEF Pos
  <2>2. ~(q < r) /\ ~(r < q) BY <1>1, <1>3, <2>1
  <2>3. q = r BY <2>2
  <2> QED BY <1>2, <2>3 DEF Pos
<1>6. Pos(q + 1, p) = Pos(q, p) + SubBuffers
  <2>1. (q + 1 - 1) * SubBuffers = (q - 1) * SubBuffers + SubBuffers OBVIOUS
  <2> QED BY <1>2, <2>1 DEF Pos
<1> QED BY <1>3, <1>4, <1>5, <1>6

\* Each position within n buffers is that of one part.
LEMMA PosOnto ==
    ASSUME NEW n \in Nat, NEW k \in 1..(n * SubBuffers)
    PROVE  \E q \in 1..n, p \in 1..SubBuffers : Pos(q, p) = k
<1> USE CamAssumption
<1>1. n * SubBuffers \in Nat OBVIOUS
<1>2. k - 1 \in Nat /\ k - 1 < n * SubBuffers BY <1>1
<1>3. PICK d \in Nat : d = (k - 1) \div SubBuffers BY <1>2
<1>4. PICK m \in 0..(SubBuffers - 1) : m = (k - 1) % SubBuffers BY <1>2
<1>5. k - 1 = d * SubBuffers + m BY <1>2, <1>3, <1>4
<1>6. d < n
  <2> SUFFICES ASSUME d >= n PROVE FALSE OBVIOUS
  <2>1. PICK c \in Nat : d = n + c BY d - n \in Nat
  <2>2. d * SubBuffers = n * SubBuffers + c * SubBuffers BY <2>1
  <2>3. c * SubBuffers \in Nat OBVIOUS
  <2> QED BY <1>1, <1>2, <1>5, <2>2, <2>3
<1>7. d + 1 \in 1..n /\ m + 1 \in 1..SubBuffers BY <1>6
<1>8. d * SubBuffers \in Nat OBVIOUS
<1>9. Pos(d + 1, m + 1) = k BY <1>5, <1>8 DEF Pos
<1> QED BY <1>7, <1>9

\* The positions within n buffers, and the last part of each buffer.
LEMMA PosLast ==
    ASSUME NEW n \in Nat, NEW q \in 1..n, NEW p \in 1..SubBuffers
    PROVE  Pos(q, p) \in 1..(n * SubBuffers) /\ Pos(q, SubBuffers) <= n * SubBuffers
           /\ Pos(q, p) <= Pos(q, SubBuffers)
<1> USE CamAssumption
<1>1. PICK c \in Nat : n = q + c BY n - q \in Nat
<1>2. n * SubBuffers = q * SubBuffers + c * SubBuffers BY <1>1
<1>3. c * SubBuffers \in Nat /\ q * SubBuffers \in Nat OBVIOUS
<1>4. Pos(q, SubBuffers) = q * SubBuffers
  <2>1. (q - 1) * SubBuffers + SubBuffers = q * SubBuffers OBVIOUS
  <2> QED BY <2>1 DEF Pos
<1>5. (q - 1) * SubBuffers \in Nat OBVIOUS
<1>6. Pos(q, p) \in Nat \ {0} /\ Pos(q, p) <= Pos(q, SubBuffers) BY <1>5 DEF Pos
<1> QED BY <1>2, <1>3, <1>4, <1>6

\* AllParts has the parts at their positions.
LEMMA AllPartsAt ==
    ASSUME NEW q \in 1..N, NEW p \in 1..SubBuffers
    PROVE  AllParts[Pos(q, p)] = <<q, p>>
<1> USE CamAssumption
<1>1. Pos(q, p) \in 1..(N * SubBuffers) BY PosLast
<1>2. PICK k : k = Pos(q, p) OBVIOUS
<1>3. k \in 1..(N * SubBuffers) /\ N * SubBuffers \in Nat BY <1>1, <1>2
<1>4. PICK d \in Nat : d = (k - 1) \div SubBuffers BY <1>3
<1>5. PICK m \in 0..(SubBuffers - 1) : m = (k - 1) % SubBuffers BY <1>3
<1>6. k - 1 = d * SubBuffers + m BY <1>3, <1>4, <1>5
<1>7. d * SubBuffers \in Nat OBVIOUS
<1>8. Pos(d + 1, m + 1) = k BY <1>3, <1>6, <1>7 DEF Pos
<1>9. d + 1 = q /\ m + 1 = p BY <1>2, <1>8, PosOrder
<1>10. AllParts[k] = <<d + 1, m + 1>> BY <1>3, <1>4, <1>5 DEF AllParts
<1> QED BY <1>2, <1>9, <1>10

\* Attachments fail as a whole: every failure comes before the first part, or
\* a buffer has one part only.
AttachedAsAWhole == PartialFailures => SubBuffers = 1

Acquiring == m_hDeviceAcquisition /\ pc \notin {"stop", "free"}

InStep ==
    /\ Len(isoch) <= Len(queue) * SubBuffers
    /\ \A q \in DOMAIN queue, p \in 1..SubBuffers :
          IF Pos(q, p) <= Complete
          THEN <<queue[q], p>> \in done
          ELSE <<queue[q], p>> \notin done /\ isoch[Pos(q, p) - Complete] = <<queue[q], p>>

InOrder ==
    \A k \in DOMAIN queue : Last(queue[k]) \in done /\ stamp[queue[k]] < MaxFrames =>
        /\ \A j \in 1..(k - 1) : stamp[queue[j]] < stamp[queue[k]]
        /\ m_pCurrentBuffer # NULL => stamp[m_pCurrentBuffer] < stamp[queue[k]]

StampsOld == \A b \in Buffers : stamp[b] <= frames

OInv ==
    /\ IInv /\ StampsOld
    /\ Acquiring => InStep /\ InOrder

LEMMA OInvMeans == OInv => DriverInStep /\ FramesInOrder
  BY DEF OInv, Acquiring, InStep, InOrder, Pos, Complete, DriverInStep, FramesInOrder

\* What the types and BuffersKept say while images are acquired.
LEMMA ListFacts ==
    ASSUME IInv, Acquiring
    PROVE  /\ queue \in Seq(Buffers) /\ Len(queue) \in Nat /\ DOMAIN queue = 1..Len(queue)
           /\ isoch \in Seq(Parts) /\ Len(isoch) \in Nat /\ DOMAIN isoch = 1..Len(isoch)
           /\ \A q \in DOMAIN queue : queue[q] \in Buffers /\ queue[q] # m_pCurrentBuffer
           /\ \A q, r \in DOMAIN queue : queue[q] = queue[r] => q = r
           /\ Len(queue) * SubBuffers \in Nat
<1>1. queue \in Seq(Buffers) /\ isoch \in Seq(Parts) BY DEF IInv, TypeOK
<1>2. /\ Len(queue) \in Nat /\ DOMAIN queue = 1..Len(queue)
      /\ Len(isoch) \in Nat /\ DOMAIN isoch = 1..Len(isoch)
  BY <1>1, LenProperties
<1>3. Len(queue) * SubBuffers \in Nat BY <1>2, CamAssumption
<1>4. \A q \in DOMAIN queue : queue[q] \in Buffers BY <1>1, <1>2, ElementOfSeq
<1>5. \A q \in DOMAIN queue : queue[q] \in Listed BY DEF Listed
<1>6. /\ \A q, r \in DOMAIN queue : queue[q] = queue[r] => q = r
      /\ m_pCurrentBuffer \notin Listed
  BY DEF IInv, BuffersKept, Acquiring
<1> QED BY <1>1, <1>2, <1>3, <1>4, <1>5, <1>6

\* The head of what the driver has is the first incomplete part of the list.
LEMMA HeadPart ==
    ASSUME IInv, Acquiring, InStep, isoch # <<>>
    PROVE  \E q \in DOMAIN queue, p \in 1..SubBuffers :
              Head(isoch) = <<queue[q], p>> /\ Pos(q, p) = Complete + 1
<1> USE ListFacts, CamAssumption
<1>1. Len(isoch) # 0 /\ Head(isoch) = isoch[1] BY EmptySeq
<1>2. Complete \in Nat /\ Complete + 1 \in 1..(Len(queue) * SubBuffers)
  BY <1>1 DEF Complete, InStep
<1>3. PICK q \in 1..Len(queue), p \in 1..SubBuffers : Pos(q, p) = Complete + 1
  BY <1>2, PosOnto
<1>4. q \in DOMAIN queue /\ ~(Pos(q, p) <= Complete) BY <1>2, <1>3
<1>5. isoch[Pos(q, p) - Complete] = <<queue[q], p>> BY <1>4 DEF InStep
<1>6. Pos(q, p) - Complete = 1 BY <1>2, <1>3
<1> QED BY <1>1, <1>3, <1>4, <1>5, <1>6

\* Each part at the driver is one of the list.
LEMMA IsochListed ==
    ASSUME IInv, Acquiring, InStep, NEW k \in DOMAIN isoch
    PROVE  \E q \in DOMAIN queue, p \in 1..SubBuffers : isoch[k] = <<queue[q], p>>
<1> USE ListFacts, CamAssumption
<1>2. Complete \in Nat /\ Complete + k \in 1..(Len(queue) * SubBuffers)
  BY DEF Complete, InStep
<1>3. PICK q \in 1..Len(queue), p \in 1..SubBuffers : Pos(q, p) = Complete + k
  BY <1>2, PosOnto
<1>4. q \in DOMAIN queue /\ ~(Pos(q, p) <= Complete) BY <1>2, <1>3
<1>5. isoch[Pos(q, p) - Complete] = <<queue[q], p>> BY <1>4 DEF InStep
<1>6. Pos(q, p) - Complete = k BY <1>2, <1>3
<1> QED BY <1>4, <1>5, <1>6

\* A buffer whose last part is complete lies before the first incomplete part.
LEMMA ReadyBefore ==
    ASSUME IInv, Acquiring, InStep, NEW q \in DOMAIN queue, NEW k \in DOMAIN queue,
           NEW p \in 1..SubBuffers, Pos(q, p) = Complete + 1, Last(queue[k]) \in done
    PROVE  k < q
<1> USE ListFacts, CamAssumption
<1>1. SubBuffers \in 1..SubBuffers OBVIOUS
<1>2. k \in Nat \ {0} /\ q \in Nat \ {0} /\ Complete \in Nat BY DEF Complete, InStep
<1>3. Pos(k, SubBuffers) <= Complete BY <1>1 DEF InStep, Last
<1>4. Pos(k, SubBuffers) \in Nat /\ Pos(q, p) \in Nat BY <1>1, <1>2, PosOrder
<1>5. q < k => Pos(q, p) < Pos(k, SubBuffers) BY <1>1, <1>2, PosOrder
<1>6. Pos(q, p) <= Pos(q, SubBuffers) BY PosLast
<1>7. ~(q < k) BY <1>2, <1>3, <1>4, <1>5
<1>8. q # k BY <1>2, <1>3, <1>4, <1>6
<1> QED BY <1>2, <1>7, <1>8

LEMMA FrameOrder == OInv /\ Frame => OInv'
<1> SUFFICES ASSUME OInv, Frame PROVE OInv' OBVIOUS
<1> USE CamAssumption
<1>1. IInv /\ IInv' BY FrameStep DEF OInv
<1>2. /\ UNCHANGED <<m_hDeviceAcquisition, pc, queue, m_pCurrentBuffer>>
      /\ isoch # <<>> /\ isoch' = Tail(isoch) /\ done' = done \cup {Head(isoch)}
  BY DEF Frame, device, ring
<1>3. Head(isoch)[2] # SubBuffers => UNCHANGED <<frames, stamp>> BY DEF Frame
<1>4. Head(isoch)[2] = SubBuffers =>
         /\ frames' = IF frames < MaxFrames THEN frames + 1 ELSE frames
         /\ stamp' = [stamp EXCEPT ![Head(isoch)[1]] = frames']
  BY DEF Frame
<1>5. frames \in 0..MaxFrames /\ stamp \in [Buffers -> 0..MaxFrames]
  BY <1>1 DEF IInv, TypeOK
<1>6. StampsOld' BY <1>3, <1>4, <1>5 DEF OInv, StampsOld
<1>7. ASSUME Acquiring PROVE InStep' /\ InOrder'
  <2> USE <1>1, <1>7, ListFacts
  <2>1. InStep /\ InOrder BY DEF OInv
  <2>2. PICK q0 \in DOMAIN queue, p0 \in 1..SubBuffers :
          Head(isoch) = <<queue[q0], p0>> /\ Pos(q0, p0) = Complete + 1
    BY <1>2, <2>1, HeadPart
  <2>3. /\ Len(isoch') = Len(isoch) - 1 /\ Len(isoch) \in Nat \ {0}
        /\ \A i \in 1..(Len(isoch) - 1) : isoch'[i] = isoch[i + 1]
    BY <1>2, HeadTailProperties, EmptySeq
  <2>4. Complete' = Complete + 1 /\ Complete \in Nat
    BY <1>2, <2>1, <2>3 DEF Complete, InStep
  <2>5. ASSUME NEW q \in DOMAIN queue, NEW p \in 1..SubBuffers
        PROVE  IF Pos(q, p) <= Complete'
               THEN <<queue[q], p>> \in done'
               ELSE /\ <<queue[q], p>> \notin done'
                    /\ isoch'[Pos(q, p) - Complete'] = <<queue[q], p>>
    <3>1. Pos(q, p) \in 1..(Len(queue) * SubBuffers) BY PosLast
    <3>2. CASE Pos(q, p) <= Complete BY <1>2, <2>1, <2>4, <3>1, <3>2 DEF InStep
    <3>3. CASE Pos(q, p) = Complete + 1
      <4>0. q \in Nat \ {0} /\ q0 \in Nat \ {0} OBVIOUS
      <4>1. Pos(q, p) = Pos(q0, p0) BY <2>2, <3>3
      <4>2. q = q0 /\ p = p0 BY ONLY <4>0, <4>1, PosOrder, p \in 1..SubBuffers, p0 \in 1..SubBuffers
      <4> QED BY <1>2, <2>2, <2>4, <3>3, <4>2
    <3>4. CASE Pos(q, p) > Complete + 1
      <4>1. <<queue[q], p>> \notin done /\ isoch[Pos(q, p) - Complete] = <<queue[q], p>>
        BY <2>1, <2>4, <3>1, <3>4 DEF InStep
      <4>2. <<queue[q], p>> # Head(isoch) BY <2>2, <2>4, <3>4
      <4>3. Pos(q, p) - Complete' \in 1..(Len(isoch) - 1)
            /\ (Pos(q, p) - Complete') + 1 = Pos(q, p) - Complete
        <5>1. PICK k \in Nat, m \in Nat : k = Pos(q, p) /\ m = Len(queue) * SubBuffers
          BY <3>1
        <5>2. Complete = m - Len(isoch) BY <5>1 DEF Complete
        <5>3. k > Complete + 1 /\ k <= m BY <3>1, <3>4, <5>1
        <5>4. PICK l \in Nat \ {0}, c \in Nat : l = Len(isoch) /\ c = Complete
          BY <2>3, <2>4
        <5>5. k - (c + 1) \in 1..(l - 1) /\ (k - (c + 1)) + 1 = k - c
          BY ONLY <5>2, <5>3, <5>4, k \in Nat, m \in Nat, l \in Nat, c \in Nat
        <5> QED BY <2>4, <5>1, <5>4, <5>5
      <4>4. isoch'[Pos(q, p) - Complete'] = <<queue[q], p>> BY <2>3, <4>1, <4>3
      <4>5. ~(Pos(q, p) <= Complete') BY <2>4, <3>1, <3>4
      <4> QED BY <1>2, <4>1, <4>2, <4>4, <4>5
    <3> QED BY <2>4, <3>1, <3>2, <3>3, <3>4
  <2>6. Len(isoch') <= Len(queue) * SubBuffers BY <2>1, <2>3 DEF InStep
  <2>7. InStep' BY <1>2, <2>5, <2>6 DEF InStep
  <2>8. ASSUME NEW k \in DOMAIN queue, Last(queue[k]) \in done',
               stamp'[queue[k]] < MaxFrames
        PROVE  /\ \A j \in 1..(k - 1) : stamp'[queue[j]] < stamp'[queue[k]]
               /\ m_pCurrentBuffer # NULL => stamp'[m_pCurrentBuffer] < stamp'[queue[k]]
    <3>1. CASE p0 # SubBuffers
      <4>1. UNCHANGED stamp /\ Last(queue[k]) \in done
        BY <1>2, <1>3, <2>2, <2>8, <3>1 DEF Last
      <4> QED BY <2>1, <2>8, <4>1 DEF InOrder
    <3>2. CASE p0 = SubBuffers
      <4>1. stamp' = [stamp EXCEPT ![queue[q0]] = frames'] BY <1>4, <2>2, <3>2
      <4>2. m_pCurrentBuffer # NULL =>
              /\ m_pCurrentBuffer \in Buffers /\ m_pCurrentBuffer # queue[q0]
        BY <1>1 DEF IInv, TypeOK
      <4>3. CASE k = q0
        <5>1. frames < MaxFrames /\ frames' = frames + 1
          BY <1>4, <1>5, <2>2, <2>8, <3>2, <4>1, <4>3
        <5>2. \A b \in Buffers \ {queue[q0]} : stamp'[b] < stamp'[queue[q0]]
          BY <1>5, <4>1, <5>1 DEF OInv, StampsOld
        <5>3. \A j \in 1..(k - 1) : queue[j] \in Buffers \ {queue[q0]} BY <4>3
        <5> QED BY <4>2, <4>3, <5>2, <5>3
      <4>4. CASE k # q0
        <5>1. Last(queue[k]) \in done BY <1>2, <2>2, <2>8, <4>4 DEF Last
        <5>2. k < q0 BY <2>1, <2>2, <5>1, ReadyBefore
        <5>3. \A j \in 1..k : j \in DOMAIN queue /\ queue[j] # queue[q0] BY <5>2
        <5>4. \A j \in 1..k : stamp'[queue[j]] = stamp[queue[j]] BY <1>5, <4>1, <5>3
        <5>5. m_pCurrentBuffer # NULL => stamp'[m_pCurrentBuffer] = stamp[m_pCurrentBuffer]
          BY <1>5, <4>1, <4>2
        <5>6. stamp'[queue[k]] = stamp[queue[k]] BY <5>4
        <5>7. /\ \A j \in 1..(k - 1) : stamp[queue[j]] < stamp[queue[k]]
              /\ m_pCurrentBuffer # NULL => stamp[m_pCurrentBuffer] < stamp[queue[k]]
          BY <2>1, <2>8, <5>1, <5>6 DEF InOrder
        <5> QED BY <5>4, <5>5, <5>6, <5>7
      <4> QED BY <4>3, <4>4
    <3> QED BY <3>1, <3>2
  <2>9. InOrder' BY <1>2, <2>8 DEF InOrder, Last
  <2> QED BY <2>7, <2>9
<1>8. Acquiring' <=> Acquiring BY <1>2 DEF Acquiring
<1> QED BY <1>1, <1>6, <1>7, <1>8 DEF OInv

\* The current buffer is attached: its parts come after all others, at the
\* driver as in the list.
LEMMA AttachOrder == OInv /\ AcquireImageEx_Attach => OInv'
<1> SUFFICES ASSUME OInv, AcquireImageEx_Attach PROVE OInv' OBVIOUS
<1> USE CamAssumption
<1>1. IInv /\ IInv' BY AttachStep DEF OInv
<1>2. UNCHANGED <<m_hDeviceAcquisition, frames, stamp>> /\ pc = "attach" /\ pc' = "poll"
  BY DEF AcquireImageEx_Attach, device, camera
<1>3. Acquiring /\ InStep /\ InOrder /\ StampsOld BY <1>1, <1>2 DEF OInv, IInv, Phase, Acquiring
<1>4. StampsOld' BY <1>2, <1>3 DEF StampsOld
<1>5. CASE m_pCurrentBuffer = NULL
  <2>1. UNCHANGED <<queue, m_pCurrentBuffer, isoch, done>>
    BY <1>5 DEF AcquireImageEx_Attach, ring, driver
  <2>2. InStep' BY <1>3, <2>1 DEF InStep, Complete
  <2>3. InOrder' BY <1>2, <1>3, <2>1 DEF InOrder, Last
  <2> QED BY <1>1, <1>4, <2>2, <2>3 DEF OInv
<1>6. CASE m_pCurrentBuffer # NULL
  <2> DEFINE b == m_pCurrentBuffer
             n == Len(queue)
  <2>1. /\ queue' = Append(queue, b) /\ m_pCurrentBuffer' = NULL
        /\ isoch' = isoch \o PartsOf(b, SubBuffers)
        /\ done' = done \ ({b} \X (1..SubBuffers))
    BY <1>6 DEF AcquireImageEx_Attach, Attach, Requeued
  <2>2. b \in Buffers BY <1>1, <1>6 DEF IInv, TypeOK
  <2> USE <1>1, <1>3, ListFacts
  <2>3. /\ PartsOf(b, SubBuffers) \in Seq(Parts) /\ Len(PartsOf(b, SubBuffers)) = SubBuffers
        /\ \A p \in 1..SubBuffers : PartsOf(b, SubBuffers)[p] = <<b, p>>
    BY <2>2, PartsOfType DEF PartsOf
  <2>4. /\ Len(isoch') = Len(isoch) + SubBuffers
        /\ \A i \in 1..Len(isoch) : isoch'[i] = isoch[i]
        /\ \A i \in (Len(isoch) + 1)..(Len(isoch) + SubBuffers) :
              isoch'[i] = PartsOf(b, SubBuffers)[i - Len(isoch)]
    <3> HIDE DEF b
    <3>1. isoch \in Seq(Parts) BY DEF IInv, TypeOK
    <3>2. PICK t \in Seq(Parts) : t = PartsOf(b, SubBuffers) BY <2>3
    <3>3. Len(t) = SubBuffers /\ isoch' = isoch \o t BY <2>1, <2>3, <3>2
    <3>4. /\ Len(isoch \o t) = Len(isoch) + Len(t)
          /\ \A i \in 1..(Len(isoch) + Len(t)) :
                (isoch \o t)[i] = IF i <= Len(isoch) THEN isoch[i] ELSE t[i - Len(isoch)]
      BY ONLY <3>1, <3>2, ConcatProperties
    <3> QED BY <3>2, <3>3, <3>4
  <2>5. /\ Len(queue') = n + 1 /\ DOMAIN queue' = 1..(n + 1)
        /\ \A i \in 1..n : queue'[i] = queue[i]
        /\ queue'[n + 1] = b
    <3>1. queue' \in Seq(Buffers) BY DEF IInv, TypeOK
    <3> QED BY <2>1, <2>2, <3>1, AppendProperties, LenProperties
  <2>6. Len(queue') * SubBuffers = n * SubBuffers + SubBuffers BY <2>5
  <2>7. Complete' = Complete /\ Complete \in Nat /\ Complete <= n * SubBuffers
        /\ Len(isoch) = n * SubBuffers - Complete
    <3>1. n * SubBuffers \in Nat /\ Len(isoch) <= n * SubBuffers BY DEF InStep
    <3>2. Complete' = (n * SubBuffers + SubBuffers) - (Len(isoch) + SubBuffers)
      BY <2>4, <2>6 DEF Complete
    <3>3. Complete = n * SubBuffers - Len(isoch) BY DEF Complete
    <3> HIDE DEF n
    <3> QED BY <3>1, <3>2, <3>3
  <2>8. ASSUME NEW q \in 1..(n + 1), NEW p \in 1..SubBuffers
        PROVE  IF Pos(q, p) <= Complete
               THEN <<queue'[q], p>> \in done'
               ELSE /\ <<queue'[q], p>> \notin done'
                    /\ isoch'[Pos(q, p) - Complete] = <<queue'[q], p>>
    <3>1. CASE q \in 1..n
      <4>1. queue'[q] = queue[q] /\ queue[q] # b BY <2>5, <3>1
      <4>2. <<queue'[q], p>> \in done' <=> <<queue[q], p>> \in done BY <2>1, <4>1
      <4>3. Pos(q, p) \in 1..(n * SubBuffers) BY <3>1, PosLast
      <4>4. CASE Pos(q, p) <= Complete BY <3>1, <4>2, <4>4 DEF InStep
      <4>5. CASE ~(Pos(q, p) <= Complete)
        <5>1. Pos(q, p) - Complete \in 1..Len(isoch) BY <2>7, <4>3, <4>5
        <5>2. /\ <<queue[q], p>> \notin done
              /\ isoch[Pos(q, p) - Complete] = <<queue[q], p>>
          BY <3>1, <4>5 DEF InStep
        <5> QED BY <2>4, <4>1, <4>2, <4>5, <5>1, <5>2
      <4> QED BY <4>4, <4>5
    <3>2. CASE q = n + 1
      <4>1. Pos(q, p) = n * SubBuffers + p BY <3>2 DEF Pos
      <4>2. ~(Pos(q, p) <= Complete) BY <2>7, <4>1
      <4>3. <<queue'[q], p>> = <<b, p>> /\ <<b, p>> \notin done' BY <2>1, <2>5, <3>2
      <4>4. Pos(q, p) - Complete = Len(isoch) + p BY <2>7, <4>1
      <4>5. isoch'[Len(isoch) + p] = <<b, p>>
        <5>1. Len(isoch) + p \in (Len(isoch) + 1)..(Len(isoch) + SubBuffers) OBVIOUS
        <5>2. (Len(isoch) + p) - Len(isoch) = p OBVIOUS
        <5> QED BY <2>3, <2>4, <5>1, <5>2
      <4> QED BY <4>2, <4>3, <4>4, <4>5
    <3> QED BY <3>1, <3>2
  <2>9. InStep'
    <3>1. Len(isoch') <= Len(queue') * SubBuffers BY <2>4, <2>6, <2>7
    <3> QED BY <2>5, <2>7, <2>8, <3>1 DEF InStep
  <2>10. InOrder'
    <3> SUFFICES ASSUME NEW k \in DOMAIN queue', Last(queue'[k]) \in done',
                        stamp[queue'[k]] < MaxFrames
                 PROVE  \A j \in 1..(k - 1) : stamp[queue'[j]] < stamp[queue'[k]]
      BY <1>2, <2>1 DEF InOrder, Last
    <3>1. k # n + 1 BY <2>1, <2>5 DEF Last
    <3>2. k \in 1..n /\ \A j \in 1..k : queue'[j] = queue[j] BY <2>5, <3>1
    <3>3. Last(queue[k]) \in done /\ stamp[queue[k]] < MaxFrames BY <2>1, <3>2
    <3>4. \A j \in 1..(k - 1) : stamp[queue[j]] < stamp[queue[k]] BY <3>2, <3>3 DEF InOrder
    <3> QED BY <3>2, <3>4
  <2> QED BY <1>4, <2>9, <2>10 DEF OInv
<1> QED BY <1>5, <1>6

LEMMA AttachFailsOrder == AttachedAsAWhole /\ OInv /\ AcquireImageEx_AttachFails => OInv'
<1> SUFFICES ASSUME AttachedAsAWhole, OInv, AcquireImageEx_AttachFails PROVE OInv' OBVIOUS
<1> USE CamAssumption
<1>1. IInv /\ IInv' BY AttachFailsStep DEF OInv
<1>2. PICK n \in 0..(IF PartialFailures THEN SubBuffers - 1 ELSE 0) :
        /\ isoch' = isoch \o PartsOf(m_pCurrentBuffer, n)
        /\ done' = done \ ({m_pCurrentBuffer} \X (1..n))
  BY DEF AcquireImageEx_AttachFails, AttachFails
<1>3. n = 0 BY <1>2 DEF AttachedAsAWhole
<1>4. PartsOf(m_pCurrentBuffer, n) = <<>> BY <1>3 DEF PartsOf
<1>5. isoch' = isoch BY <1>1, <1>2, <1>4, ConcatEmptySeq DEF IInv, TypeOK
<1>6. done' = done BY <1>2, <1>3
<1>7. UNCHANGED <<m_hDeviceAcquisition, queue, m_pCurrentBuffer, frames, stamp>> /\ pc = "attach"
  BY DEF AcquireImageEx_AttachFails, device, ring, camera
<1>8. Acquiring' => Acquiring BY <1>7 DEF Acquiring
<1>9. InStep => InStep' BY <1>5, <1>6, <1>7 DEF InStep, Complete
<1>10. InOrder => InOrder' BY <1>6, <1>7 DEF InOrder, Last
<1>11. StampsOld' BY <1>7 DEF OInv, StampsOld
<1> QED BY <1>1, <1>8, <1>9, <1>10, <1>11 DEF OInv

\* The oldest buffer is taken: its parts are complete, so the driver's view of
\* the others stays.
LEMMA TakeOrder ==
    ASSUME OInv, pc \in {"poll", "wait"}, FrameEvent, TakeOldest, LoopOrReturn,
           bWaited' \in BOOLEAN,
           UNCHANGED <<device, DropStaleFrames, mustNotBlock, driver, camera>>
    PROVE  OInv'
<1> USE CamAssumption
<1>1. IInv /\ IInv' BY TakeStep DEF OInv
<1>2. UNCHANGED <<isoch, done, frames, stamp, m_hDeviceAcquisition>> BY DEF driver, camera, device
<1>3. Acquiring /\ InStep /\ InOrder /\ StampsOld BY <1>1 DEF OInv, IInv, Phase, Acquiring
<1>4. StampsOld' BY <1>2, <1>3 DEF StampsOld
<1> USE <1>1, <1>3, ListFacts
<1>5. queue # <<>> /\ m_pCurrentBuffer' = Head(queue) /\ queue' = Tail(queue)
  BY DEF TakeOldest, FrameEvent
<1>6. PICK n : n = Len(queue) OBVIOUS
<1>7. n \in Nat \ {0} /\ Head(queue) = queue[1] BY <1>5, <1>6, EmptySeq
<1>8. /\ Len(queue') = n - 1 /\ DOMAIN queue' = 1..(n - 1)
      /\ \A i \in 1..(n - 1) : queue'[i] = queue[i + 1] /\ i + 1 \in DOMAIN queue
  <2>1. queue' \in Seq(Buffers) BY DEF IInv, TypeOK
  <2> QED BY <1>5, <1>6, <1>7, <2>1, HeadTailProperties, LenProperties
<1>9. SubBuffers <= Complete
  <2>1. Last(queue[1]) \in done /\ 1 \in DOMAIN queue /\ SubBuffers \in 1..SubBuffers
    BY <1>6, <1>7 DEF FrameEvent
  <2>2. Pos(1, SubBuffers) = SubBuffers BY DEF Pos
  <2> QED BY <2>1, <2>2 DEF InStep, Last
<1>10. Len(queue') * SubBuffers = n * SubBuffers - SubBuffers BY <1>7, <1>8
<1>11. Complete' = Complete - SubBuffers /\ Complete \in Nat BY <1>2, <1>6, <1>10 DEF Complete, InStep
<1>12. Len(isoch) <= Len(queue') * SubBuffers BY <1>6, <1>9, <1>10 DEF Complete
<1>13. ASSUME NEW q \in 1..(n - 1), NEW p \in 1..SubBuffers
       PROVE  IF Pos(q, p) <= Complete'
              THEN <<queue'[q], p>> \in done
              ELSE /\ <<queue'[q], p>> \notin done
                   /\ isoch[Pos(q, p) - Complete'] = <<queue'[q], p>>
  <2>1. q \in Nat \ {0} BY <1>7
  <2>2. Pos(q + 1, p) = Pos(q, p) + SubBuffers /\ Pos(q, p) \in Nat BY <2>1, PosOrder
  <2>3. Pos(q, p) <= Complete' <=> Pos(q + 1, p) <= Complete BY <1>11, <2>2
  <2>4. Pos(q, p) - Complete' = Pos(q + 1, p) - Complete BY <1>11, <2>2
  <2>5. queue'[q] = queue[q + 1] /\ q + 1 \in DOMAIN queue BY <1>8
  <2> QED BY <2>3, <2>4, <2>5 DEF InStep
<1>14. InStep' BY <1>2, <1>8, <1>12, <1>13 DEF InStep
<1>15. InOrder'
  <2> SUFFICES ASSUME NEW k \in DOMAIN queue', Last(queue'[k]) \in done,
                      stamp[queue'[k]] < MaxFrames
               PROVE  /\ \A j \in 1..(k - 1) : stamp[queue'[j]] < stamp[queue'[k]]
                      /\ stamp[queue[1]] < stamp[queue'[k]]
    BY <1>2, <1>5, <1>7 DEF InOrder, Last
  <2>1. k \in 1..(n - 1) /\ queue'[k] = queue[k + 1] /\ k + 1 \in DOMAIN queue BY <1>8
  <2>2. \A j \in 1..k : stamp[queue[j]] < stamp[queue[k + 1]] BY <2>1 DEF InOrder
  <2>3. \A j \in 1..(k - 1) : queue'[j] = queue[j + 1] /\ j + 1 \in 1..k BY <1>7, <1>8, <2>1
  <2> QED BY <1>7, <2>1, <2>2, <2>3
<1> QED BY <1>4, <1>14, <1>15 DEF OInv

LEMMA StartOrder ==
    ASSUME OInv, NEW startStream \in BOOLEAN, StartImageAcquisitionEx(startStream)
    PROVE  OInv'
<1> USE CamAssumption
<1>1. IInv /\ IInv' BY StartStep DEF OInv
<1>2. /\ queue' = NewQueue /\ isoch' = AllParts /\ done' = {}
      /\ stamp' = [b \in Buffers |-> 0] /\ frames' = frames
  BY DEF StartImageAcquisitionEx
<1>3. StampsOld' BY <1>1, <1>2 DEF StampsOld, IInv, TypeOK
<1>4. /\ Len(queue') = N /\ DOMAIN queue' = 1..N /\ \A q \in 1..N : queue'[q] = q
  BY <1>2 DEF NewQueue, Buffers
<1>5. N * SubBuffers \in Nat OBVIOUS
<1>6. Len(isoch') = N * SubBuffers BY <1>2, <1>5 DEF AllParts
<1>7. Complete' = 0 BY <1>4, <1>5, <1>6 DEF Complete
<1>8. ASSUME NEW q \in 1..N, NEW p \in 1..SubBuffers
      PROVE  /\ Pos(q, p) > 0 /\ Pos(q, p) - 0 = Pos(q, p)
             /\ isoch'[Pos(q, p)] = <<queue'[q], p>>
  <2>1. Pos(q, p) \in 1..(N * SubBuffers) BY PosLast
  <2> QED BY <1>2, <1>4, <2>1, AllPartsAt
<1>9. Len(isoch') <= Len(queue') * SubBuffers BY <1>4, <1>5, <1>6
<1>10. InStep' 
  <2> SUFFICES ASSUME NEW q \in DOMAIN queue', NEW p \in 1..SubBuffers
               PROVE  IF Pos(q, p) <= Complete'
                      THEN <<queue'[q], p>> \in done'
                      ELSE /\ <<queue'[q], p>> \notin done'
                           /\ isoch'[Pos(q, p) - Complete'] = <<queue'[q], p>>
    BY <1>9 DEF InStep
  <2>1. Pos(q, p) \in 1..(N * SubBuffers) BY <1>4, PosLast
  <2> QED BY <1>2, <1>4, <1>7, <1>8, <2>1
<1>11. InOrder' BY <1>2 DEF InOrder
<1> QED BY <1>1, <1>3, <1>10, <1>11 DEF OInv

LEMMA StartFailsOrder ==
    ASSUME OInv, NEW startStream \in BOOLEAN, StartImageAcquisitionEx_Fails(startStream)
    PROVE  OInv'
<1> USE CamAssumption
<1>1. IInv /\ IInv' BY StartFailsStep DEF OInv
<1>2. stamp' = [b \in Buffers |-> 0] /\ frames' = frames /\ pc' = "stop"
  BY DEF StartImageAcquisitionEx_Fails
<1>3. StampsOld' BY <1>1, <1>2 DEF StampsOld, IInv, TypeOK
<1> QED BY <1>1, <1>2, <1>3 DEF OInv, Acquiring

LEMMA StopOrder == OInv /\ Stop => OInv'
<1> SUFFICES ASSUME OInv, Stop PROVE OInv' OBVIOUS
<1>1. IInv' BY ReleaseStep, FreeStep DEF OInv, Stop
<1>2. UNCHANGED <<frames, stamp>> /\ ~Acquiring'
  BY DEF Stop, StopImageAcquisition_Release, StopImageAcquisition_Free, camera, Acquiring
<1> QED BY <1>1, <1>2 DEF OInv, StampsOld

\* The steps that leave the list, the driver and the frames alone.
LEMMA OtherOrder ==
    ASSUME OInv, IInv', UNCHANGED <<m_hDeviceAcquisition, ring, driver, frames, stamp>>,
           Acquiring' => Acquiring
    PROVE  OInv'
<1>1. UNCHANGED <<queue, m_pCurrentBuffer, isoch, done>> BY DEF ring, driver
<1>2. InStep => InStep' BY <1>1 DEF InStep, Complete
<1>3. InOrder => InOrder' BY <1>1 DEF InOrder, Last
<1> QED BY <1>2, <1>3 DEF OInv, StampsOld

\* InitCamera touches the driver only when nothing is acquired.
LEMMA InitCameraOrder == OInv /\ InitCamera => OInv'
<1> SUFFICES ASSUME OInv, InitCamera PROVE OInv' OBVIOUS
<1>1. IInv' BY InitCameraStep DEF OInv
<1>2. UNCHANGED <<m_hDeviceAcquisition, ring, pc, frames, stamp>>
  BY DEF InitCamera, camera
<1>3. CASE m_hDeviceAcquisition
  <2>1. UNCHANGED driver BY <1>3 DEF InitCamera
  <2>2. Acquiring' => Acquiring BY <1>2 DEF Acquiring
  <2> QED BY <1>1, <1>2, <2>1, <2>2, OtherOrder
<1>4. CASE ~m_hDeviceAcquisition
  <2>1. ~Acquiring' BY <1>2, <1>4 DEF Acquiring
  <2>2. StampsOld' BY <1>2 DEF OInv, StampsOld
  <2> QED BY <1>1, <2>1, <2>2 DEF OInv
<1> QED BY <1>3, <1>4

LEMMA OrderNext == AttachedAsAWhole /\ OInv /\ [Next]_vars => OInv'
<1> SUFFICES ASSUME AttachedAsAWhole, OInv, [Next]_vars PROVE OInv' OBVIOUS
<1>0. IInv /\ IInv' BY NextInv DEF OInv
<1>1. CASE Frame BY <1>1, FrameOrder
<1>2. ASSUME NEW startStream \in BOOLEAN,
             \/ StartImageAcquisitionEx(startStream)
             \/ StartImageAcquisitionEx_Fails(startStream)
      PROVE  OInv'
  BY <1>2, StartOrder, StartFailsOrder
<1>3. CASE Stop BY <1>3, StopOrder
<1>4. CASE AcquireImageEx_Attach BY <1>4, AttachOrder
<1>5. CASE AcquireImageEx_AttachFails BY <1>5, AttachFailsOrder
<1>6. CASE AcquireImageEx_Poll
  <2>1. CASE FrameEvent
    <3>1. bWaited' \in BOOLEAN BY <1>0, <1>6 DEF AcquireImageEx_Poll, IInv, TypeOK, call
    <3> QED BY <1>6, <2>1, <3>1, TakeOrder DEF AcquireImageEx_Poll, call
  <2>2. CASE ~FrameEvent
    <3>1. UNCHANGED <<m_hDeviceAcquisition, ring, driver, frames, stamp>> /\ pc = "poll"
      BY <1>6, <2>2 DEF AcquireImageEx_Poll, device, camera
    <3>2. Acquiring' => Acquiring BY <3>1 DEF Acquiring
    <3> QED BY <1>0, <3>1, <3>2, OtherOrder
  <2> QED BY <2>1, <2>2
<1>7. CASE AcquireImageEx_Waited BY <1>7, TakeOrder DEF AcquireImageEx_Waited
<1>8. ASSUME \/ StartVideoStream \/ StartImageAcquisitionEx_Refused
             \/ StopImageAcquisition \/ AcquireImageEx_Timeout \/ AcquireImageEx_Error
             \/ \E drop \in BOOLEAN : AcquireImageEx(drop)
             \/ UNCHANGED vars
      PROVE  OInv'
  <2>1. UNCHANGED <<m_hDeviceAcquisition, ring, driver, frames, stamp>>
    BY <1>8 DEF StartVideoStream, StartImageAcquisitionEx_Refused, vars,
       StopImageAcquisition, AcquireImageEx_Timeout, AcquireImageEx_Error, AcquireImageEx,
       device, camera
  <2>2. pc \in {"stop", "free"} => pc' \in {"stop", "free"}
    BY <1>8 DEF StartVideoStream, StartImageAcquisitionEx_Refused, vars,
       StopImageAcquisition, AcquireImageEx_Timeout, AcquireImageEx_Error, AcquireImageEx
  <2>3. Acquiring' => Acquiring BY <2>1, <2>2 DEF Acquiring
  <2> QED BY <1>0, <2>1, <2>3, OtherOrder
<1>9. CASE InitCamera BY <1>9, InitCameraOrder
<1> QED BY <1>1, <1>2, <1>3, <1>4, <1>5, <1>6, <1>7, <1>8, <1>9 DEF Next, Acquire, Fail

LEMMA OrderInductive == AttachedAsAWhole /\ Spec => []OInv
<1>1. Init => OInv
  <2> SUFFICES ASSUME Init PROVE OInv OBVIOUS
  <2>1. IInv /\ ~Acquiring BY InitInv DEF Init, Acquiring
  <2>2. StampsOld BY DEF Init, StampsOld
  <2> QED BY <2>1, <2>2 DEF OInv
<1>2. CASE AttachedAsAWhole
  <2>1. OInv /\ [Next]_vars => OInv' BY <1>2, OrderNext
  <2> QED BY <1>1, <2>1, PTL DEF Spec
<1> QED BY <1>2

\* Through timeouts, errors and restarts the driver's requests are those of the
\* list, in its order, if no attachment fails half-way.
THEOREM DriverKeepsStep == AttachedAsAWhole /\ Spec => []DriverInStep
<1>1. OInv => DriverInStep BY OInvMeans
<1> QED BY <1>1, OrderInductive, PTL

\* Under the same assumption images are handed out in the order of the camera.
THEOREM FramesOrdered == AttachedAsAWhole /\ Spec => []FramesInOrder
<1>1. OInv => FramesInOrder BY OInvMeans
<1> QED BY <1>1, OrderInductive, PTL

\* Under the same assumption the buffer that the application reads is not one
\* that the driver fills.
THEOREM CurrentIsFree == AttachedAsAWhole /\ Spec => []CurrentNotAttached
<1>1. ASSUME OInv, Acquiring, NEW k \in DOMAIN isoch PROVE isoch[k][1] # m_pCurrentBuffer
  <2>1. IInv /\ InStep BY <1>1 DEF OInv
  <2>2. PICK q \in DOMAIN queue, p \in 1..SubBuffers : isoch[k] = <<queue[q], p>>
    BY <1>1, <2>1, IsochListed
  <2> QED BY <1>1, <2>1, <2>2, ListFacts
<1>2. OInv => CurrentNotAttached BY <1>1 DEF CurrentNotAttached, Acquiring
<1> QED BY <1>2, OrderInductive, PTL
=============================================================================
