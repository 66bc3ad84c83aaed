--------------------------- MODULE CamAcquisition ---------------------------
(***************************************************************************)
(* Image acquisition of the 1394 camera library: a ring of frame buffers,  *)
(* of which the application has at most one (m_pCurrentBuffer) and the     *)
(* others wait at the driver in the order in which they were attached.     *)
(* One application thread calls the C1394Camera object while the camera    *)
(* fills buffers.  A buffer larger than the DMA limit has several parts    *)
(* (sub-buffers), each of which is attached and completed on its own.      *)
(***************************************************************************)
EXTENDS Naturals, Sequences, FiniteSets

CONSTANTS
    N,                \* nBuffers
    SubBuffers,       \* nSubBuffers of each buffer
    Timeouts,         \* whether FrameTimeout is finite
    PartialFailures,  \* whether an attachment can fail after its first part
    TearDownFailures, \* whether t1394IsochTearDownStream can fail
    MaxHandles,       \* bound of the model: device handles left open
    MaxFrames,        \* bound of the model: frames are numbered up to it
    NULL

ASSUME CamAssumption ==
    /\ N \in Nat \ {0} /\ SubBuffers \in Nat \ {0}
    /\ Timeouts \in BOOLEAN /\ PartialFailures \in BOOLEAN
    /\ TearDownFailures \in BOOLEAN
    /\ MaxHandles \in Nat /\ MaxFrames \in Nat /\ NULL \notin Nat

Buffers == 1..N
Parts == Buffers \X (1..SubBuffers)

VARIABLES
    m_cameraInitialized,
    m_hDeviceAcquisition,   \* whether it is a handle
    handles,                \* device handles that StartImageAcquisitionEx has open
    m_AcquisitionFlags,     \* whether ACQ_START_VIDEO_STREAM is set
    queue,                  \* the list from m_pLastBuffer (oldest) to m_pFirstBuffer
    m_pCurrentBuffer,
    pc, ret,                \* where the application is; what its last call returns
    bWaited, DropStaleFrames,
    mustNotBlock,           \* history: GetFrameEvent was signalled when the call began
    isoch,                  \* the parts attached at the driver, in order
    done,                   \* the parts whose request is complete
    listening, streaming,   \* the driver; the camera
    frames, stamp           \* frames sent; stamp[b]: number of the frame in b

call == <<bWaited, DropStaleFrames, mustNotBlock>>
ring == <<queue, m_pCurrentBuffer>>
device == <<m_cameraInitialized, m_hDeviceAcquisition, handles, m_AcquisitionFlags>>
driver == <<isoch, done, listening>>
camera == <<streaming, frames, stamp>>
vars == <<device, ring, pc, ret, call, driver, camera>>

PCs == {"idle", "attach", "poll", "wait", "stop", "free"}
Rets == {"SUCCESS", "ERROR", "NOT_INITIALIZED", "BUSY", "FRAME_TIMEOUT"}

TypeOK ==
    /\ m_cameraInitialized \in BOOLEAN /\ m_hDeviceAcquisition \in BOOLEAN
    /\ handles \in Nat /\ m_AcquisitionFlags \in BOOLEAN
    /\ queue \in Seq(Buffers) /\ m_pCurrentBuffer \in Buffers \cup {NULL}
    /\ pc \in PCs /\ ret \in Rets
    /\ bWaited \in BOOLEAN /\ DropStaleFrames \in BOOLEAN /\ mustNotBlock \in BOOLEAN
    /\ isoch \in Seq(Parts) /\ done \in SUBSET Parts
    /\ listening \in BOOLEAN /\ streaming \in BOOLEAN
    /\ frames \in 0..MaxFrames /\ stamp \in [Buffers -> 0..MaxFrames]

\* A camera has been selected and InitCamera has succeeded.
Init ==
    /\ m_cameraInitialized = TRUE /\ m_hDeviceAcquisition = FALSE
    /\ handles = 0 /\ m_AcquisitionFlags = FALSE
    /\ queue = <<>> /\ m_pCurrentBuffer = NULL
    /\ pc = "idle" /\ ret = "SUCCESS"
    /\ bWaited = FALSE /\ DropStaleFrames = FALSE /\ mustNotBlock = FALSE
    /\ isoch = <<>> /\ done = {}
    /\ listening = FALSE /\ streaming = FALSE
    /\ frames = 0 /\ stamp = [b \in Buffers |-> 0]

Last(b) == <<b, SubBuffers>>
PartsOf(b, n) == [i \in 1..n |-> <<b, i>>]

-----------------------------------------------------------------------------
(* The camera and the driver. *)

\* The first attached part is filled and its request completed.
Frame ==
    /\ listening /\ streaming /\ isoch # <<>>
    /\ isoch' = Tail(isoch) /\ done' = done \cup {Head(isoch)}
    /\ IF Head(isoch)[2] = SubBuffers
       THEN /\ frames' = IF frames < MaxFrames THEN frames + 1 ELSE frames
            /\ stamp' = [stamp EXCEPT ![Head(isoch)[1]] = frames']
       ELSE UNCHANGED <<frames, stamp>>
    /\ UNCHANGED <<device, ring, pc, ret, call, listening, streaming>>

\* Faulty: the events are reset but no request is issued.
Attach_Skipped(b) == UNCHANGED isoch /\ done' = done \ ({b} \X (1..SubBuffers))

\* dc1394AttachAcquisitionBuffer: the parts are attached one by one, and the
\* first failure ends it.
Attach(b) ==
    /\ isoch' = isoch \o PartsOf(b, SubBuffers)
    /\ done' = done \ ({b} \X (1..SubBuffers))

AttachFails(b) ==
    \E n \in 0..(IF PartialFailures THEN SubBuffers - 1 ELSE 0) :
        /\ isoch' = isoch \o PartsOf(b, n)
        /\ done' = done \ ({b} \X (1..n))

\* FreeResources: the tear-down detaches, and so completes, what is attached.
\* When the driver cannot stop the stream it does nothing.
FreeResources ==
    \/ isoch' = <<>> /\ done' = Parts /\ listening' = FALSE
    \/ TearDownFailures /\ UNCHANGED driver

-----------------------------------------------------------------------------
(* Initialisation, start and stop. *)

\* m_cameraInitialized is cleared before the busy check; a stream that was left
\* behind is torn down.
InitCamera ==
    /\ pc = "idle"
    /\ \/ /\ m_hDeviceAcquisition
          /\ m_cameraInitialized' = FALSE /\ ret' = "BUSY"
          /\ UNCHANGED driver
       \/ /\ ~m_hDeviceAcquisition /\ FreeResources
          /\ \E ok \in BOOLEAN :
                /\ m_cameraInitialized' = ok
                /\ ret' = IF ok THEN "SUCCESS" ELSE "ERROR"
    /\ UNCHANGED <<m_hDeviceAcquisition, handles, m_AcquisitionFlags, ring, pc, call, camera>>

\* Faulty: the buffers are chained in the wrong order.
NewQueue_Reversed == [i \in Buffers |-> N + 1 - i]

NewQueue == [i \in Buffers |-> i]

\* What StartImageAcquisitionEx attaches, buffer by buffer.
AllParts == [k \in 1..(N * SubBuffers) |->
                <<((k - 1) \div SubBuffers) + 1, ((k - 1) % SubBuffers) + 1>>]

StartImageAcquisitionEx(startStream) ==
    /\ pc = "idle" /\ ~m_hDeviceAcquisition /\ m_cameraInitialized
    /\ handles < MaxHandles
    /\ m_AcquisitionFlags' = startStream
    /\ queue' = NewQueue /\ m_pCurrentBuffer' = NULL
    /\ isoch' = AllParts /\ done' = {} /\ listening' = TRUE
    /\ streaming' = (streaming \/ startStream)
    /\ stamp' = [b \in Buffers |-> 0]
    /\ m_hDeviceAcquisition' = TRUE /\ handles' = handles + 1
    /\ ret' = "SUCCESS"
    /\ UNCHANGED <<m_cameraInitialized, pc, call, frames>>

\* Every failure ends in StopImageAcquisition: before anything is set up,
\* also when the camera is busy;
StartImageAcquisitionEx_Refused ==
    /\ pc = "idle" /\ pc' = "stop"
    /\ \/ m_hDeviceAcquisition /\ ret' = "BUSY"
       \/ ~m_hDeviceAcquisition /\ ~m_cameraInitialized /\ ret' = "NOT_INITIALIZED"
       \/ ~m_hDeviceAcquisition /\ m_cameraInitialized /\ ret' = "ERROR"
    /\ UNCHANGED <<device, ring, call, driver, camera>>

\* or later: the resources, a buffer or the handle could not be had; or, with
\* the device open, a buffer could not be attached or the stream not be
\* started.  The handle is in a local variable until the last line.
StartImageAcquisitionEx_Fails(startStream) ==
    /\ pc = "idle" /\ ~m_hDeviceAcquisition /\ m_cameraInitialized
    /\ handles < MaxHandles
    /\ m_AcquisitionFlags' = startStream
    /\ m_pCurrentBuffer' = NULL /\ stamp' = [b \in Buffers |-> 0]
    /\ \/ /\ \E n \in 0..N : queue' = [i \in 1..n |-> i]
          /\ handles' = handles /\ isoch' = <<>> /\ listening' = FALSE
       \/ /\ queue' = NewQueue /\ handles' = handles + 1
          /\ \/ \E n \in 0..(N * SubBuffers) :
                  isoch' = SubSeq(AllParts, 1, n) /\ listening' = FALSE
             \/ isoch' = AllParts /\ listening' = TRUE
    /\ done' = {}
    /\ ret' = "ERROR" /\ pc' = "stop"
    /\ UNCHANGED <<m_cameraInitialized, m_hDeviceAcquisition, call, streaming, frames>>

StopImageAcquisition ==
    /\ pc = "idle" /\ pc' = "stop" /\ ret' = "SUCCESS"
    /\ UNCHANGED <<device, ring, call, driver, camera>>

\* StopVideoStream, whose failure is not looked at; FreeResources; and the
\* current buffer goes back to the front of the list.
StopImageAcquisition_Release ==
    /\ pc = "stop" /\ pc' = "free"
    /\ IF m_AcquisitionFlags THEN streaming' \in {FALSE, streaming} ELSE UNCHANGED streaming
    /\ FreeResources
    /\ queue' = IF m_pCurrentBuffer = NULL THEN queue ELSE <<m_pCurrentBuffer>> \o queue
    /\ UNCHANGED <<device, m_pCurrentBuffer, ret, call, frames, stamp>>

\* GetOverlappedResult waits for the requests of all other buffers.
Released == \A k \in DOMAIN isoch : isoch[k][1] = m_pCurrentBuffer

StopImageAcquisition_Free ==
    /\ pc = "free" /\ pc' = "idle" /\ Released
    /\ queue' = <<>> /\ m_pCurrentBuffer' = NULL
    /\ handles' = IF m_hDeviceAcquisition THEN handles - 1 ELSE handles
    /\ m_hDeviceAcquisition' = FALSE /\ m_AcquisitionFlags' = FALSE
    /\ UNCHANGED <<m_cameraInitialized, ret, call, driver, camera>>

StartVideoStream ==
    /\ pc = "idle" /\ streaming' \in BOOLEAN \ {streaming}
    /\ UNCHANGED <<device, ring, pc, ret, call, driver, frames, stamp>>

-----------------------------------------------------------------------------
(* AcquireImageEx. *)

FrameEvent == queue # <<>> /\ Last(Head(queue)) \in done

AcquireImageEx(drop) ==
    /\ pc = "idle"
    /\ IF m_hDeviceAcquisition
       THEN pc' = "attach" /\ UNCHANGED ret
       ELSE ret' = "NOT_INITIALIZED" /\ UNCHANGED pc
    /\ DropStaleFrames' = drop /\ bWaited' = FALSE
    /\ mustNotBlock' = FrameEvent
    /\ UNCHANGED <<device, ring, driver, camera>>

\* Faulty: the oldest buffer is overtaken.
Requeued_Front == <<m_pCurrentBuffer>> \o queue

\* The current buffer goes to the end of the list.
Requeued == Append(queue, m_pCurrentBuffer)

\* The top of the loop: the current buffer is attached again.
AcquireImageEx_Attach ==
    /\ pc = "attach" /\ pc' = "poll"
    /\ IF m_pCurrentBuffer = NULL
       THEN UNCHANGED <<ring, driver>>
       ELSE /\ Attach(m_pCurrentBuffer)
            /\ queue' = Requeued /\ m_pCurrentBuffer' = NULL
            /\ UNCHANGED listening
    /\ UNCHANGED <<device, ret, call, camera>>

AcquireImageEx_AttachFails ==
    /\ pc = "attach" /\ m_pCurrentBuffer # NULL
    /\ AttachFails(m_pCurrentBuffer)
    /\ pc' = "idle" /\ ret' = "ERROR"
    /\ UNCHANGED <<device, ring, call, listening, camera>>

\* Faulty: the buffer stays in the list.
TakeOldest_Kept == m_pCurrentBuffer' = Head(queue) /\ UNCHANGED queue

\* The oldest buffer becomes the current one.
TakeOldest == m_pCurrentBuffer' = Head(queue) /\ queue' = Tail(queue)

\* The end of the loop.
LoopOrReturn ==
    IF DropStaleFrames /\ ~bWaited'
    THEN pc' = "attach" /\ UNCHANGED ret
    ELSE pc' = "idle" /\ ret' = "SUCCESS"

AcquireImageEx_Poll ==
    /\ pc = "poll"
    /\ UNCHANGED <<device, call, driver, camera>>
    /\ IF FrameEvent
       THEN TakeOldest /\ LoopOrReturn
       ELSE pc' = "wait" /\ UNCHANGED <<ring, ret>>

AcquireImageEx_Waited ==
    /\ pc = "wait" /\ FrameEvent
    /\ bWaited' = TRUE /\ TakeOldest /\ LoopOrReturn
    /\ UNCHANGED <<device, DropStaleFrames, mustNotBlock, driver, camera>>

AcquireImageEx_Timeout ==
    /\ pc = "wait" /\ Timeouts /\ ~FrameEvent
    /\ pc' = "idle" /\ ret' = "FRAME_TIMEOUT"
    /\ UNCHANGED <<device, ring, call, driver, camera>>

\* GetOverlappedResult or WaitForSingleObject reports an error.
AcquireImageEx_Error ==
    /\ pc \in {"poll", "wait"} /\ pc' = "idle" /\ ret' = "ERROR"
    /\ UNCHANGED <<device, ring, call, driver, camera>>

-----------------------------------------------------------------------------
Acquire == AcquireImageEx_Attach \/ AcquireImageEx_Poll \/ AcquireImageEx_Waited

Fail == AcquireImageEx_AttachFails \/ AcquireImageEx_Error

Stop == StopImageAcquisition_Release \/ StopImageAcquisition_Free

Next ==
    \/ Frame \/ InitCamera \/ StartVideoStream
    \/ \E startStream \in BOOLEAN :
          StartImageAcquisitionEx(startStream) \/ StartImageAcquisitionEx_Fails(startStream)
    \/ StartImageAcquisitionEx_Refused \/ StopImageAcquisition \/ Stop
    \/ \E drop \in BOOLEAN : AcquireImageEx(drop)
    \/ Acquire \/ AcquireImageEx_Timeout \/ Fail

Spec == Init /\ [][Next]_vars

\* A thread inside a call goes on when it can, and the camera sends frames
\* while it streams; no timeout or error ever has to occur.
FairSpec == Spec /\ WF_vars(Acquire) /\ WF_vars(Stop) /\ WF_vars(Frame)

-----------------------------------------------------------------------------
(* Properties. *)

Listed == {queue[k] : k \in DOMAIN queue}

\* While images are acquired, whatever failed or timed out in between, each
\* buffer is either the current one or in the list, once: none is lost by
\* an error path of AcquireImageEx and none is listed twice.
BuffersKept ==
    m_hDeviceAcquisition /\ pc # "free" =>
        /\ \A j, k \in DOMAIN queue : queue[j] = queue[k] => j = k
        /\ m_pCurrentBuffer \notin Listed
        /\ Listed \cup ({m_pCurrentBuffer} \ {NULL}) = Buffers

\* AcquireImageEx reads through m_pLastBuffer without a check: when it polls
\* or waits, the list is not empty, with one buffer as with several.
PollsABuffer == pc \in {"poll", "wait"} => queue # <<>>

\* When no images are acquired nothing is left: no buffer is listed, and the
\* buffer that GetRawData hands out is not one that has been freed.
StoppedIsEmpty ==
    pc = "idle" /\ ~m_hDeviceAcquisition => queue = <<>> /\ m_pCurrentBuffer = NULL

\* The driver has the buffers in the order of the list: the parts at the head
\* of the list are complete, and those after them are, one by one, what the
\* driver still has to fill.
DriverInStep ==
    m_hDeviceAcquisition /\ pc \notin {"stop", "free"} =>
        LET complete == Len(queue) * SubBuffers - Len(isoch) IN
        /\ Len(isoch) <= Len(queue) * SubBuffers
        /\ \A q \in DOMAIN queue, p \in 1..SubBuffers :
              LET k == (q - 1) * SubBuffers + p IN
              IF k <= complete
              THEN <<queue[q], p>> \in done
              ELSE <<queue[q], p>> \notin done /\ isoch[k - complete] = <<queue[q], p>>

\* Frames reach the application in the order of the camera: a buffer that is
\* ready has a later frame than any that was handed out before or is ahead
\* of it in the list.
FramesInOrder ==
    m_hDeviceAcquisition /\ pc \notin {"stop", "free"} =>
        \A k \in DOMAIN queue : Last(queue[k]) \in done /\ stamp[queue[k]] < MaxFrames =>
            /\ \A j \in 1..(k - 1) : stamp[queue[j]] < stamp[queue[k]]
            /\ m_pCurrentBuffer # NULL => stamp[m_pCurrentBuffer] < stamp[queue[k]]

\* "the buffer pointed to by m_pCurrentBuffer ... is guaranteed to not be
\* attached to the isochronous buffer queue"
CurrentNotAttached ==
    m_hDeviceAcquisition /\ m_pCurrentBuffer # NULL /\ pc \notin {"stop", "free"} =>
        \A k \in DOMAIN isoch : isoch[k][1] # m_pCurrentBuffer

\* "you must call StopImageAcquisition() first": a call that is refused
\* because images are acquired leaves the acquisition as it is.
BusyKeepsAcquiring == ret = "BUSY" /\ pc = "idle" => m_hDeviceAcquisition

\* CAM_ERROR_BUSY "prevents an init in the middle of image acquisition": a
\* camera that acquires images is initialised.
AcquiringIsInitialized == m_hDeviceAcquisition => m_cameraInitialized

\* StopImageAcquisition "frees all resources (memory, bandwidth, events,
\* handles, etc.) allocated by StartImageAcquisitionEx()".
HandlesClosed == pc = "idle" /\ ~m_hDeviceAcquisition => handles = 0

\* "Once this event is triggered, the next call to AcquireImageEx() is
\* guaranteed not to block."
SignalledDoesNotBlock == mustNotBlock => pc # "wait"

\* A call that does not drop stale frames returns while the camera streams,
\* with an infinite timeout too: a buffer it waits for is at the driver.
AcquireEnds == pc = "attach" /\ streaming /\ ~DropStaleFrames ~> pc = "idle"

\* StopImageAcquisition "traces [an error], but then continues on to free
\* whatever remaining resource it can": it returns.
StopEnds == pc = "stop" ~> pc = "idle"
=============================================================================
