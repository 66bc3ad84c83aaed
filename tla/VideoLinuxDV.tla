---------------------------- MODULE VideoLinuxDV ----------------------------
(***************************************************************************)
(* Video capture from a DV camera (VideoLinuxDV/video.c).  A capture       *)
(* thread receives the packets of the camera and puts them together to a   *)
(* frame in buff_in; a complete frame is exchanged with buff_wait, and     *)
(* the application exchanges buff_wait with buff_out, each under the       *)
(* mutex, and decodes buff_out without it.                                 *)
(***************************************************************************)
EXTENDS Naturals

CONSTANTS
    N,            \* packets of a frame (ARV_PACKET_NUM_NTSC, _PAL)
    Size,         \* packets that a buffer holds (ARV_BUF_FRAME_DATA)
    Threads,      \* bound of the model: capture threads ever started
    MaxFrames,    \* bound of the model: frames that the camera sends
    HeadersLost,  \* whether the first packet of a frame can be lost
    NoThread

ASSUME DVAssumption ==
    /\ HeadersLost \in BOOLEAN
    /\ N \in Nat \ {0, 1} /\ Size \in Nat /\ Size > N
    /\ MaxFrames \in Nat /\ NoThread \notin Threads

Buffers == 1..3
Slots == 1..Size

VARIABLES
    status,                  \* 0 opened, 1 capturing, 2 stopped
    packet_num,
    buff_in, buff_wait, buff_out,
    fill_size_in, fill_size_wait, fill_size_out,
    data,                    \* data[b][i]: the frame of the i-th packet in b
    loop,                    \* loop[t]: where the capture thread t is
    capture,                 \* the thread that Close will join
    app,                     \* where the application is
    f,                       \* whether the DV header is still to be parsed
    image,                   \* image[i]: the frame of the i-th packet decoded
    resets,                  \* whether the tenth bus reset has happened
    frame, packet,           \* the camera's next packet is this one of this frame
    published                \* history: the newest frame that was completed

inVars == <<packet_num, buff_in, fill_size_in>>
waitVars == <<buff_wait, fill_size_wait, published>>
outVars == <<buff_out, fill_size_out, f, image>>
camera == <<frame, packet>>
vars == <<status, inVars, waitVars, outVars, data, loop, capture, app, resets, camera>>

LoopPCs == {"none", "check", "iterate", "stopped", "gone"}

TypeOK ==
    /\ status \in 0..2 /\ packet_num \in 0..(N - 1)
    /\ {buff_in, buff_wait, buff_out} \subseteq Buffers
    /\ {fill_size_in, fill_size_wait, fill_size_out} \subseteq 0..Size
    /\ data \in [Buffers -> [Slots -> 0..MaxFrames]]
    /\ loop \in [Threads -> LoopPCs] /\ capture \in Threads \cup {NoThread}
    /\ app \in {"idle", "decode", "join", "closed"}
    /\ f \in BOOLEAN /\ image \in [1..N -> 0..MaxFrames] /\ resets \in BOOLEAN
    /\ frame \in 1..(MaxFrames + 1) /\ packet \in 1..N /\ published \in 0..MaxFrames

\* ar2VideoOpen
Init ==
    /\ status = 0 /\ packet_num = 0
    /\ buff_in = 1 /\ buff_wait = 2 /\ buff_out = 3
    /\ fill_size_in = 0 /\ fill_size_wait = 0 /\ fill_size_out = 0
    /\ data = [b \in Buffers |-> [i \in Slots |-> 0]]
    /\ loop = [t \in Threads |-> "none"] /\ capture = NoThread /\ app = "idle"
    /\ f = TRUE /\ image = [i \in 1..N |-> 0] /\ resets = FALSE
    /\ frame = 1 /\ packet = 1 /\ published = 0

-----------------------------------------------------------------------------
(* The capture thread. *)

Receiving == \E t \in Threads : loop[t] \in {"check", "iterate"}

Advance ==
    /\ frame <= MaxFrames
    /\ IF packet = N
       THEN frame' = frame + 1 /\ packet' = 1
       ELSE packet' = packet + 1 /\ UNCHANGED frame

\* A packet that nobody receives is lost, others may be.
PacketLost ==
    /\ Advance /\ (Receiving => HeadersLost \/ packet # 1)
    /\ UNCHANGED <<status, inVars, waitVars, outVars, data, loop, capture, app, resets>>

\* ar2VideoBufferWrite, for a buffer that is filled up to fill.
Write(fill) ==
    data' = IF fill < Size THEN [data EXCEPT ![buff_in][fill + 1] = frame] ELSE data

Filled(fill) == IF fill < Size THEN fill + 1 ELSE Size

\* Faulty: a packet like any other.
Header_Counted ==
    /\ packet_num' = packet_num + 1
    /\ Write(fill_size_in) /\ fill_size_in' = Filled(fill_size_in)
    /\ UNCHANGED <<buff_in, waitVars>>

\* The first packet of a frame.  In the middle of a frame it drops what there
\* is (flag 2), but not after a restart, where packet_num is 0.
Header ==
    LET fill == IF packet_num = 0 THEN fill_size_in ELSE 0 IN
    /\ packet_num' = 1
    /\ Write(fill) /\ fill_size_in' = Filled(fill)
    /\ UNCHANGED <<buff_in, waitVars>>

\* A further packet, but the last one.
Middle ==
    /\ packet_num' = packet_num + 1
    /\ Write(fill_size_in) /\ fill_size_in' = Filled(fill_size_in)
    /\ UNCHANGED <<buff_in, waitVars>>

\* The last one: flag 1.
Last ==
    /\ packet_num' = 0
    /\ Write(fill_size_in)
    /\ buff_in' = buff_wait /\ buff_wait' = buff_in
    /\ fill_size_wait' = Filled(fill_size_in) /\ fill_size_in' = 0
    /\ published' = frame

Ignored == UNCHANGED <<inVars, waitVars, data>>

\* ar2VideoRawISOHandler
RawISOHandler(t) ==
    /\ loop[t] = "iterate" /\ Advance
    /\ \/ packet = 1 /\ Header
       \/ packet # 1 /\ packet_num = 0 /\ Ignored
       \/ packet # 1 /\ packet_num \in 1..(N - 2) /\ Middle
       \/ packet # 1 /\ packet_num = N - 1 /\ Last
    /\ loop' = [loop EXCEPT ![t] = "check"]
    /\ UNCHANGED <<status, outVars, capture, app, resets>>

\* A packet that is not a big one.
SmallPacket(t) ==
    /\ loop[t] = "iterate" /\ loop' = [loop EXCEPT ![t] = "check"]
    /\ UNCHANGED <<status, inVars, waitVars, outVars, data, capture, app, resets, camera>>

\* ar2VideoBusResetHandler; only the tenth reset does anything.
BusResetHandler(t) ==
    /\ loop[t] = "iterate" /\ ~resets
    /\ resets' = TRUE /\ status' = 0
    /\ loop' = [loop EXCEPT ![t] = "check"]
    /\ UNCHANGED <<inVars, waitVars, outVars, data, capture, app, camera>>

\* Faulty: only a stop leads out of the inner loop.
Capture_UntilStopped(t) ==
    /\ loop[t] \in {"check", "stopped"}
    /\ loop' = [loop EXCEPT ![t] = IF status = 2 THEN "stopped" ELSE "iterate"]
    /\ UNCHANGED <<status, inVars, waitVars, outVars, data, capture, app, resets, camera>>

\* ar2VideoCapture: iterate while capturing, sleep while stopped, else end.
Capture(t) ==
    /\ loop[t] \in {"check", "stopped"}
    /\ loop' = [loop EXCEPT ![t] =
           IF status = 1 THEN "iterate" ELSE IF status = 2 THEN "stopped" ELSE "gone"]
    /\ UNCHANGED <<status, inVars, waitVars, outVars, data, capture, app, resets, camera>>

-----------------------------------------------------------------------------
(* The application. *)

\* A second thread can be started after the tenth reset only.
CapStart ==
    /\ app = "idle" /\ status = 0
    /\ status' = 1 /\ packet_num' = 0
    /\ \E t \in Threads :
          /\ loop[t] = "none"
          /\ loop' = [loop EXCEPT ![t] = "check"] /\ capture' = t
    /\ UNCHANGED <<buff_in, fill_size_in, waitVars, outVars, data, app, resets, camera>>

CapStop ==
    /\ app = "idle" /\ status = 1 /\ status' = 2
    /\ UNCHANGED <<inVars, waitVars, outVars, data, loop, capture, app, resets, camera>>

\* Faulty: a frame that was read stays readable.
GetImage_SizeKept ==
    /\ app = "idle"
    /\ buff_wait' = buff_out /\ buff_out' = buff_wait
    /\ fill_size_out' = fill_size_wait /\ UNCHANGED fill_size_wait
    /\ app' = IF fill_size_out' = N THEN "decode" ELSE "idle"
    /\ UNCHANGED <<status, inVars, published, f, image, data, loop, capture, resets, camera>>

\* ar2VideoBufferReadDV, the part under the mutex.  An incomplete frame is
\* no image.
GetImage ==
    /\ app = "idle"
    /\ buff_wait' = buff_out /\ buff_out' = buff_wait
    /\ fill_size_out' = fill_size_wait /\ fill_size_wait' = 0
    /\ app' = IF fill_size_out' = N THEN "decode" ELSE "idle"
    /\ UNCHANGED <<status, inVars, published, f, image, data, loop, capture, resets, camera>>

\* The rest of it.  The first header is parsed from the image, which is not
\* initialised: it may or may not have the size of the mode.
GetImage_Decode ==
    /\ app = "decode" /\ app' = "idle"
    /\ \/ f' = FALSE /\ image' = [i \in 1..N |-> data[buff_out][i]]
       \/ f /\ UNCHANGED <<f, image>>
    /\ UNCHANGED <<status, inVars, waitVars, buff_out, fill_size_out, data, loop, capture,
                   resets, camera>>

\* Only a source that captures or is stopped is closed; otherwise nothing is
\* freed, and the pointer to it is lost all the same.
Close ==
    /\ app = "idle" /\ status' = 0
    /\ app' = IF status = 0 THEN "closed" ELSE "join"
    /\ UNCHANGED <<inVars, waitVars, outVars, data, loop, capture, resets, camera>>

\* pthread_join; the buffers and the image are freed.
Close_Join ==
    /\ app = "join" /\ loop[capture] = "gone" /\ app' = "closed"
    /\ UNCHANGED <<status, inVars, waitVars, outVars, data, loop, capture, resets, camera>>

-----------------------------------------------------------------------------
Thread(t) == RawISOHandler(t) \/ SmallPacket(t) \/ BusResetHandler(t) \/ Capture(t)

Next ==
    \/ PacketLost \/ \E t \in Threads : Thread(t)
    \/ CapStart \/ CapStop \/ GetImage \/ GetImage_Decode \/ Close \/ Close_Join

Spec == Init /\ [][Next]_vars

\* Threads go on: the camera sends small packets when it sends no others.
FairSpec ==
    /\ Spec /\ WF_vars(Close_Join)
    /\ \A t \in Threads : WF_vars(Thread(t))

-----------------------------------------------------------------------------
(* Properties. *)

\* An image is one frame: the capture thread never writes to the buffer that
\* is decoded, and of a frame of which packets are missing nothing is kept
\* for the next one, across restarts too.
WholeImage == \A i \in 1..N : image[i] = image[1]

\* Frames are handed out in the order of the camera, complete and only once,
\* although each of three buffers changes its role at any time.
Source == INSTANCE VideoSource WITH newest <- published, given <- image[1]
ImplementsVideoSource == Source!Spec

\* Close returns: the thread it joins leaves its loop, whatever it does when
\* the source is closed.
CloseEnds == app = "join" ~> app = "closed"

\* arVideoCapStart: "this function coupled with arVideoCapStop, can be call many
\* times in your program": after a stop capturing can be started.
Restartable == app = "idle" /\ status = 2 => ENABLED CapStart
=============================================================================
