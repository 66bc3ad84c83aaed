------------------------- MODULE VideoLinuxDVProofs -------------------------
(***************************************************************************)
(* VideoLinuxDV hands out whole frames, each once and in order, as long as *)
(* the first packet of a frame that is received is not lost.  The          *)
(* invariant follows a frame through the three buffers: what is in buff_in *)
(* belongs to the frame that the camera is sending, unless there is more   *)
(* in it than the packets counted; buff_wait holds the newest complete     *)
(* frame, if it holds one; and what is decoded is older than both.         *)
(***************************************************************************)
EXTENDS VideoLinuxDV, TLAPS

\* The buffers only change places.
Roles == buff_in # buff_wait /\ buff_in # buff_out /\ buff_wait # buff_out

\* While packets are received, and only then, the count of packets is about
\* the frame that the camera sends.
Received == status = 1 => Receiving

Counted ==
    packet_num > 0 =>
      /\ fill_size_in >= packet_num
      /\ Receiving => packet = 1 \/ packet > packet_num

FrameIn ==
    packet_num > 0 /\ fill_size_in = packet_num /\ Receiving =>
      /\ \A i \in 1..packet_num : data[buff_in][i] = data[buff_in][1]
      /\ packet # 1 => data[buff_in][1] = frame

FrameWait ==
    fill_size_wait = N =>
      /\ \A i \in 1..N : data[buff_wait][i] = published
      /\ image[1] < published
      /\ app = "decode" => data[buff_out][1] < published

FrameOut ==
    app = "decode" =>
      /\ \A i \in 1..N : data[buff_out][i] = data[buff_out][1]
      /\ image[1] < data[buff_out][1] /\ data[buff_out][1] <= published

Order == image[1] <= published /\ published < frame

IInv ==
    /\ TypeOK /\ Roles /\ Received /\ Counted /\ FrameIn
    /\ FrameWait /\ FrameOut /\ Order /\ WholeImage

-----------------------------------------------------------------------------
(* Types. *)

LEMMA InitType == Init => TypeOK
<1> SUFFICES ASSUME Init PROVE TypeOK OBVIOUS
<1> USE DVAssumption
<1>1. data \in [Buffers -> [Slots -> 0..MaxFrames]] BY DEF Init
<1>2. image \in [1..N -> 0..MaxFrames] BY DEF Init
<1>3. loop \in [Threads -> LoopPCs] BY DEF Init, LoopPCs
<1>4. {buff_in, buff_wait, buff_out} \subseteq Buffers BY DEF Init, Buffers
<1>5. frame \in 1..(MaxFrames + 1) /\ packet \in 1..N BY DEF Init
<1>6. packet_num \in 0..(N - 1) BY DEF Init
<1>7. {fill_size_in, fill_size_wait, fill_size_out} \subseteq 0..Size BY DEF Init
<1>8. status \in 0..2 /\ published \in 0..MaxFrames BY DEF Init
<1>9. f \in BOOLEAN /\ resets \in BOOLEAN BY DEF Init
<1> QED BY <1>1, <1>2, <1>3, <1>4, <1>5, <1>6, <1>7, <1>8, <1>9 DEF Init, TypeOK

LEMMA AdvanceType ==
  ASSUME TypeOK, Advance
  PROVE  frame' \in 1..(MaxFrames + 1) /\ packet' \in 1..N
  BY DVAssumption DEF TypeOK, Advance

LEMMA WriteType ==
  ASSUME TypeOK, frame <= MaxFrames, NEW fill \in 0..Size, Write(fill)
  PROVE  /\ data' \in [Buffers -> [Slots -> 0..MaxFrames]]
         /\ Filled(fill) \in 0..Size
<1>1. Filled(fill) \in 0..Size BY DVAssumption DEF Filled
<1>2. CASE fill < Size
  <2>1. fill + 1 \in Slots BY <1>2, DVAssumption DEF Slots
  <2>2. frame \in 0..MaxFrames BY DVAssumption DEF TypeOK
  <2>3. [data[buff_in] EXCEPT ![fill + 1] = frame] \in [Slots -> 0..MaxFrames]
    BY <2>2 DEF TypeOK, Buffers
  <2> QED BY <1>1, <1>2, <2>3 DEF Write, TypeOK, Buffers
<1>3. CASE ~(fill < Size) BY <1>1, <1>3 DEF Write, TypeOK
<1> QED BY <1>2, <1>3

LEMMA TypeStep == TypeOK /\ [Next]_vars => TypeOK'
<1> SUFFICES ASSUME TypeOK, [Next]_vars PROVE TypeOK' OBVIOUS
<1> USE DVAssumption DEF TypeOK
<1>1. CASE PacketLost
  BY <1>1, AdvanceType DEF PacketLost, inVars, waitVars, outVars
<1>2. ASSUME NEW t \in Threads, Thread(t) PROVE TypeOK'
  <2>1. CASE RawISOHandler(t)
    <3>1. frame <= MaxFrames /\ frame' \in 1..(MaxFrames + 1) /\ packet' \in 1..N
      BY <2>1, AdvanceType DEF RawISOHandler, Advance
    <3>2. loop' \in [Threads -> LoopPCs] BY <2>1 DEF RawISOHandler, LoopPCs
    <3>3. CASE Header
      <4> DEFINE fill == IF packet_num = 0 THEN fill_size_in ELSE 0
      <4>1. fill \in 0..Size OBVIOUS
      <4>2. Write(fill) /\ fill_size_in' = Filled(fill) BY <3>3 DEF Header
      <4>3. data' \in [Buffers -> [Slots -> 0..MaxFrames]] /\ fill_size_in' \in 0..Size
        BY <3>1, <4>1, <4>2, WriteType
      <4> QED BY <2>1, <3>1, <3>2, <3>3, <4>3 DEF RawISOHandler, Header, waitVars, outVars
    <3>4. CASE packet_num \in 1..(N - 2) /\ Middle
      <4>1. data' \in [Buffers -> [Slots -> 0..MaxFrames]] /\ fill_size_in' \in 0..Size
        BY <3>1, <3>4, WriteType DEF Middle
      <4> QED BY <2>1, <3>1, <3>2, <3>4, <4>1 DEF RawISOHandler, Middle, waitVars, outVars
    <3>5. CASE Last
      <4>1. data' \in [Buffers -> [Slots -> 0..MaxFrames]] /\ fill_size_wait' \in 0..Size
        BY <3>1, <3>5, WriteType DEF Last
      <4> QED BY <2>1, <3>1, <3>2, <3>5, <4>1 DEF RawISOHandler, Last, outVars
    <3>6. CASE Ignored
      BY <2>1, <3>1, <3>2, <3>6 DEF RawISOHandler, Ignored, inVars, waitVars, outVars
    <3> QED BY <2>1, <3>3, <3>4, <3>5, <3>6 DEF RawISOHandler
  <2>2. CASE SmallPacket(t)
    BY <2>2 DEF SmallPacket, LoopPCs, inVars, waitVars, outVars, camera
  <2>3. CASE BusResetHandler(t)
    BY <2>3 DEF BusResetHandler, LoopPCs, inVars, waitVars, outVars, camera
  <2>4. CASE Capture(t)
    BY <2>4 DEF Capture, LoopPCs, inVars, waitVars, outVars, camera
  <2> QED BY <1>2, <2>1, <2>2, <2>3, <2>4 DEF Thread
<1>3. CASE CapStart
  BY <1>3 DEF CapStart, LoopPCs, waitVars, outVars, camera
<1>4. CASE CapStop BY <1>4 DEF CapStop, inVars, waitVars, outVars, camera
<1>5. CASE GetImage BY <1>5 DEF GetImage, inVars, camera
<1>6. CASE GetImage_Decode
  <2>0. 1..N \subseteq Slots BY DEF Slots
  <2>1. \A i \in 1..N : data[buff_out][i] \in 0..MaxFrames
    <3>1. data[buff_out] \in [Slots -> 0..MaxFrames] OBVIOUS
    <3> QED BY <2>0, <3>1
  <2>2. image' \in [1..N -> 0..MaxFrames] BY <1>6, <2>1 DEF GetImage_Decode
  <2>3. f' \in BOOLEAN BY <1>6 DEF GetImage_Decode
  <2> QED BY <1>6, <2>2, <2>3 DEF GetImage_Decode, inVars, waitVars, camera
<1>7. CASE Close BY <1>7 DEF Close, inVars, waitVars, outVars, camera
<1>8. CASE Close_Join BY <1>8 DEF Close_Join, inVars, waitVars, outVars, camera
<1>9. CASE UNCHANGED vars BY <1>9 DEF vars, inVars, waitVars, outVars, camera
<1> QED BY <1>1, <1>2, <1>3, <1>4, <1>5, <1>6, <1>7, <1>8, <1>9 DEF Next

\* Buffers, counts, contents and threads keep their types, with any number of
\* capture threads and lost packets.
THEOREM TypeCorrect == Spec => []TypeOK
  BY InitType, TypeStep, PTL DEF Spec
-----------------------------------------------------------------------------
(* The invariant.  Parts that are about buff_in, about the threads and about *)
(* the two other buffers are kept one by one.                                *)

LEMMA InitInv == Init => IInv
<1> SUFFICES ASSUME Init PROVE IInv OBVIOUS
<1>1. image[1] = 0 /\ WholeImage BY DVAssumption DEF Init, WholeImage
<1> QED
  BY <1>1, InitType, DVAssumption
  DEF Init, IInv, Roles, Received, Counted, FrameIn, FrameWait, FrameOut, Order

LEMMA RolesStep == TypeOK /\ Roles /\ [Next]_vars => Roles'
  BY DEF Roles, Next, vars, inVars, waitVars, outVars, PacketLost, Thread, RawISOHandler,
     Header, Middle, Last, Ignored, SmallPacket, BusResetHandler, Capture, CapStart, CapStop,
     GetImage, GetImage_Decode, Close, Close_Join

LEMMA ReceivedStep == TypeOK /\ Received /\ [Next]_vars => Received'
<1> SUFFICES ASSUME TypeOK, Received, [Next]_vars PROVE Received' OBVIOUS
<1> USE DEF TypeOK, Received, Receiving
<1>1. CASE UNCHANGED <<status, loop>> BY <1>1
<1>2. ASSUME NEW t \in Threads, Thread(t) PROVE Received'
  <2>1. ASSUME UNCHANGED status, loop' = [loop EXCEPT ![t] = "check"] PROVE Received'
    BY <2>1
  <2>2. CASE Capture(t) BY <2>2 DEF Capture
  <2>3. CASE BusResetHandler(t) BY <2>3 DEF BusResetHandler
  <2> QED BY <1>2, <2>1, <2>2, <2>3 DEF Thread, RawISOHandler, SmallPacket
<1>3. CASE CapStart BY <1>3 DEF CapStart
<1>4. CASE CapStop \/ Close BY <1>4 DEF CapStop, Close
<1> QED
  BY <1>1, <1>2, <1>3, <1>4
  DEF Next, vars, PacketLost, GetImage, GetImage_Decode, Close_Join

\* Packets are received again only after CapStart, which resets their count.
LEMMA ReceivingStep ==
  ASSUME TypeOK, Received, Next, Receiving'
  PROVE  Receiving \/ packet_num' = 0
<1> USE DEF TypeOK, Received, Receiving
<1>1. ASSUME NEW t \in Threads, Thread(t) PROVE Receiving
  BY <1>1 DEF Thread, RawISOHandler, SmallPacket, BusResetHandler, Capture
<1>2. CASE CapStart BY <1>2 DEF CapStart
<1> QED
  BY <1>1, <1>2 DEF Next, PacketLost, CapStop, GetImage, GetImage_Decode, Close, Close_Join

LEMMA FillFacts ==
  ASSUME TypeOK, NEW fill \in 0..Size
  PROVE  /\ Filled(fill) >= 1
         /\ \A k \in 1..N : Filled(fill) >= k <=> fill >= k - 1
         /\ \A k \in 1..N : Filled(fill) = k <=> fill = k - 1
  BY DVAssumption DEF Filled

LEMMA WriteFacts ==
  ASSUME TypeOK, NEW fill \in 0..Size, Write(fill)
  PROVE  /\ \A b \in Buffers : b # buff_in => data'[b] = data[b]
         /\ \A i \in Slots : i # fill + 1 => data'[buff_in][i] = data[buff_in][i]
         /\ fill < Size => data'[buff_in][fill + 1] = frame
<1>1. CASE fill < Size
  <2>1. data' = [data EXCEPT ![buff_in][fill + 1] = frame] BY <1>1 DEF Write
  <2>2. fill + 1 \in Slots BY <1>1, DVAssumption DEF Slots
  <2> QED BY <2>1, <2>2 DEF TypeOK
<1>2. CASE ~(fill < Size) BY <1>2 DEF Write
<1> QED BY <1>1, <1>2

LEMMA AdvanceFacts ==
  ASSUME TypeOK, Advance
  PROVE  /\ frame <= MaxFrames
         /\ packet = N => frame' = frame + 1 /\ packet' = 1
         /\ packet # N => frame' = frame /\ packet' = packet + 1
         /\ frame' >= frame
  BY DVAssumption DEF TypeOK, Advance

\* A packet that is received or lost.
LEMMA CameraStep ==
  ASSUME IInv, ~HeadersLost, PacketLost \/ \E t \in Threads : RawISOHandler(t)
  PROVE  Counted' /\ FrameIn' /\ FrameWait' /\ FrameOut' /\ Order' /\ WholeImage'
<1> USE DVAssumption DEF IInv
<1>1. TypeOK /\ Advance BY DEF PacketLost, RawISOHandler
<1>2. /\ frame <= MaxFrames
      /\ packet = N => frame' = frame + 1 /\ packet' = 1
      /\ packet # N => frame' = frame /\ packet' = packet + 1
      /\ frame' >= frame
  BY <1>1, AdvanceFacts
<1>3. UNCHANGED outVars /\ UNCHANGED app BY DEF PacketLost, RawISOHandler
<1>4. WholeImage' BY <1>3 DEF outVars, WholeImage
<1>5. CASE PacketLost
  <2>1. Receiving' = Receiving BY <1>5 DEF PacketLost, Receiving
  <2>2. Receiving => packet # 1 BY <1>5 DEF PacketLost
  <2>3. UNCHANGED <<inVars, waitVars, outVars, data, app>> BY <1>5 DEF PacketLost
  <2>4. Counted' BY <1>1, <1>2, <2>1, <2>2, <2>3 DEF Counted, inVars, TypeOK
  <2>5. FrameIn' BY <1>1, <1>2, <2>1, <2>2, <2>3 DEF FrameIn, inVars, TypeOK
  <2>6. FrameWait' /\ FrameOut' BY <2>3 DEF FrameWait, FrameOut, waitVars, outVars
  <2>7. Order' BY <1>1, <1>2, <2>3 DEF Order, waitVars, outVars, TypeOK
  <2> QED BY <1>4, <2>4, <2>5, <2>6, <2>7
<1>6. ASSUME NEW t \in Threads, RawISOHandler(t)
      PROVE  Counted' /\ FrameIn' /\ FrameWait' /\ FrameOut' /\ Order' /\ WholeImage'
  <2>1. Receiving BY <1>6 DEF RawISOHandler, Receiving
  <2>2. TypeOK' BY <1>6, TypeStep DEF Next, Thread
  <2>3. CASE packet = 1 /\ Header
    <3>1. PICK fill \in 0..Size : Write(fill) /\ fill_size_in' = Filled(fill)
      BY <2>3, <1>1 DEF Header, TypeOK
    <3>2. /\ packet_num' = 1 /\ UNCHANGED <<buff_in, waitVars>>
          /\ fill_size_in' >= 1 /\ (fill_size_in' = 1 => fill = 0)
      BY <1>1, <2>3, <3>1, FillFacts DEF Header
    <3>3. packet' = 2 /\ frame' = frame BY <1>2, <2>3
    <3>4. fill_size_in' = 1 => data'[buff_in'][1] = frame
      BY <1>1, <3>1, <3>2, WriteFacts
    <3>5. Counted' BY <3>2, <3>3 DEF Counted
    <3>6. FrameIn' BY <3>2, <3>3, <3>4 DEF FrameIn
    <3>7. \A b \in Buffers : b # buff_in => data'[b] = data[b]
      BY <1>1, <3>1, WriteFacts
    <3>8. FrameWait' /\ FrameOut'
      BY <1>1, <1>3, <3>2, <3>7 DEF FrameWait, FrameOut, Roles, TypeOK, waitVars, outVars
    <3>9. Order' BY <1>3, <3>2, <3>3 DEF Order, waitVars, outVars
    <3> QED BY <1>4, <3>5, <3>6, <3>8, <3>9
  <2>4. CASE packet # 1 /\ packet_num = 0 /\ Ignored
    <3>1. UNCHANGED <<inVars, waitVars, outVars, data, app>> BY <1>3, <2>4 DEF Ignored
    <3>2. Counted' /\ FrameIn' BY <2>4, <3>1 DEF Counted, FrameIn, inVars
    <3>3. FrameWait' /\ FrameOut' BY <3>1 DEF FrameWait, FrameOut, waitVars, outVars
    <3>4. Order' BY <1>1, <1>2, <3>1 DEF Order, waitVars, outVars, TypeOK
    <3> QED BY <1>4, <3>2, <3>3, <3>4
  <2>5. CASE packet # 1 /\ packet_num \in 1..(N - 2) /\ Middle
    <3>1. /\ Write(fill_size_in) /\ fill_size_in' = Filled(fill_size_in)
          /\ packet_num' = packet_num + 1 /\ UNCHANGED <<buff_in, waitVars>>
      BY <2>5 DEF Middle
    <3>2. packet_num + 1 \in 1..N /\ fill_size_in \in 0..Size BY <1>1, <2>5 DEF TypeOK
    <3>3. fill_size_in >= packet_num /\ packet > packet_num
      BY <2>1, <2>5, <1>1 DEF Counted, TypeOK
    <3>4. fill_size_in' >= packet_num' /\ (fill_size_in' = packet_num' => fill_size_in = packet_num)
      BY <1>1, <3>1, <3>2, <3>3, FillFacts DEF TypeOK
    <3>5. Counted' BY <1>1, <1>2, <3>1, <3>3, <3>4 DEF Counted, TypeOK
    <3>6. ASSUME fill_size_in' = packet_num' PROVE FrameIn'
      <4>1. fill_size_in = packet_num /\ packet_num < Size BY <2>5, <3>4, <3>6
      <4>2. /\ \A i \in 1..packet_num : data[buff_in][i] = data[buff_in][1]
            /\ data[buff_in][1] = frame
        BY <2>1, <2>5, <4>1 DEF FrameIn
      <4>3. 1..packet_num \subseteq Slots BY <2>5 DEF Slots
      <4>4. \A i \in 1..packet_num : data'[buff_in][i] = frame
        BY <1>1, <2>5, <3>1, <3>2, <4>1, <4>2, <4>3, WriteFacts
      <4>5. data'[buff_in][packet_num + 1] = frame
        BY <1>1, <3>1, <3>2, <4>1, WriteFacts
      <4>6. \A i \in 1..packet_num' : data'[buff_in'][i] = frame
        BY <2>5, <3>1, <4>4, <4>5
      <4>7. packet' # 1 => frame' = frame BY <1>2
      <4>8. 1 \in 1..packet_num' BY <2>5, <3>1
      <4> QED BY <4>6, <4>7, <4>8 DEF FrameIn
    <3>7. FrameIn' BY <3>6 DEF FrameIn
    <3>8. \A b \in Buffers : b # buff_in => data'[b] = data[b]
      BY <1>1, <3>1, <3>2, WriteFacts
    <3>9. FrameWait' /\ FrameOut'
      BY <1>1, <1>3, <3>1, <3>8 DEF FrameWait, FrameOut, Roles, TypeOK, waitVars, outVars
    <3>10. Order' BY <1>1, <1>2, <1>3, <3>1 DEF Order, waitVars, outVars, TypeOK
    <3> QED BY <1>4, <3>5, <3>7, <3>9, <3>10
  <2>6. CASE packet # 1 /\ packet_num = N - 1 /\ Last
    <3>1. /\ Write(fill_size_in) /\ fill_size_wait' = Filled(fill_size_in)
          /\ packet_num' = 0 /\ buff_wait' = buff_in /\ published' = frame
      BY <2>6 DEF Last
    <3>2. fill_size_in \in 0..Size /\ packet_num > 0 BY <1>1, <2>6 DEF TypeOK
    <3>3. fill_size_in >= packet_num /\ packet = N
      BY <1>1, <2>1, <2>6, <3>2 DEF Counted, TypeOK
    <3>4. frame' = frame + 1 BY <1>2, <3>3
    <3>5. Counted' /\ FrameIn' BY <3>1 DEF Counted, FrameIn
    <3>6. \A b \in Buffers : b # buff_in => data'[b] = data[b]
      BY <1>1, <3>1, <3>2, WriteFacts
    <3>7. data'[buff_out] = data[buff_out] BY <1>1, <3>6 DEF Roles, TypeOK
    <3>8. Order' BY <1>1, <1>3, <3>1, <3>4 DEF Order, outVars, TypeOK
    <3>9. FrameOut'
      <4>1. data[buff_out] \in [Slots -> 0..MaxFrames] /\ 1 \in Slots
        BY <1>1 DEF TypeOK, Slots
      <4>2. data[buff_out][1] \in 0..MaxFrames BY <4>1
      <4>3. app = "decode" => data[buff_out][1] <= published'
        BY <1>1, <3>1, <4>2 DEF FrameOut, Order, TypeOK
      <4> QED BY <1>3, <3>7, <4>3 DEF FrameOut, outVars
    <3>10. ASSUME fill_size_wait' = N PROVE FrameWait'
      <4>1. fill_size_in = N - 1 /\ fill_size_in = packet_num /\ N - 1 < Size
        <5>1. Filled(fill_size_in) = N /\ N \in 1..N BY <3>1, <3>10
        <5>2. fill_size_in = N - 1 BY <1>1, <3>2, <5>1, FillFacts
        <5> QED BY <2>6, <5>2
      <4>2. \A i \in 1..(N - 1) : data[buff_in][i] = frame
        BY <2>1, <2>6, <3>2, <4>1 DEF FrameIn
      <4>3. 1..N \subseteq Slots BY DEF Slots
      <4>4. \A i \in 1..(N - 1) : data'[buff_in][i] = frame
        BY <1>1, <3>1, <3>2, <4>1, <4>2, <4>3, WriteFacts
      <4>5. data'[buff_in][N] = frame BY <1>1, <3>1, <3>2, <4>1, WriteFacts
      <4>6. \A i \in 1..N : data'[buff_wait'][i] = published' BY <3>1, <4>4, <4>5
      <4>7. image'[1] < published' BY <1>1, <1>3, <3>1 DEF Order, outVars, TypeOK
      <4>8. app' = "decode" => data'[buff_out'][1] < published'
        <5>1. SUFFICES ASSUME app = "decode" PROVE data[buff_out][1] < published'
          BY <1>3, <3>7 DEF outVars
        <5>2. data[buff_out][1] \in 0..MaxFrames BY <1>1, <4>3 DEF TypeOK
        <5> QED BY <1>1, <3>1, <5>1, <5>2 DEF FrameOut, Order, TypeOK
      <4> QED BY <4>6, <4>7, <4>8 DEF FrameWait
    <3>11. FrameWait' BY <3>10 DEF FrameWait
    <3> QED BY <1>4, <3>5, <3>8, <3>9, <3>11
  <2> QED BY <1>6, <2>3, <2>4, <2>5, <2>6 DEF RawISOHandler
<1> QED BY <1>5, <1>6

\* A step of the application, or of a thread that receives no packet.
LEMMA ApplicationStep ==
  ASSUME IInv, [Next]_vars,
         ~PacketLost, \A t \in Threads : ~RawISOHandler(t)
  PROVE  Counted' /\ FrameIn' /\ FrameWait' /\ FrameOut' /\ Order' /\ WholeImage'
<1> USE DVAssumption DEF IInv
<1>1. UNCHANGED <<data, frame, packet, published, buff_in, fill_size_in>>
  BY DEF Next, vars, inVars, waitVars, outVars, camera, Thread, SmallPacket, BusResetHandler,
     Capture, CapStart, CapStop, GetImage, GetImage_Decode, Close, Close_Join
<1>2. packet_num' = packet_num \/ packet_num' = 0
  BY DEF Next, vars, inVars, Thread, SmallPacket, BusResetHandler,
     Capture, CapStart, CapStop, GetImage, GetImage_Decode, Close, Close_Join
<1>3. Receiving' /\ packet_num' > 0 => Receiving /\ packet_num' = packet_num
  <2>1. CASE UNCHANGED vars BY <2>1 DEF vars, inVars, Receiving
  <2>2. CASE Next BY <1>2, <2>2, ReceivingStep
  <2> QED BY <2>1, <2>2
<1>4. Counted' BY <1>1, <1>2, <1>3 DEF Counted
<1>5. FrameIn' BY <1>1, <1>3 DEF FrameIn
<1>6. CASE GetImage
  <2>1. UNCHANGED <<image, published>> BY <1>6 DEF GetImage
  <2>2. WholeImage' /\ Order' BY <1>1, <2>1 DEF WholeImage, Order
  <2>3. fill_size_wait' = 0 BY <1>6 DEF GetImage
  <2>4. FrameWait' BY <2>3 DEF FrameWait
  <2>5. ASSUME app' = "decode" PROVE FrameOut'
    <3>1. fill_size_wait = N /\ buff_out' = buff_wait BY <1>6, <2>5 DEF GetImage
    <3>2. /\ \A i \in 1..N : data[buff_wait][i] = published
          /\ image[1] < published
      BY <3>1 DEF FrameWait
    <3> QED BY <1>1, <2>1, <3>1, <3>2 DEF FrameOut, TypeOK
  <2>6. FrameOut' BY <2>5 DEF FrameOut
  <2> QED BY <1>4, <1>5, <2>2, <2>4, <2>6
<1>7. CASE GetImage_Decode
  <2>1. app = "decode" /\ app' = "idle" /\ UNCHANGED <<waitVars, buff_out>>
    BY <1>7 DEF GetImage_Decode
  <2>2. FrameOut' BY <2>1 DEF FrameOut
  <2>3. CASE image' = [i \in 1..N |-> data[buff_out][i]]
    <3>1. /\ \A i \in 1..N : image'[i] = data[buff_out][i]
          /\ \A i \in 1..N : data[buff_out][i] = data[buff_out][1]
      BY <2>1, <2>3 DEF FrameOut
    <3>2. WholeImage' BY <3>1 DEF WholeImage
    <3>3. image'[1] = data[buff_out][1] BY <3>1
    <3>4. FrameWait' BY <1>1, <2>1, <3>3 DEF FrameWait, waitVars
    <3>5. Order' BY <1>1, <2>1, <3>3 DEF Order, FrameOut
    <3> QED BY <1>4, <1>5, <2>2, <3>2, <3>4, <3>5
  <2>4. CASE UNCHANGED image
    <3>1. WholeImage' /\ Order' BY <1>1, <2>4 DEF WholeImage, Order
    <3>2. FrameWait' BY <1>1, <2>1, <2>4 DEF FrameWait, waitVars
    <3> QED BY <1>4, <1>5, <2>2, <3>1, <3>2
  <2> QED BY <1>7, <2>3, <2>4 DEF GetImage_Decode
<1>8. CASE ~GetImage /\ ~GetImage_Decode
  <2>1. UNCHANGED <<waitVars, outVars, published>>
    BY <1>8 DEF Next, vars, waitVars, Thread, SmallPacket, BusResetHandler, Capture, CapStart,
       CapStop, Close, Close_Join
  <2>2. app' = "decode" => app = "decode"
    BY <1>8 DEF Next, vars, Thread, SmallPacket, BusResetHandler, Capture, CapStart,
       CapStop, Close, Close_Join
  <2>3. FrameWait' BY <1>1, <2>1, <2>2 DEF FrameWait, waitVars, outVars
  <2>4. FrameOut' BY <1>1, <2>1, <2>2 DEF FrameOut, outVars
  <2>5. WholeImage' /\ Order' BY <1>1, <2>1 DEF WholeImage, Order, outVars
  <2> QED BY <1>4, <1>5, <2>3, <2>4, <2>5
<1> QED BY <1>6, <1>7, <1>8

LEMMA InvStep == ~HeadersLost /\ IInv /\ [Next]_vars => IInv'
<1> SUFFICES ASSUME ~HeadersLost, IInv, [Next]_vars PROVE IInv' OBVIOUS
<1>1. TypeOK' /\ Roles' /\ Received' BY TypeStep, RolesStep, ReceivedStep DEF IInv
<1>2. Counted' /\ FrameIn' /\ FrameWait' /\ FrameOut' /\ Order' /\ WholeImage'
  BY CameraStep, ApplicationStep
<1> QED BY <1>1, <1>2 DEF IInv

LEMMA Invariant == ~HeadersLost /\ Spec => []IInv
<1> SUFFICES ASSUME ~HeadersLost PROVE Spec => []IInv OBVIOUS
<1>1. IInv /\ [Next]_vars => IInv' BY InvStep
<1> QED BY InitInv, <1>1, PTL DEF Spec

\* The capture thread and the application never have the same buffer,
\* whatever is lost and however often capturing is started.
THEOREM RolesDistinct == Spec => []Roles
<1>1. Init => Roles BY DEF Init, Roles
<1> QED BY <1>1, RolesStep, TypeCorrect, PTL DEF Spec

\* An image is one frame, with any number of packets, frames and restarts.
THEOREM WholeImages == ~HeadersLost /\ Spec => []WholeImage
  BY Invariant, PTL DEF IInv

\* A step of the capture is a step of the abstract source, or none.
LEMMA SourceStep ==
  ASSUME IInv, IInv', [Next]_vars
  PROVE  [Source!Next]_<<published, image[1]>>
<1> USE DVAssumption
<1>1. TypeOK /\ TypeOK' BY DEF IInv
<1>2. image[1] \in Nat /\ published \in Nat /\ image[1]' \in Nat /\ published' \in Nat
  BY <1>1 DEF TypeOK
<1>3. CASE Last /\ UNCHANGED outVars
  <2>1. published' > published BY <1>1, <1>3 DEF Last, IInv, Order, TypeOK
  <2>2. Source!Complete BY <1>2, <1>3, <2>1 DEF Source!Complete, outVars
  <2> QED BY <2>2 DEF Source!Next
<1>4. CASE GetImage_Decode
  <2>1. published' = published BY <1>4 DEF GetImage_Decode, waitVars
  <2>2. CASE image' = [i \in 1..N |-> data[buff_out][i]]
    <3>1. image[1]' = data[buff_out][1] BY <2>2
    <3>2. image[1] < image[1]' /\ image[1]' <= published
      BY <1>4, <3>1 DEF GetImage_Decode, IInv, FrameOut
    <3>3. Source!GetImage BY <1>2, <2>1, <3>2 DEF Source!GetImage
    <3> QED BY <3>3 DEF Source!Next
  <2>3. CASE UNCHANGED image BY <2>1, <2>3
  <2> QED BY <1>4, <2>2, <2>3 DEF GetImage_Decode
<1>5. CASE UNCHANGED <<image, published>> BY <1>5
<1>6. \/ Last /\ UNCHANGED outVars
      \/ GetImage_Decode
      \/ UNCHANGED <<image, published>>
  BY DEF Next, vars, waitVars, outVars, PacketLost, Thread, RawISOHandler, Header, Middle,
     Ignored, SmallPacket, BusResetHandler, Capture, CapStart, CapStop, GetImage, Close,
     Close_Join
<1> QED BY <1>3, <1>4, <1>5, <1>6

\* The three buffers implement the abstract source of images.
THEOREM Implementation == ~HeadersLost /\ Spec => ImplementsVideoSource
<1>1. Init => Source!Init BY DVAssumption DEF Init, Source!Init
<1>2. IInv /\ IInv' /\ [Next]_vars => [Source!Next]_<<published, image[1]>> BY SourceStep
<1> QED BY <1>1, <1>2, Invariant, PTL DEF Spec, ImplementsVideoSource, Source!Spec
=============================================================================
