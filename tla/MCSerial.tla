------------------------------ MODULE MCSerial ------------------------------
(***************************************************************************)
(* What comes over a serial port: frames of the remote, what is in them,   *)
(* and frames of the DJI protocol.  They share nothing, so one behaviour   *)
(* uses one of them, chosen in the initial state; the others stay as they  *)
(* are constructed.                                                        *)
(***************************************************************************)
EXTENDS Integers, Sequences, TLC, TLAPS

CONSTANTS
    REMOTE_BUF_LEN, REMOTE_READ_TIMEOUT, REMOTE_DISCONNECT_TIMEOUT, FramePeriod, MaxStall,
    RemoteUartSize,
    HEADER_SIZE, TYPE_SIZE, CRC_SIZE, SERIAL_RX_BUFF_SIZE, DataLengths, MaxFrames, MaxLost,
    UartSize,
    Driven, MaxParsed, Sticks

VARIABLES
    used,  \* the receiver that is used
    remoteInfo, told, invalid, driver,
    phase, frame, radio, remoteUart, rxBuffer, idle, connected, pc, stall, silence, parsed,
    rxCrcEnabled, line, sent, uart, djiSerialRxState, newMessage, dataLength, received,
    lost, clean, sound

Remote == INSTANCE RemoteReceiver WITH uart <- remoteUart, UartSize <- RemoteUartSize
Framed == INSTANCE DjiSerial
Info == INSTANCE RemoteInfo WITH remote <- remoteInfo
remoteVars == <<phase, frame, radio, remoteUart, rxBuffer, idle, connected, pc, stall,
                silence, parsed>>
framedVars == <<rxCrcEnabled, line, sent, uart, djiSerialRxState, newMessage, dataLength,
                received, lost, clean, sound>>
infoVars == <<remoteInfo, told, invalid, driver>>
vars == <<used, remoteVars, framedVars, infoVars>>

ASSUME TimingAssumption == Remote!TimingAssumption

ASSUME SerialAssumption == Framed!SerialAssumption

ASSUME FrameAssumption == Framed!FrameAssumption

ASSUME DrivenAssumption == Info!DrivenAssumption

ASSUME UartSize > 0

Init ==
    /\ used \in {"remote", "framed", "info"}
    /\ Remote!Init /\ Framed!Init /\ Info!Init
    /\ used # "remote" => phase = 0
    /\ used # "framed" => rxCrcEnabled

UseRemote ==
    /\ used = "remote"
    /\ Remote!Next
    /\ UNCHANGED <<used, framedVars, infoVars>>

UseFramed ==
    /\ used = "framed"
    /\ Framed!Next
    /\ UNCHANGED <<used, remoteVars, infoVars>>

UseInfo ==
    /\ used = "info"
    /\ Info!Next
    /\ UNCHANGED <<used, remoteVars, framedVars>>

Next == UseRemote \/ UseFramed \/ UseInfo

Spec == Init /\ [][Next]_vars

(* What is parsed is a whole frame of the radio, and a remote that sends
   nothing is not connected; and what is read from a frame is what the driver
   did. *)
BytesUnderstood ==
    /\ Remote!ParsesWholeFrames /\ Remote!SilenceDisconnects
    /\ Info!ShowsTheDriver

(* Messages are frames of the line, in their order, provided that the codes
   see what is damaged. *)
ReceivesFramesInOrder == Framed!ReceivesFramesInOrder

(* After lost bytes the receiver finds back into step. *)
InStepAgain == Framed!InStepAgain

-----------------------------------------------------------------------------
(* A behaviour of the port is one of the receiver, or leaves it as it is. *)
LEMMA RunsFramed == Spec => Framed!Spec
<1>1. Init => Framed!Init
  BY DEF Init
<1>2. [Next]_vars => [Framed!Next]_Framed!vars
  <2> SUFFICES ASSUME [Next]_vars
               PROVE  [Framed!Next]_Framed!vars
    OBVIOUS
  <2>1. CASE UNCHANGED framedVars
    BY <2>1 DEF framedVars, Framed!vars
  <2>2. CASE UseFramed
    BY <2>2 DEF UseFramed
  <2>3. QED
    BY <2>1, <2>2 DEF Next, UseRemote, UseInfo, vars
<1>3. QED
  BY <1>1, <1>2, PTL DEF Spec, Framed!Spec

(***************************************************************************)
(* messageReceiveCallback() gets the frames of the line, each at most once *)
(* and in their order, for all sizes of frames and buffers and whatever is *)
(* lost, as long as the CRCs are enforced and see what is damaged          *)
(* (dji_serial.cpp.in).                                                    *)
(***************************************************************************)
THEOREM FramesInOrder == Spec => []ReceivesFramesInOrder
<1>1. Framed!SerialAssumption
  BY SerialAssumption
<1>2. Framed!Spec => []Framed!ReceivesFramesInOrder
  BY <1>1, Framed!FramesInOrder
<1>3. QED
  BY <1>2, RunsFramed, PTL DEF ReceivesFramesInOrder

(***************************************************************************)
(* Lost bytes cost no frame that begins late enough after them: for all    *)
(* sizes, and whatever the data look like, the receiver finds back into    *)
(* step by itself and hands over every whole frame that begins as many     *)
(* bytes behind them as it may still wait for (dji_serial.cpp.in).         *)
(***************************************************************************)
THEOREM BackIntoStep == Spec => []InStepAgain
<1>1. Framed!SerialAssumption /\ Framed!FrameAssumption
  BY SerialAssumption, FrameAssumption
<1>2. Framed!Spec => []Framed!InStepAgain
  BY <1>1, Framed!BackIntoStep
<1>3. QED
  BY <1>2, RunsFramed, PTL DEF InStepAgain

-----------------------------------------------------------------------------
(***************************************************************************)
(* The remote.  The bytes that read() has, in its buffer and then in the   *)
(* port, are of the frame that is on its way: in the order of their places *)
(* and none twice, though some may be missing.                             *)
(***************************************************************************)
Pending == rxBuffer \o remoteUart

RemoteBytes == {0, 1} \X Nat

OfFrame(bytes, f, p) ==
    \A k \in 1 .. Len(bytes) :
        /\ bytes[k][1] = f
        /\ bytes[k][2] <= REMOTE_BUF_LEN - 1
        /\ p - bytes[k][2] >= Len(bytes) - k
        /\ \A i \in 1 .. k : bytes[k][2] - bytes[i][2] >= k - i

RemoteTyped ==
    /\ phase \in 0 .. FramePeriod - 1
    /\ frame \in {0, 1}
    /\ remoteUart \in Seq(RemoteBytes) /\ rxBuffer \in Seq(RemoteBytes)
    /\ idle \in 0 .. REMOTE_DISCONNECT_TIMEOUT + 1
    /\ stall \in 0 .. MaxStall
    /\ silence \in Nat

(* They are not kept for so long that the next frame begins: those in the port
   came since the last read(), and those in the buffer are discarded by the
   read timeout. *)
KeptInTime ==
    /\ Len(rxBuffer) < REMOTE_BUF_LEN
    /\ remoteUart # <<>> => phase <= REMOTE_BUF_LEN - 2 + stall /\ silence < stall
    /\ rxBuffer # <<>> =>
           /\ phase <= REMOTE_BUF_LEN - 2 + MaxStall + idle
           /\ idle <= REMOTE_READ_TIMEOUT + stall

(* How long it can have been silent while the remote is connected. *)
Heard ==
    connected =>
        /\ idle <= REMOTE_DISCONNECT_TIMEOUT => silence <= idle + MaxStall - 1
        /\ silence <= REMOTE_DISCONNECT_TIMEOUT + MaxStall - 1 + stall
                          + (IF pc = "idle" THEN MaxStall ELSE 0)

RemoteInv ==
    /\ RemoteTyped
    /\ OfFrame(Pending, frame, phase)
    /\ KeptInTime
    /\ Heard
    /\ Remote!ParsesWholeFrames

(* The parts of RemoteInv, as one knows them of a sequence of bytes. *)
LEMMA OfFrameLater ==
    ASSUME NEW bytes \in Seq(RemoteBytes), NEW f \in Int, NEW p \in Int,
           OfFrame(bytes, f, p)
    PROVE  OfFrame(bytes, f, p + 1)
<1> SUFFICES ASSUME NEW k \in 1 .. Len(bytes)
             PROVE  (p + 1) - bytes[k][2] >= Len(bytes) - k
  BY DEF OfFrame
<1>1. bytes[k] \in RemoteBytes /\ Len(bytes) \in Nat
  OBVIOUS
<1>2. p - bytes[k][2] >= Len(bytes) - k
  BY DEF OfFrame
<1>3. QED
  BY <1>1, <1>2 DEF RemoteBytes

LEMMA OfFrameAppend ==
    ASSUME NEW bytes \in Seq(RemoteBytes), NEW f \in Int, NEW p \in Int,
           OfFrame(bytes, f, p), REMOTE_BUF_LEN \in Nat, p + 1 < REMOTE_BUF_LEN
    PROVE  OfFrame(Append(bytes, <<f, p + 1>>), f, p + 1)
<1> DEFINE more == Append(bytes, <<f, p + 1>>)
<1>1. Len(more) = Len(bytes) + 1 /\ Len(bytes) \in Nat
  OBVIOUS
<1>2. more[Len(bytes) + 1] = <<f, p + 1>>
  OBVIOUS
<1>3. ASSUME NEW k \in 1 .. Len(bytes)
      PROVE  more[k] = bytes[k] /\ bytes[k][2] \in Nat
  BY DEF RemoteBytes
<1> HIDE DEF more
<1>4. SUFFICES ASSUME NEW k \in 1 .. Len(more)
               PROVE  /\ more[k][1] = f
                      /\ more[k][2] <= REMOTE_BUF_LEN - 1
                      /\ (p + 1) - more[k][2] >= Len(more) - k
                      /\ \A i \in 1 .. k : more[k][2] - more[i][2] >= k - i
  BY DEF OfFrame, more
<1>5. CASE k = Len(bytes) + 1
  <2>1. ASSUME NEW i \in 1 .. k
        PROVE  more[k][2] - more[i][2] >= k - i
    <3>1. CASE i = k
      BY <1>2, <1>5, <3>1
    <3>2. CASE i # k
      <4>1. i \in 1 .. Len(bytes)
        BY <1>1, <1>5, <3>2
      <4>2. p - bytes[i][2] >= Len(bytes) - i
        BY <4>1 DEF OfFrame
      <4>3. QED
        BY <1>1, <1>2, <1>3, <1>5, <4>1, <4>2
    <3>3. QED
      BY <3>1, <3>2
  <2>2. QED
    BY <1>1, <1>2, <1>5, <2>1
<1>6. CASE k # Len(bytes) + 1
  <2>1. k \in 1 .. Len(bytes)
    BY <1>1, <1>6
  <2>2. /\ bytes[k][1] = f
        /\ bytes[k][2] <= REMOTE_BUF_LEN - 1
        /\ p - bytes[k][2] >= Len(bytes) - k
        /\ \A i \in 1 .. k : bytes[k][2] - bytes[i][2] >= k - i
    BY <2>1 DEF OfFrame
  <2>3. \A i \in 1 .. k : i \in 1 .. Len(bytes)
    BY <2>1
  <2>4. more[k] = bytes[k] /\ bytes[k][2] \in Nat
    BY <1>3, <2>1
  <2>5. ASSUME NEW i \in 1 .. k
        PROVE  more[k][2] - more[i][2] >= k - i
    BY <1>3, <2>2, <2>3, <2>4
  <2>6. (p + 1) - more[k][2] >= Len(more) - k
    <3> DEFINE place == bytes[k][2]  n == Len(bytes)
    <3>1. place \in Nat /\ n \in Nat /\ k \in Int /\ p - place >= n - k
      BY <1>1, <2>1, <2>2, <2>4
    <3> HIDE DEF place, n
    <3>2. (p + 1) - place >= (n + 1) - k
      BY <3>1
    <3>3. QED
      BY <1>1, <2>4, <3>2 DEF place, n
  <2>7. QED
    BY <2>2, <2>4, <2>5, <2>6
<1>7. QED
  BY <1>5, <1>6

LEMMA OfFrameFits ==
    ASSUME NEW bytes \in Seq(RemoteBytes), NEW f, NEW p \in Int,
           OfFrame(bytes, f, p), REMOTE_BUF_LEN \in Nat
    PROVE  /\ Len(bytes) <= REMOTE_BUF_LEN
           /\ Len(bytes) = REMOTE_BUF_LEN =>
                  bytes = [k \in 1 .. REMOTE_BUF_LEN |-> <<f, k - 1>>]
<1>1. Len(bytes) \in Nat
  OBVIOUS
<1>2. ASSUME NEW k \in 1 .. Len(bytes)
      PROVE  bytes[k][2] \in Nat /\ bytes[k] = <<bytes[k][1], bytes[k][2]>>
  BY DEF RemoteBytes
<1>3. ASSUME NEW k \in 1 .. Len(bytes)
      PROVE  k - 1 <= bytes[k][2] /\ bytes[k][2] <= REMOTE_BUF_LEN - 1 - (Len(bytes) - k)
  <2>1. 1 \in 1 .. k /\ k \in 1 .. Len(bytes) /\ 1 \in 1 .. Len(bytes)
    BY <1>1
  <2>2. bytes[k][2] - bytes[1][2] >= k - 1
    BY <2>1 DEF OfFrame
  <2>3. k \in 1 .. Len(bytes) /\ Len(bytes) \in 1 .. Len(bytes)
    BY <1>1
  <2>4. /\ bytes[Len(bytes)][2] - bytes[k][2] >= Len(bytes) - k
        /\ bytes[Len(bytes)][2] <= REMOTE_BUF_LEN - 1
    BY <2>3 DEF OfFrame
  <2> DEFINE b == bytes[k][2]  c == bytes[1][2]  d == bytes[Len(bytes)][2]
  <2>5. b \in Nat /\ c \in Nat /\ d \in Nat /\ k \in Int
    BY <1>1, <1>2, <2>1, <2>3
  <2>6. b - c >= k - 1 /\ d - b >= Len(bytes) - k /\ d <= REMOTE_BUF_LEN - 1
    BY <2>2, <2>4
  <2> HIDE DEF b, c, d
  <2>7. k - 1 <= b /\ b <= REMOTE_BUF_LEN - 1 - (Len(bytes) - k)
    BY <1>1, <2>5, <2>6
  <2>8. QED
    BY <2>7 DEF b
<1>4. Len(bytes) <= REMOTE_BUF_LEN
  <2>1. CASE Len(bytes) = 0
    BY <2>1
  <2>2. CASE Len(bytes) # 0
    <3>1. Len(bytes) \in 1 .. Len(bytes)
      BY <1>1, <2>2
    <3>2. Len(bytes) - 1 <= bytes[Len(bytes)][2]
          /\ bytes[Len(bytes)][2] <= REMOTE_BUF_LEN - 1 - (Len(bytes) - Len(bytes))
      BY <1>3, <3>1
    <3>3. bytes[Len(bytes)][2] \in Nat
      BY <1>2, <3>1
    <3>4. QED
      BY <1>1, <3>2, <3>3
  <2>3. QED
    BY <2>1, <2>2
<1>5. ASSUME Len(bytes) = REMOTE_BUF_LEN
      PROVE  bytes = [k \in 1 .. REMOTE_BUF_LEN |-> <<f, k - 1>>]
  <2>1. ASSUME NEW k \in 1 .. REMOTE_BUF_LEN
        PROVE  bytes[k] = <<f, k - 1>>
    <3>1. k \in 1 .. Len(bytes)
      BY <1>5
    <3>2. bytes[k][1] = f
      BY <3>1 DEF OfFrame
    <3>3. bytes[k][2] = k - 1
      <4>1. /\ k - 1 <= bytes[k][2]
            /\ bytes[k][2] <= REMOTE_BUF_LEN - 1 - (Len(bytes) - k)
        BY <1>3, <3>1
      <4>2. bytes[k][2] \in Nat
        BY <1>2, <3>1
      <4>3. QED
        BY <1>5, <4>1, <4>2
    <3>4. QED
      BY <1>2, <3>1, <3>2, <3>3
  <2>2. bytes = [k \in 1 .. Len(bytes) |-> bytes[k]]
    OBVIOUS
  <2>3. QED
    BY <1>5, <2>1, <2>2
<1>6. QED
  BY <1>4, <1>5

LEMMA OfFrameNone == ASSUME NEW f, NEW p PROVE OfFrame(<<>>, f, p)
  BY DEF OfFrame

LEMMA TimingFacts ==
    ASSUME Remote!TimingAssumption
    PROVE  /\ REMOTE_BUF_LEN \in Nat /\ REMOTE_BUF_LEN > 0
           /\ MaxStall \in Nat /\ MaxStall > 0
           /\ REMOTE_READ_TIMEOUT \in Nat /\ REMOTE_DISCONNECT_TIMEOUT \in Nat
           /\ FramePeriod \in Nat
           /\ FramePeriod - REMOTE_BUF_LEN >= REMOTE_READ_TIMEOUT + 2 * MaxStall - 1
           /\ REMOTE_DISCONNECT_TIMEOUT > FramePeriod
BY DEF Remote!TimingAssumption

LEMMA RemoteStart ==
    ASSUME Remote!TimingAssumption, Remote!Init
    PROVE  RemoteInv
<1>1. Pending = <<>>
  BY DEF Pending, Remote!Init
<1>2. OfFrame(Pending, frame, phase)
  BY <1>1, OfFrameNone
<1>3. RemoteTyped
  BY TimingFacts DEF RemoteTyped, Remote!Init
<1>4. KeptInTime /\ Heard
  BY TimingFacts DEF KeptInTime, Heard, Remote!Init
<1>5. Remote!ParsesWholeFrames
  BY DEF Remote!ParsesWholeFrames, Remote!Init
<1>6. QED
  BY <1>2, <1>3, <1>4, <1>5 DEF RemoteInv

(* A tick: the next frame finds nothing of this one. *)
LEMMA RemoteTick ==
    ASSUME Remote!TimingAssumption, RemoteInv, Remote!Tick
    PROVE  RemoteInv'
<1>0. /\ REMOTE_BUF_LEN \in Nat /\ REMOTE_BUF_LEN > 0
      /\ MaxStall \in Nat /\ MaxStall > 0
      /\ REMOTE_READ_TIMEOUT \in Nat /\ REMOTE_DISCONNECT_TIMEOUT \in Nat
      /\ FramePeriod \in Nat
      /\ FramePeriod - REMOTE_BUF_LEN >= REMOTE_READ_TIMEOUT + 2 * MaxStall - 1
      /\ REMOTE_DISCONNECT_TIMEOUT > FramePeriod
  BY TimingFacts
<1> USE <1>0
<1>1. RemoteTyped /\ KeptInTime /\ Heard
  BY DEF RemoteInv
<1>2. /\ stall < MaxStall /\ stall' = stall + 1
      /\ idle' = Remote!Capped(idle, REMOTE_DISCONNECT_TIMEOUT + 1)
      /\ phase' = (phase + 1) % FramePeriod
      /\ UNCHANGED <<rxBuffer, connected, pc, parsed>>
  BY DEF Remote!Tick
<1>3. PICK arrives \in BOOLEAN :
          /\ arrives => radio' /\ phase' < REMOTE_BUF_LEN
          /\ remoteUart' = IF arrives /\ Len(remoteUart) < RemoteUartSize
                           THEN Append(remoteUart, <<frame', phase'>>) ELSE remoteUart
          /\ silence' = IF arrives THEN 0
                        ELSE Remote!Capped(silence, Remote!SilenceBound)
  BY DEF Remote!Tick
<1>4. frame' \in {0, 1} /\ (phase' # 0 => frame' = frame)
  <2>1. IF phase' = 0 THEN frame' = 1 - frame /\ radio' \in BOOLEAN
        ELSE UNCHANGED <<frame, radio>>
    BY DEF Remote!Tick
  <2>2. frame \in {0, 1}
    BY <1>1 DEF RemoteTyped
  <2>3. QED
    BY <2>1, <2>2
<1>5. \/ phase' = phase + 1 /\ phase' < FramePeriod
      \/ phase = FramePeriod - 1 /\ phase' = 0
  <2>1. phase \in 0 .. FramePeriod - 1 /\ FramePeriod \in Nat
    BY <1>1 DEF RemoteTyped
  <2>2. CASE phase = FramePeriod - 1
    BY <1>2, <2>1, <2>2
  <2>3. CASE phase # FramePeriod - 1
    <3>1. phase + 1 \in 0 .. FramePeriod - 1
      BY <2>1, <2>3
    <3>2. (phase + 1) % FramePeriod = phase + 1
      BY <2>1, <3>1
    <3>3. QED
      BY <1>2, <3>1, <3>2, <2>1
  <2>4. QED
    BY <2>2, <2>3
<1>6. phase' \in 0 .. FramePeriod - 1
  BY <1>1, <1>5 DEF RemoteTyped
<1>7. silence' \in Nat /\ silence' <= silence + 1
  BY <1>1, <1>3 DEF RemoteTyped, Remote!Capped
<1>8. /\ idle' \in 0 .. REMOTE_DISCONNECT_TIMEOUT + 1
      /\ idle <= REMOTE_DISCONNECT_TIMEOUT => idle' = idle + 1
      /\ idle > REMOTE_DISCONNECT_TIMEOUT => idle' > REMOTE_DISCONNECT_TIMEOUT
  BY <1>1, <1>2 DEF RemoteTyped, Remote!Capped
<1>9. remoteUart' \in Seq(RemoteBytes) /\ rxBuffer' \in Seq(RemoteBytes)
  <2>1. <<frame', phase'>> \in RemoteBytes
    BY <1>4, <1>6 DEF RemoteBytes
  <2>2. QED
    BY <1>1, <1>2, <1>3, <2>1 DEF RemoteTyped
<1>10. RemoteTyped'
  BY <1>1, <1>2, <1>4, <1>6, <1>7, <1>8, <1>9 DEF RemoteTyped
<1>11. phase' = 0 => Pending = <<>>
  <2> SUFFICES ASSUME phase' = 0
               PROVE  remoteUart = <<>> /\ rxBuffer = <<>>
    BY DEF Pending
  <2>1. phase = FramePeriod - 1
    BY <1>1, <1>5 DEF RemoteTyped
  <2>2. remoteUart = <<>>
    BY <1>1, <1>2, <2>1 DEF KeptInTime, RemoteTyped
  <2>3. rxBuffer = <<>>
    BY <1>1, <1>2, <2>1 DEF KeptInTime, RemoteTyped
  <2>4. QED
    BY <2>2, <2>3
<1>12. OfFrame(Pending, frame', phase' - 1)
  <2>1. CASE phase' = 0
    BY <1>11, <2>1, OfFrameNone
  <2>2. CASE phase' # 0
    <3>1. frame' = frame /\ phase' - 1 = phase
      BY <1>1, <1>4, <1>5, <2>2 DEF RemoteTyped
    <3>2. QED
      BY <3>1 DEF RemoteInv
  <2>3. QED
    BY <2>1, <2>2
<1>13. OfFrame(Pending', frame', phase')
  <2>1. Pending \in Seq(RemoteBytes) /\ frame' \in Int /\ phase' - 1 \in Int
    BY <1>1, <1>4, <1>6 DEF Pending, RemoteTyped
  <2>2. (phase' - 1) + 1 = phase'
    <3>1. \A n \in Int : (n - 1) + 1 = n
      OBVIOUS
    <3>2. phase' \in Int
      BY <1>6
    <3>3. QED
      BY <3>1, <3>2
  <2>3. CASE arrives /\ Len(remoteUart) < RemoteUartSize
    <3>1. Pending' = Append(Pending, <<frame', phase'>>)
      <4>1. remoteUart' = Append(remoteUart, <<frame', phase'>>) /\ rxBuffer' = rxBuffer
        BY <1>2, <1>3, <2>3
      <4>2. <<frame', phase'>> \in RemoteBytes
        BY <1>4, <1>6 DEF RemoteBytes
      <4> DEFINE byte == <<frame', phase'>>
      <4> HIDE DEF byte
      <4>3. ASSUME NEW b \in RemoteBytes
            PROVE  rxBuffer \o Append(remoteUart, b) = Append(rxBuffer \o remoteUart, b)
        BY <1>1 DEF RemoteTyped
      <4>4. rxBuffer \o Append(remoteUart, byte) = Append(rxBuffer \o remoteUart, byte)
        BY <4>2, <4>3 DEF byte
      <4>5. QED
        BY <4>1, <4>4 DEF Pending, byte
    <3>2. phase' < REMOTE_BUF_LEN
      BY <1>3, <2>3
    <3>3. QED
      BY <1>12, <2>1, <2>2, <3>1, <3>2, OfFrameAppend
  <2>4. CASE ~(arrives /\ Len(remoteUart) < RemoteUartSize)
    <3>1. Pending' = Pending
      BY <1>2, <1>3, <2>4 DEF Pending
    <3>2. QED
      BY <1>12, <2>1, <2>2, <3>1, OfFrameLater
  <2>5. QED
    BY <2>3, <2>4
<1>14. KeptInTime'
  <2>1. ASSUME remoteUart' # <<>>
        PROVE  phase' <= REMOTE_BUF_LEN - 2 + stall' /\ silence' < stall'
    <3>1. CASE arrives
      BY <1>1, <1>2, <1>3, <1>6, <3>1 DEF RemoteTyped
    <3>2. CASE ~arrives
      <4>1. remoteUart # <<>>
        BY <1>3, <2>1, <3>2
      <4>2. phase <= REMOTE_BUF_LEN - 2 + stall /\ silence < stall
        BY <1>1, <4>1 DEF KeptInTime
      <4>3. phase' = phase + 1
        BY <1>1, <1>2, <1>5, <4>2 DEF RemoteTyped
      <4>4. QED
        BY <1>1, <1>2, <1>7, <4>2, <4>3 DEF RemoteTyped
    <3>3. QED
      BY <3>1, <3>2
  <2>2. ASSUME rxBuffer' # <<>>
        PROVE  /\ phase' <= REMOTE_BUF_LEN - 2 + MaxStall + idle'
               /\ idle' <= REMOTE_READ_TIMEOUT + stall'
    <3>1. /\ phase <= REMOTE_BUF_LEN - 2 + MaxStall + idle
          /\ idle <= REMOTE_READ_TIMEOUT + stall
      BY <1>1, <1>2, <2>2 DEF KeptInTime
    <3>2. idle' = idle + 1
      BY <1>1, <1>2, <1>8, <3>1 DEF RemoteTyped
    <3>3. phase' <= phase + 1
      BY <1>1, <1>5 DEF RemoteTyped
    <3>4. QED
      BY <1>1, <1>2, <1>6, <3>1, <3>2, <3>3 DEF RemoteTyped
  <2>3. QED
    BY <1>1, <1>2, <2>1, <2>2 DEF KeptInTime
<1>15. Heard'
  <2> SUFFICES ASSUME connected'
               PROVE  /\ idle' <= REMOTE_DISCONNECT_TIMEOUT =>
                             silence' <= idle' + MaxStall - 1
                      /\ silence' <= REMOTE_DISCONNECT_TIMEOUT + MaxStall - 1 + stall'
                             + (IF pc' = "idle" THEN MaxStall ELSE 0)
    BY DEF Heard
  <2>1. /\ idle <= REMOTE_DISCONNECT_TIMEOUT => silence <= idle + MaxStall - 1
        /\ silence <= REMOTE_DISCONNECT_TIMEOUT + MaxStall - 1 + stall
                          + (IF pc = "idle" THEN MaxStall ELSE 0)
    BY <1>1, <1>2 DEF Heard
  <2>2. QED
    BY <1>1, <1>2, <1>7, <1>8, <2>1 DEF RemoteTyped
<1>16. Remote!ParsesWholeFrames'
  BY <1>2 DEF RemoteInv, Remote!ParsesWholeFrames
<1>17. QED
  BY <1>10, <1>13, <1>14, <1>15, <1>16 DEF RemoteInv

(* read() until it may be interrupted: a long silence disconnects. *)
LEMMA RemoteDisconnect ==
    ASSUME Remote!TimingAssumption, RemoteInv, Remote!CheckDisconnect
    PROVE  RemoteInv'
<1>0. /\ REMOTE_BUF_LEN \in Nat /\ REMOTE_BUF_LEN > 0
      /\ MaxStall \in Nat /\ MaxStall > 0
      /\ REMOTE_READ_TIMEOUT \in Nat /\ REMOTE_DISCONNECT_TIMEOUT \in Nat
      /\ FramePeriod \in Nat
      /\ FramePeriod - REMOTE_BUF_LEN >= REMOTE_READ_TIMEOUT + 2 * MaxStall - 1
      /\ REMOTE_DISCONNECT_TIMEOUT > FramePeriod
  BY TimingFacts
<1> USE <1>0
<1>1. RemoteTyped /\ KeptInTime /\ Heard
  BY DEF RemoteInv
<1>2. /\ pc = "idle" /\ pc' = "reading"
      /\ UNCHANGED <<phase, frame, radio, idle, stall, silence, parsed>>
  BY DEF Remote!CheckDisconnect
<1>3. \/ /\ idle > REMOTE_DISCONNECT_TIMEOUT
         /\ connected' = FALSE /\ rxBuffer' = <<>> /\ remoteUart' = <<>>
      \/ /\ idle <= REMOTE_DISCONNECT_TIMEOUT
         /\ UNCHANGED <<connected, rxBuffer, remoteUart>>
  BY <1>1 DEF Remote!CheckDisconnect, RemoteTyped
<1>4. RemoteTyped'
  <2>1. remoteUart' \in Seq(RemoteBytes) /\ rxBuffer' \in Seq(RemoteBytes)
    <3>1. CASE rxBuffer' = <<>> /\ remoteUart' = <<>>
      BY <3>1
    <3>2. CASE UNCHANGED <<rxBuffer, remoteUart>>
      BY <1>1, <3>2 DEF RemoteTyped
    <3>3. QED
      BY <1>3, <3>1, <3>2
  <2>2. QED
    BY <1>1, <1>2, <2>1 DEF RemoteTyped
<1>5. OfFrame(Pending', frame', phase')
  <2>1. CASE rxBuffer' = <<>> /\ remoteUart' = <<>>
    <3>1. Pending' = <<>>
      BY <2>1 DEF Pending
    <3>2. QED
      BY <3>1, OfFrameNone
  <2>2. CASE UNCHANGED <<rxBuffer, remoteUart>>
    <3>1. Pending' = Pending
      BY <2>2 DEF Pending
    <3>2. QED
      BY <1>2, <3>1 DEF RemoteInv
  <2>3. QED
    BY <1>3, <2>1, <2>2
<1>6. KeptInTime'
  BY <1>1, <1>2, <1>3 DEF KeptInTime, RemoteTyped
<1>7. Heard'
  <2> SUFFICES ASSUME connected'
               PROVE  /\ idle' <= REMOTE_DISCONNECT_TIMEOUT =>
                             silence' <= idle' + MaxStall - 1
                      /\ silence' <= REMOTE_DISCONNECT_TIMEOUT + MaxStall - 1 + stall'
    BY <1>1, <1>2 DEF Heard, RemoteTyped
  <2>1. connected /\ idle <= REMOTE_DISCONNECT_TIMEOUT
    BY <1>3
  <2>2. silence <= idle + MaxStall - 1
    BY <1>1, <2>1 DEF Heard
  <2>3. QED
    BY <1>1, <1>2, <2>1, <2>2 DEF RemoteTyped
<1>8. Remote!ParsesWholeFrames'
  BY <1>2 DEF RemoteInv, Remote!ParsesWholeFrames
<1>9. QED
  BY <1>4, <1>5, <1>6, <1>7, <1>8 DEF RemoteInv

(* The rest of read(): it takes all bytes that have come. *)
LEMMA RemoteRead ==
    ASSUME Remote!TimingAssumption, RemoteInv, Remote!ReadBytes
    PROVE  RemoteInv'
<1>0. /\ REMOTE_BUF_LEN \in Nat /\ REMOTE_BUF_LEN > 0
      /\ MaxStall \in Nat /\ MaxStall > 0
      /\ REMOTE_READ_TIMEOUT \in Nat /\ REMOTE_DISCONNECT_TIMEOUT \in Nat
      /\ FramePeriod \in Nat
      /\ FramePeriod - REMOTE_BUF_LEN >= REMOTE_READ_TIMEOUT + 2 * MaxStall - 1
      /\ REMOTE_DISCONNECT_TIMEOUT > FramePeriod
  BY TimingFacts
<1> USE <1>0
<1>1. RemoteTyped /\ KeptInTime /\ Heard /\ OfFrame(Pending, frame, phase)
  BY DEF RemoteInv
<1>2. /\ pc = "reading" /\ pc' = "idle" /\ stall' = 0
      /\ UNCHANGED <<phase, frame, radio, silence>>
  BY DEF Remote!ReadBytes
<1>3. /\ Pending \in Seq(RemoteBytes) /\ frame \in Int /\ phase \in Int
      /\ Len(Pending) = Len(rxBuffer) + Len(remoteUart)
      /\ Len(rxBuffer) \in Nat /\ Len(remoteUart) \in Nat
  BY <1>1 DEF Pending, RemoteTyped
<1>4. /\ Len(Pending) <= REMOTE_BUF_LEN
      /\ Len(Pending) = REMOTE_BUF_LEN =>
             Pending = [k \in 1 .. REMOTE_BUF_LEN |-> <<frame, k - 1>>]
  BY <1>1, <1>3, OfFrameFits
<1> DEFINE taken == IF Len(remoteUart) < REMOTE_BUF_LEN - Len(rxBuffer)
                    THEN Len(remoteUart) ELSE REMOTE_BUF_LEN - Len(rxBuffer)
           last == IF taken > 0 THEN 0 ELSE idle
           buffer == IF Remote!ReadTimedOut(last) THEN <<>>
                     ELSE rxBuffer \o SubSeq(remoteUart, 1, taken)
           full == Len(buffer) >= REMOTE_BUF_LEN
<1>5. /\ idle' = last
      /\ connected' = (connected \/ full)
      /\ parsed' = IF full THEN buffer ELSE parsed
      /\ rxBuffer' = IF full THEN <<>> ELSE buffer
      /\ remoteUart' = IF full \/ Remote!ReadTimedOut(last) THEN <<>>
                       ELSE SubSeq(remoteUart, taken + 1, Len(remoteUart))
  BY DEF Remote!ReadBytes
<1>6. taken = Len(remoteUart)
  BY <1>3, <1>4
<1>7. SubSeq(remoteUart, 1, taken) = remoteUart
  BY <1>1, <1>6 DEF RemoteTyped
<1>8. SubSeq(remoteUart, taken + 1, Len(remoteUart)) = <<>>
  <2> DEFINE n == Len(remoteUart)
  <2>1. n \in Nat /\ remoteUart \in Seq(RemoteBytes)
    BY <1>1 DEF RemoteTyped
  <2>2. SubSeq(remoteUart, n + 1, n) = <<>>
    BY <2>1
  <2>3. QED
    BY <1>6, <2>2
<1>9. remoteUart = <<>> <=> taken = 0
  BY <1>1, <1>6 DEF RemoteTyped
<1> HIDE DEF taken
<1>10. buffer = IF last > REMOTE_READ_TIMEOUT THEN <<>> ELSE Pending
  BY <1>7 DEF Pending, Remote!ReadTimedOut
<1>11. remoteUart' = <<>>
  BY <1>5, <1>8
<1>12. last = IF remoteUart = <<>> THEN idle ELSE 0
  BY <1>3, <1>6, <1>9
<1> HIDE DEF buffer, last
<1>14. Len(buffer) \in Nat /\ buffer \in Seq(RemoteBytes)
  <2>1. <<>> \in Seq(RemoteBytes)
    OBVIOUS
  <2>2. buffer \in Seq(RemoteBytes)
    BY <1>3, <1>10, <2>1
  <2>3. QED
    BY <2>2
<1>13. full => buffer = Pending /\ Len(Pending) = REMOTE_BUF_LEN /\ remoteUart # <<>>
  <2> SUFFICES ASSUME full
               PROVE  buffer = Pending /\ Len(Pending) = REMOTE_BUF_LEN /\ remoteUart # <<>>
    OBVIOUS
  <2>0. buffer # <<>>
    BY <1>0
  <2>1. buffer = Pending
    BY <1>10, <2>0
  <2>2. Len(Pending) = REMOTE_BUF_LEN
    BY <1>3, <1>4, <2>1
  <2>3. Len(rxBuffer) < REMOTE_BUF_LEN
    BY <1>1 DEF KeptInTime
  <2>4. QED
    BY <1>3, <2>1, <2>2, <2>3
<1>15. RemoteTyped'
  <2>1. remoteUart' \in Seq(RemoteBytes) /\ rxBuffer' \in Seq(RemoteBytes)
    <3>1. <<>> \in Seq(RemoteBytes)
      OBVIOUS
    <3>2. QED
      BY <1>5, <1>11, <1>14, <3>1
  <2>2. idle' \in 0 .. REMOTE_DISCONNECT_TIMEOUT + 1
    BY <1>1, <1>5, <1>12 DEF RemoteTyped
  <2>3. QED
    BY <1>1, <1>2, <2>1, <2>2 DEF RemoteTyped
<1>16. OfFrame(Pending', frame', phase')
  <2>1. Pending' = rxBuffer'
    <3>1. rxBuffer' \in Seq(RemoteBytes)
      BY <1>15 DEF RemoteTyped
    <3>2. \A s \in Seq(RemoteBytes) : s \o <<>> = s
      OBVIOUS
    <3>3. QED
      BY <1>11, <3>1, <3>2 DEF Pending
  <2>2. rxBuffer' = <<>> \/ rxBuffer' = Pending
    BY <1>5, <1>10
  <2>3. QED
    BY <1>1, <1>2, <2>1, <2>2, OfFrameNone
<1>17. KeptInTime'
  <2>1. Len(rxBuffer') < REMOTE_BUF_LEN
    BY <1>5, <1>14
  <2>2. ASSUME rxBuffer' # <<>>
        PROVE  /\ phase' <= REMOTE_BUF_LEN - 2 + MaxStall + idle'
               /\ idle' <= REMOTE_READ_TIMEOUT + stall'
    <3>1. last <= REMOTE_READ_TIMEOUT /\ Pending # <<>>
      BY <1>1, <1>5, <1>10, <1>12, <2>2 DEF RemoteTyped
    <3>2. CASE remoteUart = <<>>
      <4>1. rxBuffer # <<>>
        BY <3>1, <3>2 DEF Pending
      <4>2. QED
        BY <1>1, <1>2, <1>5, <1>12, <3>1, <3>2, <4>1 DEF KeptInTime, RemoteTyped
    <3>3. CASE remoteUart # <<>>
      BY <1>1, <1>2, <1>5, <1>12, <3>3 DEF KeptInTime, RemoteTyped
    <3>4. QED
      BY <3>2, <3>3
  <2>3. QED
    BY <1>11, <2>1, <2>2 DEF KeptInTime
<1>18. Heard'
  <2> SUFFICES ASSUME connected'
               PROVE  /\ idle' <= REMOTE_DISCONNECT_TIMEOUT =>
                             silence' <= idle' + MaxStall - 1
                      /\ silence' <= REMOTE_DISCONNECT_TIMEOUT + MaxStall - 1 + MaxStall
    BY <1>1, <1>2 DEF Heard, RemoteTyped
  <2>1. CASE remoteUart = <<>>
    <3>1. connected /\ idle' = idle
      BY <1>5, <1>12, <1>13, <2>1
    <3>2. QED
      BY <1>1, <1>2, <3>1 DEF Heard, RemoteTyped
  <2>2. CASE remoteUart # <<>>
    BY <1>1, <1>2, <1>5, <1>12, <2>2 DEF KeptInTime, RemoteTyped
  <2>3. QED
    BY <2>1, <2>2
<1>19. Remote!ParsesWholeFrames'
  <2>1. CASE full
    <3>1. parsed' = [k \in 1 .. REMOTE_BUF_LEN |-> <<frame, k - 1>>]
      BY <1>4, <1>5, <1>13, <2>1
    <3>2. frame \in {0, 1}
      BY <1>1 DEF RemoteTyped
    <3>3. QED
      BY <3>1, <3>2 DEF Remote!ParsesWholeFrames
  <2>2. CASE ~full
    BY <1>5, <2>2 DEF RemoteInv, Remote!ParsesWholeFrames
  <2>3. QED
    BY <2>1, <2>2
<1>20. QED
  BY <1>15, <1>16, <1>17, <1>18, <1>19 DEF RemoteInv

LEMMA RemoteDisconnects ==
    ASSUME Remote!TimingAssumption, RemoteInv
    PROVE  Remote!SilenceDisconnects
<1> SUFFICES ASSUME connected, silence = Remote!SilenceBound
             PROVE  FALSE
  BY DEF Remote!SilenceDisconnects
<1>1. RemoteTyped /\ Heard
  BY DEF RemoteInv
<1>2. silence <= REMOTE_DISCONNECT_TIMEOUT + MaxStall - 1 + stall
                     + (IF pc = "idle" THEN MaxStall ELSE 0)
  BY <1>1 DEF Heard
<1>3. silence = REMOTE_DISCONNECT_TIMEOUT + 3 * MaxStall
  BY DEF Remote!SilenceBound
<1>4. stall \in 0 .. MaxStall
  BY <1>1 DEF RemoteTyped
<1>5. /\ MaxStall \in Nat /\ MaxStall > 0 /\ REMOTE_DISCONNECT_TIMEOUT \in Nat
  BY TimingFacts
<1>6. QED
  BY <1>2, <1>3, <1>4, <1>5

-----------------------------------------------------------------------------
(***************************************************************************)
(* What is in a frame of the remote.  The bits of a number of eleven bits  *)
(* and of one of two, and the parts of it that share a byte.               *)
(***************************************************************************)
HasBits(n, b) ==
    /\ \A k \in 0 .. 10 : Info!Bit(n, k) = b[k]
    /\ n % 256 = b[0] + 2 * b[1] + 4 * b[2] + 8 * b[3] + 16 * b[4] + 32 * b[5] + 64 * b[6]
                    + 128 * b[7]
    /\ n \div 256 = b[8] + 2 * b[9] + 4 * b[10]
    /\ n % 32 = b[0] + 2 * b[1] + 4 * b[2] + 8 * b[3] + 16 * b[4]
    /\ n \div 32 = b[5] + 2 * b[6] + 4 * b[7] + 8 * b[8] + 16 * b[9] + 32 * b[10]
    /\ n % 4 = b[0] + 2 * b[1]
    /\ (n \div 4) % 256 = b[2] + 2 * b[3] + 4 * b[4] + 8 * b[5] + 16 * b[6] + 32 * b[7]
                               + 64 * b[8] + 128 * b[9]
    /\ n \div 1024 = b[10]
    /\ n % 128 = b[0] + 2 * b[1] + 4 * b[2] + 8 * b[3] + 16 * b[4] + 32 * b[5] + 64 * b[6]
    /\ n \div 128 = b[7] + 2 * b[8] + 4 * b[9] + 8 * b[10]

LEMMA BitsOfStick ==
    ASSUME NEW n \in Info!ElevenBits PROVE \E b \in [0 .. 10 -> 0 .. 1] : HasBits(n, b)
<1> PICK b : b = [k \in 0 .. 10 |-> Info!Bit(n, k)]
  BY Zenon
<1>0. n \in 0 .. 2047
  BY DEF Info!ElevenBits
<1> USE <1>0
<1>1. ASSUME NEW k \in 0 .. 10 PROVE Info!Bit(n, k) \in 0 .. 1
  <2>1. Info!PowerOf2[k + 1] \in Nat \ {0}
    BY DEF Info!PowerOf2
  <2>2. n \div Info!PowerOf2[k + 1] \in Int
    BY <2>1
  <2>3. QED
    BY <2>2 DEF Info!Bit
<1>2. \A k \in 0 .. 10 : Info!Bit(n, k) = b[k]
  OBVIOUS
<1>3. b \in [0 .. 10 -> 0 .. 1]
  BY <1>1
<1>4. PICK b0 \in 0 .. 1 : b0 = Info!Bit(n, 0)
  BY <1>1
<1>5. PICK b1 \in 0 .. 1 : b1 = Info!Bit(n, 1)
  BY <1>1
<1>6. PICK b2 \in 0 .. 1 : b2 = Info!Bit(n, 2)
  BY <1>1
<1>7. PICK b3 \in 0 .. 1 : b3 = Info!Bit(n, 3)
  BY <1>1
<1>8. PICK b4 \in 0 .. 1 : b4 = Info!Bit(n, 4)
  BY <1>1
<1>9. PICK b5 \in 0 .. 1 : b5 = Info!Bit(n, 5)
  BY <1>1
<1>10. PICK b6 \in 0 .. 1 : b6 = Info!Bit(n, 6)
  BY <1>1
<1>11. PICK b7 \in 0 .. 1 : b7 = Info!Bit(n, 7)
  BY <1>1
<1>12. PICK b8 \in 0 .. 1 : b8 = Info!Bit(n, 8)
  BY <1>1
<1>13. PICK b9 \in 0 .. 1 : b9 = Info!Bit(n, 9)
  BY <1>1
<1>14. PICK b10 \in 0 .. 1 : b10 = Info!Bit(n, 10)
  BY <1>1
<1>15. PICK q1 \in Nat : q1 = n \div 2
  OBVIOUS
<1>16. PICK q2 \in Nat : q2 = n \div 4
  OBVIOUS
<1>17. PICK q3 \in Nat : q3 = n \div 8
  OBVIOUS
<1>18. PICK q4 \in Nat : q4 = n \div 16
  OBVIOUS
<1>19. PICK q5 \in Nat : q5 = n \div 32
  OBVIOUS
<1>20. PICK q6 \in Nat : q6 = n \div 64
  OBVIOUS
<1>21. PICK q7 \in Nat : q7 = n \div 128
  OBVIOUS
<1>22. PICK q8 \in Nat : q8 = n \div 256
  OBVIOUS
<1>23. PICK q9 \in Nat : q9 = n \div 512
  OBVIOUS
<1>24. PICK q10 \in Nat : q10 = n \div 1024
  OBVIOUS
<1>25. n = 2 * q1 + b0
  BY <1>4, <1>15 DEF Info!Bit, Info!PowerOf2
<1>26. q1 = 2 * q2 + b1
  BY <1>5, <1>15, <1>16 DEF Info!Bit, Info!PowerOf2
<1>27. q2 = 2 * q3 + b2
  BY <1>6, <1>16, <1>17 DEF Info!Bit, Info!PowerOf2
<1>28. q3 = 2 * q4 + b3
  BY <1>7, <1>17, <1>18 DEF Info!Bit, Info!PowerOf2
<1>29. q4 = 2 * q5 + b4
  BY <1>8, <1>18, <1>19 DEF Info!Bit, Info!PowerOf2
<1>30. q5 = 2 * q6 + b5
  BY <1>9, <1>19, <1>20 DEF Info!Bit, Info!PowerOf2
<1>31. q6 = 2 * q7 + b6
  BY <1>10, <1>20, <1>21 DEF Info!Bit, Info!PowerOf2
<1>32. q7 = 2 * q8 + b7
  BY <1>11, <1>21, <1>22 DEF Info!Bit, Info!PowerOf2
<1>33. q8 = 2 * q9 + b8
  BY <1>12, <1>22, <1>23 DEF Info!Bit, Info!PowerOf2
<1>34. q9 = 2 * q10 + b9
  BY <1>13, <1>23, <1>24 DEF Info!Bit, Info!PowerOf2
<1>35. q10 = b10
  BY <1>14, <1>24 DEF Info!Bit, Info!PowerOf2
<1>36. n % 256 = b0 + 2 * b1 + 4 * b2 + 8 * b3 + 16 * b4 + 32 * b5 + 64 * b6 + 128 * b7
  <2>1. PICK low \in 0 .. 255 :
                   low = b0 + 2 * b1 + 4 * b2 + 8 * b3 + 16 * b4
                           + 32 * b5 + 64 * b6 + 128 * b7
    OBVIOUS
  <2>2. n = 256 * q8 + low
    BY <2>1, <1>25, <1>26, <1>27, <1>28, <1>29, <1>30, <1>31, <1>32
  <2>3. n % 256 = low
    BY <2>2
  <2>4. QED
    BY <2>1, <2>3
<1>37. n \div 256 = b8 + 2 * b9 + 4 * b10
  BY <1>22, <1>33, <1>34, <1>35
<1>38. n % 32 = b0 + 2 * b1 + 4 * b2 + 8 * b3 + 16 * b4
  <2>1. PICK low \in 0 .. 31 : low = b0 + 2 * b1 + 4 * b2 + 8 * b3 + 16 * b4
    OBVIOUS
  <2>2. n = 32 * q5 + low
    BY <2>1, <1>25, <1>26, <1>27, <1>28, <1>29
  <2>3. n % 32 = low
    BY <2>2
  <2>4. QED
    BY <2>1, <2>3
<1>39. n \div 32 = b5 + 2 * b6 + 4 * b7 + 8 * b8 + 16 * b9 + 32 * b10
  BY <1>19, <1>30, <1>31, <1>32, <1>33, <1>34, <1>35
<1>40. n % 4 = b0 + 2 * b1
  <2>1. PICK low \in 0 .. 3 : low = b0 + 2 * b1
    OBVIOUS
  <2>2. n = 4 * q2 + low
    BY <2>1, <1>25, <1>26
  <2>3. n % 4 = low
    BY <2>2
  <2>4. QED
    BY <2>1, <2>3
<1>41. (n \div 4) % 256 = b2 + 2 * b3 + 4 * b4 + 8 * b5 + 16 * b6 + 32 * b7 + 64 * b8
         + 128 * b9
  <2>1. PICK low \in 0 .. 255 :
                   low = b2 + 2 * b3 + 4 * b4 + 8 * b5 + 16 * b6
                           + 32 * b7 + 64 * b8 + 128 * b9
    OBVIOUS
  <2>2. q2 = 256 * q10 + low
    BY <2>1, <1>27, <1>28, <1>29, <1>30, <1>31, <1>32, <1>33, <1>34
  <2>3. q2 % 256 = low
    BY <2>2
  <2>4. QED
    BY <2>1, <2>3, <1>16
<1>42. n \div 1024 = b10
  BY <1>24, <1>35
<1>43. n % 128 = b0 + 2 * b1 + 4 * b2 + 8 * b3 + 16 * b4 + 32 * b5 + 64 * b6
  <2>1. PICK low \in 0 .. 127 : low = b0 + 2 * b1 + 4 * b2 + 8 * b3 + 16 * b4 + 32 * b5 + 64 * b6
    OBVIOUS
  <2>2. n = 128 * q7 + low
    BY <2>1, <1>25, <1>26, <1>27, <1>28, <1>29, <1>30, <1>31
  <2>3. n % 128 = low
    BY <2>2
  <2>4. QED
    BY <2>1, <2>3
<1>44. n \div 128 = b7 + 2 * b8 + 4 * b9 + 8 * b10
  BY <1>21, <1>32, <1>33, <1>34, <1>35
<1>45. /\ b0 = b[0] /\ b1 = b[1] /\ b2 = b[2] /\ b3 = b[3] /\ b4 = b[4] /\ b5 = b[5]
       /\ b6 = b[6] /\ b7 = b[7] /\ b8 = b[8] /\ b9 = b[9] /\ b10 = b[10]
  BY <1>4, <1>5, <1>6, <1>7, <1>8, <1>9, <1>10, <1>11, <1>12, <1>13, <1>14, <1>2
<1>46. QED
  <2>1. HasBits(n, b)
    BY <1>36, <1>37, <1>38, <1>39, <1>40, <1>41, <1>42, <1>43, <1>44, <1>2, <1>45
       DEF HasBits
  <2>2. QED
    BY <1>3, <2>1

LEMMA TwoBits == \A n \in 0 .. 3 : Info!Bit(n, 0) + 2 * Info!Bit(n, 1) = n
  BY DEF Info!Bit, Info!PowerOf2

LEMMA ByteOfBits ==
    ASSUME NEW g \in [0 .. 7 -> 0 .. 1], NEW S, \A i \in 0 .. 7 : i \in S <=> g[i] = 1
    PROVE  Info!Byte(S) = g[0] + 2 * g[1] + 4 * g[2] + 8 * g[3] + 16 * g[4] + 32 * g[5]
                              + 64 * g[6] + 128 * g[7]
<1> DEFINE of(k) == IF k \in S THEN Info!PowerOf2[k + 1] ELSE 0
<1>1. \A i \in 0 .. 7 : g[i] \in 0 .. 1
  OBVIOUS
<1>2. /\ of(0) = g[0] /\ of(1) = 2 * g[1] /\ of(2) = 4 * g[2] /\ of(3) = 8 * g[3]
      /\ of(4) = 16 * g[4] /\ of(5) = 32 * g[5] /\ of(6) = 64 * g[6] /\ of(7) = 128 * g[7]
  BY <1>1 DEF Info!PowerOf2
<1>3. Info!Byte(S) = of(0) + of(1) + of(2) + of(3) + of(4) + of(5) + of(6) + of(7)
  BY DEF Info!Byte
<1> HIDE DEF of
<1>4. QED
  BY <1>2, <1>3

LEMMA BitsOfSwitch ==
    ASSUME NEW n \in 0 .. 3
    PROVE  \E b \in [0 .. 1 -> 0 .. 1] :
           /\ \A k \in 0 .. 1 : Info!Bit(n, k) = b[k]
           /\ n = b[0] + 2 * b[1]
<1> PICK b : b = [k \in 0 .. 1 |-> Info!Bit(n, k)]
  BY Zenon
<1>1. b \in [0 .. 1 -> 0 .. 1]
  BY DEF Info!Bit, Info!PowerOf2
<1>2. n = b[0] + 2 * b[1]
  BY TwoBits
<1>3. QED
  BY <1>1, <1>2

(* The places of the bits in the frame. *)
LEMMA PlacesOfBits ==
    ASSUME NEW d
    PROVE  /\ \A m \in 0 .. 10 : Info!FirstBits(d)[m] = Info!Bit(d.rightHorizontal, m)
           /\ \A m \in 11 .. 21 : Info!FirstBits(d)[m] = Info!Bit(d.rightVertical, m - 11)
           /\ \A m \in 22 .. 32 : Info!FirstBits(d)[m] = Info!Bit(d.leftHorizontal, m - 22)
           /\ \A m \in 33 .. 43 : Info!FirstBits(d)[m] = Info!Bit(d.leftVertical, m - 33)
           /\ \A m \in 44 .. 45 : Info!FirstBits(d)[m] = Info!Bit(d.rightSwitch, m - 44)
           /\ \A m \in 46 .. 47 : Info!FirstBits(d)[m] = Info!Bit(d.leftSwitch, m - 46)
<1> DEFINE channels == <<d.rightHorizontal, d.rightVertical, d.leftHorizontal, d.leftVertical>>
<1>1. /\ channels[1] = d.rightHorizontal /\ channels[2] = d.rightVertical
      /\ channels[3] = d.leftHorizontal /\ channels[4] = d.leftVertical
  OBVIOUS
<1>2. \A m \in 0 .. 47 : Info!FirstBits(d)[m] =
          IF m < 44 THEN Info!Bit(channels[1 + m \div 11], m % 11)
          ELSE IF m < 46 THEN Info!Bit(d.rightSwitch, m - 44) ELSE Info!Bit(d.leftSwitch, m - 46)
  BY DEF Info!FirstBits
<1> HIDE DEF channels
<1>3. ASSUME NEW c \in 0 .. 3, NEW m \in 11 * c .. 11 * c + 10
      PROVE  Info!FirstBits(d)[m] = Info!Bit(channels[1 + c], m - 11 * c)
  <2>1. m \in 0 .. 47 /\ m < 44 /\ m \div 11 = c /\ m % 11 = m - 11 * c
    OBVIOUS
  <2>2. QED
    BY <1>2, <2>1
<1>4. /\ 11 * 0 = 0 /\ 11 * 1 = 11 /\ 11 * 2 = 22 /\ 11 * 3 = 33
      /\ 1 + 0 = 1 /\ 1 + 1 = 2 /\ 1 + 2 = 3 /\ 1 + 3 = 4
  OBVIOUS
<1>5. ASSUME NEW m \in 0 .. 10
      PROVE  Info!FirstBits(d)[m] = Info!Bit(d.rightHorizontal, m)
  <2>1. m \in 11 * 0 .. 11 * 0 + 10 /\ m - 11 * 0 = m
    OBVIOUS
  <2>2. Info!FirstBits(d)[m] = Info!Bit(channels[1 + 0], m - 11 * 0)
    BY <1>3, <2>1
  <2>3. QED
    BY <1>1, <1>4, <2>1, <2>2

<1>6. ASSUME NEW m \in 11 .. 21
      PROVE  Info!FirstBits(d)[m] = Info!Bit(d.rightVertical, m - 11)
  <2>1. m \in 11 * 1 .. 11 * 1 + 10 /\ m - 11 * 1 = m - 11
    OBVIOUS
  <2>2. Info!FirstBits(d)[m] = Info!Bit(channels[1 + 1], m - 11 * 1)
    BY <1>3, <2>1
  <2>3. QED
    BY <1>1, <1>4, <2>1, <2>2

<1>7. ASSUME NEW m \in 22 .. 32
      PROVE  Info!FirstBits(d)[m] = Info!Bit(d.leftHorizontal, m - 22)
  <2>1. m \in 11 * 2 .. 11 * 2 + 10 /\ m - 11 * 2 = m - 22
    OBVIOUS
  <2>2. Info!FirstBits(d)[m] = Info!Bit(channels[1 + 2], m - 11 * 2)
    BY <1>3, <2>1
  <2>3. QED
    BY <1>1, <1>4, <2>1, <2>2

<1>8. ASSUME NEW m \in 33 .. 43
      PROVE  Info!FirstBits(d)[m] = Info!Bit(d.leftVertical, m - 33)
  <2>1. m \in 11 * 3 .. 11 * 3 + 10 /\ m - 11 * 3 = m - 33
    OBVIOUS
  <2>2. Info!FirstBits(d)[m] = Info!Bit(channels[1 + 3], m - 11 * 3)
    BY <1>3, <2>1
  <2>3. QED
    BY <1>1, <1>4, <2>1, <2>2

<1>9. ASSUME NEW m \in 44 .. 45
      PROVE  Info!FirstBits(d)[m] = Info!Bit(d.rightSwitch, m - 44)
  <2>1. m \in 0 .. 47 /\ ~(m < 44) /\ m < 46
    OBVIOUS
  <2>2. QED
    BY <1>2, <2>1
<1>10. ASSUME NEW m \in 46 .. 47
       PROVE  Info!FirstBits(d)[m] = Info!Bit(d.leftSwitch, m - 46)
  <2>1. m \in 0 .. 47 /\ ~(m < 44) /\ ~(m < 46)
    OBVIOUS
  <2>2. QED
    BY <1>2, <2>1
<1>11. QED
  BY <1>5, <1>6, <1>7, <1>8, <1>9, <1>10

(* A byte of the sticks and the switches. *)
StickByte(d, j) == Info!Byte({i \in 0 .. 7 : Info!FirstBits(d)[8 * j + i] = 1})

LEMMA StickByteIs ==
    ASSUME NEW d, NEW j \in 0 .. 5, NEW g \in [0 .. 7 -> 0 .. 1],
           \A i \in 0 .. 7 : Info!FirstBits(d)[8 * j + i] = g[i]
    PROVE  StickByte(d, j) =
               g[0] + 2 * g[1] + 4 * g[2] + 8 * g[3] + 16 * g[4] + 32 * g[5]
               + 64 * g[6] + 128 * g[7]
<1> PICK S : S = {i \in 0 .. 7 : Info!FirstBits(d)[8 * j + i] = 1}
  BY Zenon
<1>1. \A i \in 0 .. 7 : i \in S <=> g[i] = 1
  OBVIOUS
<1>2. QED
  BY <1>1, ByteOfBits DEF StickByte

(* The bytes that a frame's channels and switches are sent in, and how they are
   read from them. *)
Sent0(a) == a % 256
Sent1(a, b) == a \div 256 + 8 * (b % 32)
Sent2(b, c) == b \div 32 + 64 * (c % 4)
Sent3(c) == (c \div 4) % 256
Sent4(c, e) == c \div 1024 + 2 * (e % 128)
Sent5(e, r, l) == e \div 128 + 16 * r + 64 * l

First(x, y) == (x + y * 256) % 2048
Second(x, y) == (x \div 8 + y * 32) % 2048
Third(x, y, z) == (x \div 64 + y * 4 + z * 1024) % 2048
Last(x, y) == (x \div 2 + y * 128) % 2048
LeftOf(x) == (x \div 64) % 4
RightOf(x) == (x \div 16) % 4
Word(x, y) == x + y * 256
Wheel(w) == Info!Int16(w - 1024)
FromMiddle(n) == n - 1024

LEMMA StickBytes ==
    ASSUME NEW d, Info!IsDriven(d)
    PROVE  /\ StickByte(d, 0) = Sent0(d.rightHorizontal)
           /\ StickByte(d, 1) = Sent1(d.rightHorizontal, d.rightVertical)
           /\ StickByte(d, 2) = Sent2(d.rightVertical, d.leftHorizontal)
           /\ StickByte(d, 3) = Sent3(d.leftHorizontal)
           /\ StickByte(d, 4) = Sent4(d.leftHorizontal, d.leftVertical)
           /\ StickByte(d, 5) = Sent5(d.leftVertical, d.rightSwitch, d.leftSwitch)
<1>1. /\ d.rightHorizontal \in Info!ElevenBits /\ d.rightVertical \in Info!ElevenBits
      /\ d.leftHorizontal \in Info!ElevenBits /\ d.leftVertical \in Info!ElevenBits
      /\ d.rightSwitch \in 0 .. 3 /\ d.leftSwitch \in 0 .. 3
  <2>1. /\ {d.rightHorizontal, d.rightVertical, d.leftHorizontal, d.leftVertical, d.wheel}
               \subseteq Info!ElevenBits
        /\ {d.leftSwitch, d.rightSwitch} \subseteq 0 .. 3
    BY Zenon DEF Info!IsDriven
  <2>2. QED
    BY <2>1
<1>2. PICK a \in [0 .. 10 -> 0 .. 1] : HasBits(d.rightHorizontal, a)
  BY <1>1, BitsOfStick, Zenon
<1>3. PICK b \in [0 .. 10 -> 0 .. 1] : HasBits(d.rightVertical, b)
  BY <1>1, BitsOfStick, Zenon
<1>4. PICK c \in [0 .. 10 -> 0 .. 1] : HasBits(d.leftHorizontal, c)
  BY <1>1, BitsOfStick, Zenon
<1>5. PICK e \in [0 .. 10 -> 0 .. 1] : HasBits(d.leftVertical, e)
  BY <1>1, BitsOfStick, Zenon
<1>6. PICK r \in [0 .. 1 -> 0 .. 1] :
          /\ \A k \in 0 .. 1 : Info!Bit(d.rightSwitch, k) = r[k]
          /\ d.rightSwitch = r[0] + 2 * r[1]
  BY <1>1, BitsOfSwitch
<1>7. PICK l \in [0 .. 1 -> 0 .. 1] :
          /\ \A k \in 0 .. 1 : Info!Bit(d.leftSwitch, k) = l[k]
          /\ d.leftSwitch = l[0] + 2 * l[1]
  BY <1>1, BitsOfSwitch
<1>8. StickByte(d, 0) = d.rightHorizontal % 256
  <2> DEFINE g == [i \in 0 .. 7 |-> Info!FirstBits(d)[8 * 0 + i]]
  <2>1. /\ g[0] = a[0] /\ g[1] = a[1] /\ g[2] = a[2] /\ g[3] = a[3]
        /\ g[4] = a[4] /\ g[5] = a[5] /\ g[6] = a[6] /\ g[7] = a[7]
    BY <1>2, PlacesOfBits DEF HasBits
  <2>2. g \in [0 .. 7 -> 0 .. 1]
    <3>1. \A i \in 0 .. 7 : g[i] \in 0 .. 1
      BY <2>1
    <3>2. QED
      BY <3>1
  <2>3. \A i \in 0 .. 7 : Info!FirstBits(d)[8 * 0 + i] = g[i]
    OBVIOUS
  <2> HIDE DEF g
  <2>4. StickByte(d, 0) = g[0] + 2 * g[1] + 4 * g[2] + 8 * g[3] + 16 * g[4] + 32 * g[5]
                               + 64 * g[6] + 128 * g[7]
    BY <2>2, <2>3, StickByteIs
  <2>5. QED
    BY <1>2, <2>1, <2>4 DEF HasBits
<1>9. StickByte(d, 1) = d.rightHorizontal \div 256 + 8 * (d.rightVertical % 32)
  <2> DEFINE g == [i \in 0 .. 7 |-> Info!FirstBits(d)[8 * 1 + i]]
  <2>1. /\ g[0] = a[8] /\ g[1] = a[9] /\ g[2] = a[10] /\ g[3] = b[0]
        /\ g[4] = b[1] /\ g[5] = b[2] /\ g[6] = b[3] /\ g[7] = b[4]
    BY <1>2, <1>3, PlacesOfBits DEF HasBits
  <2>2. g \in [0 .. 7 -> 0 .. 1]
    <3>1. \A i \in 0 .. 7 : g[i] \in 0 .. 1
      BY <2>1
    <3>2. QED
      BY <3>1
  <2>3. \A i \in 0 .. 7 : Info!FirstBits(d)[8 * 1 + i] = g[i]
    OBVIOUS
  <2> HIDE DEF g
  <2>4. StickByte(d, 1) = g[0] + 2 * g[1] + 4 * g[2] + 8 * g[3] + 16 * g[4] + 32 * g[5]
                               + 64 * g[6] + 128 * g[7]
    BY <2>2, <2>3, StickByteIs
  <2>5. QED
    BY <1>2, <1>3, <2>1, <2>4 DEF HasBits
<1>10. StickByte(d, 2) = d.rightVertical \div 32 + 64 * (d.leftHorizontal % 4)
  <2> DEFINE g == [i \in 0 .. 7 |-> Info!FirstBits(d)[8 * 2 + i]]
  <2>1. /\ g[0] = b[5] /\ g[1] = b[6] /\ g[2] = b[7] /\ g[3] = b[8]
        /\ g[4] = b[9] /\ g[5] = b[10] /\ g[6] = c[0] /\ g[7] = c[1]
    BY <1>3, <1>4, PlacesOfBits DEF HasBits
  <2>2. g \in [0 .. 7 -> 0 .. 1]
    <3>1. \A i \in 0 .. 7 : g[i] \in 0 .. 1
      BY <2>1
    <3>2. QED
      BY <3>1
  <2>3. \A i \in 0 .. 7 : Info!FirstBits(d)[8 * 2 + i] = g[i]
    OBVIOUS
  <2> HIDE DEF g
  <2>4. StickByte(d, 2) = g[0] + 2 * g[1] + 4 * g[2] + 8 * g[3] + 16 * g[4] + 32 * g[5]
                               + 64 * g[6] + 128 * g[7]
    BY <2>2, <2>3, StickByteIs
  <2>5. QED
    BY <1>3, <1>4, <2>1, <2>4 DEF HasBits
<1>11. StickByte(d, 3) = (d.leftHorizontal \div 4) % 256
  <2> DEFINE g == [i \in 0 .. 7 |-> Info!FirstBits(d)[8 * 3 + i]]
  <2>1. /\ g[0] = c[2] /\ g[1] = c[3] /\ g[2] = c[4] /\ g[3] = c[5]
        /\ g[4] = c[6] /\ g[5] = c[7] /\ g[6] = c[8] /\ g[7] = c[9]
    BY <1>4, PlacesOfBits DEF HasBits
  <2>2. g \in [0 .. 7 -> 0 .. 1]
    <3>1. \A i \in 0 .. 7 : g[i] \in 0 .. 1
      BY <2>1
    <3>2. QED
      BY <3>1
  <2>3. \A i \in 0 .. 7 : Info!FirstBits(d)[8 * 3 + i] = g[i]
    OBVIOUS
  <2> HIDE DEF g
  <2>4. StickByte(d, 3) = g[0] + 2 * g[1] + 4 * g[2] + 8 * g[3] + 16 * g[4] + 32 * g[5]
                               + 64 * g[6] + 128 * g[7]
    BY <2>2, <2>3, StickByteIs
  <2>5. QED
    BY <1>4, <2>1, <2>4 DEF HasBits
<1>12. StickByte(d, 4) = d.leftHorizontal \div 1024 + 2 * (d.leftVertical % 128)
  <2> DEFINE g == [i \in 0 .. 7 |-> Info!FirstBits(d)[8 * 4 + i]]
  <2>1. /\ g[0] = c[10] /\ g[1] = e[0] /\ g[2] = e[1] /\ g[3] = e[2]
        /\ g[4] = e[3] /\ g[5] = e[4] /\ g[6] = e[5] /\ g[7] = e[6]
    BY <1>4, <1>5, PlacesOfBits DEF HasBits
  <2>2. g \in [0 .. 7 -> 0 .. 1]
    <3>1. \A i \in 0 .. 7 : g[i] \in 0 .. 1
      BY <2>1
    <3>2. QED
      BY <3>1
  <2>3. \A i \in 0 .. 7 : Info!FirstBits(d)[8 * 4 + i] = g[i]
    OBVIOUS
  <2> HIDE DEF g
  <2>4. StickByte(d, 4) = g[0] + 2 * g[1] + 4 * g[2] + 8 * g[3] + 16 * g[4] + 32 * g[5]
                               + 64 * g[6] + 128 * g[7]
    BY <2>2, <2>3, StickByteIs
  <2>5. QED
    BY <1>4, <1>5, <2>1, <2>4 DEF HasBits
<1>13. StickByte(d, 5) = d.leftVertical \div 128 + 16 * d.rightSwitch + 64 * d.leftSwitch
  <2> DEFINE g == [i \in 0 .. 7 |-> Info!FirstBits(d)[8 * 5 + i]]
  <2>1. /\ g[0] = e[7] /\ g[1] = e[8] /\ g[2] = e[9] /\ g[3] = e[10]
        /\ g[4] = r[0] /\ g[5] = r[1] /\ g[6] = l[0] /\ g[7] = l[1]
    BY <1>5, <1>6, <1>7, PlacesOfBits DEF HasBits
  <2>2. g \in [0 .. 7 -> 0 .. 1]
    <3>1. \A i \in 0 .. 7 : g[i] \in 0 .. 1
      BY <2>1
    <3>2. QED
      BY <3>1
  <2>3. \A i \in 0 .. 7 : Info!FirstBits(d)[8 * 5 + i] = g[i]
    OBVIOUS
  <2> HIDE DEF g
  <2>4. StickByte(d, 5) = g[0] + 2 * g[1] + 4 * g[2] + 8 * g[3] + 16 * g[4] + 32 * g[5]
                               + 64 * g[6] + 128 * g[7]
    BY <2>2, <2>3, StickByteIs
  <2>5. QED
    BY <1>5, <1>6, <1>7, <2>1, <2>4 DEF HasBits
<1>14. QED
  BY <1>8, <1>9, <1>10, <1>11, <1>12, <1>13 DEF Sent0, Sent1, Sent2, Sent3, Sent4, Sent5

(* The bytes of a frame, one by one. *)
LEMMA BytesOfFrame ==
    ASSUME NEW d
    PROVE  /\ \A j \in 0 .. 5 : Info!FrameOf(d)[j + 1] = StickByte(d, j)
           /\ Info!FrameOf(d)[7] = Info!LowByte(d.mouse.x)
           /\ Info!FrameOf(d)[8] = Info!HighByte(d.mouse.x)
           /\ Info!FrameOf(d)[9] = Info!LowByte(d.mouse.y)
           /\ Info!FrameOf(d)[10] = Info!HighByte(d.mouse.y)
           /\ Info!FrameOf(d)[11] = Info!LowByte(d.mouse.z)
           /\ Info!FrameOf(d)[12] = Info!HighByte(d.mouse.z)
           /\ Info!FrameOf(d)[13] = IF d.mouse.l THEN 1 ELSE 0
           /\ Info!FrameOf(d)[14] = IF d.mouse.r THEN 1 ELSE 0
           /\ Info!FrameOf(d)[15] = Info!Byte(d.keys)
           /\ Info!FrameOf(d)[16] = Info!Byte({i \in 0 .. 7 : i + 8 \in d.keys})
           /\ Info!FrameOf(d)[17] = Info!LowByte(d.wheel)
           /\ Info!FrameOf(d)[18] = Info!HighByte(d.wheel)
  BY DEF Info!FrameOf, StickByte

(* What is read from bytes, part by part. *)
LEMMA PartsOfParsed ==
    ASSUME NEW f, NEW n
    PROVE  LET info == Info!Parsed(f, n) IN
           /\ info.updateCounter = n
           /\ info.rightHorizontal = FromMiddle(First(f[1], f[2]))
           /\ info.rightVertical = FromMiddle(Second(f[2], f[3]))
           /\ info.leftHorizontal = FromMiddle(Third(f[3], f[4], f[5]))
           /\ info.leftVertical = FromMiddle(Last(f[5], f[6]))
           /\ info.leftSwitch = LeftOf(f[6])
           /\ info.rightSwitch = RightOf(f[6])
           /\ info.mouse = [x |-> Info!Int16(Word(f[7], f[8])),
                            y |-> Info!Int16(Word(f[9], f[10])),
                            z |-> Info!Int16(Word(f[11], f[12])),
                            l |-> f[13] # 0, r |-> f[14] # 0]
           /\ info.key = Word(f[15], f[16])
           /\ info.wheel = Wheel(Word(f[17], f[18]))
<1> DEFINE info == Info!Parsed(f, n)
<1>1. info.updateCounter = n
  BY DEF Info!Parsed, Info!LeftHorizontal
<1>2. info.rightHorizontal = FromMiddle(First(f[1], f[2]))
  BY DEF First, FromMiddle, Info!Parsed, Info!LeftHorizontal
<1>3. info.rightVertical = FromMiddle(Second(f[2], f[3]))
  BY DEF Second, FromMiddle, Info!Parsed, Info!LeftHorizontal
<1>4. info.leftHorizontal = FromMiddle(Third(f[3], f[4], f[5]))
  BY DEF Third, FromMiddle, Info!Parsed, Info!LeftHorizontal
<1>5. info.leftVertical = FromMiddle(Last(f[5], f[6]))
  BY DEF Last, FromMiddle, Info!Parsed, Info!LeftHorizontal
<1>6. info.leftSwitch = LeftOf(f[6])
  BY DEF LeftOf, Info!Parsed, Info!LeftHorizontal
<1>7. info.rightSwitch = RightOf(f[6])
  BY DEF RightOf, Info!Parsed, Info!LeftHorizontal
<1>8. info.mouse = [x |-> Info!Int16(Word(f[7], f[8])),
                            y |-> Info!Int16(Word(f[9], f[10])),
                            z |-> Info!Int16(Word(f[11], f[12])),
                            l |-> f[13] # 0, r |-> f[14] # 0]
  <2>1. PICK x : x = Info!Int16(f[6 + 1] + f[6 + 1 + 1] * 256)
    BY Zenon
  <2>2. PICK y : y = Info!Int16(f[8 + 1] + f[8 + 1 + 1] * 256)
    BY Zenon
  <2>3. PICK z : z = Info!Int16(f[10 + 1] + f[10 + 1 + 1] * 256)
    BY Zenon
  <2>4. PICK l : l = (f[12 + 1] # 0)
    BY Zenon
  <2>5. PICK r : r = (f[13 + 1] # 0)
    BY Zenon
  <2>6. info.mouse = [x |-> x, y |-> y, z |-> z, l |-> l, r |-> r]
    BY <2>1, <2>2, <2>3, <2>4, <2>5, Zenon DEF Info!Parsed
  <2>7. x = Info!Int16(Word(f[7], f[8]))
    BY <2>1 DEF Word
  <2>8. y = Info!Int16(Word(f[9], f[10]))
    BY <2>2 DEF Word
  <2>9. z = Info!Int16(Word(f[11], f[12]))
    BY <2>3 DEF Word
  <2>10. l = (f[13] # 0) /\ r = (f[14] # 0)
    BY <2>4, <2>5
  <2>11. QED
    BY <2>6, <2>7, <2>8, <2>9, <2>10, Zenon
<1>9. info.key = Word(f[15], f[16])
  BY DEF Word, Info!Parsed, Info!LeftHorizontal
<1>10. info.wheel = Wheel(Word(f[17], f[18]))
  BY DEF Word, Wheel, Info!Parsed, Info!LeftHorizontal
<1>11. QED
  BY <1>1, <1>2, <1>3, <1>4, <1>5, <1>6, <1>7, <1>8, <1>9, <1>10

(* The channels and the switches, from the bytes they share. *)
LEMMA FirstOfThree ==
    ASSUME NEW a \in Info!ElevenBits, NEW b \in Info!ElevenBits
    PROVE  First(Sent0(a), Sent1(a, b)) = a
<1>0. a \in Nat /\ a < 2048 /\ b \in Nat /\ b < 2048
  BY DEF Info!ElevenBits
<1> USE <1>0
<1>1. PICK low \in Nat : low = a % 256
  OBVIOUS
<1>2. PICK high \in Nat : high = a \div 256
  OBVIOUS
<1>3. PICK other \in Nat : other = b % 32
  OBVIOUS
<1>4. a = 256 * high + low
  BY <1>1, <1>2
<1>5. low + (high + 8 * other) * 256 = a + 2048 * other
  BY <1>4
<1>6. (a + 2048 * other) % 2048 = a
  OBVIOUS
<1>7. QED
  BY <1>1, <1>2, <1>3, <1>5, <1>6 DEF First, Sent0, Sent1

LEMMA SecondOfThree ==
    ASSUME NEW a \in Info!ElevenBits, NEW b \in Info!ElevenBits, NEW c \in Info!ElevenBits
    PROVE  Second(Sent1(a, b), Sent2(b, c)) = b
<1>0. a \in Nat /\ a < 2048 /\ b \in Nat /\ b < 2048 /\ c \in Nat /\ c < 2048
  BY DEF Info!ElevenBits
<1> USE <1>0
<1>1. PICK x \in Nat : x = a \div 256 /\ x < 8
  OBVIOUS
<1>2. PICK low \in Nat : low = b % 32
  OBVIOUS
<1>3. PICK high \in Nat : high = b \div 32
  OBVIOUS
<1>4. PICK other \in Nat : other = c % 4
  OBVIOUS
<1>5. b = 32 * high + low
  BY <1>2, <1>3
<1>6. (x + 8 * low) \div 8 = low
  BY <1>1
<1>7. low + (high + 64 * other) * 32 = b + 2048 * other
  BY <1>5
<1>8. (b + 2048 * other) % 2048 = b
  OBVIOUS
<1>9. QED
  BY <1>1, <1>2, <1>3, <1>4, <1>6, <1>7, <1>8 DEF Second, Sent1, Sent2

LEMMA ThirdOfThree ==
    ASSUME NEW b \in Info!ElevenBits, NEW c \in Info!ElevenBits, NEW e \in Info!ElevenBits
    PROVE  Third(Sent2(b, c), Sent3(c), Sent4(c, e)) = c
<1>0. b \in Nat /\ b < 2048 /\ c \in Nat /\ c < 2048 /\ e \in Nat /\ e < 2048
  BY DEF Info!ElevenBits
<1> USE <1>0
<1>1. PICK x \in Nat : x = b \div 32 /\ x < 64
  OBVIOUS
<1>2. PICK low \in Nat : low = c % 4
  OBVIOUS
<1>3. PICK mid \in Nat : mid = (c \div 4) % 256
  OBVIOUS
<1>4. PICK high \in Nat : high = c \div 1024
  OBVIOUS
<1>5. PICK other \in Nat : other = e % 128
  OBVIOUS
<1>6. c = 4 * mid + low + 1024 * high
  BY <1>2, <1>3, <1>4
<1>7. (x + 64 * low) \div 64 = low
  BY <1>1
<1>8. low + mid * 4 + (high + 2 * other) * 1024 = c + 2048 * other
  BY <1>6
<1>9. (c + 2048 * other) % 2048 = c
  OBVIOUS
<1>10. QED
  BY <1>1, <1>2, <1>3, <1>4, <1>5, <1>7, <1>8, <1>9 DEF Third, Sent2, Sent3, Sent4

LEMMA LastOfThree ==
    ASSUME NEW c \in Info!ElevenBits, NEW e \in Info!ElevenBits, NEW r \in 0 .. 3,
           NEW l \in 0 .. 3
    PROVE  /\ Last(Sent4(c, e), Sent5(e, r, l)) = e
           /\ LeftOf(Sent5(e, r, l)) = l /\ RightOf(Sent5(e, r, l)) = r
<1>0. c \in Nat /\ c < 2048 /\ e \in Nat /\ e < 2048
  BY DEF Info!ElevenBits
<1> USE <1>0
<1>1. PICK x \in Nat : x = c \div 1024 /\ x < 2
  OBVIOUS
<1>2. PICK low \in Nat : low = e % 128
  OBVIOUS
<1>3. PICK high \in Nat : high = e \div 128 /\ high < 16
  OBVIOUS
<1>4. e = 128 * high + low
  BY <1>2, <1>3
<1>5. (x + 2 * low) \div 2 = low
  BY <1>1
<1>6. low + (high + 16 * r + 64 * l) * 128 = e + 2048 * (r + 4 * l)
  BY <1>4
<1>7. (e + 2048 * (r + 4 * l)) % 2048 = e
  OBVIOUS
<1>8. ((high + 16 * r + 64 * l) \div 64) % 4 = l
  BY <1>3
<1>9. ((high + 16 * r + 64 * l) \div 16) % 4 = r
  BY <1>3
<1>10. Last(Sent4(c, e), Sent5(e, r, l)) = e
  BY <1>1, <1>2, <1>3, <1>5, <1>6, <1>7 DEF Last, Sent4, Sent5
<1>11. LeftOf(Sent5(e, r, l)) = l /\ RightOf(Sent5(e, r, l)) = r
  BY <1>3, <1>8, <1>9 DEF LeftOf, RightOf, Sent5
<1>12. QED
  BY <1>10, <1>11

(* A word from its two bytes. *)
LEMMA BytesOfWord ==
    ASSUME NEW w \in Int, Info!Int16(w) = w
    PROVE  Info!Int16(Word(Info!LowByte(w), Info!HighByte(w))) = w
<1>1. PICK u \in Int : u = w % 65536 /\ 0 <= u /\ u < 65536
  OBVIOUS
<1>2. PICK q \in Int : w = u + 65536 * q
  BY <1>1
<1>3. PICK low \in Int : low = w % 256 /\ 0 <= low /\ low < 256
  OBVIOUS
<1>4. low = u % 256
  BY <1>2, <1>3
<1>5. low + (u \div 256) * 256 = u
  BY <1>4
<1>6. Word(Info!LowByte(w), Info!HighByte(w)) = u
  BY <1>1, <1>3, <1>5 DEF Info!LowByte, Info!HighByte, Word
<1>7. Info!Int16(u) = Info!Int16(w)
  BY <1>1, <1>2 DEF Info!Int16
<1>8. QED
  BY <1>6, <1>7

LEMMA BytesOfWheel ==
    ASSUME NEW w \in Info!ElevenBits
    PROVE  Wheel(Word(Info!LowByte(w), Info!HighByte(w))) = FromMiddle(w)
<1>0. w \in Nat /\ w < 2048
  BY DEF Info!ElevenBits
<1>1. Word(Info!LowByte(w), Info!HighByte(w)) = w
  BY <1>0 DEF Info!LowByte, Info!HighByte, Word
<1>2. Info!Int16(w - 1024) = w - 1024
  BY <1>0 DEF Info!Int16
<1>3. QED
  BY <1>1, <1>2 DEF Wheel, FromMiddle

(* The keys.  A word is one bit and twice the rest of it. *)
LEMMA HalfOfWord ==
    ASSUME NEW n \in Nat
    PROVE  /\ n \div 4 = (n \div 2) \div 2
           /\ n \div 8 = (n \div 4) \div 2
           /\ n \div 16 = (n \div 8) \div 2
           /\ n \div 32 = (n \div 16) \div 2
           /\ n \div 64 = (n \div 32) \div 2
           /\ n \div 128 = (n \div 64) \div 2
           /\ n \div 256 = (n \div 128) \div 2
           /\ n \div 512 = (n \div 256) \div 2
           /\ n \div 1024 = (n \div 512) \div 2
           /\ n \div 2048 = (n \div 1024) \div 2
           /\ n \div 4096 = (n \div 2048) \div 2
           /\ n \div 8192 = (n \div 4096) \div 2
           /\ n \div 16384 = (n \div 8192) \div 2
           /\ n \div 32768 = (n \div 16384) \div 2
<1>1. n \div 4 = (n \div 2) \div 2
  OBVIOUS
<1>2. n \div 8 = (n \div 4) \div 2
  OBVIOUS
<1>3. n \div 16 = (n \div 8) \div 2
  OBVIOUS
<1>4. n \div 32 = (n \div 16) \div 2
  OBVIOUS
<1>5. n \div 64 = (n \div 32) \div 2
  OBVIOUS
<1>6. n \div 128 = (n \div 64) \div 2
  OBVIOUS
<1>7. n \div 256 = (n \div 128) \div 2
  OBVIOUS
<1>8. n \div 512 = (n \div 256) \div 2
  OBVIOUS
<1>9. n \div 1024 = (n \div 512) \div 2
  OBVIOUS
<1>10. n \div 2048 = (n \div 1024) \div 2
  OBVIOUS
<1>11. n \div 4096 = (n \div 2048) \div 2
  OBVIOUS
<1>12. n \div 8192 = (n \div 4096) \div 2
  OBVIOUS
<1>13. n \div 16384 = (n \div 8192) \div 2
  OBVIOUS
<1>14. n \div 32768 = (n \div 16384) \div 2
  OBVIOUS
<1>15. QED
  BY <1>1, <1>2, <1>3, <1>4, <1>5, <1>6, <1>7,
     <1>8, <1>9, <1>10, <1>11, <1>12, <1>13, <1>14

LEMMA KeysOfBytes ==
    ASSUME NEW keys, NEW word,
           word = Word(Info!Byte(keys), Info!Byte({i \in 0 .. 7 : i + 8 \in keys}))
    PROVE  \A k \in 0 .. 15 : Info!Bit(word, k) = 1 <=> k \in keys
<1>1. PICK b0 \in 0 .. 1 : b0 = 1 <=> 0 \in keys
  OBVIOUS
<1>2. PICK b1 \in 0 .. 1 : b1 = 1 <=> 1 \in keys
  OBVIOUS
<1>3. PICK b2 \in 0 .. 1 : b2 = 1 <=> 2 \in keys
  OBVIOUS
<1>4. PICK b3 \in 0 .. 1 : b3 = 1 <=> 3 \in keys
  OBVIOUS
<1>5. PICK b4 \in 0 .. 1 : b4 = 1 <=> 4 \in keys
  OBVIOUS
<1>6. PICK b5 \in 0 .. 1 : b5 = 1 <=> 5 \in keys
  OBVIOUS
<1>7. PICK b6 \in 0 .. 1 : b6 = 1 <=> 6 \in keys
  OBVIOUS
<1>8. PICK b7 \in 0 .. 1 : b7 = 1 <=> 7 \in keys
  OBVIOUS
<1>9. PICK b8 \in 0 .. 1 : b8 = 1 <=> 8 \in keys
  OBVIOUS
<1>10. PICK b9 \in 0 .. 1 : b9 = 1 <=> 9 \in keys
  OBVIOUS
<1>11. PICK b10 \in 0 .. 1 : b10 = 1 <=> 10 \in keys
  OBVIOUS
<1>12. PICK b11 \in 0 .. 1 : b11 = 1 <=> 11 \in keys
  OBVIOUS
<1>13. PICK b12 \in 0 .. 1 : b12 = 1 <=> 12 \in keys
  OBVIOUS
<1>14. PICK b13 \in 0 .. 1 : b13 = 1 <=> 13 \in keys
  OBVIOUS
<1>15. PICK b14 \in 0 .. 1 : b14 = 1 <=> 14 \in keys
  OBVIOUS
<1>16. PICK b15 \in 0 .. 1 : b15 = 1 <=> 15 \in keys
  OBVIOUS
<1>17. PICK low \in Nat :
           /\ low = Info!Byte(keys)
           /\ low = b0 + 2 * b1 + 4 * b2 + 8 * b3 + 16 * b4 + 32 * b5
                  + 64 * b6 + 128 * b7
  <2> PICK S : S = keys
    BY Zenon
  <2> PICK g : g = [i \in 0 .. 7 |-> IF i \in S THEN 1 ELSE 0]
    BY Zenon
  <2>1. g \in [0 .. 7 -> 0 .. 1] /\ (\A i \in 0 .. 7 : i \in S <=> g[i] = 1)
    OBVIOUS
  <2>2. g[0] = b0
    BY <1>1
  <2>3. g[1] = b1
    BY <1>2
  <2>4. g[2] = b2
    BY <1>3
  <2>5. g[3] = b3
    BY <1>4
  <2>6. g[4] = b4
    BY <1>5
  <2>7. g[5] = b5
    BY <1>6
  <2>8. g[6] = b6
    BY <1>7
  <2>9. g[7] = b7
    BY <1>8
  <2>10. Info!Byte(S) = g[0] + 2 * g[1] + 4 * g[2] + 8 * g[3] + 16 * g[4] + 32 * g[5]
                            + 64 * g[6] + 128 * g[7]
    BY <2>1, ByteOfBits
  <2>11. PICK sum \in Nat :
             sum = b0 + 2 * b1 + 4 * b2 + 8 * b3 + 16 * b4 + 32 * b5
                       + 64 * b6 + 128 * b7
    OBVIOUS
  <2>12. Info!Byte(S) = sum
    BY <2>2, <2>3, <2>4, <2>5, <2>6, <2>7, <2>8, <2>9, <2>10, <2>11
  <2>13. QED
    BY <2>11, <2>12
<1>18. PICK high \in Nat :
           /\ high = Info!Byte({i \in 0 .. 7 : i + 8 \in keys})
           /\ high = b8 + 2 * b9 + 4 * b10 + 8 * b11 + 16 * b12 + 32 * b13
                  + 64 * b14 + 128 * b15
  <2> PICK S : S = {i \in 0 .. 7 : i + 8 \in keys}
    BY Zenon
  <2> PICK g : g = [i \in 0 .. 7 |-> IF i \in S THEN 1 ELSE 0]
    BY Zenon
  <2>1. g \in [0 .. 7 -> 0 .. 1] /\ (\A i \in 0 .. 7 : i \in S <=> g[i] = 1)
    OBVIOUS
  <2>2. g[0] = b8
    BY <1>9
  <2>3. g[1] = b9
    BY <1>10
  <2>4. g[2] = b10
    BY <1>11
  <2>5. g[3] = b11
    BY <1>12
  <2>6. g[4] = b12
    BY <1>13
  <2>7. g[5] = b13
    BY <1>14
  <2>8. g[6] = b14
    BY <1>15
  <2>9. g[7] = b15
    BY <1>16
  <2>10. Info!Byte(S) = g[0] + 2 * g[1] + 4 * g[2] + 8 * g[3] + 16 * g[4] + 32 * g[5]
                            + 64 * g[6] + 128 * g[7]
    BY <2>1, ByteOfBits
  <2>11. PICK sum \in Nat :
             sum = b8 + 2 * b9 + 4 * b10 + 8 * b11 + 16 * b12 + 32 * b13
                       + 64 * b14 + 128 * b15
    OBVIOUS
  <2>12. Info!Byte(S) = sum
    BY <2>2, <2>3, <2>4, <2>5, <2>6, <2>7, <2>8, <2>9, <2>10, <2>11
  <2>13. QED
    BY <2>11, <2>12
<1>19. PICK y15 \in Nat : y15 = b15
  OBVIOUS
<1>20. PICK y14 \in Nat : y14 = b14 + 2 * y15
  OBVIOUS
<1>21. PICK y13 \in Nat : y13 = b13 + 2 * y14
  OBVIOUS
<1>22. PICK y12 \in Nat : y12 = b12 + 2 * y13
  OBVIOUS
<1>23. PICK y11 \in Nat : y11 = b11 + 2 * y12
  OBVIOUS
<1>24. PICK y10 \in Nat : y10 = b10 + 2 * y11
  OBVIOUS
<1>25. PICK y9 \in Nat : y9 = b9 + 2 * y10
  OBVIOUS
<1>26. PICK y8 \in Nat : y8 = b8 + 2 * y9
  OBVIOUS
<1>27. PICK y7 \in Nat : y7 = b7 + 2 * y8
  OBVIOUS
<1>28. PICK y6 \in Nat : y6 = b6 + 2 * y7
  OBVIOUS
<1>29. PICK y5 \in Nat : y5 = b5 + 2 * y6
  OBVIOUS
<1>30. PICK y4 \in Nat : y4 = b4 + 2 * y5
  OBVIOUS
<1>31. PICK y3 \in Nat : y3 = b3 + 2 * y4
  OBVIOUS
<1>32. PICK y2 \in Nat : y2 = b2 + 2 * y3
  OBVIOUS
<1>33. PICK y1 \in Nat : y1 = b1 + 2 * y2
  OBVIOUS
<1>34. high = y8
  BY <1>18, <1>19, <1>20, <1>21, <1>22, <1>23, <1>24, <1>25, <1>26
<1>35. low + 256 * y8 = b0 + 2 * y1
  BY <1>17, <1>27, <1>28, <1>29, <1>30, <1>31, <1>32, <1>33
<1>36. PICK sum \in Nat : sum = b0 + 2 * y1
  OBVIOUS
<1>37. word = sum
  BY <1>17, <1>18, <1>34, <1>35, <1>36 DEF Word
<1>38. sum \div 2 = y1
  BY <1>36
<1>39. sum \div 4 = y2
  BY <1>38, <1>33, HalfOfWord
<1>40. sum \div 8 = y3
  BY <1>39, <1>32, HalfOfWord
<1>41. sum \div 16 = y4
  BY <1>40, <1>31, HalfOfWord
<1>42. sum \div 32 = y5
  BY <1>41, <1>30, HalfOfWord
<1>43. sum \div 64 = y6
  BY <1>42, <1>29, HalfOfWord
<1>44. sum \div 128 = y7
  BY <1>43, <1>28, HalfOfWord
<1>45. sum \div 256 = y8
  BY <1>44, <1>27, HalfOfWord
<1>46. sum \div 512 = y9
  BY <1>45, <1>26, HalfOfWord
<1>47. sum \div 1024 = y10
  BY <1>46, <1>25, HalfOfWord
<1>48. sum \div 2048 = y11
  BY <1>47, <1>24, HalfOfWord
<1>49. sum \div 4096 = y12
  BY <1>48, <1>23, HalfOfWord
<1>50. sum \div 8192 = y13
  BY <1>49, <1>22, HalfOfWord
<1>51. sum \div 16384 = y14
  BY <1>50, <1>21, HalfOfWord
<1>52. sum \div 32768 = y15
  BY <1>51, <1>20, HalfOfWord
<1>53. Info!Bit(word, 0) = b0
  BY <1>37, <1>36 DEF Info!Bit, Info!PowerOf2
<1>54. Info!Bit(word, 1) = b1
  BY <1>37, <1>38, <1>33 DEF Info!Bit, Info!PowerOf2
<1>55. Info!Bit(word, 2) = b2
  BY <1>37, <1>39, <1>32 DEF Info!Bit, Info!PowerOf2
<1>56. Info!Bit(word, 3) = b3
  BY <1>37, <1>40, <1>31 DEF Info!Bit, Info!PowerOf2
<1>57. Info!Bit(word, 4) = b4
  BY <1>37, <1>41, <1>30 DEF Info!Bit, Info!PowerOf2
<1>58. Info!Bit(word, 5) = b5
  BY <1>37, <1>42, <1>29 DEF Info!Bit, Info!PowerOf2
<1>59. Info!Bit(word, 6) = b6
  BY <1>37, <1>43, <1>28 DEF Info!Bit, Info!PowerOf2
<1>60. Info!Bit(word, 7) = b7
  BY <1>37, <1>44, <1>27 DEF Info!Bit, Info!PowerOf2
<1>61. Info!Bit(word, 8) = b8
  BY <1>37, <1>45, <1>26 DEF Info!Bit, Info!PowerOf2
<1>62. Info!Bit(word, 9) = b9
  BY <1>37, <1>46, <1>25 DEF Info!Bit, Info!PowerOf2
<1>63. Info!Bit(word, 10) = b10
  BY <1>37, <1>47, <1>24 DEF Info!Bit, Info!PowerOf2
<1>64. Info!Bit(word, 11) = b11
  BY <1>37, <1>48, <1>23 DEF Info!Bit, Info!PowerOf2
<1>65. Info!Bit(word, 12) = b12
  BY <1>37, <1>49, <1>22 DEF Info!Bit, Info!PowerOf2
<1>66. Info!Bit(word, 13) = b13
  BY <1>37, <1>50, <1>21 DEF Info!Bit, Info!PowerOf2
<1>67. Info!Bit(word, 14) = b14
  BY <1>37, <1>51, <1>20 DEF Info!Bit, Info!PowerOf2
<1>68. Info!Bit(word, 15) = b15
  BY <1>37, <1>52, <1>19 DEF Info!Bit, Info!PowerOf2
<1>69. QED
  BY <1>1, <1>2, <1>3, <1>4, <1>5, <1>6, <1>7, <1>8, <1>9, <1>10, <1>11, <1>12, <1>13,
     <1>14, <1>15, <1>16, <1>53, <1>54, <1>55, <1>56, <1>57, <1>58, <1>59, <1>60, <1>61,
     <1>62, <1>63, <1>64, <1>65, <1>66, <1>67, <1>68

(* Whatever the driver does, what is read from its frame is that. *)
ReadsAs(info, d) ==
    /\ info.rightHorizontal = FromMiddle(d.rightHorizontal)
    /\ info.rightVertical = FromMiddle(d.rightVertical)
    /\ info.leftHorizontal = FromMiddle(d.leftHorizontal)
    /\ info.leftVertical = FromMiddle(d.leftVertical)
    /\ info.wheel = FromMiddle(d.wheel)
    /\ info.leftSwitch = d.leftSwitch /\ info.rightSwitch = d.rightSwitch
    /\ info.mouse = d.mouse
    /\ \A k \in 0 .. 15 : Info!Bit(info.key, k) = 1 <=> k \in d.keys

LEMMA DriverIsRead ==
    ASSUME NEW d, Info!IsDriven(d), NEW n
    PROVE  ReadsAs(Info!Parsed(Info!FrameOf(d), n), d)
<1>1. PICK f : f = Info!FrameOf(d)
  BY Zenon
<1>2. PICK info : info = Info!Parsed(f, n)
  BY Zenon
<1>3. /\ d.rightHorizontal \in Info!ElevenBits /\ d.rightVertical \in Info!ElevenBits
      /\ d.leftHorizontal \in Info!ElevenBits /\ d.leftVertical \in Info!ElevenBits
      /\ d.rightSwitch \in 0 .. 3 /\ d.leftSwitch \in 0 .. 3
      /\ d.wheel \in Info!ElevenBits
  <2>1. /\ {d.rightHorizontal, d.rightVertical, d.leftHorizontal, d.leftVertical, d.wheel}
               \subseteq Info!ElevenBits
        /\ {d.leftSwitch, d.rightSwitch} \subseteq 0 .. 3
    BY Zenon DEF Info!IsDriven
  <2>2. QED
    BY <2>1
<1>4. /\ f[1] = Sent0(d.rightHorizontal)
       /\ f[2] = Sent1(d.rightHorizontal, d.rightVertical)
       /\ f[3] = Sent2(d.rightVertical, d.leftHorizontal)
       /\ f[4] = Sent3(d.leftHorizontal)
       /\ f[5] = Sent4(d.leftHorizontal, d.leftVertical)
       /\ f[6] = Sent5(d.leftVertical, d.rightSwitch, d.leftSwitch)
  <2>1. /\ f[1] = StickByte(d, 0) /\ f[2] = StickByte(d, 1) /\ f[3] = StickByte(d, 2)
        /\ f[4] = StickByte(d, 3) /\ f[5] = StickByte(d, 4) /\ f[6] = StickByte(d, 5)
    <3>1. \A j \in 0 .. 5 : f[j + 1] = StickByte(d, j)
      BY <1>1, BytesOfFrame, Zenon
    <3>2. QED
      BY <3>1
  <2>2. QED
    BY <2>1, StickBytes, Zenon
<1>5. info.rightHorizontal = FromMiddle(d.rightHorizontal)
  <2>1. info.rightHorizontal = FromMiddle(First(f[1], f[2]))
    BY <1>2, PartsOfParsed, Zenon
  <2>2. QED
    BY <1>3, <1>4, <2>1, FirstOfThree, Zenon
<1>6. info.rightVertical = FromMiddle(d.rightVertical)
  <2>1. info.rightVertical = FromMiddle(Second(f[2], f[3]))
    BY <1>2, PartsOfParsed, Zenon
  <2>2. Second(Sent1(d.rightHorizontal, d.rightVertical), Sent2(d.rightVertical, d.leftHorizontal))
            = d.rightVertical
    BY <1>3, SecondOfThree
  <2>3. QED
    BY <1>4, <2>1, <2>2, Zenon
<1>7. info.leftHorizontal = FromMiddle(d.leftHorizontal)
  <2>1. info.leftHorizontal = FromMiddle(Third(f[3], f[4], f[5]))
    BY <1>2, PartsOfParsed, Zenon
  <2>2. Third(Sent2(d.rightVertical, d.leftHorizontal), Sent3(d.leftHorizontal),
              Sent4(d.leftHorizontal, d.leftVertical)) = d.leftHorizontal
    BY <1>3, ThirdOfThree
  <2>3. QED
    BY <1>4, <2>1, <2>2, Zenon
<1>8. /\ info.leftVertical = FromMiddle(d.leftVertical)
       /\ info.leftSwitch = d.leftSwitch /\ info.rightSwitch = d.rightSwitch
  <2>1. /\ info.leftVertical = FromMiddle(Last(f[5], f[6]))
        /\ info.leftSwitch = LeftOf(f[6])
        /\ info.rightSwitch = RightOf(f[6])
    BY <1>2, PartsOfParsed, Zenon
  <2>2. PICK five : five = Sent5(d.leftVertical, d.rightSwitch, d.leftSwitch)
    BY Zenon
  <2>3. /\ Last(Sent4(d.leftHorizontal, d.leftVertical), five) = d.leftVertical
        /\ LeftOf(five) = d.leftSwitch /\ RightOf(five) = d.rightSwitch
    BY <1>3, <2>2, LastOfThree
  <2>4. QED
    BY <1>4, <2>1, <2>2, <2>3, Zenon
<1>9. info.wheel = FromMiddle(d.wheel)
  <2>2. info.wheel = Wheel(Word(f[17], f[18]))
    BY <1>2, PartsOfParsed, Zenon
  <2>3. f[17] = Info!LowByte(d.wheel) /\ f[18] = Info!HighByte(d.wheel)
    BY <1>1, BytesOfFrame, Zenon
  <2>4. QED
    BY <1>3, <2>2, <2>3, BytesOfWheel, Zenon
<1>10. info.mouse = d.mouse
  <2>1. /\ d.mouse = [x |-> d.mouse.x, y |-> d.mouse.y, z |-> d.mouse.z,
                      l |-> d.mouse.l, r |-> d.mouse.r]
        /\ \A w \in {d.mouse.x, d.mouse.y, d.mouse.z} : w \in Int /\ Info!Int16(w) = w
        /\ {d.mouse.l, d.mouse.r} \subseteq BOOLEAN
    BY Zenon DEF Info!IsDriven
  <2>2. /\ Info!Int16(Word(f[7], f[8])) = d.mouse.x
        /\ Info!Int16(Word(f[9], f[10])) = d.mouse.y
        /\ Info!Int16(Word(f[11], f[12])) = d.mouse.z
    <3>1. /\ f[7] = Info!LowByte(d.mouse.x) /\ f[8] = Info!HighByte(d.mouse.x)
          /\ f[9] = Info!LowByte(d.mouse.y) /\ f[10] = Info!HighByte(d.mouse.y)
          /\ f[11] = Info!LowByte(d.mouse.z) /\ f[12] = Info!HighByte(d.mouse.z)
      BY <1>1, BytesOfFrame, Zenon
    <3>2. \A w \in {d.mouse.x, d.mouse.y, d.mouse.z} :
              Info!Int16(Word(Info!LowByte(w), Info!HighByte(w))) = w
      BY <2>1, BytesOfWord, Zenon
    <3>3. QED
      BY <3>1, <3>2, Zenon
  <2>3. (f[13] # 0) = d.mouse.l /\ (f[14] # 0) = d.mouse.r
    <3>1. /\ f[13] = IF d.mouse.l THEN 1 ELSE 0
          /\ f[14] = IF d.mouse.r THEN 1 ELSE 0
      BY <1>1, BytesOfFrame, Zenon
    <3>2. d.mouse.l \in BOOLEAN /\ d.mouse.r \in BOOLEAN
      BY <2>1, Zenon
    <3>3. QED
      BY <3>1, <3>2
  <2>4. info.mouse = [x |-> Info!Int16(Word(f[7], f[8])), y |-> Info!Int16(Word(f[9], f[10])),
                      z |-> Info!Int16(Word(f[11], f[12])), l |-> f[13] # 0, r |-> f[14] # 0]
    BY <1>2, PartsOfParsed, Zenon
  <2>5. QED
    BY <2>1, <2>2, <2>3, <2>4, Zenon
<1>11. \A k \in 0 .. 15 : Info!Bit(info.key, k) = 1 <=> k \in d.keys
  <2>1. info.key = Word(f[15], f[16])
    BY <1>2, PartsOfParsed, Zenon
  <2>2. f[15] = Info!Byte(d.keys) /\ f[16] = Info!Byte({i \in 0 .. 7 : i + 8 \in d.keys})
    BY <1>1, BytesOfFrame, Zenon
  <2>3. QED
    BY <2>1, <2>2, KeysOfBytes, Zenon
<1>12. ReadsAs(info, d)
  BY <1>5, <1>6, <1>7, <1>8, <1>9, <1>10, <1>11, Zenon DEF ReadsAs
<1>13. QED
  BY <1>1, <1>2, <1>12, Zenon

(***************************************************************************)
(* What is known of the remote is nothing, after reset(), or what was read *)
(* from the last frame, and the mapper was told of it.                     *)
(***************************************************************************)
FromFrame ==
    \/ /\ driver = <<>>
       /\ \A field \in DOMAIN Info!Nothing \ {"updateCounter"} :
              remoteInfo[field] = Info!Nothing[field]
       /\ told \in {<<>>, Info!KeyState(Info!Nothing)}
    \/ /\ driver \in Driven
       /\ \E updates : remoteInfo = Info!Parsed(Info!FrameOf(driver), updates)
       /\ told = Info!KeyState(remoteInfo)
       /\ invalid <=> \E c \in Info!Channels \union {"wheel"} :
                          Info!Magnitude(remoteInfo[c]) > Info!ANALOG_MAX_VALUE

LEMMA InfoStart == Info!Init => FromFrame
  BY DEF Info!Init, FromFrame

LEMMA InfoStep == ASSUME FromFrame, [Info!Next]_infoVars PROVE FromFrame'
<1>1. CASE Info!reset
  <2>1. /\ remoteInfo' = [Info!Nothing EXCEPT !.updateCounter = remoteInfo.updateCounter]
        /\ told' = Info!KeyState(Info!Nothing) /\ driver' = <<>>
    BY <1>1 DEF Info!reset
  <2>2. \A field \in DOMAIN Info!Nothing \ {"updateCounter"} :
            remoteInfo'[field] = Info!Nothing[field]
    BY <2>1
  <2>3. QED
    BY <2>1, <2>2 DEF FromFrame
<1>2. ASSUME NEW d \in Driven, Info!parseBuffer(d) PROVE FromFrame'
  <2>1. /\ remoteInfo' = Info!Parsed(Info!FrameOf(d), remoteInfo.updateCounter + 1)
        /\ told' = Info!KeyState(remoteInfo') /\ driver' = d
        /\ invalid' <=> \E c \in Info!Channels \union {"wheel"} :
                            Info!Magnitude(remoteInfo'[c]) > Info!ANALOG_MAX_VALUE
    BY <1>2, Zenon DEF Info!parseBuffer
  <2>2. QED
    BY <2>1, Zenon DEF FromFrame
<1>3. CASE UNCHANGED infoVars
  BY <1>3, Zenon DEF FromFrame, infoVars
<1>4. QED
  BY <1>1, <1>2, <1>3 DEF Info!Next

LEMMA ChannelsGot ==
    LET got == [i \in 1 .. 5 |-> Info!getChannel(<<"RIGHT_HORIZONTAL", "RIGHT_VERTICAL",
                    "LEFT_HORIZONTAL", "LEFT_VERTICAL", "WHEEL">>[i])] IN
    /\ got[1] = remoteInfo.rightHorizontal /\ got[2] = remoteInfo.rightVertical
    /\ got[3] = remoteInfo.leftHorizontal /\ got[4] = remoteInfo.leftVertical
    /\ got[5] = remoteInfo.wheel
    /\ Info!getSwitch("LEFT_SWITCH") = remoteInfo.leftSwitch
    /\ Info!getSwitch("RIGHT_SWITCH") = remoteInfo.rightSwitch
  BY DEF Info!getChannel, Info!getSwitch

LEMMA NoBits == ASSUME NEW k \in 0 .. 15 PROVE Info!Bit(0, k) = 0
<1>1. PICK p \in Nat : p = Info!PowerOf2[k + 1] /\ p > 0
  BY DEF Info!PowerOf2
<1>2. 0 \div p = 0
  BY <1>1
<1>3. QED
  BY <1>1, <1>2 DEF Info!Bit

(* After reset() nothing is shown. *)
LEMMA BlankShown ==
    ASSUME driver = <<>>, told \in {<<>>, Info!KeyState(Info!Nothing)},
           \A field \in DOMAIN Info!Nothing \ {"updateCounter"} :
               remoteInfo[field] = Info!Nothing[field]
    PROVE  Info!ShowsTheDriver
<1>1. /\ remoteInfo.rightHorizontal = 0 /\ remoteInfo.rightVertical = 0
      /\ remoteInfo.leftHorizontal = 0 /\ remoteInfo.leftVertical = 0
      /\ remoteInfo.wheel = 0 /\ remoteInfo.key = 0
      /\ remoteInfo.leftSwitch = Info!UNKNOWN /\ remoteInfo.rightSwitch = Info!UNKNOWN
  BY DEF Info!Nothing
<1>2. remoteInfo.mouse = Info!Nothing.mouse
  BY DEF Info!Nothing
<1>3. PICK got : got = [i \in 1 .. 5 |-> Info!getChannel(<<"RIGHT_HORIZONTAL", "RIGHT_VERTICAL",
                           "LEFT_HORIZONTAL", "LEFT_VERTICAL", "WHEEL">>[i])]
  BY Zenon
<1>4. \A i \in 1 .. 5 : got[i] = 0
  <2>1. got[1] = 0 /\ got[2] = 0 /\ got[3] = 0 /\ got[4] = 0 /\ got[5] = 0
    BY <1>1, <1>3, ChannelsGot, Zenon
  <2>2. QED
    BY <2>1
<1>5. <<Info!getSwitch("LEFT_SWITCH"), Info!getSwitch("RIGHT_SWITCH")>>
          = <<Info!UNKNOWN, Info!UNKNOWN>>
  BY <1>1, ChannelsGot, Zenon
<1>6. \A key \in 0 .. 15 : ~Info!keyPressed(key)
  <2>1. \A key \in 0 .. 15 : Info!Bit(remoteInfo.key, key) = 0
    BY <1>1, NoBits
  <2>2. QED
    BY <2>1 DEF Info!keyPressed
<1>7. told \in {<<>>, <<0, Info!UNKNOWN, Info!UNKNOWN, FALSE, FALSE>>}
  BY DEF Info!KeyState, Info!Nothing
<1>8. QED
  BY <1>2, <1>3, <1>4, <1>5, <1>6, <1>7, Zenon DEF Info!ShowsTheDriver

(* A stick beyond its range is seen from its middle. *)
InRange == 1024 - Info!ANALOG_MAX_VALUE .. 1024 + Info!ANALOG_MAX_VALUE

IsBeyond(n) == Info!Magnitude(n) > Info!ANALOG_MAX_VALUE

LEMMA RangeOfStick ==
    ASSUME NEW s \in Info!ElevenBits PROVE IsBeyond(FromMiddle(s)) <=> s \notin InRange
  BY DEF Info!ElevenBits, Info!Magnitude, Info!ANALOG_MAX_VALUE, IsBeyond, FromMiddle, InRange

(* After a frame all of the driver is shown. *)
LEMMA DriverShown ==
    ASSUME Info!DrivenAssumption, driver \in Driven, told = Info!KeyState(remoteInfo),
           NEW updates, remoteInfo = Info!Parsed(Info!FrameOf(driver), updates),
           invalid <=> \E c \in Info!Channels \union {"wheel"} :
                           Info!Magnitude(remoteInfo[c]) > Info!ANALOG_MAX_VALUE
    PROVE  Info!ShowsTheDriver
<1>1. Info!IsDriven(driver)
  BY Zenon DEF Info!DrivenAssumption
<1>2. /\ driver.rightHorizontal \in Info!ElevenBits /\ driver.rightVertical \in Info!ElevenBits
      /\ driver.leftHorizontal \in Info!ElevenBits /\ driver.leftVertical \in Info!ElevenBits
      /\ driver.wheel \in Info!ElevenBits
  <2>1. {driver.rightHorizontal, driver.rightVertical, driver.leftHorizontal,
         driver.leftVertical, driver.wheel} \subseteq Info!ElevenBits
    BY <1>1, Zenon DEF Info!IsDriven
  <2>2. QED
    BY <2>1
<1>3. /\ remoteInfo.rightHorizontal = FromMiddle(driver.rightHorizontal)
      /\ remoteInfo.rightVertical = FromMiddle(driver.rightVertical)
      /\ remoteInfo.leftHorizontal = FromMiddle(driver.leftHorizontal)
      /\ remoteInfo.leftVertical = FromMiddle(driver.leftVertical)
      /\ remoteInfo.wheel = FromMiddle(driver.wheel)
      /\ remoteInfo.leftSwitch = driver.leftSwitch
      /\ remoteInfo.rightSwitch = driver.rightSwitch
      /\ remoteInfo.mouse = driver.mouse
      /\ \A key \in 0 .. 15 : Info!Bit(remoteInfo.key, key) = 1 <=> key \in driver.keys
  <2>1. ReadsAs(Info!Parsed(Info!FrameOf(driver), updates), driver)
    BY <1>1, DriverIsRead, Zenon
  <2>2. ReadsAs(remoteInfo, driver)
    BY <2>1, Zenon
  <2>3. QED
    BY <2>2, Zenon DEF ReadsAs
<1> DEFINE moved == <<driver.rightHorizontal, driver.rightVertical,
                      driver.leftHorizontal, driver.leftVertical, driver.wheel>>
           got == [i \in 1 .. 5 |-> Info!getChannel(<<"RIGHT_HORIZONTAL", "RIGHT_VERTICAL",
                      "LEFT_HORIZONTAL", "LEFT_VERTICAL", "WHEEL">>[i])]
<1>4. /\ got[1] = remoteInfo.rightHorizontal /\ got[2] = remoteInfo.rightVertical
      /\ got[3] = remoteInfo.leftHorizontal /\ got[4] = remoteInfo.leftVertical
      /\ got[5] = remoteInfo.wheel
  BY ChannelsGot, Zenon
<1>5. /\ moved[1] = driver.rightHorizontal /\ moved[2] = driver.rightVertical
      /\ moved[3] = driver.leftHorizontal /\ moved[4] = driver.leftVertical
      /\ moved[5] = driver.wheel
  OBVIOUS
<1> HIDE DEF moved, got
<1>6. \A i \in 1 .. 5 : got[i] = FromMiddle(moved[i])
  <2>1. /\ got[1] = FromMiddle(moved[1]) /\ got[2] = FromMiddle(moved[2])
        /\ got[3] = FromMiddle(moved[3]) /\ got[4] = FromMiddle(moved[4])
        /\ got[5] = FromMiddle(moved[5])
    BY <1>3, <1>4, <1>5, Zenon
  <2>2. QED
    BY <2>1
<1>7. invalid <=> \E i \in 1 .. 5 : moved[i] \notin InRange
  <2>1. invalid <=> \E c \in Info!Channels \union {"wheel"} : IsBeyond(remoteInfo[c])
    BY Zenon DEF IsBeyond
  <2>2. (\E c \in Info!Channels \union {"wheel"} : IsBeyond(remoteInfo[c])) <=>
            \/ IsBeyond(remoteInfo.rightHorizontal) \/ IsBeyond(remoteInfo.rightVertical)
            \/ IsBeyond(remoteInfo.leftHorizontal) \/ IsBeyond(remoteInfo.leftVertical)
            \/ IsBeyond(remoteInfo.wheel)
    BY Zenon DEF Info!Channels
  <2>3. (\E i \in 1 .. 5 : moved[i] \notin InRange) <=>
            \/ moved[1] \notin InRange \/ moved[2] \notin InRange \/ moved[3] \notin InRange
            \/ moved[4] \notin InRange \/ moved[5] \notin InRange
    <3>1. 1 .. 5 = {1, 2, 3, 4, 5}
      OBVIOUS
    <3>2. QED
      BY <3>1, Zenon
  <2>4. /\ IsBeyond(remoteInfo.rightHorizontal) <=> moved[1] \notin InRange
        /\ IsBeyond(remoteInfo.rightVertical) <=> moved[2] \notin InRange
        /\ IsBeyond(remoteInfo.leftHorizontal) <=> moved[3] \notin InRange
        /\ IsBeyond(remoteInfo.leftVertical) <=> moved[4] \notin InRange
        /\ IsBeyond(remoteInfo.wheel) <=> moved[5] \notin InRange
    BY <1>2, <1>3, <1>5, RangeOfStick, Zenon
  <2>5. QED
    BY <2>1, <2>2, <2>3, <2>4, Zenon
<1>8. <<Info!getSwitch("LEFT_SWITCH"), Info!getSwitch("RIGHT_SWITCH")>>
          = <<driver.leftSwitch, driver.rightSwitch>>
  BY <1>3, ChannelsGot, Zenon
<1>9. \A key \in 0 .. 15 : Info!keyPressed(key) <=> key \in driver.keys
  BY <1>3, Zenon DEF Info!keyPressed
<1>10. driver # <<>>
  <2>1. DOMAIN driver # {}
    BY <1>1, Zenon DEF Info!IsDriven
  <2>2. QED
    BY <2>1
<1>11. /\ \A i \in 1 .. 5 : got[i] = moved[i] - 1024
       /\ invalid <=> \E i \in 1 .. 5 :
              moved[i] \notin 1024 - Info!ANALOG_MAX_VALUE .. 1024 + Info!ANALOG_MAX_VALUE
  BY <1>6, <1>7, Zenon DEF FromMiddle, InRange
<1>12. QED
  BY <1>3, <1>8, <1>9, <1>10, <1>11, Zenon DEF Info!ShowsTheDriver, moved, got

LEMMA InfoShows == ASSUME Info!DrivenAssumption, FromFrame PROVE Info!ShowsTheDriver
<1>1. CASE driver \in Driven
  BY <1>1, DriverShown, BlankShown, Zenon DEF FromFrame
<1>2. CASE driver \notin Driven
  BY <1>2, BlankShown, Zenon DEF FromFrame
<1>3. QED
  BY <1>1, <1>2

-----------------------------------------------------------------------------
(* Both together: a step of one leaves the other as it is. *)
RemotesInv == RemoteInv /\ FromFrame

LEMMA RemotesStart == Init => RemotesInv
  BY TimingAssumption, RemoteStart, InfoStart DEF Init, RemotesInv

LEMMA RemotesStep == RemotesInv /\ [Next]_vars => RemotesInv'
<1> SUFFICES ASSUME RemotesInv, [Next]_vars PROVE RemotesInv'
  OBVIOUS
<1>1. RemoteInv'
  <2>1. CASE Remote!Next
    BY <2>1, TimingAssumption, RemoteTick, RemoteDisconnect, RemoteRead
       DEF RemotesInv, Remote!Next
  <2>2. CASE UNCHANGED remoteVars
    <3>1. RemoteTyped' /\ OfFrame(Pending, frame, phase)' /\ KeptInTime' /\ Heard'
      BY <2>2 DEF RemotesInv, RemoteInv, RemoteTyped, Pending, OfFrame, KeptInTime, Heard,
                  remoteVars
    <3>2. Remote!ParsesWholeFrames'
      BY <2>2 DEF RemotesInv, RemoteInv, Remote!ParsesWholeFrames, remoteVars
    <3>3. QED
      BY <3>1, <3>2 DEF RemoteInv
  <2>3. QED
    BY <2>1, <2>2 DEF Next, UseRemote, UseFramed, UseInfo, vars
<1>2. FromFrame'
  <2>1. [Info!Next]_infoVars
    BY DEF Next, UseRemote, UseFramed, UseInfo, vars
  <2>2. QED
    BY <2>1, InfoStep DEF RemotesInv
<1>3. QED
  BY <1>1, <1>2 DEF RemotesInv

(* For any frames, periods, timeouts and stalls of the loop that keep to the
   timing, and whatever the driver does: what is parsed is a whole frame, a remote
   that is silent does not stay connected, and the channels, the switches, the
   mouse, the wheel and the keys that are shown are those of the driver
   (remote.cpp). *)
THEOREM RemoteUnderstood == Spec => []BytesUnderstood
<1>1. RemotesInv => BytesUnderstood
  <2>1. RemoteInv => Remote!ParsesWholeFrames /\ Remote!SilenceDisconnects
    BY TimingAssumption, RemoteDisconnects DEF RemoteInv
  <2>2. FromFrame => Info!ShowsTheDriver
    BY DrivenAssumption, InfoShows
  <2>3. QED
    BY <2>1, <2>2 DEF RemotesInv, BytesUnderstood
<1>2. QED
  BY <1>1, RemotesStart, RemotesStep, PTL DEF Spec

-----------------------------------------------------------------------------
(* Any position of the sticks, with one hand at the keys or at the switches. *)
MCDriven ==
    {sticks @@ hand :
        sticks \in [{"rightHorizontal", "rightVertical", "leftHorizontal", "leftVertical"}
                       -> Sticks],
        hand \in {[leftSwitch |-> 1, rightSwitch |-> 2, wheel |-> 1024, keys |-> {},
                   mouse |-> [x |-> 0, y |-> -1, z |-> 32767, l |-> FALSE, r |-> TRUE]],
                  [leftSwitch |-> 3, rightSwitch |-> 0, wheel |-> 300, keys |-> {0, 5, 15},
                   mouse |-> [x |-> -32768, y |-> 255, z |-> 256, l |-> TRUE, r |-> FALSE]]}}
=============================================================================
