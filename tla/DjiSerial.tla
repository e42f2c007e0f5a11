----------------------------- MODULE DjiSerial -----------------------------
(***************************************************************************)
(* tap::communication::serial::DJISerial: how the bytes of a port become   *)
(* messages, one state of the machine per call of updateSerial().  A byte  *)
(* is known by its frame and its place in it.  The two CRCs are taken to   *)
(* be perfect: they accept the bytes of one frame in their order, and      *)
(* nothing else.                                                           *)
(***************************************************************************)
EXTENDS Integers, SequencesExt, SequenceTheorems, FiniteSetTheorems, TLAPS

CONSTANTS
    HEADER_SIZE, TYPE_SIZE, CRC_SIZE, \* bytes of the frame header, the message
                                      \*   type and the CRC16
    SERIAL_RX_BUFF_SIZE,
    DataLengths,          \* the lengths of data on the line
    MaxFrames,            \* bound: frames sent
    MaxLost,              \* bound: bytes lost
    UartSize              \* bytes that the driver of the port keeps

VARIABLES
    rxCrcEnabled,
    line,       \* the frames sent: the length of the data, and whether its
                \*   first byte looks like the head byte
    sent,       \* bytes of the last frame that were sent
    uart,       \* external: bytes received and not read
    djiSerialRxState,
    newMessage, \* the bytes read of it since its head was found; they give
                \*   frameCurrReadByte
    dataLength, \* newMessage.header.dataLength, 0 unless it is needed
    received,   \* history: frames handed to messageReceiveCallback(), 0 for
                \*   a message that is not a frame of the line
    lost,       \* history: bytes lost
    clean,      \* history: bytes since the receiver may have been misled
    sound       \* history: frames sent since it must have found back, whole

vars == <<rxCrcEnabled, line, sent, uart, djiSerialRxState, newMessage,
          dataLength, received, lost, clean, sound>>

Size(f) == HEADER_SIZE + TYPE_SIZE + line[f].length + CRC_SIZE

Accepted == {length \in DataLengths : length < SERIAL_RX_BUFF_SIZE}

(* Sizes are unsigned, and a frame begins with its head byte. *)
SerialAssumption ==
    /\ HEADER_SIZE \in Nat \ {0}
    /\ TYPE_SIZE \in Nat /\ CRC_SIZE \in Nat
    /\ DataLengths \subseteq Nat

(* A header alone is no frame, the buffer has a size, and some frames fit. *)
FrameAssumption ==
    /\ TYPE_SIZE + CRC_SIZE > 0
    /\ SERIAL_RX_BUFF_SIZE \in Nat
    /\ Accepted # {}

(* The bytes that a receiver that is out of step may still wait for. *)
Awaited == Max({HEADER_SIZE - 1, TYPE_SIZE + Max(Accepted) + CRC_SIZE})

Init ==
    /\ rxCrcEnabled \in BOOLEAN
    /\ line = <<>>
    /\ sent = 0
    /\ uart = <<>>
    /\ djiSerialRxState = "SERIAL_HEADER_SEARCH"
    /\ newMessage = <<>>
    /\ dataLength = 0
    /\ received = <<>>
    /\ lost = 0
    /\ clean = Awaited
    /\ sound = {}

-----------------------------------------------------------------------------
(* External: the sender and the driver of the port. *)

LooksLikeHead(byte) ==
    byte[2] = 0 \/ (byte[2] = HEADER_SIZE + TYPE_SIZE /\ line[byte[1]].headLike)

(***************************************************************************)
(* A byte of the last frame.  After a lost byte the receiver may still     *)
(* wait for as many bytes as follow the header of a longest frame; a byte  *)
(* that only looks like a head may mislead it as long as it is out of step.*)
(***************************************************************************)
SendByte ==
    LET f == Len(line)
        byte == <<f, sent>>
        inStep == f \in sound /\ line[f].length \in Accepted IN
    /\ f > 0 /\ sent < Size(f)
    /\ sent' = sent + 1
    /\ \/ /\ Len(uart) < UartSize
          /\ uart' = Append(uart, byte)
          /\ clean' = IF inStep THEN Awaited
                      ELSE IF LooksLikeHead(byte) /\ sent > 0 THEN 0
                      ELSE IF clean < Awaited THEN clean + 1 ELSE clean
          /\ UNCHANGED <<lost, sound>>
       \/ /\ lost < MaxLost
          /\ lost' = lost + 1
          /\ clean' = 0
          /\ sound' = sound \ {f}
          /\ UNCHANGED uart
    /\ UNCHANGED <<rxCrcEnabled, line, djiSerialRxState, newMessage, dataLength, received>>

StartFrame ==
    /\ Len(line) < MaxFrames
    /\ line # <<>> => sent = Size(Len(line))
    /\ \E length \in DataLengths, headLike \in BOOLEAN :
          /\ headLike => length > 0
          /\ line' = Append(line, [length |-> length, headLike |-> headLike])
    /\ sent' = 0
    /\ sound' = IF clean = Awaited THEN sound \union {Len(line) + 1} ELSE sound
    /\ UNCHANGED <<rxCrcEnabled, uart, djiSerialRxState, newMessage, dataLength,
                   received, lost, clean>>

-----------------------------------------------------------------------------
(* The bytes of newMessage are those of one frame, from its head. *)
OfOneFrame(bytes) == \A k \in DOMAIN bytes : bytes[k] = <<bytes[1][1], k - 1>>

(* What is left in the port when n bytes have been read. *)
Unread(n) == SubSeq(uart, n + 1, Len(uart))

(* READ of what newMessage lacks to have n bytes. *)
Available(n) == IF Len(uart) < n - Len(newMessage) THEN Len(uart) ELSE n - Len(newMessage)
Filled(n) == newMessage \o SubSeq(uart, 1, Available(n))

HeaderSearch ==
    LET heads == {k \in DOMAIN uart : LooksLikeHead(uart[k])} IN
    /\ djiSerialRxState = "SERIAL_HEADER_SEARCH"
    /\ \/ heads = {} /\ uart' = <<>> /\ UNCHANGED <<djiSerialRxState, newMessage>>
       \/ \E first \in heads :
             /\ \A k \in heads : first <= k
             /\ uart' = Unread(first)
             /\ newMessage' = <<uart[first]>>
             /\ djiSerialRxState' = "PROCESS_FRAME_HEADER"
    /\ UNCHANGED <<rxCrcEnabled, line, sent, dataLength, received, lost, clean, sound>>

(* The bytes of newMessage are overwritten from now on. *)
SearchAgain ==
    /\ djiSerialRxState' = "SERIAL_HEADER_SEARCH"
    /\ newMessage' = <<>>
    /\ dataLength' = 0

(* The length that a header shows: with no CRC8 a mixed one shows any. *)
HeaderLengths(header) ==
    IF OfOneFrame(header) THEN {line[header[1][1]].length} ELSE DataLengths

(* Mutant: the header is taken without a look at its CRC8. *)
HeaderWithoutCrc(header, length) == length < SERIAL_RX_BUFF_SIZE

HeaderAccepted(header, length) ==
    /\ rxCrcEnabled => OfOneFrame(header)
    /\ length < SERIAL_RX_BUFF_SIZE

FrameHeader ==
    LET header == Filled(HEADER_SIZE) IN
    /\ djiSerialRxState = "PROCESS_FRAME_HEADER"
    /\ uart' = Unread(Available(HEADER_SIZE))
    /\ \/ /\ Len(header) < HEADER_SIZE
          /\ newMessage' = header
          /\ UNCHANGED <<djiSerialRxState, dataLength>>
       \/ /\ Len(header) = HEADER_SIZE
          /\ \E length \in HeaderLengths(header) :
                \/ /\ HeaderAccepted(header, length)
                   /\ newMessage' = header
                   /\ dataLength' = length
                   /\ djiSerialRxState' = "PROCESS_FRAME_DATA"
                \/ ~HeaderAccepted(header, length) /\ SearchAgain
    /\ UNCHANGED <<rxCrcEnabled, line, sent, received, lost, clean, sound>>

MessageSize == HEADER_SIZE + TYPE_SIZE + dataLength + (IF rxCrcEnabled THEN CRC_SIZE ELSE 0)

(* Mutant: the CRC16 is read and not compared. *)
AnyMessage(message) == TRUE

MessageAccepted(message) == rxCrcEnabled => OfOneFrame(message)

FrameData ==
    LET message == Filled(MessageSize) IN
    /\ djiSerialRxState = "PROCESS_FRAME_DATA"
    /\ uart' = Unread(Available(MessageSize))
    /\ IF Len(message) < MessageSize
       THEN newMessage' = message /\ UNCHANGED <<djiSerialRxState, dataLength, received>>
       ELSE /\ SearchAgain
            /\ received' = IF MessageAccepted(message)
                           THEN Append(received,
                                       IF OfOneFrame(message) THEN message[1][1] ELSE 0)
                           ELSE received
    /\ UNCHANGED <<rxCrcEnabled, line, sent, lost, clean, sound>>

updateSerial == HeaderSearch \/ FrameHeader \/ FrameData

Next == SendByte \/ StartFrame \/ updateSerial

Spec == Init /\ [][Next]_vars

-----------------------------------------------------------------------------
(***************************************************************************)
(* With the CRCs enforced, messageReceiveCallback() gets frames of the     *)
(* line, each once and in their order, whatever bytes are lost on the line *)
(* or in the port.                                                         *)
(***************************************************************************)
ReceivesFramesInOrder ==
    rxCrcEnabled =>
        /\ \A k \in DOMAIN received : received[k] # 0
        /\ \A j, k \in DOMAIN received : j < k => received[j] < received[k]

(* The port holds nothing of frame f, and nothing of it is to come. *)
Consumed(f) ==
    /\ f < Len(line) \/ sent = Size(f)
    /\ \A k \in DOMAIN uart : uart[k][1] # f

(***************************************************************************)
(* The receiver finds back into step by itself: a frame that begins so     *)
(* many bytes after the last lost one as can follow a header (more, if the *)
(* data in between holds bytes like the head byte), and is not too long,   *)
(* is received.  Without a lost byte no frame is ever missed, whatever its *)
(* data looks like.                                                        *)
(***************************************************************************)
InStepAgain ==
    rxCrcEnabled =>
        \A f \in sound :
            line[f].length \in Accepted /\ Consumed(f) => f \in Range(received)

-----------------------------------------------------------------------------
(* Proofs.                                                                 *)

(* Of two bytes, the one that was sent first. *)
Before(a, b) == a[1] < b[1] \/ (a[1] = b[1] /\ a[2] < b[2])

LineBytes == Nat \X Nat

TypeInv ==
    /\ rxCrcEnabled \in BOOLEAN
    /\ line \in Seq([length : DataLengths, headLike : BOOLEAN])
    /\ sent \in Nat
    /\ djiSerialRxState \in
          {"SERIAL_HEADER_SEARCH", "PROCESS_FRAME_HEADER", "PROCESS_FRAME_DATA"}
    /\ dataLength \in Nat
    /\ uart \in Seq(LineBytes)
    /\ newMessage \in Seq(LineBytes)
    /\ received \in Seq(Nat)

(* A message is never longer than what the next READ asks for. *)
Lacking ==
    /\ djiSerialRxState = "PROCESS_FRAME_HEADER" => Len(newMessage) <= HEADER_SIZE
    /\ djiSerialRxState = "PROCESS_FRAME_DATA" => Len(newMessage) <= MessageSize

(* The next byte of the line. *)
NextByte == <<Len(line), sent>>

(* The bytes of m and those of u after them are in the order of the line, and
   later than the beginning of every frame of done. *)
InOrder(m, u, done, next) ==
    /\ \A k \in DOMAIN m : m[k][1] > 0 /\ Before(m[k], next)
    /\ \A k \in DOMAIN u : u[k][1] > 0 /\ Before(u[k], next)
    /\ \A j, k \in DOMAIN m : j < k => Before(m[j], m[k])
    /\ \A j, k \in DOMAIN u : j < k => Before(u[j], u[k])
    /\ \A j \in DOMAIN m, k \in DOMAIN u : Before(m[j], u[k])
    /\ \A i \in DOMAIN done :
          /\ done[i] > 0 /\ Before(<<done[i], 0>>, next)
          /\ \A k \in DOMAIN m : Before(<<done[i], 0>>, m[k])
          /\ \A k \in DOMAIN u : Before(<<done[i], 0>>, u[k])
    /\ \A i, j \in DOMAIN done : i < j => done[i] < done[j]

(* The frames handed over, if the CRCs tell which they are. *)
Handed == IF rxCrcEnabled THEN received ELSE <<>>

OrderInv ==
    /\ TypeInv
    /\ Lacking
    /\ InOrder(newMessage, uart, Handed, NextByte)

-----------------------------------------------------------------------------
(* What is left of the port, as a sequence. *)
LEMMA UnreadBytes ==
    ASSUME TypeInv, NEW n \in 0 .. Len(uart)
    PROVE  /\ Unread(n) \in Seq(LineBytes)
           /\ Len(Unread(n)) = Len(uart) - n
           /\ DOMAIN Unread(n) = 1 .. Len(uart) - n
           /\ \A k \in DOMAIN Unread(n) :
                  /\ k \in Int /\ k > 0 /\ n + k \in DOMAIN uart
                  /\ Unread(n)[k] = uart[n + k]
<1>1. uart \in Seq(LineBytes) /\ Len(uart) \in Nat /\ DOMAIN uart = 1 .. Len(uart)
  BY LenProperties DEF TypeInv
<1>2. \A k \in n + 1 .. Len(uart) : uart[k] \in LineBytes
  BY <1>1, ElementOfSeq
<1>3. /\ SubSeq(uart, n + 1, Len(uart)) \in Seq(LineBytes)
      /\ Len(SubSeq(uart, n + 1, Len(uart))) =
             IF n + 1 <= Len(uart) THEN Len(uart) - (n + 1) + 1 ELSE 0
      /\ \A k \in 1 .. Len(uart) - (n + 1) + 1 :
             SubSeq(uart, n + 1, Len(uart))[k] = uart[n + 1 + k - 1]
  BY <1>1, <1>2, SubSeqProperties
<1>4. /\ Unread(n) \in Seq(LineBytes)
      /\ Len(Unread(n)) = Len(uart) - n
      /\ \A k \in 1 .. Len(uart) - n : Unread(n)[k] = uart[n + k]
  <2>1. n \in Int /\ n <= Len(uart) /\ n >= 0 /\ Len(uart) \in Int
    BY <1>1
  <2>2. \A k \in 1 .. Len(uart) - n : k \in 1 .. Len(uart) - (n + 1) + 1 /\ n + 1 + k - 1 = n + k
    BY <1>1, <2>1
  <2>3. Unread(n) = SubSeq(uart, n + 1, Len(uart))
    BY DEF Unread
  <2>4. Len(Unread(n)) = Len(uart) - n
    <3>1. (IF n + 1 <= Len(uart) THEN Len(uart) - (n + 1) + 1 ELSE 0) = Len(uart) - n
      BY <2>1
    <3>2. QED
      BY <1>3, <2>3, <3>1
  <2>5. \A k \in 1 .. Len(uart) - n : Unread(n)[k] = uart[n + k]
    BY <1>3, <2>2, <2>3
  <2>6. QED
    BY <1>3, <2>3, <2>4, <2>5
<1>5. DOMAIN Unread(n) = 1 .. Len(uart) - n
  BY <1>4, LenProperties
<1> HIDE DEF Unread
<1>6. ASSUME NEW k \in DOMAIN Unread(n)
      PROVE  k \in Int /\ k > 0 /\ n + k \in DOMAIN uart /\ Unread(n)[k] = uart[n + k]
  <2>1. k \in 1 .. Len(uart) - n
    BY <1>5
  <2>2. k \in Int /\ k > 0 /\ n + k \in 1 .. Len(uart)
    BY <1>1, <2>1
  <2>3. QED
    BY <1>1, <1>4, <2>1, <2>2
<1>7. QED
  BY <1>4, <1>5, <1>6

(* What a READ makes of the message. *)
LEMMA FilledBytes ==
    ASSUME TypeInv, NEW n \in Nat, Len(newMessage) <= n
    PROVE  /\ Available(n) \in 0 .. Len(uart)
           /\ Filled(n) \in Seq(LineBytes)
           /\ Len(Filled(n)) = Len(newMessage) + Available(n)
           /\ Len(Filled(n)) <= n
           /\ \A k \in 1 .. Len(newMessage) + Available(n) :
                  Filled(n)[k] = IF k <= Len(newMessage) THEN newMessage[k]
                                 ELSE uart[k - Len(newMessage)]
<1> DEFINE a == Available(n)
<1>1. /\ uart \in Seq(LineBytes) /\ Len(uart) \in Nat
      /\ newMessage \in Seq(LineBytes) /\ Len(newMessage) \in Nat
  BY LenProperties DEF TypeInv
<1>2. a \in 0 .. Len(uart) /\ Len(newMessage) + a <= n
  BY <1>1 DEF Available
<1>3. \A k \in 1 .. a : uart[k] \in LineBytes
  BY <1>1, <1>2, ElementOfSeq
<1> HIDE DEF a
<1>4. /\ SubSeq(uart, 1, a) \in Seq(LineBytes)
      /\ Len(SubSeq(uart, 1, a)) = a
      /\ \A k \in 1 .. a : SubSeq(uart, 1, a)[k] = uart[k]
  <2>1. /\ SubSeq(uart, 1, a) \in Seq(LineBytes)
        /\ Len(SubSeq(uart, 1, a)) = IF 1 <= a THEN a - 1 + 1 ELSE 0
        /\ \A k \in 1 .. a - 1 + 1 : SubSeq(uart, 1, a)[k] = uart[1 + k - 1]
    BY <1>1, <1>2, <1>3, SubSeqProperties
  <2>2. QED
    BY <1>2, <2>1
<1>5. /\ newMessage \o SubSeq(uart, 1, a) \in Seq(LineBytes)
      /\ Len(newMessage \o SubSeq(uart, 1, a)) = Len(newMessage) + a
      /\ \A k \in 1 .. Len(newMessage) + a :
             (newMessage \o SubSeq(uart, 1, a))[k] =
                 IF k <= Len(newMessage) THEN newMessage[k]
                 ELSE SubSeq(uart, 1, a)[k - Len(newMessage)]
  BY <1>1, <1>4, ConcatProperties
<1>6. Filled(n) = newMessage \o SubSeq(uart, 1, a)
  BY DEF Filled, a
<1>7. QED
  BY <1>1, <1>2, <1>4, <1>5, <1>6 DEF a

(* LineBytes that are passed over leave the rest in order. *)
LEMMA SkipInOrder ==
    ASSUME TypeInv, NEW done, InOrder(newMessage, uart, done, NextByte), NEW n \in 0 .. Len(uart)
    PROVE  InOrder(<<>>, Unread(n), done, NextByte)
<1>1. DOMAIN uart = 1 .. Len(uart) /\ Len(uart) \in Nat
  BY LenProperties DEF TypeInv
<1>2. \A k \in DOMAIN Unread(n) :
         k \in Int /\ n + k \in DOMAIN uart /\ Unread(n)[k] = uart[n + k]
  BY UnreadBytes
<1>3. n \in Int
  BY <1>1
<1>4. \A j, k \in DOMAIN Unread(n) : j < k => n + j < n + k
  BY <1>2, <1>3
<1> HIDE DEF NextByte
<1>5. QED
  BY <1>2, <1>4 DEF InOrder

(* A head that is found begins the message. *)
LEMMA HeadInOrder ==
    ASSUME TypeInv, NEW done, InOrder(newMessage, uart, done, NextByte), NEW n \in DOMAIN uart
    PROVE  InOrder(<<uart[n]>>, Unread(n), done, NextByte)
<1>1. DOMAIN uart = 1 .. Len(uart) /\ Len(uart) \in Nat
  BY LenProperties DEF TypeInv
<1>2. n \in 0 .. Len(uart)
  BY <1>1
<1>3. InOrder(<<>>, Unread(n), done, NextByte)
  BY <1>2, SkipInOrder
<1>4. DOMAIN <<uart[n]>> = {1} /\ <<uart[n]>>[1] = uart[n]
  OBVIOUS
<1>5. \A k \in DOMAIN Unread(n) :
         n + k \in DOMAIN uart /\ n < n + k /\ Unread(n)[k] = uart[n + k]
  <2>1. \A k \in DOMAIN Unread(n) :
           k \in Int /\ k > 0 /\ n + k \in DOMAIN uart /\ Unread(n)[k] = uart[n + k]
    BY <1>2, UnreadBytes
  <2>2. QED
    BY <1>1, <2>1
<1>6. QED
  BY <1>3, <1>4, <1>5 DEF InOrder

(* A READ moves bytes from the port to the message. *)
LEMMA FillInOrder ==
    ASSUME TypeInv, NEW done, InOrder(newMessage, uart, done, NextByte),
           NEW n \in Nat, Len(newMessage) <= n
    PROVE  InOrder(Filled(n), Unread(Available(n)), done, NextByte)
<1> DEFINE l == Len(newMessage)
           a == Available(n)
           m == Filled(n)
           u == Unread(a)
<1>1. /\ DOMAIN uart = 1 .. Len(uart) /\ Len(uart) \in Nat
      /\ DOMAIN newMessage = 1 .. l /\ l \in Nat
  BY LenProperties DEF TypeInv
<1>2. a \in 0 .. Len(uart)
  BY FilledBytes
<1>3. /\ DOMAIN m = 1 .. l + a
      /\ \A k \in DOMAIN m : m[k] = IF k <= l THEN newMessage[k] ELSE uart[k - l]
  BY FilledBytes, LenProperties
<1>4. \A k \in DOMAIN u : a + k \in DOMAIN uart /\ k > 0 /\ k \in Int /\ u[k] = uart[a + k]
  BY <1>2, UnreadBytes
<1>5. \A k \in DOMAIN m : IF k <= l THEN k \in DOMAIN newMessage /\ m[k] = newMessage[k]
                           ELSE k - l \in DOMAIN uart /\ k - l <= a /\ m[k] = uart[k - l]
  BY <1>1, <1>2, <1>3
<1>6. \A k \in DOMAIN m : k \in Int
  BY <1>3
<1>7. InOrder(<<>>, u, done, NextByte)
  BY <1>2, SkipInOrder
<1> HIDE DEF l, a, m, u
<1>8. \A k \in DOMAIN m :
         /\ m[k][1] > 0 /\ Before(m[k], NextByte)
         /\ \A i \in DOMAIN done : Before(<<done[i], 0>>, m[k])
  BY <1>5 DEF InOrder
<1>9. ASSUME NEW j \in DOMAIN m, NEW k \in DOMAIN m, j < k
      PROVE  Before(m[j], m[k])
  <2>1. CASE k <= l
    BY <1>1, <1>5, <1>6, <1>9, <2>1 DEF InOrder
  <2>2. CASE j <= l /\ ~(k <= l)
    BY <1>5, <2>2 DEF InOrder
  <2>3. CASE ~(j <= l) /\ ~(k <= l)
    <3>1. j - l < k - l
      BY <1>1, <1>6, <1>9
    <3>2. QED
      BY <1>5, <2>3, <3>1 DEF InOrder
  <2>4. QED
    BY <1>1, <1>6, <1>9, <2>1, <2>2, <2>3
<1>10. ASSUME NEW j \in DOMAIN m, NEW k \in DOMAIN u
       PROVE  Before(m[j], u[k])
  <2>1. CASE j <= l
    BY <1>4, <1>5, <2>1 DEF InOrder
  <2>2. CASE ~(j <= l)
    <3>1. j - l < a + k
      BY <1>1, <1>2, <1>4, <1>5, <1>6, <2>2
    <3>2. QED
      BY <1>4, <1>5, <2>2, <3>1 DEF InOrder
  <2>3. QED
    BY <2>1, <2>2
<1>11. QED
  BY <1>7, <1>8, <1>9, <1>10 DEF InOrder, m, u, a

(* What is handed over is a frame that begins after all those before it. *)
LEMMA ReceiveInOrder ==
    ASSUME TypeInv, NEW m \in Seq(LineBytes), NEW u, InOrder(m, u, received, NextByte),
           Len(m) > 0, OfOneFrame(m)
    PROVE  InOrder(<<>>, u, Append(received, m[1][1]), NextByte)
<1> DEFINE f == m[1][1]
           done == Append(received, f)
<1>1. 1 \in DOMAIN m /\ m[1] = <<f, 0>> /\ f \in Nat
  <2>1. 1 \in DOMAIN m /\ DOMAIN m = 1 .. Len(m)
    BY LenProperties
  <2>2. m[1] = <<f, 1 - 1>>
    BY <2>1 DEF OfOneFrame
  <2>3. m[1] \in LineBytes
    BY <2>1, ElementOfSeq
  <2>4. QED
    BY <2>1, <2>2, <2>3 DEF LineBytes
<1>2. /\ received \in Seq(Nat) /\ Len(received) \in Nat
      /\ DOMAIN received = 1 .. Len(received)
      /\ \A i \in DOMAIN received : received[i] \in Nat
  BY LenProperties, ElementOfSeq DEF TypeInv
<1>3. /\ DOMAIN done = 1 .. Len(received) + 1
      /\ \A i \in DOMAIN done : done[i] = IF i <= Len(received) THEN received[i] ELSE f
  BY <1>1, <1>2
<1>4. \A i \in DOMAIN done : i \in Int /\ (i <= Len(received) => i \in DOMAIN received)
  BY <1>2, <1>3
<1> HIDE DEF f, done
<1>5. ASSUME NEW i \in DOMAIN done
      PROVE  /\ done[i] > 0 /\ Before(<<done[i], 0>>, NextByte)
             /\ \A k \in DOMAIN u : Before(<<done[i], 0>>, u[k])
  <2>1. CASE i <= Len(received)
    BY <1>3, <1>4, <2>1 DEF InOrder
  <2>2. CASE ~(i <= Len(received))
    BY <1>1, <1>3, <2>2, SMTT(40) DEF InOrder
  <2>3. QED
    BY <2>1, <2>2
<1>6. ASSUME NEW i \in DOMAIN done, NEW j \in DOMAIN done, i < j
      PROVE  done[i] < done[j]
  <2>1. CASE j <= Len(received)
    BY <1>2, <1>3, <1>4, <1>6, <2>1 DEF InOrder
  <2>2. CASE ~(j <= Len(received))
    <3>1. i \in DOMAIN received /\ done[i] = received[i] /\ done[j] = f
      BY <1>2, <1>3, <1>4, <1>6, <2>2
    <3>2. Before(<<received[i], 0>>, <<f, 0>>)
      BY <1>1, <3>1 DEF InOrder
    <3>3. QED
      BY <1>1, <1>2, <3>1, <3>2 DEF Before
  <2>3. QED
    BY <2>1, <2>2
<1>7. QED
  BY <1>5, <1>6 DEF InOrder, done, f

-----------------------------------------------------------------------------
(* The bytes of the port as they are after a byte was added. *)
LEMMA AppendedByte ==
    ASSUME TypeInv, NEW byte \in LineBytes
    PROVE  /\ Append(uart, byte) \in Seq(LineBytes)
           /\ \A k \in DOMAIN Append(uart, byte) :
                  \/ k \in DOMAIN uart /\ Append(uart, byte)[k] = uart[k]
                  \/ k = Len(uart) + 1 /\ Append(uart, byte)[k] = byte
           /\ \A k \in DOMAIN uart : k < Len(uart) + 1
<1>1. uart \in Seq(LineBytes) /\ Len(uart) \in Nat /\ DOMAIN uart = 1 .. Len(uart)
  BY LenProperties DEF TypeInv
<1>2. /\ Append(uart, byte) \in Seq(LineBytes)
      /\ DOMAIN Append(uart, byte) = 1 .. Len(uart) + 1
      /\ \A k \in 1 .. Len(uart) + 1 :
             Append(uart, byte)[k] = IF k <= Len(uart) THEN uart[k] ELSE byte
  BY <1>1
<1>3. QED
  BY <1>1, <1>2

(* A byte that is sent is later than all those before it. *)
LEMMA SendByteInv == ASSUME OrderInv, SendByte PROVE OrderInv'
<1>1. /\ line \in Seq([length : DataLengths, headLike : BOOLEAN]) /\ Len(line) \in Nat
      /\ Len(line) > 0 /\ sent \in Nat /\ sent' = sent + 1
      /\ NextByte \in LineBytes
      /\ UNCHANGED <<rxCrcEnabled, line, djiSerialRxState, newMessage, dataLength, received>>
  BY LenProperties DEF OrderInv, TypeInv, SendByte, NextByte, LineBytes
<1>2. uart' \in {Append(uart, NextByte), uart}
  BY DEF SendByte, NextByte
<1>3. TypeInv' /\ Lacking'
  <2>1. uart' \in Seq(LineBytes)
    BY <1>1, <1>2, AppendedByte DEF OrderInv, TypeInv
  <2>2. sent' \in Nat
    BY <1>1
  <2>3. QED
    BY <1>1, <2>1, <2>2 DEF OrderInv, TypeInv, Lacking, MessageSize
<1>4. NextByte[1] = Len(line) /\ NextByte'[1] = Len(line) /\ Before(NextByte, NextByte')
  BY <1>1 DEF NextByte, Before
<1>5. ASSUME NEW b \in LineBytes, Before(b, NextByte)
      PROVE  Before(b, NextByte')
  BY <1>1, <1>4, <1>5 DEF Before, NextByte, LineBytes
<1>6. InOrder(newMessage', uart', Handed', NextByte')
  <2>1. /\ \A k \in DOMAIN newMessage : newMessage[k] \in LineBytes
        /\ \A k \in DOMAIN uart : uart[k] \in LineBytes
        /\ \A i \in DOMAIN Handed : <<Handed[i], 0>> \in LineBytes
    BY LenProperties, ElementOfSeq DEF OrderInv, TypeInv, LineBytes, Handed
  <2>2. InOrder(newMessage, uart, Handed, NextByte) /\ Handed' = Handed
    BY <1>1 DEF OrderInv, Handed
  <2>3. \A k \in DOMAIN uart' : \/ k \in DOMAIN uart /\ uart'[k] = uart[k]
                                \/ k = Len(uart) + 1 /\ uart'[k] = NextByte
    BY <1>1, <1>2, AppendedByte DEF OrderInv
  <2>4. \A k \in DOMAIN uart : ~(Len(uart) + 1 < k)
    BY LenProperties DEF OrderInv, TypeInv
  <2>5. ~(Len(uart) + 1 < Len(uart) + 1)
    BY LenProperties DEF OrderInv, TypeInv
  <2> DEFINE next == NextByte'
  <2>6. next = NextByte'
    OBVIOUS
  <2> HIDE DEF next
  <2>7. /\ \A k \in DOMAIN newMessage : newMessage[k][1] > 0 /\ Before(newMessage[k], next)
        /\ \A k \in DOMAIN uart' : uart'[k][1] > 0 /\ Before(uart'[k], next)
        /\ \A i \in DOMAIN Handed : Before(<<Handed[i], 0>>, next)
    BY <1>1, <1>4, <1>5, <2>1, <2>2, <2>3, <2>6 DEF InOrder
  <2>8. /\ \A j, k \in DOMAIN uart' : j < k => Before(uart'[j], uart'[k])
        /\ \A j \in DOMAIN newMessage, k \in DOMAIN uart' : Before(newMessage[j], uart'[k])
        /\ \A i \in DOMAIN Handed : \A k \in DOMAIN uart' : Before(<<Handed[i], 0>>, uart'[k])
    BY <2>2, <2>3, <2>4, <2>5 DEF InOrder
  <2>9. QED
    BY <1>1, <2>2, <2>6, <2>7, <2>8 DEF InOrder
<1>7. QED
  BY <1>1, <1>3, <1>6 DEF OrderInv

(* The bytes of a new frame come after all those of the frames before. *)
LEMMA StartFrameInv == ASSUME SerialAssumption, OrderInv, StartFrame PROVE OrderInv'
<1>1. PICK length \in DataLengths, headLike \in BOOLEAN :
          line' = Append(line, [length |-> length, headLike |-> headLike])
  BY DEF StartFrame
<1>2. /\ line \in Seq([length : DataLengths, headLike : BOOLEAN]) /\ Len(line) \in Nat
      /\ line' \in Seq([length : DataLengths, headLike : BOOLEAN])
      /\ Len(line') = Len(line) + 1
  BY <1>1, LenProperties DEF OrderInv, TypeInv
<1>3. /\ sent' = 0
      /\ UNCHANGED <<rxCrcEnabled, uart, djiSerialRxState, newMessage, dataLength, received>>
  BY DEF StartFrame
<1>4. TypeInv' /\ Lacking'
  BY <1>2, <1>3 DEF OrderInv, TypeInv, Lacking, MessageSize
<1>5. ASSUME NEW b \in LineBytes, Before(b, NextByte)
      PROVE  Before(b, NextByte')
  BY <1>2, <1>3, <1>5 DEF OrderInv, TypeInv, Before, NextByte, LineBytes
<1>6. InOrder(newMessage', uart', Handed', NextByte')
  <2>1. /\ \A k \in DOMAIN newMessage : newMessage[k] \in LineBytes
        /\ \A k \in DOMAIN uart : uart[k] \in LineBytes
        /\ \A i \in DOMAIN Handed : <<Handed[i], 0>> \in LineBytes
    BY LenProperties, ElementOfSeq DEF OrderInv, TypeInv, LineBytes, Handed
  <2>2. InOrder(newMessage, uart, Handed, NextByte) /\ Handed' = Handed
    BY <1>3 DEF OrderInv, Handed
  <2>3. QED
    BY <1>3, <1>5, <2>1, <2>2 DEF InOrder
<1>7. QED
  BY <1>3, <1>4, <1>6 DEF OrderInv

(* A search passes over bytes and begins a message with a head. *)
LEMMA HeaderSearchInv == ASSUME SerialAssumption, OrderInv, HeaderSearch PROVE OrderInv'
<1>1. UNCHANGED <<rxCrcEnabled, line, sent, dataLength, received>> /\ NextByte' = NextByte
  BY DEF HeaderSearch, NextByte
<1>2. CASE uart' = <<>> /\ UNCHANGED <<djiSerialRxState, newMessage>>
  BY <1>1, <1>2 DEF OrderInv, TypeInv, Lacking, MessageSize, InOrder, Handed
<1>3. ASSUME NEW first \in DOMAIN uart, uart' = Unread(first), newMessage' = <<uart[first]>>,
             djiSerialRxState' = "PROCESS_FRAME_HEADER"
      PROVE  OrderInv'
  <2>1. first \in 0 .. Len(uart) /\ uart[first] \in LineBytes
    BY LenProperties, ElementOfSeq DEF OrderInv, TypeInv
  <2>2. TypeInv'
    BY <1>1, <1>3, <2>1, UnreadBytes DEF OrderInv, TypeInv
  <2>3. InOrder(<<uart[first]>>, Unread(first), Handed, NextByte) /\ Handed' = Handed
    BY <1>1, HeadInOrder DEF OrderInv, Handed
  <2>4. Lacking'
    BY <1>3 DEF Lacking, SerialAssumption
  <2>5. QED
    BY <1>1, <1>3, <2>2, <2>3, <2>4 DEF OrderInv
<1>4. QED
  BY <1>2, <1>3 DEF HeaderSearch

(* A length that a header shows is one of the line's. *)
LEMMA HeaderShows ==
    ASSUME TypeInv, NEW header \in Seq(LineBytes), NEW u, NEW done,
           InOrder(header, u, done, NextByte), Len(header) > 0,
           NEW length \in HeaderLengths(header)
    PROVE  length \in DataLengths
<1>1. CASE OfOneFrame(header)
  <2> DEFINE f == header[1][1]
  <2>1. 1 \in DOMAIN header /\ header[1] \in LineBytes
    BY LenProperties, ElementOfSeq
  <2>2. f \in Nat /\ f > 0 /\ Before(header[1], NextByte)
    BY <2>1 DEF InOrder, LineBytes
  <2>3. Len(line) \in Nat
    BY LenProperties DEF TypeInv
  <2>4. f \in 1 .. Len(line)
    BY <2>2, <2>3 DEF Before, NextByte
  <2>5. line[f] \in [length : DataLengths, headLike : BOOLEAN]
    BY <2>4, ElementOfSeq DEF TypeInv
  <2>6. length = line[f].length
    BY <1>1 DEF HeaderLengths
  <2>7. QED
    BY <2>5, <2>6
<1>2. QED
  BY <1>1 DEF HeaderLengths

(* A header that is not whole is read on, a whole one is accepted or not. *)
LEMMA FrameHeaderInv == ASSUME SerialAssumption, OrderInv, FrameHeader PROVE OrderInv'
<1> DEFINE header == Filled(HEADER_SIZE)
           n == Available(HEADER_SIZE)
<1>1. /\ UNCHANGED <<rxCrcEnabled, line, sent, received>>
      /\ NextByte' = NextByte /\ Handed' = Handed
      /\ djiSerialRxState = "PROCESS_FRAME_HEADER" /\ uart' = Unread(n)
  BY DEF FrameHeader, NextByte, Handed
<1>2. TypeInv /\ HEADER_SIZE \in Nat \ {0} /\ Len(newMessage) <= HEADER_SIZE
  BY <1>1 DEF OrderInv, Lacking, SerialAssumption
<1>3. header \in Seq(LineBytes) /\ n \in 0 .. Len(uart) /\ Len(header) <= HEADER_SIZE
  BY <1>2, FilledBytes
<1>4. InOrder(header, Unread(n), Handed, NextByte) /\ InOrder(<<>>, Unread(n), Handed, NextByte)
  BY <1>2, <1>3, FillInOrder, SkipInOrder DEF OrderInv
<1>5. uart' \in Seq(LineBytes)
  BY <1>1, <1>2, <1>3, UnreadBytes
<1>6. CASE newMessage' = header /\ UNCHANGED <<djiSerialRxState, dataLength>>
  BY <1>1, <1>3, <1>4, <1>5, <1>6 DEF OrderInv, TypeInv, Lacking
<1>7. CASE SearchAgain
  BY <1>1, <1>4, <1>5, <1>7 DEF SearchAgain, OrderInv, TypeInv, Lacking
<1>8. ASSUME NEW length \in HeaderLengths(header), Len(header) = HEADER_SIZE,
             newMessage' = header, dataLength' = length, djiSerialRxState' = "PROCESS_FRAME_DATA"
      PROVE  OrderInv'
  <2>1. length \in Nat
    <3>1. Len(header) > 0
      BY <1>2, <1>8
    <3>2. length \in DataLengths
      BY <1>2, <1>3, <1>4, <1>8, <3>1, HeaderShows
    <3>3. QED
      BY <3>2 DEF SerialAssumption
  <2>2. TypeInv'
    BY <1>1, <1>3, <1>5, <1>8, <2>1 DEF OrderInv, TypeInv
  <2>3. HEADER_SIZE <= MessageSize'
    BY <1>8, <2>1 DEF MessageSize, SerialAssumption
  <2>4. Lacking'
    BY <1>8, <2>3 DEF Lacking
  <2>5. QED
    BY <1>1, <1>4, <1>8, <2>2, <2>4 DEF OrderInv
<1>9. QED
  BY <1>6, <1>7, <1>8 DEF FrameHeader

(* A message that is not whole is read on, a whole one is handed over or not. *)
LEMMA FrameDataInv == ASSUME SerialAssumption, OrderInv, FrameData PROVE OrderInv'
<1> DEFINE message == Filled(MessageSize)
           n == Available(MessageSize)
<1>1. /\ UNCHANGED <<rxCrcEnabled, line, sent>> /\ NextByte' = NextByte
      /\ djiSerialRxState = "PROCESS_FRAME_DATA" /\ uart' = Unread(n)
  BY DEF FrameData, NextByte
<1>2. /\ TypeInv /\ MessageSize \in Nat /\ MessageSize > 0
      /\ Len(newMessage) <= MessageSize
  BY <1>1 DEF OrderInv, Lacking, SerialAssumption, MessageSize, TypeInv
<1>3. message \in Seq(LineBytes) /\ n \in 0 .. Len(uart) /\ Len(message) <= MessageSize
  BY <1>2, FilledBytes
<1>4. InOrder(message, Unread(n), Handed, NextByte) /\ InOrder(<<>>, Unread(n), Handed, NextByte)
  BY <1>2, <1>3, FillInOrder, SkipInOrder DEF OrderInv
<1>5. uart' \in Seq(LineBytes)
  BY <1>1, <1>2, <1>3, UnreadBytes
<1>6. CASE newMessage' = message /\ UNCHANGED <<djiSerialRxState, dataLength, received>>
  <2>1. MessageSize' = MessageSize /\ Handed' = Handed
    BY <1>1, <1>6 DEF MessageSize, Handed
  <2>2. QED
    BY <1>1, <1>3, <1>4, <1>5, <1>6, <2>1 DEF OrderInv, TypeInv, Lacking
<1>7. CASE SearchAgain /\ received' = received
  <2>1. Handed' = Handed
    BY <1>1, <1>7 DEF Handed
  <2>2. QED
    BY <1>1, <1>4, <1>5, <1>7, <2>1 DEF SearchAgain, OrderInv, TypeInv, Lacking
<1>8. CASE /\ SearchAgain /\ ~(Len(message) < MessageSize) /\ MessageAccepted(message)
           /\ received' = Append(received, IF OfOneFrame(message) THEN message[1][1] ELSE 0)
  <2>1. Len(message) > 0 /\ message[1][1] \in Nat
    <3>1. Len(message) \in Nat /\ Len(message) > 0
      BY <1>2, <1>3, <1>8, LenProperties
    <3>2. message[1] \in LineBytes
      BY <1>3, <3>1, ElementOfSeq
    <3>3. QED
      BY <3>1, <3>2 DEF LineBytes
  <2>2. TypeInv' /\ Lacking'
    <3>1. received' \in Seq(Nat)
      BY <1>2, <1>8, <2>1 DEF TypeInv
    <3>2. QED
      BY <1>1, <1>2, <1>5, <1>8, <3>1 DEF SearchAgain, TypeInv, Lacking
  <2>3. CASE rxCrcEnabled
    <3>1. OfOneFrame(message) /\ Handed = received /\ Handed' = Append(received, message[1][1])
      BY <1>1, <1>8, <2>3 DEF MessageAccepted, Handed
    <3>2. InOrder(<<>>, Unread(n), Append(received, message[1][1]), NextByte)
      BY <1>2, <1>3, <1>4, <2>1, <3>1, ReceiveInOrder
    <3>3. QED
      BY <1>1, <1>8, <2>2, <3>1, <3>2 DEF OrderInv, SearchAgain
  <2>4. CASE ~rxCrcEnabled
    <3>1. Handed' = Handed
      BY <1>1, <2>4 DEF Handed
    <3>2. QED
      BY <1>1, <1>4, <1>8, <2>2, <3>1 DEF OrderInv, SearchAgain
  <2>5. QED
    BY <2>3, <2>4
<1>9. QED
  BY <1>6, <1>7, <1>8 DEF FrameData

(***************************************************************************)
(* With the CRCs enforced, messageReceiveCallback() gets frames of the     *)
(* line, each once and in their order, whatever bytes are lost, whatever   *)
(* the data look like, however many bytes a read() finds, and for all      *)
(* sizes of headers, messages and buffers (dji_serial.cpp.in).  Where  *)
(* the receiver is in the line need not be known: every byte that it has   *)
(* or will read was sent after the beginning of every frame handed over.   *)
(***************************************************************************)
THEOREM FramesInOrder == ASSUME SerialAssumption PROVE Spec => []ReceivesFramesInOrder
<1>1. Init => OrderInv
  BY DEF Init, OrderInv, TypeInv, Lacking, InOrder, Handed
<1>2. OrderInv /\ [Next]_vars => OrderInv'
  <2> SUFFICES ASSUME OrderInv, [Next]_vars
               PROVE  OrderInv'
    OBVIOUS
  <2>1. CASE UNCHANGED vars
    BY <2>1 DEF vars, OrderInv, TypeInv, Lacking, MessageSize, NextByte, Handed
  <2>2. QED
    BY <2>1, SendByteInv, StartFrameInv, HeaderSearchInv, FrameHeaderInv, FrameDataInv
       DEF Next, updateSerial
<1>3. OrderInv => ReceivesFramesInOrder
  <2> SUFFICES ASSUME OrderInv, rxCrcEnabled
               PROVE  /\ \A k \in DOMAIN received : received[k] # 0
                      /\ \A j, k \in DOMAIN received : j < k => received[j] < received[k]
    BY DEF ReceivesFramesInOrder
  <2>1. \A k \in DOMAIN received : received[k] \in Nat
    BY LenProperties, ElementOfSeq DEF OrderInv, TypeInv
  <2>2. InOrder(newMessage, uart, received, NextByte)
    BY DEF OrderInv, Handed
  <2>3. /\ \A k \in DOMAIN received : received[k] > 0
        /\ \A j, k \in DOMAIN received : j < k => received[j] < received[k]
    BY <2>2 DEF InOrder
  <2>4. QED
    BY <2>1, <2>3
<1>4. QED
  BY <1>1, <1>2, <1>3, PTL DEF Spec

-----------------------------------------------------------------------------
(***************************************************************************)
(* Why the receiver finds back into step.  What lies ahead of it are the   *)
(* bytes of its message and those of the port.  It may take any byte that  *)
(* looks like a head for one, unless it will be inside a frame then.  From *)
(* there it reads a header, and a message if the header is right.  When    *)
(* that is not a whole frame of the line, it must not reach into one that  *)
(* has to be received, nor beyond the byte at which clean is as large as   *)
(* Awaited.                                                                *)
(***************************************************************************)
Ahead == newMessage \o uart
Count == Len(newMessage) + Len(uart)
Places == 1 .. Count

Busy == djiSerialRxState # "SERIAL_HEADER_SEARCH"

FrameAt(q) == Ahead[q][1]

(* From place q on, all of a frame is there that was sent, and nothing of it
   was lost. *)
Whole(q) ==
    LET size == Size(FrameAt(q))
        here == Count - q + 1 IN
    /\ \A k \in q .. Count : k - q < size => Ahead[k] = <<FrameAt(q), k - q>>
    /\ here < size => FrameAt(q) = Len(line) /\ sent = here

(* The last byte that is read from place q on. *)
HeaderRight(q) ==
    /\ q + HEADER_SIZE - 1 <= Count
    /\ \A k \in 0 .. HEADER_SIZE - 1 : Ahead[q + k] = <<FrameAt(q), k>>

Ending(q) ==
    q - 1 + (IF HeaderRight(q) /\ line[FrameAt(q)].length \in Accepted
             THEN Size(FrameAt(q)) ELSE HEADER_SIZE)

(* A frame that has to be received begins at place p. *)
ToReceive(f) == f \in sound /\ line[f].length \in Accepted
InStep(p) == Ahead[p][2] = 0 /\ ToReceive(FrameAt(p))

Covered(q) == \E p \in 1 .. q - 1 : InStep(p) /\ q < p + Size(FrameAt(p))

Start(q) == (q = 1 /\ Busy) \/ (LooksLikeHead(Ahead[q]) /\ ~Covered(q))

(* What is lost is gone, but no frame that has to be received. *)
NoneMissed ==
    \A f \in 1 .. Len(line) : ToReceive(f) =>
        \/ f \in Range(received)
        \/ f = Len(line) /\ sent = 0
        \/ \E p \in Places : Ahead[p] = <<f, 0>>

InStepWhole == \A p \in Places : InStep(p) => Whole(p)

StartsEnd ==
    \A q \in Places : Start(q) /\ ~Whole(q) =>
        /\ Ending(q) - Count + clean <= Awaited
        /\ \A p \in Places : q < p /\ InStep(p) => Ending(q) < p

Cleanness ==
    /\ sound \subseteq 1 .. Len(line)
    /\ clean \in 0 .. Awaited
    /\ Len(line) \in sound /\ (sent = 0 \/ ToReceive(Len(line))) => clean = Awaited

(* Of the last frame nothing is handed over before it was sent, and what is
   read as a message has a header that was accepted. *)
Reading ==
    /\ Len(line) \in Range(received) => sent >= Size(Len(line))
    /\ Busy <=> newMessage # <<>>
    /\ djiSerialRxState = "PROCESS_FRAME_DATA" =>
          /\ HeaderRight(1) /\ HEADER_SIZE <= Len(newMessage) /\ Len(newMessage) < MessageSize
          /\ dataLength = line[FrameAt(1)].length /\ dataLength \in Accepted

BackInStep == NoneMissed /\ InStepWhole /\ StartsEnd /\ Cleanness

StepInv == rxCrcEnabled => BackInStep /\ Reading

-----------------------------------------------------------------------------
(* A set of numbers that has a bound has a largest member: without one, the
   numbers that are not above all of them would go on for ever. *)
LEMMA Largest ==
    ASSUME NEW S \in SUBSET Nat, S # {}, NEW m \in Nat, \A x \in S : x <= m
    PROVE  Max(S) \in S /\ \A x \in S : x <= Max(S)
<1> SUFFICES ASSUME \A x \in S : \E y \in S : ~(x >= y)
             PROVE  FALSE
  BY DEF Max
<1> DEFINE V == {n \in 0 .. m : \E y \in S : y >= n}
           W == V \ {0}
           f == [n \in V |-> n + 1]
<1>1. 0 \in V /\ V \subseteq 0 .. m
  <2>1. PICK y \in S : TRUE
    OBVIOUS
  <2>2. y \in Nat /\ y >= 0
    OBVIOUS
  <2>3. 0 \in V
    BY <2>2
  <2>4. QED
    BY <2>3
<1>2. IsFiniteSet(V)
  <2>1. IsFiniteSet(0 .. m)
    BY FS_Interval
  <2>2. QED
    BY <1>1, <2>1, FS_Subset
<1>3. f \in [V -> W]
  <2> SUFFICES ASSUME NEW n \in V PROVE n + 1 \in W
    OBVIOUS
  <2>1. PICK x \in S, y \in S : x >= n /\ ~(x >= y)
    OBVIOUS
  <2>2. y >= n + 1 /\ n + 1 \in 0 .. m /\ n + 1 # 0
    BY <2>1
  <2>3. QED
    BY <2>2
<1>4. IsFiniteSet(W) /\ Cardinality(W) < Cardinality(V)
  <2> HIDE DEF V
  <2>1. Cardinality(V) \in Nat
    BY <1>2, FS_CardinalityType
  <2>2. IsFiniteSet(V \ {0}) /\ Cardinality(V \ {0}) = Cardinality(V) - 1
    BY <1>1, <1>2, FS_RemoveElement
  <2>3. QED
    BY <2>1, <2>2
<1>5. \E x, y \in V : x # y /\ f[x] = f[y]
  <2> HIDE DEF V, W, f
  <2> QED
    BY <1>2, <1>3, <1>4, FS_PigeonHole
<1>6. QED
  BY <1>5

LEMMA AwaitedIsEnough ==
    ASSUME SerialAssumption, FrameAssumption
    PROVE  /\ Awaited \in Nat /\ HEADER_SIZE - 1 <= Awaited
           /\ \A length \in Accepted : TYPE_SIZE + length + CRC_SIZE <= Awaited
<1> DEFINE longest == Max(Accepted)
           rest == TYPE_SIZE + longest + CRC_SIZE
<1>1. longest \in Accepted /\ \A length \in Accepted : length <= longest
  <2>1. Accepted \subseteq Nat
    BY DEF Accepted, SerialAssumption
  <2>2. ASSUME NEW length \in Accepted
        PROVE  length <= SERIAL_RX_BUFF_SIZE
    <3>1. length \in Nat /\ length < SERIAL_RX_BUFF_SIZE
      BY <2>1 DEF Accepted
    <3>2. QED
      BY <3>1 DEF FrameAssumption
  <2>3. QED
    BY <2>1, <2>2, Largest DEF FrameAssumption
<1>2. Accepted \subseteq Nat
  BY DEF Accepted, SerialAssumption
<1> HIDE DEF longest
<1>3. rest \in Nat /\ HEADER_SIZE - 1 \in Nat
  BY <1>1, <1>2 DEF SerialAssumption
<1>4. \A length \in Accepted : TYPE_SIZE + length + CRC_SIZE <= rest
  BY <1>1, <1>2 DEF SerialAssumption
<1> HIDE DEF rest
<1>5. /\ Max({HEADER_SIZE - 1, rest}) \in Nat
      /\ HEADER_SIZE - 1 <= Max({HEADER_SIZE - 1, rest})
      /\ rest <= Max({HEADER_SIZE - 1, rest})
  BY <1>3 DEF Max
<1>6. Awaited = Max({HEADER_SIZE - 1, rest})
  BY DEF Awaited, rest, longest
<1>7. \A length \in Accepted : TYPE_SIZE + length + CRC_SIZE \in Nat
  BY <1>2 DEF SerialAssumption
<1>8. QED
  BY <1>3, <1>4, <1>5, <1>6, <1>7

(* The sizes of the frames of the line. *)
LEMMA Sizes ==
    ASSUME SerialAssumption, TypeInv
    PROVE  /\ Len(line) \in Nat
           /\ \A f \in 1 .. Len(line) :
                 /\ line[f].length \in Nat /\ line[f].length \in DataLengths
                 /\ Size(f) \in Nat /\ HEADER_SIZE <= Size(f)
                 /\ Size(f) = HEADER_SIZE + (TYPE_SIZE + line[f].length + CRC_SIZE)
                 /\ FrameAssumption => HEADER_SIZE < Size(f)
<1>1. Len(line) \in Nat
  BY LenProperties DEF TypeInv
<1>2. ASSUME NEW f \in 1 .. Len(line)
      PROVE  line[f].length \in Nat /\ line[f].length \in DataLengths
  <2>1. line[f] \in [length : DataLengths, headLike : BOOLEAN]
    BY ElementOfSeq DEF TypeInv
  <2>2. QED
    BY <2>1 DEF SerialAssumption
<1>3. QED
  BY <1>1, <1>2 DEF Size, SerialAssumption, FrameAssumption

(* What lies ahead is in the order of the line. *)
LEMMA AheadBytes ==
    ASSUME OrderInv
    PROVE  /\ Count \in Nat /\ Len(newMessage) \in Nat /\ Len(newMessage) <= Count
           /\ Len(uart) \in Nat /\ Len(line) \in Nat /\ sent \in Nat
           /\ \A k \in Places :
                 /\ Ahead[k] = <<Ahead[k][1], Ahead[k][2]>>
                 /\ Ahead[k][1] \in 1 .. Len(line) /\ Ahead[k][2] \in Nat
                 /\ Before(Ahead[k], NextByte)
                 /\ IF k <= Len(newMessage)
                    THEN k \in DOMAIN newMessage /\ Ahead[k] = newMessage[k]
                    ELSE /\ k - Len(newMessage) \in DOMAIN uart
                         /\ Ahead[k] = uart[k - Len(newMessage)]
           /\ \A j, k \in Places : j < k => Before(Ahead[j], Ahead[k])
<1> DEFINE l == Len(newMessage)
<1>1. /\ uart \in Seq(LineBytes) /\ Len(uart) \in Nat /\ DOMAIN uart = 1 .. Len(uart)
      /\ newMessage \in Seq(LineBytes) /\ l \in Nat /\ DOMAIN newMessage = 1 .. l
      /\ Len(line) \in Nat /\ sent \in Nat
  BY LenProperties DEF OrderInv, TypeInv
<1>2. Count \in Nat /\ l <= Count /\ Places = 1 .. l + Len(uart)
  BY <1>1 DEF Count, Places
<1>3. \A k \in Places : Ahead[k] = IF k <= l THEN newMessage[k] ELSE uart[k - l]
  BY <1>1, <1>2, ConcatProperties DEF Ahead
<1>4. \A k \in Places : IF k <= l THEN k \in DOMAIN newMessage ELSE k - l \in DOMAIN uart
  BY <1>1, <1>2
<1>5. InOrder(newMessage, uart, Handed, NextByte)
  BY DEF OrderInv
<1> HIDE DEF l
<1>6. ASSUME NEW k \in Places
      PROVE  /\ Ahead[k] = <<Ahead[k][1], Ahead[k][2]>>
             /\ Ahead[k][1] \in 1 .. Len(line) /\ Ahead[k][2] \in Nat
             /\ Before(Ahead[k], NextByte)
  <2>1. Ahead[k] \in LineBytes
    BY <1>1, <1>3, <1>4, ElementOfSeq
  <2>2. Ahead[k][1] > 0 /\ Before(Ahead[k], NextByte)
    BY <1>3, <1>4, <1>5 DEF InOrder
  <2>3. QED
    BY <1>1, <2>1, <2>2 DEF LineBytes, Before, NextByte
<1>7. ASSUME NEW j \in Places, NEW k \in Places, j < k
      PROVE  Before(Ahead[j], Ahead[k])
  <2>1. CASE k <= l
    <3>1. j <= l
      BY <1>1, <1>2, <1>7, <2>1
    <3>2. QED
      BY <1>3, <1>4, <1>5, <1>7, <2>1, <3>1 DEF InOrder
  <2>2. CASE j <= l /\ ~(k <= l)
    BY <1>3, <1>4, <1>5, <2>2 DEF InOrder
  <2>3. CASE ~(j <= l) /\ ~(k <= l)
    <3>1. j - l < k - l
      BY <1>1, <1>2, <1>7
    <3>2. QED
      BY <1>3, <1>4, <1>5, <2>3, <3>1 DEF InOrder
  <2>4. QED
    BY <1>1, <1>2, <1>7, <2>1, <2>2, <2>3
<1>8. QED
  BY <1>1, <1>2, <1>3, <1>4, <1>6, <1>7 DEF l

(* No place is read on from further than Awaited. *)
LEMMA EndingNear ==
    ASSUME SerialAssumption, FrameAssumption, OrderInv, NEW q \in Places
    PROVE  /\ Ending(q) \in Int /\ q + HEADER_SIZE - 1 <= Ending(q)
           /\ Ending(q) - Count <= Awaited
<1>1. /\ Count \in Nat /\ q \in 1 .. Count /\ FrameAt(q) \in 1 .. Len(line)
      /\ HEADER_SIZE \in Nat \ {0}
  BY AheadBytes DEF Places, FrameAt, SerialAssumption
<1>2. /\ Size(FrameAt(q)) \in Nat /\ HEADER_SIZE <= Size(FrameAt(q))
      /\ Size(FrameAt(q)) = HEADER_SIZE + (TYPE_SIZE + line[FrameAt(q)].length + CRC_SIZE)
      /\ TYPE_SIZE + line[FrameAt(q)].length + CRC_SIZE \in Nat
  BY <1>1, Sizes DEF OrderInv, SerialAssumption
<1>3. CASE HeaderRight(q) /\ line[FrameAt(q)].length \in Accepted
  <2>1. TYPE_SIZE + line[FrameAt(q)].length + CRC_SIZE <= Awaited /\ Awaited \in Nat
    BY <1>3, AwaitedIsEnough
  <2>2. q + HEADER_SIZE - 1 <= Count
    BY <1>3 DEF HeaderRight
  <2>3. Ending(q) = q - 1 + Size(FrameAt(q))
    BY <1>3 DEF Ending
  <2>4. QED
    BY <1>1, <1>2, <2>1, <2>2, <2>3
<1>4. CASE ~(HeaderRight(q) /\ line[FrameAt(q)].length \in Accepted)
  <2>1. HEADER_SIZE - 1 <= Awaited /\ Awaited \in Nat
    BY AwaitedIsEnough
  <2>2. QED
    BY <1>1, <1>4, <2>1 DEF Ending
<1>5. QED
  BY <1>3, <1>4

(* A whole frame does not reach into the next one. *)
LEMMA WholeEnds ==
    ASSUME SerialAssumption, FrameAssumption, OrderInv,
           NEW q \in Places, NEW p \in Places, q < p, Whole(q), Ahead[p][2] = 0
    PROVE  Ending(q) < p
<1>1. Count \in Nat /\ q \in 1 .. Count /\ p \in 1 .. Count /\ FrameAt(q) \in 1 .. Len(line)
  BY AheadBytes DEF Places, FrameAt
<1>2. Size(FrameAt(q)) \in Nat /\ HEADER_SIZE <= Size(FrameAt(q)) /\ HEADER_SIZE \in Nat
  BY <1>1, Sizes DEF OrderInv, SerialAssumption
<1>3. ~(p - q < Size(FrameAt(q)))
  <2> SUFFICES ASSUME p - q < Size(FrameAt(q))
               PROVE  FALSE
    OBVIOUS
  <2>1. p \in q .. Count
    BY <1>1
  <2>2. Ahead[p] = <<FrameAt(q), p - q>>
    BY <2>1 DEF Whole
  <2>3. QED
    BY <1>1, <2>2
<1>4. QED
  BY <1>1, <1>2, <1>3 DEF Ending

(***************************************************************************)
(* The receiver goes on by n bytes, to a place where a message may start.  *)
(* Of the frames that have to be received it passes over none in part, and *)
(* over a whole one only when that is handed over.                         *)
(***************************************************************************)
LEMMA ReadOn ==
    ASSUME SerialAssumption, FrameAssumption, OrderInv, OrderInv', BackInStep,
           NEW n \in 0 .. Count,
           line' = line, sent' = sent, clean' = clean, sound' = sound,
           Range(received) \subseteq Range(received'),
           Count' = Count - n,
           \A k \in 1 .. Count - n : Ahead'[k] = Ahead[n + k],
           Busy' => n < Count /\ Start(n + 1),
           \A p \in 1 .. n : InStep(p) =>
               p + Size(FrameAt(p)) <= n + 1 /\ FrameAt(p) \in Range(received')
    PROVE  BackInStep'
<1>1. /\ Count \in Nat /\ n \in Nat /\ Len(line) \in Nat /\ HEADER_SIZE \in Nat \ {0}
      /\ Places = 1 .. Count /\ Places' = 1 .. Count - n
  BY AheadBytes DEF Places, SerialAssumption
<1>2. \A f \in 1 .. Len(line) : Size(f)' = Size(f) /\ (ToReceive(f)' <=> ToReceive(f))
  BY DEF Size, ToReceive
<1>3. ASSUME NEW q \in 1 .. Count - n
      PROVE  /\ n + q \in Places /\ Ahead'[q] = Ahead[n + q]
             /\ FrameAt(q)' = FrameAt(n + q) /\ FrameAt(n + q) \in 1 .. Len(line)
             /\ Size(FrameAt(n + q)) \in Nat
             /\ n + q \in Int /\ q \in Int
  BY <1>1, <1>3, AheadBytes, Sizes DEF FrameAt, OrderInv
<1>4. ASSUME NEW q \in 1 .. Count - n
      PROVE  InStep(q)' <=> InStep(n + q)
  BY <1>3, <1>4 DEF InStep, FrameAt, ToReceive
<1>5. ASSUME NEW q \in 1 .. Count - n
      PROVE  Whole(q)' <=> Whole(n + q)
  <2> DEFINE g == FrameAt(n + q)
             size == Size(g)
  <2>1. FrameAt(q)' = g /\ Size(FrameAt(q))' = size
    BY <1>3, <1>5 DEF Size
  <2>2. Count' - q + 1 = Count - (n + q) + 1
    BY <1>1, <1>3, <1>5
  <2> HIDE DEF g, size
  <2>3. (\A k \in q .. Count' : k - q < size => Ahead'[k] = <<g, k - q>>)
            <=> (\A k \in n + q .. Count : k - (n + q) < size => Ahead[k] = <<g, k - (n + q)>>)
    <3>1. ASSUME \A k \in q .. Count' : k - q < size => Ahead'[k] = <<g, k - q>>,
                 NEW k \in n + q .. Count, k - (n + q) < size
          PROVE  Ahead[k] = <<g, k - (n + q)>>
      <4>1. k - n \in q .. Count' /\ k - n \in 1 .. Count - n /\ n + (k - n) = k
            /\ (k - n) - q = k - (n + q)
        BY <1>1, <1>3, <1>5
      <4>2. QED
        BY <3>1, <4>1
    <3>2. ASSUME \A k \in n + q .. Count : k - (n + q) < size => Ahead[k] = <<g, k - (n + q)>>,
                 NEW k \in q .. Count', k - q < size
          PROVE  Ahead'[k] = <<g, k - q>>
      <4>1. n + k \in n + q .. Count /\ k \in 1 .. Count - n /\ (n + k) - (n + q) = k - q
        BY <1>1, <1>3, <1>5
      <4>2. QED
        BY <3>2, <4>1
    <3>3. QED
      BY <3>1, <3>2
  <2>4. Whole(n + q) <=> /\ \A k \in n + q .. Count : k - (n + q) < size => Ahead[k] = <<g, k - (n + q)>>
                         /\ Count - (n + q) + 1 < size => g = Len(line) /\ sent = Count - (n + q) + 1
    BY DEF Whole, g, size
  <2>5. Whole(q)' <=> /\ \A k \in q .. Count' : k - q < size => Ahead'[k] = <<g, k - q>>
                      /\ Count' - q + 1 < size => g = Len(line') /\ sent' = Count' - q + 1
    BY <2>1 DEF Whole
  <2>6. QED
    BY <2>2, <2>3, <2>4, <2>5
<1>6. ASSUME NEW q \in 1 .. Count - n
      PROVE  /\ Ending(q)' = Ending(n + q) - n
             /\ Ending(q)' - Count' = Ending(n + q) - Count
             /\ Ending(n + q) \in Int
  <2>1. HeaderRight(q)' <=> HeaderRight(n + q)
    <3>1. q + HEADER_SIZE - 1 <= Count' <=> n + q + HEADER_SIZE - 1 <= Count
      BY <1>1, <1>3, <1>6
    <3>2. ASSUME q + HEADER_SIZE - 1 <= Count', NEW k \in 0 .. HEADER_SIZE - 1
          PROVE  Ahead'[q + k] = Ahead[n + q + k]
      <4>1. q + k \in 1 .. Count - n /\ n + (q + k) = n + q + k
        BY <1>1, <1>3, <1>6, <3>2
      <4>2. QED
        BY <4>1
    <3>3. QED
      BY <1>3, <1>6, <3>1, <3>2 DEF HeaderRight, FrameAt
  <2>2. Size(FrameAt(q))' = Size(FrameAt(n + q)) /\ FrameAt(q)' = FrameAt(n + q)
    BY <1>3, <1>6 DEF Size
  <2>3. Ending(n + q) \in Int
    BY <1>3, <1>6, EndingNear
  <2>4. Ending(q)' = q - 1 + (IF HeaderRight(n + q) /\ line[FrameAt(n + q)].length \in Accepted
                              THEN Size(FrameAt(n + q)) ELSE HEADER_SIZE)
    BY <2>1, <2>2 DEF Ending
  <2>5. Ending(q)' = Ending(n + q) - n
    <3> DEFINE jump == IF HeaderRight(n + q) /\ line[FrameAt(n + q)].length \in Accepted
                       THEN Size(FrameAt(n + q)) ELSE HEADER_SIZE
    <3>1. jump \in Int
      BY <1>1, <1>3, <1>6
    <3>2. Ending(q)' = q - 1 + jump /\ Ending(n + q) = n + q - 1 + jump
      BY <2>4 DEF Ending
    <3> HIDE DEF jump
    <3>3. QED
      BY <1>1, <1>3, <1>6, <3>1, <3>2
  <2>6. QED
    BY <1>1, <2>3, <2>5
<1>7. ASSUME NEW q \in 1 .. Count - n, Start(q)'
      PROVE  Start(n + q)
  <2>1. CASE q = 1 /\ Busy'
    BY <2>1
  <2>2. CASE LooksLikeHead(Ahead[q])' /\ ~Covered(q)'
    <3>1. LooksLikeHead(Ahead[n + q])
      BY <1>3, <2>2 DEF LooksLikeHead
    <3>2. ASSUME NEW p \in 1 .. n + q - 1, InStep(p), n + q < p + Size(FrameAt(p))
          PROVE  FALSE
      <4>1. /\ p \in Places /\ FrameAt(p) \in 1 .. Len(line) /\ Size(FrameAt(p)) \in Nat
            /\ p \in Int /\ p <= n + q - 1 /\ q \in Int /\ q <= Count - n
        BY <1>1, <1>3, <1>7, AheadBytes, Sizes, SMTT(40) DEF FrameAt, OrderInv
      <4>2. CASE p <= n
        <5>1. p + Size(FrameAt(p)) <= n + 1
          BY <1>1, <3>2, <4>1, <4>2
        <5>2. QED
          BY <1>1, <1>3, <1>7, <3>2, <4>1, <5>1
      <4>3. CASE ~(p <= n)
        <5>1. p - n \in 1 .. Count - n /\ p - n \in 1 .. q - 1 /\ n + (p - n) = p
          BY <1>1, <4>1, <4>3
        <5>2. InStep(p - n)' /\ FrameAt(p - n)' = FrameAt(p)
          BY <1>3, <1>4, <3>2, <5>1
        <5>3. Size(FrameAt(p - n))' = Size(FrameAt(p))
          BY <5>2 DEF Size
        <5>4. q < p - n + Size(FrameAt(p))
          BY <1>1, <1>3, <1>7, <3>2, <4>1, SMTT(40)
        <5>5. Covered(q)'
          BY <5>1, <5>2, <5>3, <5>4 DEF Covered
        <5>6. QED
          BY <2>2, <5>5
      <4>4. QED
        BY <4>2, <4>3
    <3>3. QED
      BY <3>1, <3>2 DEF Start, Covered
  <2>3. QED
    BY <1>7, <2>1, <2>2 DEF Start
<1>8. NoneMissed'
  <2> SUFFICES ASSUME NEW f \in 1 .. Len(line), ToReceive(f)
               PROVE  \/ f \in Range(received')
                      \/ f = Len(line) /\ sent = 0
                      \/ \E p \in 1 .. Count - n : Ahead'[p] = <<f, 0>>
    BY <1>1, <1>2 DEF NoneMissed
  <2>1. CASE f \in Range(received) \/ (f = Len(line) /\ sent = 0)
    BY <2>1
  <2>2. ASSUME NEW p \in Places, Ahead[p] = <<f, 0>>
        PROVE  f \in Range(received') \/ \E r \in 1 .. Count - n : Ahead'[r] = <<f, 0>>
    <3>1. CASE p <= n
      <4>1. InStep(p) /\ FrameAt(p) = f /\ p \in 1 .. n
        BY <1>1, <2>2, <3>1 DEF InStep, FrameAt
      <4>2. QED
        BY <4>1
    <3>2. CASE ~(p <= n)
      <4>1. p - n \in 1 .. Count - n /\ n + (p - n) = p
        BY <1>1, <2>2, <3>2
      <4>2. QED
        BY <2>2, <4>1
    <3>3. QED
      BY <3>1, <3>2
  <2>3. QED
    BY <2>1, <2>2 DEF BackInStep, NoneMissed
<1>9. InStepWhole'
  BY <1>1, <1>3, <1>4, <1>5 DEF BackInStep, InStepWhole
<1>10. StartsEnd'
  <2> SUFFICES ASSUME NEW q \in 1 .. Count - n, Start(q)', ~Whole(q)'
               PROVE  /\ Ending(q)' - Count' + clean <= Awaited
                      /\ \A p \in 1 .. Count - n : q < p /\ InStep(p)' => Ending(q)' < p
    BY <1>1 DEF StartsEnd, Awaited, Accepted
  <2>1. n + q \in Places /\ Start(n + q) /\ ~Whole(n + q)
    BY <1>3, <1>5, <1>7
  <2>2. /\ Ending(n + q) - Count + clean <= Awaited
        /\ \A p \in Places : n + q < p /\ InStep(p) => Ending(n + q) < p
    BY <2>1 DEF BackInStep, StartsEnd
  <2>3. Ending(q)' - Count' + clean <= Awaited
    BY <1>6, <2>2
  <2>4. ASSUME NEW p \in 1 .. Count - n, q < p, InStep(p)'
        PROVE  Ending(q)' < p
    <3>1. n + p \in Places /\ n + q < n + p /\ InStep(n + p)
      BY <1>1, <1>3, <1>4, <2>4
    <3>2. Ending(n + q) < n + p /\ Ending(n + q) \in Int /\ Ending(q)' = Ending(n + q) - n
      BY <1>6, <2>2, <3>1
    <3>3. QED
      BY <1>1, <3>2
  <2>5. QED
    BY <2>3, <2>4
<1>11. Cleanness'
  <2>1. ToReceive(Len(line))' <=> ToReceive(Len(line))
    BY DEF ToReceive
  <2>2. QED
    BY <2>1 DEF BackInStep, Cleanness, Awaited, Accepted, ToReceive
<1>12. QED
  BY <1>8, <1>9, <1>10, <1>11 DEF BackInStep

(* A READ takes the bytes that lie ahead, in their order. *)
LEMMA ReadBytes ==
    ASSUME OrderInv, NEW n \in Nat, Len(newMessage) <= n
    PROVE  LET message == Filled(n)
               rest == Unread(Available(n)) IN
           /\ Len(message) \in 0 .. Count /\ Len(message) <= n
           /\ Len(newMessage) <= Len(message)
           /\ \A k \in 1 .. Len(message) : message[k] = Ahead[k]
           /\ DOMAIN message = 1 .. Len(message)
           /\ message \in Seq(LineBytes) /\ rest \in Seq(LineBytes)
           /\ Len(rest) = Count - Len(message)
           /\ \A k \in 1 .. Count - Len(message) : rest[k] = Ahead[Len(message) + k]
<1> DEFINE message == Filled(n)
           a == Available(n)
           rest == Unread(a)
           l == Len(newMessage)
<1>1. TypeInv /\ a \in 0 .. Len(uart)
  BY FilledBytes DEF OrderInv
<1>2. /\ message \in Seq(LineBytes) /\ Len(message) = l + a /\ Len(message) <= n
      /\ \A k \in 1 .. l + a :
             message[k] = IF k <= l THEN newMessage[k] ELSE uart[k - l]
  BY <1>1, FilledBytes
<1>3. DOMAIN message = 1 .. Len(message)
  BY <1>2, LenProperties
<1>4. /\ rest \in Seq(LineBytes) /\ Len(rest) = Len(uart) - a
      /\ \A k \in 1 .. Len(uart) - a : k > 0 /\ rest[k] = uart[a + k]
  BY <1>1, UnreadBytes
<1>5. /\ Count \in Nat /\ l \in Nat /\ Len(uart) \in Nat /\ Count = l + Len(uart)
      /\ Places = 1 .. Count
      /\ \A k \in Places : Ahead[k] = IF k <= l THEN newMessage[k] ELSE uart[k - l]
  BY AheadBytes DEF Count, Places
<1> HIDE DEF message, a, rest, l
<1>6. Len(message) \in 0 .. Count /\ l <= Len(message)
      /\ Len(rest) = Count - Len(message) /\ Len(uart) - a = Count - Len(message)
  BY <1>1, <1>2, <1>4, <1>5
<1>7. ASSUME NEW k \in 1 .. Len(message)
      PROVE  message[k] = Ahead[k]
  <2>1. k \in 1 .. l + a /\ k \in Places
    BY <1>1, <1>2, <1>5, <1>6
  <2>2. QED
    BY <1>2, <1>5, <2>1
<1>8. ASSUME NEW k \in 1 .. Count - Len(message)
      PROVE  rest[k] = Ahead[Len(message) + k]
  <2>1. /\ k \in 1 .. Len(uart) - a /\ Len(message) + k \in Places
        /\ ~(Len(message) + k <= l) /\ Len(message) + k - l = a + k
    BY <1>1, <1>2, <1>5, <1>6
  <2>2. QED
    BY <1>4, <1>5, <2>1
<1>9. QED
  BY <1>2, <1>3, <1>4, <1>6, <1>7, <1>8 DEF message, a, rest, l

(* What lies ahead after a message was read on, or was given up. *)
LEMMA AheadAfter ==
    ASSUME NEW m \in Seq(LineBytes), NEW u \in Seq(LineBytes), newMessage' = m, uart' = u
    PROVE  /\ Count' = Len(m) + Len(u)
           /\ \A k \in 1 .. Len(m) + Len(u) :
                  Ahead'[k] = IF k <= Len(m) THEN m[k] ELSE u[k - Len(m)]
<1>1. /\ Len(m \o u) = Len(m) + Len(u)
      /\ \A k \in 1 .. Len(m) + Len(u) : (m \o u)[k] = IF k <= Len(m) THEN m[k] ELSE u[k - Len(m)]
  BY ConcatProperties
<1>2. QED
  BY <1>1 DEF Count, Ahead

LEMMA AheadRead ==
    ASSUME OrderInv, NEW n \in Nat, Len(newMessage) <= n,
           newMessage' = Filled(n), uart' = Unread(Available(n))
    PROVE  Count' = Count /\ \A k \in Places : Ahead'[k] = Ahead[k]
<1> DEFINE message == Filled(n)
           rest == Unread(Available(n))
<1>1. /\ message \in Seq(LineBytes) /\ rest \in Seq(LineBytes)
      /\ Len(message) \in 0 .. Count /\ Len(rest) = Count - Len(message)
      /\ \A k \in 1 .. Len(message) : message[k] = Ahead[k]
      /\ \A k \in 1 .. Count - Len(message) : rest[k] = Ahead[Len(message) + k]
  BY ReadBytes
<1>2. newMessage' = message /\ uart' = rest /\ Count \in Nat /\ Places = 1 .. Count
  BY AheadBytes DEF Places
<1> HIDE DEF message, rest
<1>3. /\ Count' = Len(message) + Len(rest)
      /\ \A k \in 1 .. Len(message) + Len(rest) :
             Ahead'[k] = IF k <= Len(message) THEN message[k] ELSE rest[k - Len(message)]
  BY <1>1, <1>2, AheadAfter
<1>4. Len(message) + Len(rest) = Count
  BY <1>1, <1>2
<1>5. ASSUME NEW k \in Places
      PROVE  Ahead'[k] = Ahead[k]
  <2>1. CASE k <= Len(message)
    <3>1. k \in 1 .. Len(message)
      BY <1>1, <1>2, <2>1
    <3>2. QED
      BY <1>1, <1>2, <1>3, <1>4, <2>1, <3>1
  <2>2. CASE ~(k <= Len(message))
    <3>1. k - Len(message) \in 1 .. Count - Len(message) /\ Len(message) + (k - Len(message)) = k
      BY <1>1, <1>2, <2>2
    <3>2. QED
      BY <1>1, <1>2, <1>3, <1>4, <2>2, <3>1
  <2>3. QED
    BY <2>1, <2>2
<1>6. QED
  BY <1>3, <1>4, <1>5

LEMMA AheadGivenUp ==
    ASSUME OrderInv, NEW n \in Nat, Len(newMessage) <= n,
           newMessage' = <<>>, uart' = Unread(Available(n))
    PROVE  /\ Count' = Count - Len(Filled(n))
           /\ \A k \in 1 .. Count - Len(Filled(n)) : Ahead'[k] = Ahead[Len(Filled(n)) + k]
<1> DEFINE l == Len(Filled(n))
           rest == Unread(Available(n))
<1>1. /\ rest \in Seq(LineBytes) /\ l \in 0 .. Count /\ Len(rest) = Count - l
      /\ \A k \in 1 .. Count - l : rest[k] = Ahead[l + k]
  BY ReadBytes
<1>2. uart' = rest /\ Count \in Nat
  BY AheadBytes
<1> HIDE DEF rest, l
<1>3. <<>> \in Seq(LineBytes) /\ Len(<<>>) = 0
  OBVIOUS
<1>4. /\ Count' = Len(<<>>) + Len(rest)
      /\ \A k \in 1 .. Len(<<>>) + Len(rest) :
             Ahead'[k] = IF k <= Len(<<>>) THEN <<>>[k] ELSE rest[k - Len(<<>>)]
  BY <1>1, <1>2, <1>3, AheadAfter
<1>5. Count' = Count - l
  BY <1>1, <1>2, <1>3, <1>4
<1>6. ASSUME NEW k \in 1 .. Count - l
      PROVE  Ahead'[k] = Ahead[l + k]
  <2>1. k \in 1 .. Len(<<>>) + Len(rest) /\ ~(k <= Len(<<>>)) /\ k - Len(<<>>) = k
    BY <1>1, <1>2, <1>3
  <2>2. QED
    BY <1>1, <1>4, <2>1
<1>7. QED
  BY <1>5, <1>6 DEF l

(* A search stops at the first byte like a head, so it passes over no frame. *)
LEMMA HeaderSearchBack ==
    ASSUME SerialAssumption, FrameAssumption, OrderInv, OrderInv', BackInStep, Reading, HeaderSearch
    PROVE  BackInStep' /\ Reading'
<1>1. /\ newMessage = <<>> /\ Len(newMessage) = 0 /\ ~Busy
      /\ UNCHANGED <<rxCrcEnabled, line, sent, dataLength, received, clean, sound>>
      /\ TypeInv
  BY DEF HeaderSearch, Reading, Busy, OrderInv
<1>2. /\ Count \in Nat /\ Count = Len(uart) /\ Places = 1 .. Count /\ DOMAIN uart = 1 .. Count
      /\ \A k \in Places : Ahead[k] = uart[k]
  <2>1. \A k \in Places : ~(k <= Len(newMessage)) /\ k - Len(newMessage) = k
    BY <1>1, AheadBytes DEF Places
  <2>2. QED
    BY <1>1, <2>1, AheadBytes, LenProperties DEF Count, Places, TypeInv
<1>3. \A p \in Places : InStep(p) => LooksLikeHead(uart[p])
  BY <1>2 DEF InStep, LooksLikeHead
<1>4. Range(received) \subseteq Range(received')
  BY <1>1
<1>5. CASE /\ {k \in DOMAIN uart : LooksLikeHead(uart[k])} = {} /\ uart' = <<>>
           /\ UNCHANGED <<djiSerialRxState, newMessage>>
  <2>1. Count' = Count - Count /\ ~Busy'
    BY <1>1, <1>2, <1>5 DEF Count, Busy
  <2>2. \A p \in 1 .. Count : ~InStep(p)
    BY <1>2, <1>3, <1>5
  <2>3. Count \in 0 .. Count /\ 1 .. Count - Count = {}
    BY <1>2
  <2>4. BackInStep'
    BY <1>1, <1>4, <2>1, <2>2, <2>3, ReadOn
  <2>5. Reading'
    BY <1>1, <1>5 DEF Reading, HeaderSearch, Busy, Size
  <2>6. QED
    BY <2>4, <2>5
<1>6. ASSUME NEW first \in DOMAIN uart, LooksLikeHead(uart[first]),
             \A k \in {j \in DOMAIN uart : LooksLikeHead(uart[j])} : first <= k,
             uart' = Unread(first), newMessage' = <<uart[first]>>,
             djiSerialRxState' = "PROCESS_FRAME_HEADER"
      PROVE  BackInStep' /\ Reading'
  <2> DEFINE n == first - 1
             rest == Unread(first)
             m == <<uart[first]>>
  <2>1. first \in 1 .. Count /\ first \in 0 .. Len(uart) /\ n \in 0 .. Count /\ n < Count /\ n + 1 = first
    BY <1>2, <1>6
  <2>2. /\ rest \in Seq(LineBytes) /\ Len(rest) = Count - first
        /\ \A k \in 1 .. Count - first : rest[k] = Ahead[first + k]
    <3>1. /\ rest \in Seq(LineBytes) /\ Len(rest) = Count - first /\ DOMAIN rest = 1 .. Count - first
          /\ \A k \in DOMAIN rest : first + k \in DOMAIN uart /\ rest[k] = uart[first + k]
      BY <1>1, <1>2, <2>1, UnreadBytes
    <3>2. QED
      BY <1>2, <3>1
  <2>3. m \in Seq(LineBytes) /\ Len(m) = 1 /\ m[1] = Ahead[first]
    BY <1>1, <1>2, <1>6, <2>1, ElementOfSeq DEF TypeInv
  <2>4. newMessage' = m /\ uart' = rest
    BY <1>6
  <2> HIDE DEF m, rest
  <2>5. /\ Count' = Len(m) + Len(rest)
        /\ \A k \in 1 .. Len(m) + Len(rest) :
               Ahead'[k] = IF k <= Len(m) THEN m[k] ELSE rest[k - Len(m)]
    BY <2>2, <2>3, <2>4, AheadAfter
  <2>6. Count' = Count - n
    BY <1>2, <2>1, <2>2, <2>3, <2>5
  <2>7. ASSUME NEW k \in 1 .. Count - n
        PROVE  Ahead'[k] = Ahead[n + k]
    <3>1. k \in 1 .. Len(m) + Len(rest)
      BY <1>2, <2>1, <2>2, <2>3
    <3>2. CASE k = 1
      BY <2>1, <2>3, <2>5, <3>1, <3>2
    <3>3. CASE k # 1
      <4>1. ~(k <= Len(m)) /\ k - Len(m) \in 1 .. Count - first /\ first + (k - Len(m)) = n + k
        BY <1>2, <2>1, <2>2, <2>3, <3>1, <3>3
      <4>2. QED
        BY <2>2, <2>5, <3>1, <4>1
    <3>4. QED
      BY <3>2, <3>3
  <2>8. ASSUME NEW p \in 1 .. n
        PROVE  ~InStep(p)
    <3>1. p \in Places /\ p \in DOMAIN uart /\ ~(first <= p)
      BY <1>2, <2>1
    <3>2. ~LooksLikeHead(uart[p])
      BY <1>6, <3>1
    <3>3. QED
      BY <1>3, <3>1, <3>2
  <2>9. Start(n + 1)
    <3>1. LooksLikeHead(Ahead[n + 1])
      BY <1>2, <1>6, <2>1
    <3>2. ~Covered(n + 1)
      <4> HIDE DEF n
      <4> SUFFICES ASSUME Covered(n + 1)
                   PROVE  FALSE
        OBVIOUS
      <4>1. PICK p \in 1 .. (n + 1) - 1 : InStep(p)
        BY DEF Covered
      <4>2. p \in 1 .. n
        BY <2>1
      <4>3. QED
        BY <2>8, <4>1, <4>2
    <3>3. QED
      BY <3>1, <3>2 DEF Start
  <2> HIDE DEF n
  <2>10. BackInStep'
    BY <1>1, <1>4, <2>1, <2>6, <2>7, <2>8, <2>9, ReadOn
  <2>11. Reading'
    <3>1. newMessage' # <<>> /\ Busy'
      BY <1>6, <2>3, <2>4 DEF Busy
    <3>2. djiSerialRxState' # "PROCESS_FRAME_DATA"
      BY <1>6
    <3>3. Size(Len(line))' = Size(Len(line))
      BY <1>1 DEF Size
    <3>4. QED
      BY <1>1, <3>1, <3>2, <3>3 DEF Reading
  <2>12. QED
    BY <2>10, <2>11
<1>7. QED
  BY <1>5, <1>6 DEF HeaderSearch

(* The message at the front ends where the next frame begins, or before. *)
LEMMA FrontEnds ==
    ASSUME SerialAssumption, FrameAssumption, OrderInv, BackInStep, Busy, 1 \in Places,
           NEW p \in Places, p > 1, InStep(p)
    PROVE  Ending(1) < p
<1>1. Start(1) /\ Ahead[p][2] = 0 /\ 1 < p
  BY AheadBytes DEF Start, InStep, Places
<1>2. CASE Whole(1)
  BY <1>1, <1>2, WholeEnds
<1>3. CASE ~Whole(1)
  BY <1>1, <1>3 DEF BackInStep, StartsEnd
<1>4. QED
  BY <1>2, <1>3

(* The receiver takes bytes from the port for its message. *)
LEMMA ReadOnHere ==
    ASSUME SerialAssumption, FrameAssumption, OrderInv, OrderInv', BackInStep, Busy,
           newMessage # <<>>, NEW n \in Nat, Len(newMessage) <= n,
           newMessage' = Filled(n), uart' = Unread(Available(n)),
           line' = line, sent' = sent, clean' = clean, sound' = sound, received' = received
    PROVE  BackInStep'
<1>1. Count \in Nat /\ Len(newMessage) \in Nat /\ Len(newMessage) <= Count /\ Places = 1 .. Count
  BY AheadBytes DEF Places
<1>2. 0 < Count
  <2>1. Len(newMessage) # 0
    BY EmptySeq, LenProperties DEF OrderInv, TypeInv
  <2>2. QED
    BY <1>1, <2>1
<1>3. Count' = Count /\ \A k \in Places : Ahead'[k] = Ahead[k]
  BY AheadRead
<1> DEFINE z == 0
<1>4. z \in 0 .. Count /\ Count' = Count - z /\ 1 .. z = {} /\ z < Count
  BY <1>1, <1>2, <1>3
<1>5. \A k \in 1 .. Count - z : z + k = k /\ k \in Places
  BY <1>1
<1>6. Start(z + 1)
  BY DEF Start
<1> HIDE DEF z
<1>7. \A k \in 1 .. Count - z : Ahead'[k] = Ahead[z + k]
  BY <1>3, <1>5
<1>8. QED
  BY <1>4, <1>6, <1>7, ReadOn

(* A message that is one frame so far is so where it lies ahead. *)
LEMMA FromTheFront ==
    ASSUME OrderInv, NEW n \in Nat \ {0}, NEW m, DOMAIN m = 1 .. n,
           n <= Count, \A k \in 1 .. n : m[k] = Ahead[k]
    PROVE  OfOneFrame(m) <=> \A k \in 1 .. n : Ahead[k] = <<FrameAt(1), k - 1>>
<1>1. 1 \in 1 .. n
  OBVIOUS
<1>2. QED
  BY <1>1 DEF OfOneFrame, FrameAt

LEMMA RightHeader ==
    ASSUME SerialAssumption, HEADER_SIZE <= Count, Count \in Nat
    PROVE  HeaderRight(1) <=> \A k \in 1 .. HEADER_SIZE : Ahead[k] = <<FrameAt(1), k - 1>>
<1>1. HEADER_SIZE \in Nat \ {0} /\ 1 + HEADER_SIZE - 1 <= Count
  BY DEF SerialAssumption
<1>2. ASSUME HeaderRight(1), NEW k \in 1 .. HEADER_SIZE
      PROVE  Ahead[k] = <<FrameAt(1), k - 1>>
  <2>1. k - 1 \in 0 .. HEADER_SIZE - 1 /\ 1 + (k - 1) = k
    BY <1>1
  <2>2. QED
    BY <1>2, <2>1 DEF HeaderRight
<1>3. ASSUME \A k \in 1 .. HEADER_SIZE : Ahead[k] = <<FrameAt(1), k - 1>>,
             NEW k \in 0 .. HEADER_SIZE - 1
      PROVE  Ahead[1 + k] = <<FrameAt(1), k>>
  <2>1. 1 + k \in 1 .. HEADER_SIZE /\ 1 + k - 1 = k
    BY <1>1
  <2>2. QED
    BY <1>3, <2>1
<1>4. QED
  BY <1>1, <1>2, <1>3 DEF HeaderRight

(* A header that is not accepted is not the one of a frame to be received. *)
LEMMA FrameHeaderBack ==
    ASSUME SerialAssumption, FrameAssumption, OrderInv, OrderInv', BackInStep, Reading,
           rxCrcEnabled, FrameHeader
    PROVE  BackInStep' /\ Reading'
<1> DEFINE header == Filled(HEADER_SIZE)
           rest == Unread(Available(HEADER_SIZE))
<1>1. /\ djiSerialRxState = "PROCESS_FRAME_HEADER" /\ Busy /\ newMessage # <<>>
      /\ uart' = rest
      /\ UNCHANGED <<rxCrcEnabled, line, sent, received, clean, sound>>
      /\ HEADER_SIZE \in Nat /\ HEADER_SIZE \in Nat \ {0} /\ Len(newMessage) <= HEADER_SIZE /\ TypeInv
  BY DEF FrameHeader, Reading, Busy, OrderInv, Lacking, SerialAssumption
<1>2. /\ Len(header) \in 0 .. Count /\ Len(newMessage) <= Len(header)
      /\ DOMAIN header = 1 .. Len(header)
      /\ \A k \in 1 .. Len(header) : header[k] = Ahead[k]
      /\ header \in Seq(LineBytes)
  BY <1>1, ReadBytes
<1>3. Count \in Nat /\ Places = 1 .. Count /\ Len(newMessage) \in Nat /\ Len(newMessage) # 0
  BY <1>1, AheadBytes, EmptySeq, LenProperties DEF Places, TypeInv
<1>4. 0 < Len(header) /\ 1 \in Places
  BY <1>2, <1>3
<1>5. Size(Len(line))' = Size(Len(line))
  BY <1>1 DEF Size
<1>6. CASE newMessage' = header /\ UNCHANGED <<djiSerialRxState, dataLength>>
  <2>1. BackInStep'
    BY <1>1, <1>6, ReadOnHere
  <2>2. Busy' /\ newMessage' # <<>> /\ djiSerialRxState' # "PROCESS_FRAME_DATA"
    <3>1. newMessage' # <<>>
      <4> HIDE DEF header
      <4> QED BY <1>2, <1>4, <1>6
    <3>2. QED
      BY <1>1, <1>6, <3>1 DEF Busy
  <2>3. Reading'
    BY <1>1, <1>5, <2>2 DEF Reading
  <2>4. QED
    BY <2>1, <2>3
<1>7. ASSUME Len(header) = HEADER_SIZE, NEW length \in HeaderLengths(header),
             HeaderAccepted(header, length), newMessage' = header, dataLength' = length,
             djiSerialRxState' = "PROCESS_FRAME_DATA"
      PROVE  BackInStep' /\ Reading'
  <2>1. BackInStep'
    BY <1>1, <1>7, ReadOnHere
  <2>2. \A k \in 1 .. HEADER_SIZE : Ahead[k] = <<FrameAt(1), k - 1>>
    <3>1. OfOneFrame(header)
      BY <1>7 DEF HeaderAccepted
    <3>2. HEADER_SIZE <= Count
      BY <1>2, <1>7
    <3> HIDE DEF header
    <3>3. QED
      BY <1>1, <1>2, <1>7, <3>1, <3>2, FromTheFront
  <2>3. \A k \in Places : Ahead'[k] = Ahead[k]
    BY <1>1, <1>7, AheadRead
  <2>4. Count' = Count /\ HEADER_SIZE <= Count
    BY <1>1, <1>2, <1>7, AheadRead
  <2>5. FrameAt(1)' = FrameAt(1)
    BY <1>4, <2>3 DEF FrameAt
  <2>6. HeaderRight(1)'
    <3>1. HeaderRight(1)
      BY <1>3, <2>2, <2>4, RightHeader
    <3>2. \A k \in 0 .. HEADER_SIZE - 1 : 1 + k \in Places
      BY <1>1, <1>3, <2>4
    <3>3. QED
      BY <2>3, <2>4, <2>5, <3>1, <3>2 DEF HeaderRight
  <2>7. length = line[FrameAt(1)].length /\ length < SERIAL_RX_BUFF_SIZE
    <3>1. OfOneFrame(header)
      BY <1>7 DEF HeaderAccepted
    <3>2. header[1][1] = FrameAt(1)
      BY <1>2, <1>4 DEF FrameAt
    <3>3. length = line[header[1][1]].length
      BY <1>7, <3>1 DEF HeaderLengths
    <3>4. QED
      BY <1>7, <3>2, <3>3 DEF HeaderAccepted
  <2>8. length \in Accepted /\ length \in Nat
    <3>1. FrameAt(1) \in 1 .. Len(line)
      BY <1>4, AheadBytes DEF FrameAt
    <3>2. line[FrameAt(1)].length \in Nat /\ line[FrameAt(1)].length \in DataLengths
      BY <1>1, <3>1, Sizes
    <3>3. QED
      BY <2>7, <3>2 DEF Accepted
  <2>9. Busy' /\ newMessage' # <<>>
    <3>1. newMessage' # <<>>
      <4> HIDE DEF header
      <4> QED BY <1>2, <1>4, <1>7
    <3>2. QED
      BY <1>7, <3>1 DEF Busy
  <2>10. Len(newMessage') = HEADER_SIZE /\ HEADER_SIZE < MessageSize'
    BY <1>1, <1>7, <2>8 DEF MessageSize, SerialAssumption, FrameAssumption
  <2>11. /\ dataLength' = line'[FrameAt(1)'].length /\ dataLength' \in Accepted
         /\ HEADER_SIZE <= Len(newMessage')
    BY <1>1, <1>7, <2>5, <2>7, <2>8, <2>10
  <2>12. Reading'
    <3>1. Len(line') \in Range(received') => sent' >= Size(Len(line))'
      BY <1>1, <1>5 DEF Reading
    <3>2. QED
      BY <2>6, <2>9, <2>10, <2>11, <3>1 DEF Reading, Accepted
  <2>13. QED
    BY <2>1, <2>12
<1>8. ASSUME Len(header) = HEADER_SIZE, NEW length \in HeaderLengths(header),
             ~HeaderAccepted(header, length), SearchAgain
      PROVE  BackInStep' /\ Reading'
  <2> DEFINE n == HEADER_SIZE
  <2>1. newMessage' = <<>> /\ djiSerialRxState' = "SERIAL_HEADER_SEARCH" /\ ~Busy'
    BY <1>8 DEF SearchAgain, Busy
  <2>2. /\ Count' = Count - n /\ n \in 0 .. Count
        /\ \A k \in 1 .. Count - n : Ahead'[k] = Ahead[n + k]
    BY <1>1, <1>2, <1>8, <2>1, AheadGivenUp
  <2>3. ~InStep(1)
    <3> SUFFICES ASSUME InStep(1)
                 PROVE  FALSE
      OBVIOUS
    <3>1. Whole(1) /\ ToReceive(FrameAt(1))
      BY <1>4 DEF BackInStep, InStepWhole, InStep
    <3>2. FrameAt(1) \in 1 .. Len(line) /\ HEADER_SIZE <= Size(FrameAt(1)) /\ Size(FrameAt(1)) \in Nat
      BY <1>1, <1>4, AheadBytes, Sizes DEF FrameAt
    <3>3. ASSUME NEW k \in 1 .. HEADER_SIZE
          PROVE  Ahead[k] = <<FrameAt(1), k - 1>>
      <4>1. k \in 1 .. Count /\ k - 1 < Size(FrameAt(1))
        BY <1>1, <1>3, <2>2, <3>2
      <4>2. QED
        BY <3>1, <4>1 DEF Whole
    <3>4. OfOneFrame(header)
      <4>1. n \in Nat \ {0} /\ n <= Count
        BY <1>1, <2>2
      <4> HIDE DEF header
      <4>2. QED
        BY <1>2, <1>8, <3>3, <4>1, FromTheFront
    <3>5. length = line[FrameAt(1)].length
      <4>1. header[1][1] = FrameAt(1)
        BY <1>2, <1>4 DEF FrameAt
      <4>2. QED
        BY <1>8, <3>4, <4>1 DEF HeaderLengths
    <3>6. QED
      BY <1>8, <3>1, <3>4, <3>5 DEF HeaderAccepted, ToReceive, Accepted
  <2>4. ASSUME NEW p \in 1 .. n, InStep(p)
        PROVE  FALSE
    <3>1. p # 1 /\ p \in Places /\ p > 1
      BY <1>3, <2>2, <2>3, <2>4
    <3>2. Ending(1) < p
      BY <1>1, <1>4, <2>4, <3>1, FrontEnds
    <3>3. Ending(1) \in Int /\ 1 + HEADER_SIZE - 1 <= Ending(1)
      BY <1>4, EndingNear
    <3>4. QED
      BY <1>1, <3>1, <3>2, <3>3
  <2>5. Range(received) \subseteq Range(received')
    BY <1>1
  <2> HIDE DEF n
  <2>6. BackInStep'
    BY <1>1, <2>1, <2>2, <2>4, <2>5, ReadOn
  <2>7. Reading'
    BY <1>1, <1>5, <2>1 DEF Reading
  <2>8. QED
    BY <2>6, <2>7
<1>9. QED
  BY <1>6, <1>7, <1>8 DEF FrameHeader

(* A message that is given up ends before the next frame to be received; one
   that is such a frame is handed over. *)
LEMMA FrameDataBack ==
    ASSUME SerialAssumption, FrameAssumption, OrderInv, OrderInv', BackInStep, Reading,
           rxCrcEnabled, FrameData
    PROVE  BackInStep' /\ Reading'
<1> DEFINE n == MessageSize
           message == Filled(n)
           rest == Unread(Available(n))
           g == FrameAt(1)
<1>1. /\ djiSerialRxState = "PROCESS_FRAME_DATA" /\ Busy /\ newMessage # <<>>
      /\ uart' = rest
      /\ UNCHANGED <<rxCrcEnabled, line, sent, clean, sound>>
      /\ Len(newMessage) <= n /\ HEADER_SIZE \in Nat \ {0} /\ TypeInv
      /\ HEADER_SIZE <= Len(newMessage) /\ Len(newMessage) < n
      /\ HeaderRight(1) /\ dataLength = line[g].length /\ dataLength \in Accepted
  BY DEF FrameData, Reading, Busy, OrderInv, Lacking, SerialAssumption
<1>2. /\ Count \in Nat /\ Places = 1 .. Count /\ Len(newMessage) \in Nat /\ 1 \in Places
      /\ Len(newMessage) <= Count /\ 1 \in 1 .. Count
  BY <1>1, AheadBytes DEF Places
<1>3. g \in 1 .. Len(line) /\ Len(line) \in Nat /\ sent \in Nat
  BY <1>2, AheadBytes DEF FrameAt
<1>4. Size(g) = n /\ n \in Nat \ {0} /\ n \in Nat /\ Ending(1) = n /\ HEADER_SIZE <= n
  <2>1. /\ Size(g) \in Nat /\ HEADER_SIZE <= Size(g) /\ line[g].length \in Nat
    BY <1>1, <1>3, Sizes
  <2>2. n = Size(g)
    BY <1>1, <2>1 DEF MessageSize, Size, SerialAssumption
  <2> HIDE DEF n, g
  <2>3. Ending(1) = 1 - 1 + Size(g)
    BY <1>1 DEF Ending, g
  <2>4. QED
    BY <1>1, <2>1, <2>2, <2>3
<1>5. /\ Len(message) \in 0 .. Count /\ Len(newMessage) <= Len(message)
      /\ DOMAIN message = 1 .. Len(message) /\ Len(message) <= n
      /\ \A k \in 1 .. Len(message) : message[k] = Ahead[k]
      /\ message \in Seq(LineBytes)
  BY <1>1, <1>4, ReadBytes
<1>6. Size(Len(line))' = Size(Len(line))
  BY <1>1 DEF Size
<1>7. CASE Len(message) < n /\ newMessage' = message /\ UNCHANGED <<djiSerialRxState, dataLength, received>>
  <2>1. BackInStep'
    BY <1>1, <1>4, <1>7, ReadOnHere
  <2>2. Count' = Count /\ \A k \in Places : Ahead'[k] = Ahead[k]
    BY <1>1, <1>4, <1>7, AheadRead
  <2>3. FrameAt(1)' = g
    BY <1>2, <2>2 DEF FrameAt
  <2>4. HeaderRight(1)'
    <3>1. HEADER_SIZE <= Count
      BY <1>1, <1>2
    <3>2. \A k \in 0 .. HEADER_SIZE - 1 : 1 + k \in Places
      BY <1>1, <1>2, <3>1
    <3>3. QED
      BY <1>1, <2>2, <2>3, <3>2 DEF HeaderRight
  <2>5. MessageSize' = n
    BY <1>1, <1>7 DEF MessageSize
  <2>6. HEADER_SIZE <= Len(message) /\ message # <<>>
    <3> HIDE DEF message, n
    <3> QED BY <1>1, <1>2, <1>5
  <2>7. Len(line') \in Range(received') => sent' >= Size(Len(line))'
    BY <1>1, <1>6, <1>7 DEF Reading
  <2>8. Busy' /\ newMessage' # <<>> /\ HEADER_SIZE <= Len(newMessage') /\ Len(newMessage') < MessageSize'
    <3> HIDE DEF message, n
    <3> QED BY <1>1, <1>7, <2>5, <2>6 DEF Busy
  <2>9. dataLength' = line'[FrameAt(1)'].length /\ dataLength' \in Accepted
    BY <1>1, <1>7, <2>3
  <2>10. Reading'
    BY <1>1, <1>7, <2>4, <2>7, <2>8, <2>9 DEF Reading, Accepted
  <2>11. QED
    BY <2>1, <2>10
<1>8. CASE /\ ~(Len(message) < n) /\ SearchAgain
           /\ received' = IF MessageAccepted(message)
                          THEN Append(received, IF OfOneFrame(message) THEN message[1][1] ELSE 0)
                          ELSE received
  <2> HIDE DEF n, message, rest
  <2>1. /\ newMessage' = <<>> /\ djiSerialRxState' = "SERIAL_HEADER_SEARCH" /\ ~Busy'
        /\ Len(message) = n /\ n <= Count
    <3>1. Len(message) \in 0 .. Count /\ Len(message) <= n /\ ~(Len(message) < n)
      BY <1>5, <1>8
    <3>2. Len(message) = n /\ n <= Count
      BY <1>2, <1>4, <3>1
    <3>3. QED
      BY <1>8, <3>2 DEF SearchAgain, Busy
  <2>2. /\ Count' = Count - n /\ n \in 0 .. Count
        /\ \A k \in 1 .. Count - n : Ahead'[k] = Ahead[n + k]
    BY <1>1, <1>4, <1>5, <2>1, AheadGivenUp DEF message, rest
  <2>3. OfOneFrame(message) <=> \A k \in 1 .. n : Ahead[k] = <<g, k - 1>>
    BY <1>4, <1>5, <2>1, FromTheFront
  <2>4. received' = IF OfOneFrame(message) THEN Append(received, g) ELSE received
    <3>1. message[1] = Ahead[1]
      BY <1>4, <1>5, <2>1
    <3>2. message[1][1] = g
      BY <3>1 DEF FrameAt
    <3>3. QED
      BY <1>8, <3>2 DEF MessageAccepted
  <2>5. /\ Range(received) \subseteq Range(received')
        /\ Range(received') \subseteq Range(received) \union {g}
        /\ OfOneFrame(message) => g \in Range(received')
    <3>1. received \in Seq(Nat) /\ Len(received) \in Nat /\ DOMAIN received = 1 .. Len(received)
      BY <1>1, LenProperties DEF TypeInv
    <3>2. CASE ~OfOneFrame(message)
      BY <2>4, <3>2
    <3>3. CASE OfOneFrame(message)
      <4>1. g \in Nat
        BY <1>3
      <4> HIDE DEF g
      <4>2. /\ DOMAIN Append(received, g) = 1 .. Len(received) + 1
            /\ \A k \in 1 .. Len(received) + 1 :
                   Append(received, g)[k] = IF k <= Len(received) THEN received[k] ELSE g
        BY <3>1, <4>1
      <4>3. received' = Append(received, g)
        BY <2>4, <3>3
      <4>4. Len(received) + 1 \in 1 .. Len(received) + 1 /\ ~(Len(received) + 1 <= Len(received))
            /\ \A k \in 1 .. Len(received) : k \in 1 .. Len(received) + 1 /\ k <= Len(received)
            /\ \A j \in 1 .. Len(received) + 1 : j <= Len(received) => j \in 1 .. Len(received)
        BY <3>1
      <4>5. QED
        BY <3>1, <4>2, <4>3, <4>4 DEF Range
    <3>4. QED
      BY <3>2, <3>3
  <2>6. ASSUME NEW p \in 1 .. n, InStep(p)
        PROVE  p = 1 /\ OfOneFrame(message)
    <3>1. p = 1
      <4> SUFFICES ASSUME p # 1
                   PROVE  FALSE
        OBVIOUS
      <4>1. p \in Places /\ p > 1
        BY <1>2, <1>4, <2>1
      <4>2. Ending(1) < p
        BY <1>1, <1>2, <2>6, <4>1, FrontEnds
      <4>3. QED
        BY <1>4, <4>1, <4>2
    <3>2. Whole(1)
      BY <1>2, <2>6, <3>1 DEF BackInStep, InStepWhole
    <3>3. ASSUME NEW k \in 1 .. n
          PROVE  Ahead[k] = <<g, k - 1>>
      <4>1. k \in 1 .. Count /\ k - 1 < Size(g)
        BY <1>2, <1>4, <2>1
      <4>2. QED
        BY <3>2, <4>1 DEF Whole
    <3>4. QED
      BY <2>3, <3>1, <3>3
  <2>7. ASSUME NEW p \in 1 .. n, InStep(p)
        PROVE  p + Size(FrameAt(p)) <= n + 1 /\ FrameAt(p) \in Range(received')
    <3>1. p = 1 /\ OfOneFrame(message) /\ g \in Range(received')
      BY <2>5, <2>6, <2>7
    <3>2. FrameAt(p) = g
      BY <3>1
    <3> HIDE DEF g
    <3>3. QED
      BY <1>4, <3>1, <3>2
  <2>8. BackInStep'
    BY <1>1, <2>1, <2>2, <2>5, <2>7, ReadOn
  <2>9. Len(line) \in Range(received') => sent >= Size(Len(line))
    <3> SUFFICES ASSUME Len(line) \in Range(received'), Len(line) \notin Range(received)
                 PROVE  sent >= Size(Len(line))
      BY DEF Reading
    <3>1. OfOneFrame(message) /\ g = Len(line)
      BY <2>4, <2>5
    <3>2. Ahead[n] = <<g, n - 1>> /\ n \in Places
      BY <1>2, <1>4, <2>1, <2>3, <3>1
    <3>3. Before(Ahead[n], NextByte)
      BY <3>2, AheadBytes
    <3>4. n - 1 < sent
      BY <1>3, <1>4, <3>1, <3>2, <3>3 DEF Before, NextByte
    <3>5. QED
      BY <1>3, <1>4, <3>1, <3>4
  <2>10. Reading'
    BY <1>1, <1>6, <2>1, <2>9 DEF Reading
  <2>11. QED
    BY <2>8, <2>10
<1>9. QED
  BY <1>7, <1>8 DEF FrameData

(* A frame is begun when the one before was sent, and is to be received if the
   receiver cannot be misled any more. *)
LEMMA StartFrameBack ==
    ASSUME SerialAssumption, FrameAssumption, OrderInv, BackInStep, Reading,
           rxCrcEnabled, StartFrame
    PROVE  BackInStep' /\ Reading'
<1> DEFINE L == Len(line)
<1>1. /\ UNCHANGED <<rxCrcEnabled, uart, djiSerialRxState, newMessage, dataLength, received, clean>>
      /\ sent' = 0 /\ (line # <<>> => sent = Size(L)) /\ TypeInv
      /\ sound' = IF clean = Awaited THEN sound \union {L + 1} ELSE sound
  BY DEF StartFrame, OrderInv
<1>2. /\ Len(line') = L + 1 /\ L \in Nat
      /\ \A f \in 1 .. L : line'[f] = line[f]
  <2>1. PICK length \in DataLengths, headLike \in BOOLEAN :
            line' = Append(line, [length |-> length, headLike |-> headLike])
    BY DEF StartFrame
  <2>2. line \in Seq([length : DataLengths, headLike : BOOLEAN]) /\ L \in Nat
    BY <1>1, LenProperties DEF TypeInv
  <2>3. QED
    BY <2>1, <2>2
<1>3. /\ Count' = Count /\ Ahead' = Ahead /\ (Busy' <=> Busy) /\ Count \in Nat
      /\ Places' = Places /\ Places = 1 .. Count
  BY <1>1, AheadBytes DEF Count, Ahead, Busy, Places
<1>4. ASSUME NEW f \in 1 .. L
      PROVE  /\ Size(f)' = Size(f) /\ (ToReceive(f)' <=> ToReceive(f))
             /\ Size(f) \in Nat /\ HEADER_SIZE <= Size(f) /\ HEADER_SIZE \in Nat \ {0}
  <2>1. f \in sound' <=> f \in sound
    BY <1>1, <1>2
  <2>2. QED
    BY <1>1, <1>2, <2>1, Sizes DEF Size, ToReceive, Accepted, SerialAssumption
<1> HIDE DEF L
<1>5. ASSUME NEW q \in Places
      PROVE  /\ FrameAt(q) \in 1 .. L /\ FrameAt(q)' = FrameAt(q) /\ sent = Size(L) /\ L \in 1 .. L
             /\ (LooksLikeHead(Ahead[q])' <=> LooksLikeHead(Ahead[q]))
             /\ (InStep(q)' <=> InStep(q))
             /\ Size(FrameAt(q))' = Size(FrameAt(q))
             /\ q \in Int
  <2>1. FrameAt(q) \in 1 .. L /\ FrameAt(q)' = FrameAt(q)
    BY <1>3, AheadBytes DEF FrameAt, L
  <2>2. L \in 1 .. L /\ line # <<>>
    BY <1>2, <2>1 DEF L
  <2>3. line'[FrameAt(q)] = line[FrameAt(q)]
    BY <1>2, <2>1
  <2>4. LooksLikeHead(Ahead[q])' <=> LooksLikeHead(Ahead[q])
    BY <1>3, <2>1, <2>3 DEF LooksLikeHead, FrameAt
  <2>5. ToReceive(FrameAt(q))' <=> ToReceive(FrameAt(q))
    <3>1. PICK g \in 1 .. L : FrameAt(q) = g /\ FrameAt(q)' = g
      BY <2>1
    <3>2. ToReceive(FrameAt(q))' <=> g \in sound' /\ line'[g].length \in Accepted
      BY <3>1 DEF ToReceive, Accepted
    <3>3. ToReceive(g)' <=> g \in sound' /\ line'[g].length \in Accepted
      BY DEF ToReceive, Accepted
    <3>4. QED
      BY <1>4, <3>1, <3>2, <3>3
  <2>6. Size(FrameAt(q))' = Size(FrameAt(q))
    BY <2>1, <2>3 DEF Size
  <2>7. QED
    BY <1>1, <1>3, <2>1, <2>2, <2>4, <2>5, <2>6 DEF InStep
<1>6. ASSUME NEW q \in Places
      PROVE  Whole(q)' <=> Whole(q)
  <2> DEFINE g == FrameAt(q)
             size == Size(g)
             here == Count - q + 1
  <2>1. FrameAt(q)' = g /\ Size(FrameAt(q))' = size /\ g \in 1 .. L /\ size \in Nat /\ here \in Int
    BY <1>3, <1>4, <1>5
  <2> HIDE DEF g, size, here
  <2>2. ~(here < size => g = L + 1 /\ sent' = here) <=> here < size
    BY <1>2, <2>1
  <2>3. (here < size => g = L /\ sent = here) <=> ~(here < size)
    <3>1. g = L => sent = size
      BY <1>5 DEF size
    <3>2. QED
      BY <2>1, <3>1
  <2>4. Whole(q) <=> /\ \A k \in q .. Count : k - q < size => Ahead[k] = <<g, k - q>>
                     /\ here < size => g = L /\ sent = here
    BY DEF Whole, g, size, here, L
  <2>5. Whole(q)' <=> /\ \A k \in q .. Count' : k - q < size => Ahead'[k] = <<g, k - q>>
                      /\ Count' - q + 1 < size => g = Len(line') /\ sent' = Count' - q + 1
    BY <2>1 DEF Whole
  <2>6. Whole(q)' <=> /\ \A k \in q .. Count : k - q < size => Ahead[k] = <<g, k - q>>
                      /\ here < size => g = L + 1 /\ sent' = here
    BY <1>2, <1>3, <2>5 DEF here
  <2>7. QED
    BY <2>2, <2>3, <2>4, <2>6
<1>7. ASSUME NEW q \in Places
      PROVE  (HeaderRight(q)' <=> HeaderRight(q)) /\ Ending(q)' = Ending(q)
  <2>1. HeaderRight(q)' <=> HeaderRight(q)
    BY <1>3, <1>5 DEF HeaderRight
  <2>2. line'[FrameAt(q)] = line[FrameAt(q)]
    BY <1>2, <1>5
  <2>3. QED
    BY <1>5, <2>1, <2>2 DEF Ending, Accepted
<1>8. ASSUME NEW q \in Places
      PROVE  Start(q)' <=> Start(q)
  <2>1. \A p \in 1 .. q - 1 : p \in Places
    BY <1>3
  <2>2. Covered(q)' <=> Covered(q)
    BY <1>5, <2>1 DEF Covered
  <2>3. QED
    BY <1>3, <1>5, <2>2 DEF Start
<1>9. NoneMissed'
  <2> SUFFICES ASSUME NEW f \in 1 .. L + 1, ToReceive(f)'
               PROVE  \/ f \in Range(received) \/ f = L + 1
                      \/ \E p \in Places : Ahead[p] = <<f, 0>>
    BY <1>1, <1>2, <1>3 DEF NoneMissed
  <2>1. CASE f # L + 1
    <3>1. f \in 1 .. L /\ ToReceive(f)
      BY <1>2, <1>4, <2>1
    <3>2. CASE f = L /\ sent = 0
      <4>1. line # <<>> /\ Size(L) # 0
        BY <1>2, <1>4, <3>1, <3>2 DEF L
      <4>2. QED
        BY <1>1, <3>2, <4>1 DEF L
    <3>3. QED
      BY <3>1, <3>2 DEF BackInStep, NoneMissed, L
  <2>2. QED
    BY <2>1
<1>10. InStepWhole'
  BY <1>3, <1>5, <1>6 DEF BackInStep, InStepWhole
<1>11. StartsEnd'
  <2>1. ASSUME NEW q \in Places, Start(q)', ~Whole(q)'
        PROVE  /\ Ending(q)' - Count' + clean' <= Awaited
               /\ \A p \in Places : q < p /\ InStep(p)' => Ending(q)' < p
    <3>1. Start(q) /\ ~Whole(q)
      BY <1>6, <1>8, <2>1
    <3>2. /\ Ending(q) - Count + clean <= Awaited
          /\ \A p \in Places : q < p /\ InStep(p) => Ending(q) < p
      BY <3>1 DEF BackInStep, StartsEnd
    <3>3. QED
      BY <1>1, <1>3, <1>5, <1>7, <3>2
  <2>2. QED
    BY <1>3, <2>1 DEF StartsEnd, Awaited, Accepted
<1>12. Cleanness'
  <2>1. sound \subseteq 1 .. L /\ clean \in 0 .. Awaited
    BY DEF BackInStep, Cleanness, L
  <2>2. sound' \subseteq 1 .. L + 1 /\ L + 1 \notin sound
    <3>1. L \in Nat
      BY <1>2 DEF L
    <3>2. 1 .. L \subseteq 1 .. L + 1 /\ L + 1 \in 1 .. L + 1 /\ L + 1 \notin 1 .. L
      BY <3>1
    <3>3. sound' \subseteq sound \union {L + 1}
      BY <1>1
    <3>4. QED
      BY <2>1, <3>2, <3>3
  <2>3. L + 1 \in sound' => clean = Awaited
    BY <1>1, <2>2 DEF L
  <2>4. QED
    BY <1>1, <1>2, <2>1, <2>2, <2>3 DEF Cleanness, Awaited, Accepted
<1>13. Reading'
  <2>1. L + 1 \notin Range(received)
    <3> SUFFICES ASSUME NEW i \in DOMAIN received, received[i] = L + 1
                 PROVE  FALSE
      BY DEF Range
    <3>1. Before(<<received[i], 0>>, NextByte)
      BY DEF OrderInv, InOrder, Handed
    <3>2. QED
      BY <1>2, <3>1 DEF Before, NextByte, L
  <2>2. ASSUME djiSerialRxState = "PROCESS_FRAME_DATA"
        PROVE  HeaderRight(1)' /\ dataLength' = line'[FrameAt(1)'].length /\ MessageSize' = MessageSize
    <3>1. Busy /\ newMessage # <<>>
      BY <2>2 DEF Reading, Busy
    <3>2. 1 \in Places
      <4>1. Len(newMessage) # 0 /\ Len(newMessage) \in Nat /\ Len(newMessage) <= Count
        BY <1>1, <3>1, AheadBytes, EmptySeq DEF TypeInv
      <4>2. QED
        BY <1>3, <4>1
    <3>3. FrameAt(1)' = FrameAt(1) /\ line'[FrameAt(1)] = line[FrameAt(1)]
      BY <1>2, <1>5, <3>2
    <3>4. QED
      BY <1>1, <1>7, <2>2, <3>2, <3>3 DEF Reading, MessageSize
  <2>3. QED
    BY <1>1, <1>2, <1>3, <2>1, <2>2 DEF Reading, Accepted
<1>14. QED
  BY <1>9, <1>10, <1>11, <1>12, <1>13 DEF BackInStep

(* A byte is lost: its frame is whole no more, and clean starts again. *)
LEMMA LoseByteBack ==
    ASSUME SerialAssumption, FrameAssumption, OrderInv, BackInStep, Reading,
           UNCHANGED <<rxCrcEnabled, line, uart, djiSerialRxState, newMessage, dataLength, received>>,
           Len(line) > 0, sent' = sent + 1, clean' = 0, sound' = sound \ {Len(line)}
    PROVE  BackInStep' /\ Reading'
<1> DEFINE L == Len(line)
<1>1. /\ Count' = Count /\ Ahead' = Ahead /\ (Busy' <=> Busy) /\ Count \in Nat
      /\ Places' = Places /\ Places = 1 .. Count /\ L \in Nat /\ sent \in Nat
  BY AheadBytes DEF Count, Ahead, Busy, Places
<1>2. ASSUME NEW q \in Places
      PROVE  /\ FrameAt(q) \in 1 .. L /\ FrameAt(q)' = FrameAt(q) /\ q \in Int
             /\ Size(FrameAt(q))' = Size(FrameAt(q)) /\ Size(FrameAt(q)) \in Nat
             /\ (LooksLikeHead(Ahead[q])' <=> LooksLikeHead(Ahead[q]))
             /\ (InStep(q)' <=> InStep(q) /\ FrameAt(q) # L)
             /\ Ending(q)' = Ending(q)
  <2>1. FrameAt(q) \in 1 .. L /\ FrameAt(q)' = FrameAt(q)
    BY <1>1, AheadBytes DEF FrameAt
  <2>2. Size(FrameAt(q))' = Size(FrameAt(q)) /\ Size(FrameAt(q)) \in Nat
    BY <2>1, Sizes DEF Size, OrderInv
  <2>3. LooksLikeHead(Ahead[q])' <=> LooksLikeHead(Ahead[q])
    BY <1>1 DEF LooksLikeHead
  <2>4. InStep(q)' <=> InStep(q) /\ FrameAt(q) # L
    BY <1>1, <2>1 DEF InStep, ToReceive, Accepted
  <2>5. HeaderRight(q)' <=> HeaderRight(q)
    BY <1>1, <2>1 DEF HeaderRight
  <2>6. Ending(q)' = Ending(q)
    BY <2>1, <2>2, <2>5 DEF Ending, Accepted
  <2>7. QED
    BY <1>1, <2>1, <2>2, <2>3, <2>4, <2>6
<1> HIDE DEF L
<1>3. NoneMissed'
  <2> SUFFICES ASSUME NEW f \in 1 .. L, ToReceive(f)'
               PROVE  \/ f \in Range(received)
                      \/ \E p \in Places : Ahead[p] = <<f, 0>>
    BY <1>1 DEF NoneMissed, L
  <2>1. ToReceive(f) /\ f # L
    BY DEF ToReceive, Accepted, L
  <2>2. QED
    BY <2>1 DEF BackInStep, NoneMissed, L
<1>4. InStepWhole'
  <2> SUFFICES ASSUME NEW p \in Places, InStep(p)'
               PROVE  Whole(p)'
    BY <1>1 DEF InStepWhole
  <2>1. Whole(p) /\ FrameAt(p) # L
    BY <1>2 DEF BackInStep, InStepWhole
  <2>2. QED
    BY <1>1, <1>2, <2>1 DEF Whole, L
<1>5. ASSUME NEW q \in Places, Start(q)', ~Start(q), NEW p \in Places, q < p, InStep(p)'
      PROVE  FALSE
  <2>1. LooksLikeHead(Ahead[q]) /\ ~Covered(q)' /\ Covered(q)
    BY <1>1, <1>2, <1>5 DEF Start
  <2>2. PICK r \in 1 .. q - 1 : InStep(r) /\ q < r + Size(FrameAt(r))
    BY <2>1 DEF Covered
  <2>3. r \in Places /\ r < q /\ r \in Int
    BY <1>1, <2>2
  <2>4. FrameAt(r) = L
    <3>1. ~InStep(r)'
      BY <1>2, <2>1, <2>2, <2>3 DEF Covered
    <3>2. QED
      BY <1>2, <2>2, <2>3, <3>1
  <2>5. Ahead[q] = <<L, q - r>> /\ q - r > 0
    <3>1. Whole(r) /\ q \in r .. Count /\ q - r < Size(FrameAt(r))
      BY <1>1, <1>2, <2>2, <2>3 DEF BackInStep, InStepWhole
    <3>2. Ahead[q] = <<FrameAt(r), q - r>>
      BY <3>1 DEF Whole
    <3>3. q \in Int /\ q - r > 0
      BY <1>2, <2>3
    <3>4. QED
      BY <2>4, <3>2, <3>3
  <2>6. Ahead[p] = <<FrameAt(p), 0>> /\ FrameAt(p) \in 1 .. L /\ FrameAt(p) # L
    BY <1>2, <1>5, AheadBytes DEF InStep, FrameAt
  <2>7. Before(Ahead[q], Ahead[p])
    BY <1>5, AheadBytes
  <2>8. QED
    BY <1>1, <2>5, <2>6, <2>7 DEF Before
<1>6. StartsEnd'
  <2>1. ASSUME NEW q \in Places, Start(q)', ~Whole(q)'
        PROVE  /\ Ending(q)' - Count' + clean' <= Awaited
               /\ \A p \in Places : q < p /\ InStep(p)' => Ending(q)' < p
    <3>1. Ending(q)' - Count' + clean' <= Awaited
      <4>1. Ending(q) \in Int /\ Ending(q) - Count <= Awaited
        BY EndingNear
      <4>2. QED
        BY <1>1, <1>2, <4>1
    <3>2. ASSUME NEW p \in Places, q < p, InStep(p)'
          PROVE  Ending(q) < p
      <4>1. Start(q) /\ InStep(p) /\ Ahead[p][2] = 0
        BY <1>2, <1>5, <2>1, <3>2 DEF InStep
      <4>2. CASE Whole(q)
        BY <3>2, <4>1, <4>2, WholeEnds
      <4>3. CASE ~Whole(q)
        BY <3>2, <4>1, <4>3 DEF BackInStep, StartsEnd
      <4>4. QED
        BY <4>2, <4>3
    <3>3. QED
      BY <1>2, <3>1, <3>2
  <2>2. QED
    BY <1>1, <2>1 DEF StartsEnd, Awaited, Accepted
<1>7. Cleanness'
  <2>1. Awaited \in Nat
    BY AwaitedIsEnough
  <2>2. L \notin sound' /\ sound' \subseteq 1 .. L
    BY DEF BackInStep, Cleanness, L
  <2>3. 0 \in 0 .. Awaited
    BY <2>1
  <2>4. QED
    BY <2>2, <2>3 DEF Cleanness, Awaited, Accepted, L
<1>8. Reading'
  <2>1. L \in Range(received) => sent + 1 >= Size(L)
    <3>1. Size(L) \in Nat
      BY <1>1, Sizes DEF OrderInv, L
    <3>2. QED
      BY <1>1, <3>1 DEF Reading, L
  <2>2. Size(Len(line))' = Size(L)
    BY DEF Size, L
  <2>3. ASSUME djiSerialRxState = "PROCESS_FRAME_DATA"
        PROVE  HeaderRight(1)' /\ FrameAt(1)' = FrameAt(1) /\ MessageSize' = MessageSize
    BY <1>1, <2>3 DEF HeaderRight, FrameAt, MessageSize, Reading
  <2>4. QED
    BY <1>1, <2>1, <2>2, <2>3 DEF Reading, Accepted, L
<1>9. QED
  BY <1>3, <1>4, <1>6, <1>7, <1>8 DEF BackInStep

(* A byte comes into the port. *)
LEMMA KeepByteBack ==
    ASSUME SerialAssumption, FrameAssumption, OrderInv, BackInStep, Reading,
           UNCHANGED <<rxCrcEnabled, line, djiSerialRxState, newMessage, dataLength, received, sound>>,
           Len(line) > 0, sent < Size(Len(line)), sent' = sent + 1, uart' = Append(uart, NextByte),
           clean' = IF ToReceive(Len(line)) THEN Awaited
                    ELSE IF LooksLikeHead(NextByte) /\ sent > 0 THEN 0
                    ELSE IF clean < Awaited THEN clean + 1 ELSE clean
    PROVE  BackInStep' /\ Reading'
<1> DEFINE L == Len(line)
<1>0. PICK N \in Nat : N = Count
  BY AheadBytes
<1>1. /\ N \in Nat /\ L \in Nat /\ L > 0 /\ sent \in Nat /\ Places = 1 .. N
      /\ HEADER_SIZE \in Nat \ {0} /\ TypeInv
      /\ Len(newMessage) \in Nat /\ Len(uart) \in Nat /\ N = Len(newMessage) + Len(uart)
  BY <1>0, AheadBytes DEF Places, SerialAssumption, OrderInv, Count
<1>2. L \in 1 .. L /\ Size(L) \in Nat /\ HEADER_SIZE <= Size(L) /\ Size(L)' = Size(L)
  BY <1>1, Sizes, SMTT(40) DEF Size
<1>3. /\ Count' = N + 1
      /\ \A k \in Places : Ahead'[k] = Ahead[k]
      /\ Ahead'[N + 1] = NextByte
  <2>1. NextByte \in LineBytes
    BY <1>1 DEF NextByte, LineBytes
  <2>2. uart \in Seq(LineBytes) /\ newMessage \in Seq(LineBytes)
    BY <1>1 DEF TypeInv
  <2>3. /\ Append(uart, NextByte) \in Seq(LineBytes)
        /\ Len(Append(uart, NextByte)) = Len(uart) + 1
        /\ \A k \in 1 .. Len(uart) + 1 :
               Append(uart, NextByte)[k] = IF k <= Len(uart) THEN uart[k] ELSE NextByte
    BY <2>1, <2>2
  <2> DEFINE u == Append(uart, NextByte)
             m == newMessage
  <2>4. newMessage' = m /\ uart' = u
    OBVIOUS
  <2> HIDE DEF u
  <2>5. /\ Count' = Len(m) + Len(u)
        /\ \A k \in 1 .. Len(m) + Len(u) :
               Ahead'[k] = IF k <= Len(m) THEN m[k] ELSE u[k - Len(m)]
    <3> HIDE DEF m
    <3> QED BY <2>2, <2>3, <2>4, AheadAfter DEF u, m
  <2>6. Count' = N + 1
    BY <1>1, <2>3, <2>5 DEF u
  <2>7. ASSUME NEW k \in Places
        PROVE  Ahead'[k] = Ahead[k]
    <3>1. /\ k \in 1 .. Len(m) + Len(u)
          /\ ~(k <= Len(m)) => k - Len(m) \in 1 .. Len(uart) + 1 /\ k - Len(m) <= Len(uart)
      BY <1>1, <2>3 DEF u
    <3>2. Ahead[k] = IF k <= Len(m) THEN m[k] ELSE uart[k - Len(m)]
      BY AheadBytes
    <3>3. ~(k <= Len(m)) => u[k - Len(m)] = uart[k - Len(m)]
      BY <2>3, <3>1 DEF u
    <3>4. QED
      <4> HIDE DEF u
      <4> QED BY <2>5, <3>1, <3>2, <3>3
  <2>8. Ahead'[N + 1] = NextByte
    <3>1. /\ N + 1 \in 1 .. Len(m) + Len(u) /\ ~(N + 1 <= Len(m))
          /\ (N + 1) - Len(m) = Len(uart) + 1 /\ Len(uart) + 1 \in 1 .. Len(uart) + 1
          /\ ~(Len(uart) + 1 <= Len(uart))
      BY <1>1, <2>3 DEF u
    <3>2. Ahead'[N + 1] = u[Len(uart) + 1]
      BY <2>5, <3>1
    <3>3. QED
      BY <2>3, <3>1, <3>2 DEF u
  <2>9. QED
    BY <2>6, <2>7, <2>8
<1>4. NextByte = <<L, sent>> /\ (Busy' <=> Busy) /\ Places' = 1 .. N + 1 /\ N + 1 \in Nat
  BY <1>1, <1>3 DEF NextByte, Busy, Places
<1> HIDE DEF L
<1>5. ASSUME NEW q \in Places
      PROVE  /\ FrameAt(q) \in 1 .. L /\ FrameAt(q)' = FrameAt(q) /\ q \in 1 .. N
             /\ Size(FrameAt(q))' = Size(FrameAt(q)) /\ Size(FrameAt(q)) \in Nat
             /\ HEADER_SIZE <= Size(FrameAt(q))
             /\ (LooksLikeHead(Ahead[q])' <=> LooksLikeHead(Ahead[q]))
             /\ (InStep(q)' <=> InStep(q))
  <2>1. FrameAt(q) \in 1 .. L /\ FrameAt(q)' = FrameAt(q)
    BY <1>3, AheadBytes DEF FrameAt, L
  <2>2. Size(FrameAt(q))' = Size(FrameAt(q)) /\ Size(FrameAt(q)) \in Nat /\ HEADER_SIZE <= Size(FrameAt(q))
    BY <1>1, <2>1, Sizes DEF Size, L
  <2>3. LooksLikeHead(Ahead[q])' <=> LooksLikeHead(Ahead[q])
    BY <1>3 DEF LooksLikeHead
  <2>4. InStep(q)' <=> InStep(q)
    BY <1>3, <2>1 DEF InStep, ToReceive, Accepted
  <2>5. QED
    BY <1>1, <2>1, <2>2, <2>3, <2>4
<1>6. ASSUME NEW q \in Places
      PROVE  Start(q)' <=> Start(q)
  <2>1. \A p \in 1 .. q - 1 : p \in Places
    BY <1>1
  <2>2. Covered(q)' <=> Covered(q)
    BY <1>5, <2>1 DEF Covered
  <2>3. QED
    BY <1>4, <1>5, <2>2 DEF Start
<1>7. ASSUME NEW q \in Places
      PROVE  Whole(q)' <=> Whole(q)
  <2> DEFINE g == FrameAt(q)
             size == Size(g)
             here == N - q + 1
  <2>1. /\ FrameAt(q)' = g /\ Size(FrameAt(q))' = size /\ size \in Nat /\ here \in Nat /\ q \in 1 .. N
        /\ Count' - q + 1 = here + 1 /\ (N + 1) - q = here
    BY <1>1, <1>3, <1>5
  <2>2. g = L => size = Size(L)
    OBVIOUS
  <2> HIDE DEF g, size, here
  <2>3. Whole(q) <=> /\ \A k \in q .. N : k - q < size => Ahead[k] = <<g, k - q>>
                     /\ here < size => g = L /\ sent = here
    BY <1>0 DEF Whole, g, size, here, L
  <2>4. Whole(q)' <=> /\ \A k \in q .. N + 1 : k - q < size => Ahead'[k] = <<g, k - q>>
                      /\ here + 1 < size => g = L /\ sent' = here + 1
    BY <1>3, <2>1 DEF Whole, L
  <2>5. (\A k \in q .. N + 1 : k - q < size => Ahead'[k] = <<g, k - q>>)
          <=> /\ \A k \in q .. N : k - q < size => Ahead[k] = <<g, k - q>>
              /\ here < size => <<L, sent>> = <<g, here>>
    <3>1. \A k \in q .. N : k \in q .. N + 1 /\ k \in Places
      BY <1>1, <2>1
    <3>2. \A k \in q .. N + 1 : k \in q .. N \/ k = N + 1
      BY <1>1, <2>1
    <3>3. N + 1 \in q .. N + 1
      BY <1>1, <2>1
    <3>4. ASSUME \A k \in q .. N + 1 : k - q < size => Ahead'[k] = <<g, k - q>>
          PROVE  /\ \A k \in q .. N : k - q < size => Ahead[k] = <<g, k - q>>
                 /\ here < size => <<L, sent>> = <<g, here>>
      BY <1>3, <1>4, <2>1, <3>1, <3>3, <3>4
    <3>5. ASSUME \A k \in q .. N : k - q < size => Ahead[k] = <<g, k - q>>,
                 here < size => <<L, sent>> = <<g, here>>,
                 NEW k \in q .. N + 1, k - q < size
          PROVE  Ahead'[k] = <<g, k - q>>
      <4>1. CASE k \in q .. N
        BY <1>3, <3>1, <3>5, <4>1
      <4>2. CASE k = N + 1
        BY <1>3, <1>4, <2>1, <3>5, <4>2
      <4>3. QED
        BY <3>2, <4>1, <4>2
    <3>6. QED
      BY <3>4, <3>5
  <2>6. (here < size => <<L, sent>> = <<g, here>>) /\ (here + 1 < size => g = L /\ sent' = here + 1)
          <=> (here < size => g = L /\ sent = here)
    BY <1>1, <2>1
  <2>7. QED
    BY <2>3, <2>4, <2>5, <2>6
<1>8. ASSUME NEW q \in Places, ~Whole(q)
      PROVE  Ending(q)' = Ending(q) /\ Ending(q) \in Int
  <2>1. \A k \in 0 .. HEADER_SIZE - 1 : q + HEADER_SIZE - 1 <= N => q + k \in Places
    BY <1>1
  <2>2. HeaderRight(q) => HeaderRight(q)'
    <3>1. q + HEADER_SIZE - 1 <= N => q + HEADER_SIZE - 1 <= N + 1
      BY <1>1
    <3>2. QED
      BY <1>0, <1>3, <1>5, <2>1, <3>1 DEF HeaderRight
  <2>3. ASSUME HeaderRight(q)', ~HeaderRight(q)
        PROVE  FALSE
    <3> DEFINE g == FrameAt(q)
    <3>1. ~(q + HEADER_SIZE - 1 <= N)
      BY <1>0, <1>3, <1>5, <2>1, <2>3 DEF HeaderRight
    <3>2. N + 1 = q + (HEADER_SIZE - 1) /\ q \in 1 .. N
      <4>1. q + HEADER_SIZE - 1 <= N + 1
        BY <1>3, <2>3 DEF HeaderRight
      <4>2. QED
        BY <1>1, <3>1, <4>1
    <3>3. \A k \in 0 .. HEADER_SIZE - 1 : Ahead'[q + k] = <<g, k>>
      BY <1>5, <2>3 DEF HeaderRight
    <3>4. NextByte = <<g, HEADER_SIZE - 1>>
      <4>1. HEADER_SIZE - 1 \in 0 .. HEADER_SIZE - 1
        BY <1>1
      <4>2. Ahead'[q + (HEADER_SIZE - 1)] = <<g, HEADER_SIZE - 1>>
        BY <3>3, <4>1
      <4>3. QED
        BY <1>3, <3>2, <4>2
    <3>5. g = L /\ sent = HEADER_SIZE - 1
      BY <1>4, <3>4
    <3>6. ASSUME NEW k \in q .. N
          PROVE  Ahead[k] = <<g, k - q>>
      <4>1. k - q \in 0 .. HEADER_SIZE - 1 /\ q + (k - q) = k /\ k \in Places
        BY <1>1, <3>2
      <4>2. QED
        BY <1>3, <3>3, <4>1
    <3>7. N - q + 1 = sent
      BY <1>1, <3>2, <3>5
    <3>8. Whole(q)
      BY <1>0, <3>5, <3>6, <3>7 DEF Whole, L
    <3>9. QED
      BY <1>8, <3>8
  <2>4. HeaderRight(q)' <=> HeaderRight(q)
    BY <2>2, <2>3
  <2>5. Ending(q)' = Ending(q)
    BY <1>5, <2>4 DEF Ending, Accepted
  <2>6. QED
    BY <2>5, EndingNear
<1>9. /\ FrameAt(N + 1)' = L /\ N + 1 \notin Places /\ Size(FrameAt(N + 1))' = Size(L)
      /\ (InStep(N + 1)' => sent = 0 /\ ToReceive(L))
      /\ (ToReceive(L)' <=> ToReceive(L))
  <2>1. FrameAt(N + 1)' = L
    BY <1>3, <1>4 DEF FrameAt
  <2>2. Size(FrameAt(N + 1))' = Size(L)
    BY <2>1 DEF Size
  <2>3. InStep(N + 1)' => sent = 0 /\ ToReceive(L)
    BY <1>3, <1>4, <2>1 DEF InStep, ToReceive, Accepted
  <2>4. ToReceive(L)' <=> ToReceive(L)
    BY DEF ToReceive, Accepted, L
  <2>5. QED
    BY <1>1, <2>1, <2>2, <2>3, <2>4
<1>10. sent = 0 => Whole(N + 1)'
  <2> SUFFICES ASSUME sent = 0
               PROVE  Whole(N + 1)'
    OBVIOUS
  <2>1. \A k \in N + 1 .. N + 1 : k = N + 1 /\ k - (N + 1) = 0
    BY <1>1
  <2>2. \A k \in N + 1 .. N + 1 : Ahead'[k] = <<L, k - (N + 1)>>
    BY <1>3, <1>4, <2>1
  <2>3. (N + 1) - (N + 1) + 1 = 1 /\ sent' = 1
    BY <1>1
  <2>4. QED
    BY <1>3, <1>9, <2>2, <2>3 DEF Whole, L
<1>11. NoneMissed'
  <2> SUFFICES ASSUME NEW f \in 1 .. L, ToReceive(f)'
               PROVE  f \in Range(received) \/ \E p \in 1 .. N + 1 : Ahead'[p] = <<f, 0>>
    BY <1>4 DEF NoneMissed, L
  <2>1. ToReceive(f)
    BY DEF ToReceive, Accepted
  <2>2. CASE f = L /\ sent = 0
    BY <1>1, <1>3, <1>4, <2>2
  <2>3. ASSUME NEW p \in Places, Ahead[p] = <<f, 0>>
        PROVE  \E r \in 1 .. N + 1 : Ahead'[r] = <<f, 0>>
    BY <1>1, <1>3, <2>3
  <2>4. QED
    BY <2>1, <2>2, <2>3 DEF BackInStep, NoneMissed, L
<1>12. InStepWhole'
  <2>1. ASSUME NEW p \in 1 .. N + 1, InStep(p)'
        PROVE  Whole(p)'
    <3>1. CASE p \in Places
      BY <1>5, <1>7, <2>1, <3>1 DEF BackInStep, InStepWhole
    <3>2. CASE p = N + 1
      BY <1>9, <1>10, <2>1, <3>2
    <3>3. QED
      BY <1>1, <3>1, <3>2
  <2>2. QED
    BY <1>4, <2>1 DEF InStepWhole
<1>13. /\ Awaited \in Nat /\ HEADER_SIZE - 1 <= Awaited /\ clean \in 0 .. Awaited
       /\ sound \subseteq 1 .. L /\ (ToReceive(L) => L \in sound)
       /\ (ToReceive(L) \/ (L \in sound /\ sent = 0) => clean = Awaited)
       /\ clean' \in 0 .. Awaited /\ clean' <= clean + 1
       /\ (ToReceive(L) => clean' = clean)
  <2>1. /\ Awaited \in Nat /\ HEADER_SIZE - 1 <= Awaited
    BY AwaitedIsEnough
  <2>2. /\ clean \in 0 .. Awaited /\ sound \subseteq 1 .. L /\ (ToReceive(L) => L \in sound)
        /\ (ToReceive(L) \/ (L \in sound /\ sent = 0) => clean = Awaited)
    BY DEF BackInStep, Cleanness, L, ToReceive
  <2>3. clean' = IF ToReceive(L) THEN Awaited
                 ELSE IF LooksLikeHead(NextByte) /\ sent > 0 THEN 0
                 ELSE IF clean < Awaited THEN clean + 1 ELSE clean
    BY DEF L
  <2> HIDE DEF Awaited
  <2>4. clean' \in 0 .. Awaited /\ clean' <= clean + 1 /\ (ToReceive(L) => clean' = clean)
    BY <2>1, <2>2, <2>3
  <2>5. QED
    BY <2>1, <2>2, <2>4
<1>14. ASSUME NEW q \in Places, Start(q)', ~Whole(q)'
       PROVE  /\ Ending(q)' - Count' + clean' <= Awaited
              /\ \A p \in 1 .. N + 1 : q < p /\ InStep(p)' => Ending(q)' < p
  <2>1. Start(q) /\ ~Whole(q)
    BY <1>6, <1>7, <1>14
  <2>2. Ending(q)' = Ending(q) /\ Ending(q) \in Int
    BY <1>8, <2>1
  <2>3. /\ Ending(q) - N + clean <= Awaited
        /\ \A p \in Places : q < p /\ InStep(p) => Ending(q) < p
    BY <1>0, <2>1 DEF BackInStep, StartsEnd
  <2>4. Ending(q)' - Count' + clean' <= Awaited
    <3> DEFINE e == Ending(q)
    <3>1. /\ e \in Int /\ N \in Int /\ clean \in Int /\ clean' \in Int /\ Awaited \in Int
          /\ clean' <= clean + 1 /\ e - N + clean <= Awaited
      BY <1>13, <2>2, <2>3
    <3>2. Ending(q)' = e /\ Count' = N + 1
      BY <1>3, <2>2
    <3> HIDE DEF e
    <3>3. e - (N + 1) + clean' <= Awaited
      BY <3>1
    <3>4. QED
      BY <3>2, <3>3
  <2>5. ASSUME NEW p \in 1 .. N + 1, q < p, InStep(p)'
        PROVE  Ending(q)' < p
    <3>1. CASE p \in Places
      BY <1>5, <2>2, <2>3, <2>5, <3>1
    <3>2. CASE p = N + 1
      <4>1. clean = Awaited
        BY <1>9, <1>13, <2>5, <3>2
      <4>2. QED
        BY <1>1, <1>13, <2>2, <2>3, <3>2, <4>1
    <3>3. QED
      BY <1>1, <3>1, <3>2
  <2>6. QED
    BY <2>4, <2>5
<1>15. ASSUME Start(N + 1)', ~Whole(N + 1)'
       PROVE  Ending(N + 1)' - Count' + clean' <= Awaited
  <2>1. sent # 0 /\ sent > 0
    BY <1>1, <1>10, <1>15
  <2>2. ~HeaderRight(N + 1)'
    <3> SUFFICES ASSUME HeaderRight(N + 1)'
                 PROVE  FALSE
      OBVIOUS
    <3>1. 0 \in 0 .. HEADER_SIZE - 1 /\ (N + 1) + 0 = N + 1
      BY <1>1
    <3>2. Ahead'[(N + 1) + 0] = <<FrameAt(N + 1)', 0>>
      BY <3>1 DEF HeaderRight
    <3>3. QED
      BY <1>3, <1>4, <2>1, <3>1, <3>2
  <2>3. Ending(N + 1)' - Count' = HEADER_SIZE - 1
    <3>1. Ending(N + 1)' = (N + 1) - 1 + HEADER_SIZE
      BY <2>2 DEF Ending
    <3>2. QED
      BY <1>1, <1>3, <3>1
  <2>4. LooksLikeHead(NextByte) /\ ~Covered(N + 1)'
    <3>1. ~(N + 1 = 1 /\ Busy')
      <4>1. Busy => Len(newMessage) # 0
        BY <1>1, EmptySeq DEF Reading, TypeInv
      <4>2. Busy => N # 0
        BY <1>1, <4>1
      <4>3. QED
        BY <1>1, <1>4, <4>2
    <3>2. LooksLikeHead(Ahead[N + 1])' /\ ~Covered(N + 1)'
      BY <1>15, <3>1 DEF Start
    <3>3. QED
      BY <1>3, <1>4, <3>2 DEF LooksLikeHead, NextByte
  <2>5. ~ToReceive(L)
    <3> SUFFICES ASSUME ToReceive(L)
                 PROVE  FALSE
      OBVIOUS
    <3>1. L \notin Range(received)
      BY <1>1, <1>2 DEF Reading, L
    <3>2. PICK p \in Places : Ahead[p] = <<L, 0>>
      BY <1>2, <2>1, <3>1 DEF BackInStep, NoneMissed, L
    <3>3. InStep(p) /\ FrameAt(p) = L /\ Whole(p) /\ p \in 1 .. N
      BY <1>1, <3>2 DEF InStep, FrameAt, BackInStep, InStepWhole
    <3>4. N + 1 < p + Size(L)
      <4> SUFFICES ASSUME ~(N + 1 < p + Size(L))
                   PROVE  FALSE
        OBVIOUS
      <4> DEFINE k == p + Size(L) - 1
      <4>1. k \in p .. N /\ k \in Places /\ k - p = Size(L) - 1 /\ k - p < Size(L)
        BY <1>1, <1>2, <3>3
      <4> HIDE DEF k
      <4>2. Ahead[k] = <<L, k - p>>
        BY <1>0, <3>3, <4>1 DEF Whole
      <4>3. Before(Ahead[k], NextByte)
        BY <4>1, AheadBytes
      <4>4. Size(L) - 1 < sent
        BY <1>1, <1>2, <1>4, <4>1, <4>2, <4>3 DEF Before
      <4>5. sent < Size(L)
        BY DEF L
      <4>6. QED
        BY <1>1, <1>2, <4>4, <4>5
    <3>5. p \in 1 .. (N + 1) - 1
      BY <1>1, <3>3
    <3>6. InStep(p)' /\ Size(FrameAt(p))' = Size(L)
      BY <1>5, <3>3
    <3>7. Covered(N + 1)'
      BY <3>4, <3>5, <3>6 DEF Covered
    <3>8. QED
      BY <2>4, <3>7
  <2>6. clean' = 0
    BY <2>1, <2>4, <2>5 DEF L
  <2>7. QED
    BY <1>1, <1>3, <1>13, <2>3, <2>6
<1>16. StartsEnd'
  <2>1. ASSUME NEW q \in 1 .. N + 1, Start(q)', ~Whole(q)'
        PROVE  /\ Ending(q)' - Count' + clean' <= Awaited
               /\ \A p \in 1 .. N + 1 : q < p /\ InStep(p)' => Ending(q)' < p
    <3>1. CASE q \in Places
      BY <1>14, <2>1, <3>1
    <3>2. CASE q = N + 1
      <4>1. \A p \in 1 .. N + 1 : ~(N + 1 < p)
        BY <1>1
      <4>2. QED
        BY <1>15, <2>1, <3>2, <4>1
    <3>3. QED
      BY <1>1, <3>1, <3>2
  <2>2. QED
    BY <1>4, <2>1 DEF StartsEnd, Awaited, Accepted
<1>17. Cleanness'
  <2>1. sent' # 0
    BY <1>1
  <2>2. ToReceive(L) => clean' = Awaited
    BY <1>13
  <2>3. QED
    BY <1>9, <1>13, <2>1, <2>2 DEF Cleanness, Awaited, Accepted, L
<1>18. Reading'
  <2>1. L \in Range(received) => sent + 1 >= Size(L)
    BY <1>1, <1>2 DEF Reading, L
  <2>2. ASSUME djiSerialRxState = "PROCESS_FRAME_DATA"
        PROVE  HeaderRight(1)' /\ FrameAt(1)' = FrameAt(1) /\ MessageSize' = MessageSize
    <3>1. HeaderRight(1) /\ HEADER_SIZE <= N
      <4>1. HeaderRight(1) /\ HEADER_SIZE <= Len(newMessage)
        BY <2>2 DEF Reading
      <4>2. QED
        BY <1>1, <4>1
    <3>2. \A k \in 0 .. HEADER_SIZE - 1 : 1 + k \in Places
      BY <1>1, <3>1
    <3>3. 1 \in Places /\ 1 + HEADER_SIZE - 1 <= N + 1
      BY <1>1, <3>1
    <3>4. FrameAt(1)' = FrameAt(1)
      BY <1>5, <3>3
    <3>5. QED
      BY <1>3, <3>1, <3>2, <3>3, <3>4 DEF HeaderRight, MessageSize
  <2>3. Size(Len(line))' = Size(L)
    BY DEF Size, L
  <2>4. QED
    BY <1>4, <2>1, <2>2, <2>3 DEF Reading, Accepted, L
<1>19. QED
  BY <1>11, <1>12, <1>16, <1>17, <1>18 DEF BackInStep

LEMMA SendByteBack ==
    ASSUME SerialAssumption, FrameAssumption, OrderInv, BackInStep, Reading, SendByte
    PROVE  BackInStep' /\ Reading'
<1>1. /\ UNCHANGED <<rxCrcEnabled, line, djiSerialRxState, newMessage, dataLength, received>>
      /\ Len(line) > 0 /\ sent < Size(Len(line)) /\ sent' = sent + 1
  BY DEF SendByte
<1>2. CASE /\ uart' = Append(uart, <<Len(line), sent>>) /\ sound' = sound
           /\ clean' = IF Len(line) \in sound /\ line[Len(line)].length \in Accepted THEN Awaited
                       ELSE IF LooksLikeHead(<<Len(line), sent>>) /\ sent > 0 THEN 0
                       ELSE IF clean < Awaited THEN clean + 1 ELSE clean
  <2>1. /\ uart' = Append(uart, NextByte) /\ sound' = sound
        /\ clean' = IF ToReceive(Len(line)) THEN Awaited
                    ELSE IF LooksLikeHead(NextByte) /\ sent > 0 THEN 0
                    ELSE IF clean < Awaited THEN clean + 1 ELSE clean
    BY <1>2 DEF NextByte, ToReceive
  <2>2. QED
    BY <1>1, <2>1, KeepByteBack
<1>3. CASE clean' = 0 /\ sound' = sound \ {Len(line)} /\ uart' = uart
  BY <1>1, <1>3, LoseByteBack
<1>4. QED
  BY <1>2, <1>3 DEF SendByte

(***************************************************************************)
(* The receiver finds back into step by itself, for all sizes of headers,  *)
(* messages and buffers, whatever the data look like, whatever is lost,    *)
(* and however many bytes a read() finds (dji_serial.cpp.in): a frame that *)
(* begins so many bytes after the last lost one as a receiver may still    *)
(* wait for is handed over.                                                *)
(***************************************************************************)
THEOREM BackIntoStep ==
    ASSUME SerialAssumption, FrameAssumption PROVE Spec => []InStepAgain
<1>1. Init => OrderInv /\ StepInv
  <2> SUFFICES ASSUME Init
               PROVE  OrderInv /\ StepInv
    OBVIOUS
  <2>1. OrderInv
    BY DEF Init, OrderInv, TypeInv, Lacking, InOrder, Handed
  <2>2. Count = 0 /\ Places = {} /\ Len(line) = 0
    BY DEF Init, Count, Places
  <2>3. Awaited \in 0 .. Awaited
    BY AwaitedIsEnough
  <2>4. BackInStep
    BY <2>2, <2>3 DEF Init, BackInStep, NoneMissed, InStepWhole, StartsEnd, Cleanness
  <2>5. Reading
    BY DEF Init, Reading, Busy, Range
  <2>6. QED
    BY <2>1, <2>4, <2>5 DEF StepInv
<1>2. OrderInv /\ StepInv /\ [Next]_vars => OrderInv' /\ StepInv'
  <2> SUFFICES ASSUME OrderInv, StepInv, [Next]_vars
               PROVE  OrderInv' /\ StepInv'
    OBVIOUS
  <2>1. CASE UNCHANGED vars
    <3>1. OrderInv'
      BY <2>1 DEF vars, OrderInv, TypeInv, Lacking, MessageSize, NextByte, Handed
    <3>2. NoneMissed' = NoneMissed /\ InStepWhole' = InStepWhole
      BY <2>1 DEF vars, NoneMissed, InStepWhole, InStep, ToReceive, Whole, Size, FrameAt, Ahead, Count,
                  Places, Accepted
    <3>3. StartsEnd' = StartsEnd /\ Cleanness' = Cleanness
      BY <2>1 DEF vars, StartsEnd, Cleanness, InStep, ToReceive, Whole, Size, FrameAt, Ahead, Count,
                  Places, Start, Covered, LooksLikeHead, Ending, HeaderRight, Accepted, Awaited, Busy
    <3>4. Reading' = Reading
      BY <2>1 DEF vars, Reading, Busy, HeaderRight, FrameAt, Ahead, Count, MessageSize, Size, Accepted
    <3>5. QED
      BY <2>1, <3>1, <3>2, <3>3, <3>4 DEF StepInv, BackInStep, vars
  <2>2. CASE Next
    <3>1. OrderInv'
      BY <2>2, SendByteInv, StartFrameInv, HeaderSearchInv, FrameHeaderInv, FrameDataInv
         DEF Next, updateSerial
    <3>2. rxCrcEnabled' = rxCrcEnabled
      BY <2>2 DEF Next, updateSerial, SendByte, StartFrame, HeaderSearch, FrameHeader, FrameData
    <3>3. ASSUME rxCrcEnabled
          PROVE  BackInStep' /\ Reading'
      <4>1. BackInStep /\ Reading
        BY <3>3 DEF StepInv
      <4>2. QED
        BY <2>2, <3>1, <3>3, <4>1, SendByteBack, StartFrameBack, HeaderSearchBack, FrameHeaderBack,
           FrameDataBack DEF Next, updateSerial
    <3>4. QED
      BY <3>1, <3>2, <3>3 DEF StepInv
  <2>3. QED
    BY <2>1, <2>2
<1>3. OrderInv /\ StepInv => InStepAgain
  <2> SUFFICES ASSUME OrderInv, BackInStep, Reading, rxCrcEnabled,
                      NEW f \in sound, line[f].length \in Accepted, Consumed(f)
               PROVE  f \in Range(received)
    BY DEF StepInv, InStepAgain
  <2>1. /\ f \in 1 .. Len(line) /\ ToReceive(f) /\ Len(line) \in Nat /\ Count \in Nat
        /\ Places = 1 .. Count /\ Len(newMessage) \in Nat /\ sent \in Nat
        /\ HEADER_SIZE \in Nat \ {0}
    BY AheadBytes DEF BackInStep, Cleanness, ToReceive, Places, SerialAssumption
  <2>2. Size(f) \in Nat /\ HEADER_SIZE < Size(f)
    BY <2>1, Sizes DEF OrderInv
  <2>3. f = Len(line) => sent = Size(f)
    BY <2>1 DEF Consumed
  <2>4. ASSUME NEW p \in Places, Ahead[p] = <<f, 0>>
        PROVE  FALSE
    <3>1. InStep(p) /\ FrameAt(p) = f /\ Whole(p) /\ p \in 1 .. Count
      BY <2>1, <2>4 DEF InStep, FrameAt, BackInStep, InStepWhole
    <3>2. ~(Count - p + 1 < Size(f))
      BY <2>2, <2>3, <3>1 DEF Whole
    <3> DEFINE e == p + Size(f) - 1
    <3>3. e \in p .. Count /\ e \in Places /\ e - p < Size(f) /\ e >= p + HEADER_SIZE
      BY <2>1, <2>2, <3>1, <3>2
    <3> HIDE DEF e
    <3>4. Ahead[e] = <<f, e - p>>
      BY <3>1, <3>3 DEF Whole
    <3>5. e <= Len(newMessage)
      <4>1. ~(e <= Len(newMessage)) => /\ e - Len(newMessage) \in DOMAIN uart
                                       /\ Ahead[e] = uart[e - Len(newMessage)]
        BY <3>3, AheadBytes
      <4>2. QED
        BY <3>4, <4>1 DEF Consumed
    <3>6. Busy /\ 1 \in Places
      <4>1. Len(newMessage) > 0
        BY <2>1, <3>1, <3>3, <3>5
      <4>2. QED
        BY <2>1, <3>1, <4>1 DEF Reading
    <3>7. CASE djiSerialRxState = "PROCESS_FRAME_HEADER"
      BY <2>1, <3>1, <3>3, <3>5, <3>7 DEF OrderInv, Lacking
    <3>8. CASE djiSerialRxState = "PROCESS_FRAME_DATA"
      <4>1. /\ HeaderRight(1) /\ Len(newMessage) < MessageSize
            /\ dataLength = line[FrameAt(1)].length /\ dataLength \in Accepted
        BY <3>8 DEF Reading
      <4>2. FrameAt(1) \in 1 .. Len(line)
        BY <3>6, AheadBytes DEF FrameAt
      <4>3. Size(FrameAt(1)) = MessageSize /\ MessageSize \in Nat
        <5>1. line[FrameAt(1)].length \in Nat
          BY <4>2, Sizes DEF OrderInv
        <5>2. QED
          BY <4>1, <5>1 DEF MessageSize, Size, SerialAssumption
      <4>4. Ending(1) = MessageSize
        BY <4>1, <4>3 DEF Ending
      <4>5. p = 1
        <5> SUFFICES ASSUME p # 1
                     PROVE  FALSE
          OBVIOUS
        <5>1. Ending(1) < p
          BY <2>1, <3>1, <3>6, FrontEnds
        <5>2. QED
          BY <2>1, <3>1, <3>3, <3>5, <4>1, <4>3, <4>4, <5>1
      <4>6. e = MessageSize
        BY <2>2, <3>1, <4>3, <4>5 DEF e
      <4>7. QED
        BY <2>1, <3>5, <4>1, <4>3, <4>6
    <3>9. QED
      BY <3>6, <3>7, <3>8 DEF Busy, OrderInv, TypeInv
  <2>5. QED
    <3>1. f = Len(line) /\ sent = 0 => FALSE
      BY <2>1, <2>2, <2>3
    <3>2. QED
      BY <2>1, <2>4, <3>1 DEF BackInStep, NoneMissed
<1>4. QED
  BY <1>1, <1>2, <1>3, PTL DEF Spec
=============================================================================
