------------------------ MODULE RefSerialTransmitter ------------------------
(***************************************************************************)
(* tap::communication::serial::RefSerialTransmitter: the messages to the   *)
(* referee system and their senders, one transmitter in each protothread,  *)
(* which wait for the semaphore and the delay that RefSerial keeps.  The   *)
(* semaphore is taken and given back between two yields, so it is free in  *)
(* every state; what a sender waits for is the delay.                      *)
(***************************************************************************)
EXTENDS Integers, SequencesExt

CONSTANTS
    Transmitters,
    Delay,        \* 1000 ms / ROBOT_INTERACTION_DATA_RATE, rounded up
    MsgLens,      \* lengths of messages to other robots
    MsgIds        \* their identifiers

VARIABLES
    robotId,               \* known from the first message of the referee
    transmissionDelayTimer,\* what is left of the delay
    waiting,               \* what each transmitter waits to write
    wire,                  \* the last message written
    sinceWrite,            \* history: the time since then, at most Delay
    gap                    \* history: the time between the last two, likewise

transmitterVars == <<robotId, transmissionDelayTimer, waiting, wire, sinceWrite, gap>>

FRAME_HEADER == 5
CMD_ID == 2
INTERACTIVE_HEADER == 6
GRAPHIC_DATA == 15
CRC == 2
CHARACTERS == 30
DATA_AND_CRC == 115
MAX_MSG_LEN == 113

NoMessage == [kind |-> "none"]

(* The frame is complete when configured, but for what the caller changes. *)
Frame(kind, dataLength, size, capacity, content) ==
    [kind |-> kind, dataLength |-> dataLength, size |-> size, capacity |-> capacity,
     content |-> content]

DeleteGraphicLayerMessage ==
    LET size == FRAME_HEADER + CMD_ID + INTERACTIVE_HEADER + 1 + 1 + CRC IN
    Frame("delete", INTERACTIVE_HEADER + 1 + 1, size, size, "layer")

(* The GraphicMessages hold 1, 2, 5 or 7 graphics. *)
GraphicMessage(n, content) ==
    LET size == FRAME_HEADER + CMD_ID + INTERACTIVE_HEADER + n * GRAPHIC_DATA + CRC IN
    Frame("graphic", n * GRAPHIC_DATA + INTERACTIVE_HEADER, size, size, content)

(* Mutant: the characters are not counted. *)
GraphicCharacterMessageShort ==
    LET size == FRAME_HEADER + CMD_ID + INTERACTIVE_HEADER + GRAPHIC_DATA + CHARACTERS + CRC IN
    Frame("characters", GRAPHIC_DATA + INTERACTIVE_HEADER, size, size, "text")

GraphicCharacterMessage ==
    LET size == FRAME_HEADER + CMD_ID + INTERACTIVE_HEADER + GRAPHIC_DATA + CHARACTERS + CRC IN
    Frame("characters", GRAPHIC_DATA + INTERACTIVE_HEADER + CHARACTERS, size, size, "text")

RobotToRobotMessage(msgLen) ==
    LET head == FRAME_HEADER + CMD_ID + INTERACTIVE_HEADER IN
    Frame("robot", INTERACTIVE_HEADER + msgLen, head + msgLen + CRC, head + DATA_AND_CRC, "data")

TransmitterInit ==
    /\ robotId = "INVALID"
    /\ transmissionDelayTimer = 0
    /\ waiting = [t \in Transmitters |-> NoMessage]
    /\ wire = NoMessage
    /\ sinceWrite = Delay
    /\ gap = Delay

(* Mutant: whoever comes may write. *)
acquireTransmissionSemaphoreAlways == TRUE

(* Mutant: a timer that was never started has not expired. *)
acquireTransmissionSemaphoreExpired == transmissionDelayTimer = 0 /\ wire # NoMessage

acquireTransmissionSemaphore == transmissionDelayTimer = 0

(* The write and releaseTransmissionSemaphore(). *)
Write(message) ==
    /\ wire' = message
    /\ transmissionDelayTimer' = Delay
    /\ sinceWrite' = 0
    /\ gap' = sinceWrite

Sent(t, message) ==
    /\ acquireTransmissionSemaphore
    /\ Write(message)
    /\ waiting' = [waiting EXCEPT ![t] = NoMessage]
    /\ UNCHANGED robotId

Waits(t, message) ==
    /\ ~acquireTransmissionSemaphore
    /\ waiting' = [waiting EXCEPT ![t] = message]
    /\ UNCHANGED <<robotId, transmissionDelayTimer, wire, sinceWrite, gap>>

(* A function returns at once as long as the robot has no identity. *)
Dropped == robotId = "INVALID" /\ UNCHANGED transmitterVars

(* The first call of a function configures, and then tries to write. *)
Send(t, message) ==
    /\ waiting[t] = NoMessage
    /\ robotId # "INVALID"
    /\ Sent(t, message) \/ Waits(t, message)

(* A later call of a function that waits. *)
Resume(t) == waiting[t] # NoMessage /\ Sent(t, waiting[t])

deleteGraphicLayer(t) == Send(t, DeleteGraphicLayerMessage)

sendGraphic(t) ==
    \/ \E n \in {2, 5, 7} : Send(t, GraphicMessage(n, "shapes"))
    \/ Send(t, GraphicCharacterMessage)

(* Mutant: the CRC is not counted in what fits. *)
MsgLenAcceptedTooLong(msgId, msgLen) ==
    msgId \in 512 .. 766 /\ msgLen <= DATA_AND_CRC

(* A length of 1 raises an error, the message is sent all the same. *)
MsgLenAccepted(msgId, msgLen) ==
    msgId \in 512 .. 766 /\ msgLen <= MAX_MSG_LEN

sendRobotToRobotMsg(t) ==
    \E msgId \in MsgIds, msgLen \in MsgLens :
        /\ MsgLenAccepted(msgId, msgLen)
        /\ Send(t, RobotToRobotMessage(msgLen))

IdentityKnown ==
    /\ robotId = "INVALID"
    /\ robotId' = "RED_HERO"
    /\ UNCHANGED <<transmissionDelayTimer, waiting, wire, sinceWrite, gap>>

(* The clock, for the variables of this module. *)
TransmitterTick ==
    /\ transmissionDelayTimer' = Max({0, transmissionDelayTimer - 1})
    /\ sinceWrite' = Min({Delay, sinceWrite + 1})
    /\ UNCHANGED <<robotId, waiting, wire, gap>>

-----------------------------------------------------------------------------
(***************************************************************************)
(* ref_serial_data.hpp:646-649: the rate of the messages to the referee is *)
(* bounded, for all the threads together, however many wait.               *)
(***************************************************************************)
MessagesSpaced == gap = Delay

(***************************************************************************)
(* What is written is one frame as a receiver of this protocol counts it:  *)
(* its length is that of its header, its data and its CRC, no more bytes   *)
(* than the struct has.                                                    *)
(***************************************************************************)
WritesWholeFrames ==
    wire # NoMessage =>
        /\ wire.size = FRAME_HEADER + CMD_ID + wire.dataLength + CRC
        /\ wire.size <= wire.capacity
=============================================================================
