--------------------------- MODULE WrappedEncoder ---------------------------
(***************************************************************************)
(* src/tap/communication/sensors/encoder/wrapped_encoder.{hpp,cpp}: counts *)
(* the turns of a shaft from readings that wrap, and the two encoders that *)
(* motors bring along: dji_motor_encoder.cpp, which has the reading in its *)
(* message, and sparkmax/rev_motor_encoder.cpp, which computes it from     *)
(* the motor's own count of turns.                                         *)
(*                                                                         *)
(* The gear ratio is 1 and positions are in ticks, so that the position    *)
(* the class derives from its encoder value is that value.  The shaft      *)
(* turns by less than half a revolution between two messages: a faster one *)
(* cannot be told from one that turns the other way.                       *)
(***************************************************************************)
EXTENDS WrappedFloat

CONSTANTS
    EncoderResolution,  \* ticks of a revolution, at least 3
    HomePositions,      \* the home positions constructors are given
    Offsets,            \* how far another encoder may be away
    RevWord,            \* values of the count of ticks that a REV motor's reading is cut to
    ShaftReach          \* bounds how far the shaft turns

VARIABLES
    \* the object
    encoder, pastPosition, encoderHomePosition, inverted,
    updated,   \* lastUpdateTime # 0
    \* the shaft, in ticks, and where it was at the last two messages
    shaft, seenShaft, pastShaft,
    expected,  \* the position it must report, once it has had a message
    aligned,   \* alignWith() was called
    rev,       \* it is the encoder of a REV motor
    leftWord   \* a REV motor reported a count that its word does not hold

encoderVars == <<encoder, pastPosition, encoderHomePosition, inverted, updated, shaft,
                 seenShaft, pastShaft, expected, aligned, rev, leftWord>>

OnScale(ticks) == Wrapped(ticks, 0, EncoderResolution)

Init ==
    /\ inverted \in BOOLEAN
    /\ \E home \in HomePositions : encoderHomePosition = OnScale(home)
    /\ encoder = OnScale(0)
    /\ pastPosition = OnScale(0)
    /\ updated = FALSE
    /\ shaft = 0 /\ seenShaft = 0 /\ pastShaft = 0
    /\ expected = 0
    /\ aligned = FALSE
    /\ rev \in BOOLEAN
    /\ leftWord = FALSE

Turn ==
    \E ticks \in {-1, 1} :
        /\ shaft + ticks \in -ShaftReach .. ShaftReach
        /\ 2 * (shaft + ticks - seenShaft) \in -EncoderResolution + 1 .. EncoderResolution - 1
        /\ shaft' = shaft + ticks
        /\ UNCHANGED <<encoder, pastPosition, encoderHomePosition, inverted, updated,
                       seenShaft, pastShaft, expected, aligned, rev, leftWord>>

(* What the shaft turned since the last message, in the direction that counts up. *)
Turned == IF inverted THEN seenShaft - shaft ELSE shaft - seenShaft

RelativeToHome(encoderActual) ==
    LET oriented == IF inverted THEN EncoderResolution - 1 - encoderActual ELSE encoderActual
        relative == oriented - encoderHomePosition.wrapped
    IN  IF relative < 0 THEN EncoderResolution + relative ELSE relative

(* Mutant: a reading below the home position is not brought onto the scale,
   and the difference is taken as it is. *)
FollowedDirectly(newEncWrapped) ==
    PlusFloat(encoder, newEncWrapped - encoder.wrapped)

Followed(newEncWrapped) ==
    PlusFloat(encoder, minDifference(encoder, OnScale(newEncWrapped)))

updateEncoderValue(encoderActual) ==
    LET newEncWrapped == RelativeToHome(encoderActual)
    IN  /\ encoder' = IF updated THEN Followed(newEncWrapped) ELSE OnScale(newEncWrapped)
        /\ expected' = IF updated THEN expected + Turned ELSE newEncWrapped
        /\ updated' = TRUE
        /\ pastPosition' = encoder
        /\ seenShaft' = shaft
        /\ pastShaft' = IF updated THEN seenShaft ELSE shaft
        /\ UNCHANGED <<encoderHomePosition, inverted, shaft, aligned, rev>>

(* Of a DJI motor, and of a CanEncoder: the message has it. *)
DjiReading == shaft % EncoderResolution

(* A REV motor's message has the turns since it started; the reading is 1 to
   EncoderResolution. *)
RevReading == 1 + ((shaft % RevWord) % EncoderResolution)

processMessage ==
    /\ updateEncoderValue(IF rev THEN RevReading ELSE DjiReading)
    /\ leftWord' = (leftWord \/ (rev /\ shaft \notin 0 .. RevWord - 1))

(* Mutant: the home position is not moved. *)
HomeKept == encoderHomePosition

HomeReset == Plus(encoder, encoderHomePosition)

resetEncoderValue ==
    /\ encoderHomePosition' = HomeReset
    /\ encoder' = setUnwrappedValue(encoder, 0)
    /\ pastPosition' = Minus(pastPosition, encoder)
    /\ expected' = 0
    /\ UNCHANGED <<inverted, updated, shaft, seenShaft, pastShaft, aligned, rev, leftWord>>

alignWith ==
    \E offset \in Offsets :
        /\ encoderHomePosition' = PlusFloat(encoderHomePosition, offset)
        /\ encoder' = PlusFloat(encoder, offset)
        /\ pastPosition' = PlusFloat(pastPosition, offset)
        /\ expected' = expected + offset
        /\ aligned' = TRUE
        /\ UNCHANGED <<inverted, updated, shaft, seenShaft, pastShaft, rev, leftWord>>

(* No turn is lost: encoders are reset and aligned once they have had a message. *)
Next ==
    \/ Turn
    \/ processMessage
    \/ updated /\ shaft = seenShaft /\ resetEncoderValue
    \/ updated /\ shaft = seenShaft /\ ~aligned /\ alignWith

(* As long as it was not aligned with another one, an encoder reports how far
   the shaft turned since its home position or its last reset, whatever the
   turns and the messages (wrapped_encoder.cpp:86-121): a step of the reading
   from one end of its scale to the other is none of the shaft.  A REV motor's
   reading jumps where its count leaves the word it is cut to
   (rev_motor_encoder.cpp:32), that is when the shaft turns below its start. *)
FollowsShaft == ~aligned /\ ~leftWord => getUnwrappedValue(encoder) = expected

(* Two successive positions differ by what the shaft turned between the
   messages (wrapped_encoder.cpp:117), also when the encoder was reset
   between them: the velocity is derived from the two. *)
VelocityIsOfShaft ==
    ~aligned /\ ~leftWord /\ updated /\ pastShaft # seenShaft =>
        getUnwrappedValue(encoder) - getUnwrappedValue(pastPosition)
            = IF inverted THEN pastShaft - seenShaft ELSE seenShaft - pastShaft

(* An encoder that was aligned with one on the same shaft goes on reporting
   the same position (encoder_interface.hpp:59-61). *)
StaysAligned == ~rev => getUnwrappedValue(encoder) = expected
=============================================================================
