------------------------------ MODULE DjiMotor ------------------------------
(***************************************************************************)
(* src/tap/motor/dji_motor_tx_handler.cpp: the table of the motors on each *)
(* bus and the messages that carry what they are to put out, up to four    *)
(* motors in each; src/tap/motor/dji_motor.{hpp,cpp}.in: one motor, and    *)
(* double_dji_motor.cpp.in: two that drive one axle and are commanded      *)
(* together.                                                               *)
(*                                                                         *)
(* An output, and a torque, is a two's complement word of OutputWord       *)
(* values.  The position that a motor reports is that of its encoder       *)
(* (WrappedEncoder); its connection is a Timeout, which expires here when  *)
(* it likes.                                                               *)
(***************************************************************************)
EXTENDS Integers, FiniteSetsExt

CONSTANTS
    Motors,           \* DjiMotor objects
    MotorIdentifier,  \* of each
    MotorCanBus,      \* of each
    MotorInverted,    \* those that are inverted
    CurrentControl,   \* those in current control
    Doubled,          \* the two that a DoubleDjiMotor holds, motorOne and motorTwo
    Outputs,          \* what a program asks for
    Torques,          \* what a motor reports
    Temperatures,     \* likewise
    OutputWord        \* 2^16 in the code

VARIABLES
    phase,          \* of each motor
    canMotorStore,  \* the motors in the tables of the two buses, each in its place
    desiredOutput,  \* of each motor
    commanded,      \* what the program asked each motor for last
    frames,         \* what the last encodeAndSendCanData() sent
    torque, temperature, online,  \* of each motor; those that are online
    reported        \* history: the torque and temperature each motor reported
                    \*   last, or <<>>

transmitVars == <<phase, canMotorStore, desiredOutput, commanded, frames>>
reportVars == <<torque, temperature, online, reported>>
motorVars == <<transmitVars, reportVars>>

MOTOR1 == 513
DJI_MOTORS_PER_CAN == 8
LOW == 512 \* 0x200
HIGH == 511 \* 0x1FF
GM6020_CURRENT == 510 \* 0x1FE

SHRT_MIN == -(OutputWord \div 2)
SHRT_MAX == OutputWord \div 2 - 1
ToInt16(x) == ((x - SHRT_MIN) % OutputWord) + SHRT_MIN

NormalizedId(m) ==
    IF MotorIdentifier[m] < MOTOR1 THEN DJI_MOTORS_PER_CAN ELSE MotorIdentifier[m] - MOTOR1

Place(m) == <<MotorCanBus[m], NormalizedId(m)>>

Init ==
    /\ phase = [m \in Motors |-> "constructed"]
    /\ canMotorStore = {}
    /\ desiredOutput = [m \in Motors |-> 0]
    /\ commanded = [m \in Motors |-> 0]
    /\ frames = <<>>
    /\ torque = [m \in Motors |-> 0]
    /\ temperature = [m \in Motors |-> 0]
    /\ online = {}
    /\ reported = [m \in Motors |-> <<>>]

(* A motor for which there is no place stops the program: modm_assert. *)
initialize(m) ==
    /\ phase[m] = "constructed"
    /\ NormalizedId(m) < DJI_MOTORS_PER_CAN
    /\ \A other \in canMotorStore : Place(other) # Place(m)
    /\ canMotorStore' = canMotorStore \union {m}
    /\ phase' = [phase EXCEPT ![m] = "initialized"]
    /\ frames' = <<>>
    /\ UNCHANGED <<desiredOutput, commanded, reportVars>>

(* The motor's entry is found by its identifier, whoever holds it; without
   one an error is raised. *)
Destruct ==
    \E m \in Motors \ Doubled :
        /\ phase[m] # "destroyed"
        /\ phase' = [phase EXCEPT ![m] = "destroyed"]
        /\ canMotorStore' = {other \in canMotorStore : Place(other) # Place(m)}
        /\ frames' = <<>>
        /\ UNCHANGED <<desiredOutput, commanded, reportVars>>

Limited(output) ==
    IF output < SHRT_MIN THEN SHRT_MIN ELSE IF output > SHRT_MAX THEN SHRT_MAX ELSE output

(* Mutant: converts before it limits. *)
OutputConverted(m, output) ==
    IF m \in MotorInverted THEN ToInt16(-ToInt16(output)) ELSE ToInt16(output)

Output(m, output) ==
    IF m \in MotorInverted THEN ToInt16(-Limited(output)) ELSE Limited(output)

SetOutputs(motors, output) ==
    /\ \A m \in motors : phase[m] # "destroyed"
    /\ desiredOutput' = [m \in Motors |->
                            IF m \in motors THEN Output(m, output) ELSE desiredOutput[m]]
    /\ commanded' = [m \in Motors |-> IF m \in motors THEN output ELSE commanded[m]]
    /\ frames' = <<>>
    /\ UNCHANGED <<phase, canMotorStore, reportVars>>

(* Of single motors, and of the double one. *)
setDesiredOutput == \E output \in Outputs, m \in Motors \ Doubled : SetOutputs({m}, output)
setDoubleOutput == \E output \in Outputs : SetOutputs(Doubled, output)

(* Mutant: the low message ends a motor early. *)
MessageOfOneLess(m) ==
    IF NormalizedId(m) < 3 THEN LOW
    ELSE IF m \in CurrentControl THEN GM6020_CURRENT ELSE HIGH

MessageOf(m) ==
    IF NormalizedId(m) <= 3 THEN LOW
    ELSE IF m \in CurrentControl THEN GM6020_CURRENT ELSE HIGH

OnBus(bus) == {m \in canMotorStore : MotorCanBus[m] = bus}

(* Each motor of the message puts its output into its place; the rest is 0. *)
Serialized(bus, message) ==
    [place \in 0 .. 3 |->
        LET there == {m \in OnBus(bus) : MessageOf(m) = message /\ NormalizedId(m) % 4 = place}
        IN  IF there = {} THEN 0 ELSE desiredOutput[CHOOSE m \in there : TRUE]]

ToSend(ready) == {f \in ready \X {LOW, HIGH, GM6020_CURRENT} :
                    \E m \in OnBus(f[1]) : MessageOf(m) = f[2]}

(* A bus that is not ready gets nothing; a message that could not be sent is
   an error, and the others are sent all the same. *)
encodeAndSendCanData ==
    \E ready \in SUBSET {1, 2} :
        \E sent \in SUBSET ToSend(ready) :
            /\ frames' = [f \in sent |-> Serialized(f[1], f[2])]
            /\ UNCHANGED <<phase, canMotorStore, desiredOutput, commanded, reportVars>>

(* A motor that is initialized is attached to the receive handler. *)
processMessage(m) ==
    \E t \in Torques, degrees \in Temperatures :
        /\ phase[m] = "initialized"
        /\ torque' = [torque EXCEPT ![m] = IF m \in MotorInverted THEN ToInt16(-t) ELSE t]
        /\ temperature' = [temperature EXCEPT ![m] = degrees]
        /\ online' = online \union {m}
        /\ reported' = [reported EXCEPT ![m] = <<t, degrees>>]
        /\ UNCHANGED transmitVars

(* Its last message is MOTOR_DISCONNECT_TIME ago. *)
Disconnect(m) ==
    /\ m \in online
    /\ online' = online \ {m}
    /\ UNCHANGED <<transmitVars, torque, temperature, reported>>

isMotorOnline(m) == m \in online

-----------------------------------------------------------------------------
(* The getters of a DoubleDjiMotor; a quotient is cut towards zero. *)
Quotient(n, d) == IF n < 0 THEN -((-n) \div d) ELSE n \div d

motorOne == CHOOSE m \in Doubled : TRUE
motorTwo == CHOOSE m \in Doubled : m # motorOne

SumOfBoth(f) == f[motorOne] + f[motorTwo]

isDoubleOnline == \A m \in Doubled : isMotorOnline(m)

(* Mutant: an inverted motor counts as it is driven. *)
DoubleOutputAsDriven == Quotient(SumOfBoth(desiredOutput), 2)

getOutputDesired ==
    LET Out == [m \in Doubled |->
                   IF m \in MotorInverted THEN ToInt16(-desiredOutput[m]) ELSE desiredOutput[m]]
    IN  Quotient(SumOfBoth(Out), 2)

getTemperature == Max({temperature[m] : m \in Doubled})

(* Mutant: divides by the number of motors that there are. *)
TorqueOfAll == Quotient(SumOfBoth(torque), 2)

(* A motor that is offline is still in the sum. *)
getTorque ==
    LET num_online == SumOfBoth([m \in Doubled |-> IF isMotorOnline(m) THEN 1 ELSE 0])
    IN  IF num_online = 0 THEN 0 ELSE Quotient(SumOfBoth(torque), num_online)

Transmit ==
    \/ \E m \in Motors : initialize(m)
    \/ Destruct \/ setDesiredOutput \/ setDoubleOutput \/ encodeAndSendCanData

Report(m) == processMessage(m) \/ Disconnect(m)

Next == Transmit \/ \E m \in Motors : Report(m)

-----------------------------------------------------------------------------

(* What the hardware listens to: motors 1 to 4 to the low message, 5 to 8 to
   the high one, a GM6020 in current control to its own, each to its quarter. *)
Hears(m, f) ==
    /\ f[1] = MotorCanBus[m]
    /\ f[2] = IF MotorIdentifier[m] <= 516 THEN LOW
              ELSE IF m \in CurrentControl THEN GM6020_CURRENT ELSE HIGH

Heard(m, f) == frames[f][(MotorIdentifier[m] - 513) % 4]

Mirrored(m, output) == IF m \in MotorInverted THEN -output ELSE output

(* A motor of the table gets the output it was asked for last, within the range
   of the message and turned round if it is inverted
   (dji_motor_tx_handler.cpp:160-192, dji_motor.cpp.in:102-128), and a motor
   that left the table is told to stop by the next message that reaches it.
   The code's negation has no result for the least output: see the README. *)
MotorsObey ==
    \A f \in DOMAIN frames, m \in Motors :
        Hears(m, f) =>
            IF m \in canMotorStore
            THEN Limited(commanded[m]) # SHRT_MIN
                    => Heard(m, f) = Mirrored(m, Limited(commanded[m]))
            ELSE (\A other \in canMotorStore : Place(other) # Place(m)) => Heard(m, f) = 0

(* A double motor speaks of its axle (double_dji_motor.cpp.in:84-117): its output
   is the one it was asked for, whichever of its motors are inverted; its torque
   lies between those of its motors, each in the direction of the axle, as long
   as both or neither are online, and it is as warm as the warmer one.  One that
   was never heard counts as cold and idle. *)
DoubleSpeaksForBoth ==
    LET Axle(m) == IF reported[m] = <<>> THEN 0 ELSE Mirrored(m, reported[m][1])
        Degrees(m) == IF reported[m] = <<>> THEN 0 ELSE reported[m][2]
        asked == {Limited(commanded[m]) : m \in Doubled}
        representable == \A m \in Doubled : reported[m] # <<>> => reported[m][1] # SHRT_MIN IN
    /\ SHRT_MIN \notin asked => getOutputDesired \in asked
    /\ (isDoubleOnline \/ Doubled \intersect online = {}) /\ representable =>
           IF isDoubleOnline
           THEN /\ getTorque >= Min({Axle(m) : m \in Doubled})
                /\ getTorque <= Max({Axle(m) : m \in Doubled})
                /\ 2 * getTorque - SumOfBoth([m \in Doubled |-> Axle(m)]) \in -1 .. 1
           ELSE getTorque = 0
    /\ getTemperature = Max({Degrees(m) : m \in Doubled})
=============================================================================
