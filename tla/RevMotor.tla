------------------------------ MODULE RevMotor ------------------------------
(***************************************************************************)
(* src/tap/motor/sparkmax/rev_motor.{hpp,cpp}: a motor on a Spark Max, and *)
(* rev_motor_tx_handler.cpp: the table of them on each bus.  A motor takes *)
(* its parameters and its commands through the same messages: every turn   *)
(* of the transmit handler sends the oldest message of the motor's queue   *)
(* or, when that is empty, its control value.                              *)
(*                                                                         *)
(* A message is its arbitration identifier and a payload; the control      *)
(* value is left out.  The Spark Max is external: it holds the parameter,  *)
(* or obeys the command, of a message whose identifier names it.  Of what  *)
(* it reports, the frame is modelled and when it came: a motor, and its    *)
(* encoder, are online as long as their timeouts run.                      *)
(***************************************************************************)
EXTENDS Integers, Sequences, SequencesExt

CONSTANTS
    RevMotors,
    RevIdentifier,   \* of each, 1 to 8
    RevCanBus,       \* of each
    Slots,           \* PID slots a program configures
    ControlModes,
    MaxRequests,     \* bounds the calls of initialize() and setMotorPID()
    MOTOR_DISCONNECT_TIME

VARIABLES
    managed,      \* the motors in the tables
    paramQueue,   \* of each motor
    asked,        \* motor and parameter |-> the value it was given last, or 0
    spark,        \* what its controller holds and obeys, as long as none was lost
    failed,       \* the motors that a message was lost for
    requests,     \* calls of initialize() and setMotorPID()
    motorDisconnectTimeout,    \* of each motor, the time until it expires, or Stopped
    encoderDisconnectTimeout,
    silence,      \* of each: the time since its controller last reported anything,
                  \* and since it reported its shaft
    heartbeat     \* the last turn of them: who was to be reached, and was

revVars == <<managed, paramQueue, asked, spark, failed, requests>>
reportVars == <<motorDisconnectTimeout, encoderDisconnectTimeout, silence, heartbeat>>

REV_MOTORS_PER_CAN == 8
Buses == {1, 2}

(* Class and index of the commands, as one number. *)
APICommand == [Heartbeat |-> 9 * 16 + 2,
               DUTY_CYCLE |-> 2, VELOCITY |-> 16 + 2, POSITION |-> 3 * 16 + 2,
               VOLTAGE |-> 4 * 16 + 2, CURRENT |-> 4 * 16 + 3,
               Period0 |-> 6 * 16, Period1 |-> 6 * 16 + 1, Period2 |-> 6 * 16 + 2,
               Period3 |-> 6 * 16 + 3, Period4 |-> 6 * 16 + 4]

(* kP_0 is 13, and each slot has eight parameters. *)
ParameterIndex == [kP |-> 0, kI |-> 1, kD |-> 2, kF |-> 3, kIZone |-> 4, kDFilter |-> 5,
                   kOutputMin |-> 6, kOutputMax |-> 7]
Parameter(name, slot) == 13 + 8 * slot + ParameterIndex[name]

(* Manufacturer 5 in bits 16 to 23 and device type 2 above them; the class of a
   command begins at bit 10 and its index at bit 6, below which is the device. *)
SparkMax == 2 * 16777216 + 5 * 65536

CreateArbitrationControlId(cmd, m) ==
    SparkMax + (cmd \div 16) * 1024 + (cmd % 16) * 64 + RevIdentifier[m]

(* Mutant: the parameter is not marked as one. *)
ParameterIdUnmarked(param, m) == SparkMax + param * 64 + RevIdentifier[m]

CreateArbitrationParameterId(param, m) ==
    SparkMax + (768 + param) * 64 + RevIdentifier[m]   \* 0x300 | param

PIDParameters == {Parameter(n, slot) : n \in DOMAIN ParameterIndex, slot \in Slots}

Init ==
    /\ managed = {}
    /\ paramQueue = [m \in RevMotors |-> <<>>]
    /\ asked = [m \in RevMotors |-> [p \in PIDParameters |-> 0]]
    /\ spark = [m \in RevMotors |->
                    [held |-> [p \in PIDParameters |-> 0], command |-> 0, periods |-> {}]]
    /\ failed = {}
    /\ requests = 0

(* A place in the table is an index below 8: REV_MOTOR8 stops the program. *)
Fits(m) ==
    /\ RevIdentifier[m] < REV_MOTORS_PER_CAN
    /\ \A other \in managed :
        RevCanBus[other] = RevCanBus[m] => RevIdentifier[other] # RevIdentifier[m]

Frames == <<"Period0", "Period1", "Period2", "Period3", "Period4">>

setPeriodicStatusFrame(frame, m) ==
    [id |-> CreateArbitrationControlId(APICommand[frame], m),
     payload |-> IF frame \in {"Period1", "Period2"} THEN 2 ELSE 0]

initialize ==
    \E m \in RevMotors :
        /\ requests < MaxRequests /\ Fits(m)
        /\ requests' = requests + 1
        /\ managed' = managed \union {m}
        /\ paramQueue' = [paramQueue EXCEPT ![m] =
                @ \o [i \in 1 .. 5 |-> setPeriodicStatusFrame(Frames[i], m)]]
        /\ UNCHANGED <<asked, spark, failed>>

setParameter(name, slot, value, m) ==
    [id |-> CreateArbitrationParameterId(Parameter(name, slot), m), payload |-> value]

PIDOrder == <<"kP", "kI", "kD", "kF", "kIZone", "kDFilter", "kOutputMax", "kOutputMin">>

(* Mutant: the last slot is a copy of the first one's. *)
PushedForSlot0(slot, config, m) ==
    [i \in 1 .. 8 |-> setParameter(PIDOrder[i], 0, config, m)]

Pushed(slot, config, m) ==
    [i \in 1 .. 8 |-> setParameter(PIDOrder[i], slot, config, m)]

(* Each call has a configuration of its own. *)
setMotorPID ==
    \E m \in RevMotors, slot \in Slots :
        /\ requests < MaxRequests
        /\ requests' = requests + 1
        /\ paramQueue' = [paramQueue EXCEPT ![m] = @ \o Pushed(slot, requests', m)]
        /\ asked' = [asked EXCEPT ![m] = [p \in PIDParameters |->
                IF p \in {Parameter(n, slot) : n \in DOMAIN ParameterIndex}
                THEN requests' ELSE asked[m][p]]]
        /\ UNCHANGED <<managed, spark, failed>>

(* The smart modes have no message of their own. *)
controlModeToAPI(mode) ==
    IF mode \in {"VELOCITY", "POSITION", "VOLTAGE", "CURRENT"}
    THEN APICommand[mode] ELSE APICommand["DUTY_CYCLE"]

(* With the mode that the program set last, which is any. *)
createRevCanMessage(m, mode) ==
    IF paramQueue[m] # <<>> THEN Head(paramQueue[m])
    ELSE [id |-> CreateArbitrationControlId(controlModeToAPI(mode), m),
          payload |-> 0]

(* External: what a controller makes of a message of its bus. *)
Api(message) == (message.id \div 64) % 1024
Names(message, m) == message.id % 64 = RevIdentifier[m]

Obeyed(s, message) ==
    IF Api(message) - 768 \in PIDParameters
    THEN [s EXCEPT !.held[Api(message) - 768] = message.payload]
    ELSE IF Api(message) \in {APICommand[Frames[i]] : i \in 1 .. 5}
    THEN [s EXCEPT !.periods = @ \union {Api(message)}]
    ELSE [s EXCEPT !.command = Api(message)]

(* Mutant: the newest message is taken out. *)
RestNewestFirst(queue) == Front(queue)

Rest(queue) == Tail(queue)

(* The message is out of the queue before it is sent, and one that could not
   be sent is an error and is not sent again. *)
encodeAndSendCanData ==
    \E ready \in SUBSET Buses, mode \in ControlModes :
        LET sending == {m \in managed : RevCanBus[m] \in ready}
        IN  \E lost \in SUBSET sending :
                /\ paramQueue' = [m \in RevMotors |->
                        IF m \in sending /\ paramQueue[m] # <<>>
                        THEN Rest(paramQueue[m]) ELSE paramQueue[m]]
                /\ spark' = [m \in RevMotors |->
                        LET senders == {n \in sending \ lost :
                                           /\ RevCanBus[n] = RevCanBus[m]
                                           /\ Names(createRevCanMessage(n, mode), m)}
                        IN  IF senders = {} \/ m \in failed THEN spark[m]
                            ELSE Obeyed(spark[m], createRevCanMessage(CHOOSE n \in senders : TRUE, mode))]
                /\ failed' = failed \union lost
                /\ UNCHANGED <<managed, asked, requests>>

(* Of a motor that is destructed: whoever holds its place leaves the table. *)
removeFromMotorManager ==
    \E m \in RevMotors :
        /\ managed' = {other \in managed : \/ RevCanBus[other] # RevCanBus[m]
                                           \/ RevIdentifier[other] # RevIdentifier[m]}
        /\ managed' # managed
        /\ UNCHANGED <<paramQueue, asked, spark, failed, requests>>

(* Mutant: only the frame is compared. *)
FrameOfAnyone(frame, id, m) ==
    (id \div 64) % 1024 = APICommand[frame]

FrameOf(frame, id, m) == id = CreateArbitrationControlId(APICommand[frame], m)

(* A frame that a device reports reaches the motors of its bin (CanRxHandler);
   what they store it as. *)
processMessage(bus, device, reported) ==
    LET id == SparkMax + APICommand[reported] * 64 + device
    IN  {s \in managed \X Range(Frames) :
            RevCanBus[s[1]] = bus /\ RevIdentifier[s[1]] = id % 8 /\ FrameOf(s[2], id, s[1])}

Stopped == -1

ReportInit ==
    /\ motorDisconnectTimeout = [m \in RevMotors |-> Stopped]
    /\ encoderDisconnectTimeout = [m \in RevMotors |-> Stopped]
    /\ silence = [m \in RevMotors |->
                      [all |-> MOTOR_DISCONNECT_TIME, shaft |-> MOTOR_DISCONNECT_TIME]]
    /\ heartbeat = [due |-> {}, heard |-> {}]

(* Time left or passed, to the end of the timeout. *)
Restarted(timeouts, motors) ==
    [m \in RevMotors |-> IF m \in motors THEN MOTOR_DISCONNECT_TIME ELSE timeouts[m]]
Sooner(left) == IF left > 0 THEN left - 1 ELSE left
Later(passed) == IF passed < MOTOR_DISCONNECT_TIME THEN passed + 1 ELSE passed

(* A controller reports one of the frames, or answers something else.  Every
   message of its bin restarts the timeout of a motor, before it is looked at;
   the frames about the shaft are handed to the encoder, whose timeout each of
   them restarts. *)
AboutShaft == {"Period1", "Period2"}

(* Mutant: every message is handed to the encoder. *)
HandedOverAll(reached, id) == reached

HandedOver(reached, id) == {m \in reached : \E f \in AboutShaft : FrameOf(f, id, m)}

Report ==
    \E m \in RevMotors, reported \in DOMAIN APICommand :
        LET id == CreateArbitrationControlId(APICommand[reported], m)
            reached == {n \in managed :
                           RevCanBus[n] = RevCanBus[m] /\ RevIdentifier[n] = id % 8}
        IN  /\ motorDisconnectTimeout' = Restarted(motorDisconnectTimeout, reached)
            /\ encoderDisconnectTimeout' =
                   Restarted(encoderDisconnectTimeout, HandedOver(reached, id))
            /\ silence' = IF m \notin managed THEN silence ELSE
                   [silence EXCEPT ![m].all = 0,
                                   ![m].shaft = IF reported \in AboutShaft THEN 0 ELSE @]
            /\ UNCHANGED <<revVars, heartbeat>>

TimePasses ==
    /\ motorDisconnectTimeout' = [m \in RevMotors |-> Sooner(motorDisconnectTimeout[m])]
    /\ encoderDisconnectTimeout' = [m \in RevMotors |-> Sooner(encoderDisconnectTimeout[m])]
    /\ silence' = [m \in RevMotors |-> [all |-> Later(silence[m].all),
                                         shaft |-> Later(silence[m].shaft)]]
    /\ UNCHANGED <<revVars, heartbeat>>

(* Neither expired nor stopped. *)
isMotorOnline(m) == motorDisconnectTimeout[m] > 0
isEncoderOnline(m) == encoderDisconnectTimeout[m] > 0

constructRevMotorHeartBeat(m) ==
    [id |-> CreateArbitrationControlId(APICommand["Heartbeat"], m), payload |-> 255]

(* Mutant: one message is sent on each bus. *)
ToReachOneOfBus(ready) ==
    {m \in managed : /\ RevCanBus[m] \in ready
                     /\ \A n \in managed : RevCanBus[n] = RevCanBus[m] =>
                                               RevIdentifier[m] <= RevIdentifier[n]}

ToReach(ready) == {m \in managed : RevCanBus[m] \in ready}

(* The program's own turn of them; a bus that is not ready is left out. *)
heartBeat ==
    \E ready \in SUBSET Buses : \E lost \in SUBSET ToReach(ready) :
        /\ heartbeat' =
               [due |-> {m \in managed \ lost : RevCanBus[m] \in ready},
                heard |-> {m \in RevMotors : \E n \in ToReach(ready) \ lost :
                              /\ RevCanBus[n] = RevCanBus[m]
                              /\ Names(constructRevMotorHeartBeat(n), m)
                              /\ Api(constructRevMotorHeartBeat(n)) = APICommand["Heartbeat"]}]
        /\ UNCHANGED <<revVars, motorDisconnectTimeout, encoderDisconnectTimeout, silence>>

Listening ==
    \/ initialize /\ UNCHANGED reportVars
    \/ Report \/ TimePasses \/ heartBeat

Next ==
    \/ initialize \/ setMotorPID
    \/ encodeAndSendCanData \/ removeFromMotorManager

Settled(m) == m \notin failed /\ paramQueue[m] = <<>>

(* A controller that a program configured holds, once the motor's queue has run
   empty, what it was asked to hold last, parameter by parameter, unless a
   message was lost (rev_motor.cpp:159-208, 252-300): the settings of several
   calls do not overtake one another, and those of the motors of one bus do not
   reach each other's controllers. *)
ConfiguredAsAsked == \A m \in RevMotors : Settled(m) => spark[m].held = asked[m]

(* A controller has its five frames configured before it obeys a command
   (rev_motor.cpp:67-77, 277-300), whatever the program asks for first. *)
ConfiguredBeforeCommanded ==
    \A m \in RevMotors \ failed :
        spark[m].command # 0 => spark[m].periods = {APICommand[f] : f \in Range(Frames)}

(* What a motor stores is a frame that its own controller reported, and in the
   place of that frame (rev_motor.cpp:79-127). *)
StoresItsOwn ==
    \A bus \in Buses, device \in {1, 7, 9}, frame \in Range(Frames) :
        \A s \in processMessage(bus, device, frame) :
            s[2] = frame /\ RevCanBus[s[1]] = bus /\ RevIdentifier[s[1]] = device

(* A motor is online as long as its own controller, and no other one, reported
   anything within the time (rev_motor.cpp:79-136), its encoder as long as it
   reported the shaft (rev_motor_encoder.cpp:17-48): so an encoder that is online
   is one of a motor that is. *)
OnlineAsReported ==
    \A m \in RevMotors :
        /\ isMotorOnline(m) <=> silence[m].all < MOTOR_DISCONNECT_TIME
        /\ isEncoderOnline(m) <=> silence[m].shaft < MOTOR_DISCONNECT_TIME
        /\ isEncoderOnline(m) => isMotorOnline(m)

(* A heartbeat reaches the controllers of all motors in the tables whose bus is
   ready, and none beside them (rev_motor_tx_handler.cpp:116-155). *)
HeartbeatsReachAll == heartbeat.heard = heartbeat.due

SparksConfigured == ConfiguredAsAsked /\ ConfiguredBeforeCommanded /\ StoresItsOwn
=============================================================================
