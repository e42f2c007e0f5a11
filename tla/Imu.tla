-------------------------------- MODULE Imu --------------------------------
(***************************************************************************)
(* src/tap/communication/sensors/imu: AbstractIMU, which calibrates a      *)
(* sensor and feeds a filter, and the two sensors a robot has, Bmi088 and  *)
(* Mpu6500, with the conversation that sets their registers up.            *)
(*                                                                         *)
(* A sample is one number; the filter, the mounting transform, the scales  *)
(* and the heater are left out.  The program calls read() and              *)
(* periodicIMUUpdate() each at its own times.                              *)
(***************************************************************************)
EXTENDS Integers, Sequences

CONSTANTS
    Samples,           \* what the sensor may measure
    offsetSampleCount, \* of a calibration
    MaxCalibrations    \* bounds the calls of requestCalibration()

VARIABLES
    chip,               \* "bmi088" or "mpu6500"
    broken,             \* the registers that do not keep what is written to them
    sensor,             \* its registers, and whether the accelerometer listens to SPI
    imuState, calibrationSample,
    raw, imuOffset,     \* the last sample, and what is subtracted from the next one
    data,               \* what the getters return
    taken,              \* history: the samples of this calibration, or of the last one
    ofPartialSum,       \* history: data was computed with a sum for an offset
    calibrations        \* calls of requestCalibration()

imuVars == <<chip, broken, sensor, imuState, calibrationSample, raw, imuOffset, data, taken,
             ofPartialSum, calibrations>>

AccWanted == [ACC_PWR_CTRL |-> "on", ACC_CONF |-> "rate", ACC_RANGE |-> "range"]
GyroWanted == [GYRO_RANGE |-> "range", GYRO_BANDWIDTH |-> "rate", GYRO_LPM1 |-> "normal"]
Ids == {"ACC_CHIP_ID", "GYRO_CHIP_ID", "WHO_AM_I"}
MpuWanted == [PWR_MGMT_1 |-> "clock", PWR_MGMT_2 |-> "all", CONFIG |-> "filter",
              GYRO_CONFIG |-> "range", ACCEL_CONFIG |-> "range", ACCEL_CONFIG_2 |-> "filter",
              USER_CTRL |-> "spi"]
AccRegisters == DOMAIN AccWanted \union {"ACC_CHIP_ID"}
GyroRegisters == DOMAIN GyroWanted \union {"GYRO_CHIP_ID"}
MpuRegisters == DOMAIN MpuWanted \union {"WHO_AM_I"}
Registers == AccRegisters \union GyroRegisters \union MpuRegisters

Wanted == [r \in Registers |->
    IF r \in Ids THEN "id" ELSE IF r \in DOMAIN AccWanted THEN AccWanted[r]
    ELSE IF r \in DOMAIN GyroWanted THEN GyroWanted[r] ELSE MpuWanted[r]]

(* External: a register after power-up, and what a broken one holds. *)
PowerUp(r) == IF r \in broken THEN "garbage" ELSE IF r \in Ids THEN "id" ELSE "reset"

Init ==
    /\ chip \in {"bmi088", "mpu6500"}
    /\ broken \in {{}} \union {{r} : r \in IF chip = "bmi088"
                                          THEN AccRegisters \union GyroRegisters ELSE MpuRegisters}
    /\ sensor = [held |-> [r \in Registers |-> PowerUp(r)], spi |-> FALSE]
    /\ imuState = "IMU_NOT_CONNECTED"
    /\ calibrationSample = 0
    /\ raw = 0 /\ imuOffset = 0 /\ data = 0
    /\ taken = <<>> /\ ofPartialSum = FALSE /\ calibrations = 0

-----------------------------------------------------------------------------
(* bmi088_hal.hpp.  External: the accelerometer answers an address with a byte
   of no meaning before the register, and its first transfer selects SPI. *)
AccBytes(s, r) == IF s.spi THEN <<"none", s.held[r]>> ELSE <<"none", "none">>
GyroBytes(s, r) == <<s.held[r]>>

(* Mutant: takes the byte that comes first. *)
AccReadFirstByte(s, r) == AccBytes(s, r)[1]

bmi088AccReadSingleReg(s, r) == AccBytes(s, r)[2]
bmi088GyroReadSingleReg(s, r) == GyroBytes(s, r)[1]

Transferred(s) == [s EXCEPT !.spi = TRUE]

bmi088WriteSingleReg(s, r, value) ==
    [Transferred(s) EXCEPT !.held[r] = IF r \in broken \/ r \in Ids THEN @ ELSE value]

(* setAndCheckAccRegister() and setAndCheckGyroRegister(), of one register
   after the other: the writes, and whether each is read back. *)
SetAndCheck(s, registers) ==
    [held |-> [r \in Registers |-> IF r \in registers \ (broken \union Ids) THEN Wanted[r]
                                  ELSE s.held[r]],
     spi |-> TRUE]

Checked(s, registers) ==
    \A r \in registers :
        (IF r \in AccRegisters THEN bmi088AccReadSingleReg(s, r)
         ELSE bmi088GyroReadSingleReg(s, r)) = Wanted[r]

(* Mutant: the accelerometer is not woken up by a transfer that it ignores. *)
AwakeAtOnce(s) == s

(* The reads of ACC_CHIP_ID, around the write that turns the accelerometer on. *)
Awake(s) == bmi088WriteSingleReg(Transferred(s), "ACC_PWR_CTRL", Wanted["ACC_PWR_CTRL"])

initializeAcc(s) ==
    LET awake == Awake(s)
        configured == SetAndCheck(awake, {"ACC_CONF", "ACC_RANGE"})
    IN  IF bmi088AccReadSingleReg(awake, "ACC_CHIP_ID") # "id"
        THEN [sensor |-> awake, connected |-> FALSE]
        ELSE [sensor |-> configured, connected |-> Checked(configured, {"ACC_CONF", "ACC_RANGE"})]

(* A soft reset comes first.  After a wrong identifier it goes on. *)
initializeGyro(s) ==
    LET reset == [s EXCEPT !.held = [r \in Registers |->
                    IF r \in DOMAIN GyroWanted THEN PowerUp(r) ELSE @[r]]]
        configured == SetAndCheck(reset, DOMAIN GyroWanted)
    IN  [sensor |-> configured,
         connected |-> /\ bmi088GyroReadSingleReg(reset, "GYRO_CHIP_ID") = "id"
                       /\ Checked(configured, DOMAIN GyroWanted)]

BmiInitialized ==
    LET acc == initializeAcc(sensor)
        gyro == initializeGyro(acc.sensor)
    IN  [sensor |-> gyro.sensor, connected |-> acc.connected /\ gyro.connected]

(* A wrong identifier raises an error and leaves the state as it is. *)
MpuInitialized ==
    LET reset == [sensor EXCEPT !.held = [r \in Registers |-> PowerUp(r)]]
    IN  [sensor |-> IF reset.held["WHO_AM_I"] # "id" THEN reset
                    ELSE SetAndCheck(reset, DOMAIN MpuWanted),
         connected |-> TRUE]

initialize ==
    LET done == IF chip = "bmi088" THEN BmiInitialized ELSE MpuInitialized
    IN  /\ sensor' = done.sensor
        /\ imuState' = IF done.connected THEN "IMU_NOT_CALIBRATED" ELSE "IMU_NOT_CONNECTED"
        /\ UNCHANGED <<chip, broken, calibrationSample, raw, imuOffset, data, taken, ofPartialSum,
                       calibrations>>

-----------------------------------------------------------------------------
(* Mutant: the sums of the last calibration stay. *)
OffsetsKept == imuOffset

resetOffsets == 0

requestCalibration ==
    /\ calibrations < MaxCalibrations
    /\ imuState \in {"IMU_NOT_CALIBRATED", "IMU_CALIBRATED"}
    /\ imuOffset' = resetOffsets
    /\ calibrationSample' = 0
    /\ imuState' = "IMU_CALIBRATING"
    /\ taken' = <<>>
    /\ calibrations' = calibrations + 1
    /\ UNCHANGED <<chip, broken, sensor, raw, data, ofPartialSum>>

(* Mutant: stops one sample later. *)
EnoughPlusOne(count) == count > offsetSampleCount

Enough(count) == count >= offsetSampleCount

computeOffsets ==
    LET sum == imuOffset + raw
        done == Enough(calibrationSample + 1)
    IN  /\ calibrationSample' = IF done THEN 0 ELSE calibrationSample + 1
        /\ imuOffset' = IF done THEN sum \div offsetSampleCount ELSE sum
        /\ imuState' = IF done THEN "IMU_CALIBRATED" ELSE imuState
        /\ taken' = Append(taken, raw)
        /\ UNCHANGED <<chip, broken, sensor, raw, data, ofPartialSum, calibrations>>

(* Otherwise the filter is fed with data, which changes nothing here. *)
periodicIMUUpdate == imuState = "IMU_CALIBRATING" /\ computeOffsets

(* Of both sensors; when the read timer executes.  Mpu6500::read() waits for
   the transfer, and computes after the last wait. *)
read ==
    \E sample \in Samples :
        /\ raw' = sample
        /\ data' = sample - imuOffset
        /\ ofPartialSum' = (imuState = "IMU_CALIBRATING" /\ calibrationSample > 0)
        /\ UNCHANGED <<chip, broken, sensor, imuState, calibrationSample, imuOffset, taken,
                       calibrations>>

(* A program that sets an offset itself does so before it calibrates. *)
setGyroOffset ==
    \E offset \in Samples :
        /\ imuState # "IMU_CALIBRATING"
        /\ taken = <<>>
        /\ imuOffset' = offset
        /\ UNCHANGED <<chip, broken, sensor, imuState, calibrationSample, raw, data, taken,
                       ofPartialSum, calibrations>>

Next ==
    \/ initialize /\ calibrations = 0
    \/ requestCalibration \/ periodicIMUUpdate \/ read \/ setGyroOffset

-----------------------------------------------------------------------------
(* A Bmi088 that was initialized is connected if and only if every register
   that is checked answers as it must, and then it is configured
   (bmi088.cpp:47-141): a failure anywhere is not overwritten by what goes well
   after it, and a healthy sensor is found although its accelerometer ignores
   the first transfer and delays every answer by a byte. *)
ConnectedIsConfigured ==
    chip = "bmi088" =>
        /\ imuState # "IMU_NOT_CONNECTED" =>
            \A r \in (AccRegisters \union GyroRegisters) \ {"ACC_PWR_CTRL"} :
                sensor.held[r] = Wanted[r]
        /\ sensor.spi /\ broken = {} => imuState # "IMU_NOT_CONNECTED"

Total(s) ==
    LET sum[n \in 0 .. Len(s)] == IF n = 0 THEN 0 ELSE sum[n - 1] + s[n]
    IN  sum[Len(s)]

(* A calibration ends with the mean of exactly the samples that were there at
   its updates (abstract_imu.cpp:79-95), also when it is repeated and whatever
   the offsets were before. *)
OffsetIsMean ==
    /\ imuState = "IMU_CALIBRATED" =>
        /\ Len(taken) = offsetSampleCount
        /\ imuOffset = Total(taken) \div offsetSampleCount
    /\ imuState = "IMU_CALIBRATING" => Len(taken) < offsetSampleCount

(* "When calibrated, the IMU data is valid" (abstract_imu.hpp:72): none of it
   was computed with the sum that a calibration had come to. *)
CalibratedIsValid == imuState = "IMU_CALIBRATED" => ~ofPartialSum
=============================================================================
