---------------------------- MODULE ImuRegisters ----------------------------
(***************************************************************************)
(* The registers of the sensors Bmi088 and Mpu6500: the bytes a program's  *)
(* settings become, and the numbers the bytes of a measurement become      *)
(* after they were rotated into the frame of the robot and corrected by    *)
(* the offsets of a calibration.  A byte is the set of its bits.           *)
(***************************************************************************)
EXTENDS Integers, FiniteSets, Sequences

CONSTANTS
    Mountings,     \* quarter turns about the three axes, of the sensor on the robot
    Readings,      \* vectors of counts: what the accelerometer and the gyroscope measure
    Temperatures,  \* counts of the thermometer
    MaxReads       \* bounds the reads

VARIABLES
    model,     \* "bmi088" or "mpu6500"
    settings,  \* what the setters were given
    written,   \* address |-> bits, of each of the two parts of a Bmi088
    applied,   \* history: the settings at the initialization
    mounting,  \* the mounting transform a program gave
    measured,  \* what the sensor measured last
    imuData,   \* what that was read as
    calibratedAt,  \* history: the acceleration at the calibration
    reads

registerVars == <<model, settings, written, applied, mounting, measured, imuData, calibratedAt, reads>>

Frames == INSTANCE Transforms WITH
    Vectors <- {}, Turns <- {}, AngularVelocities <- {}, MaxUpdates <- 0,
    transform <- 0, updates <- 0

-----------------------------------------------------------------------------
PowerOf2 == <<1, 2, 4, 8, 16, 32, 64, 128>>
Bits(n) == {i \in 0 .. 7 : (n \div PowerOf2[i + 1]) % 2 = 1}
BIT_SHIFT(bits, shift) == {i + shift : i \in bits}
BIT_MASK(bits, mask) == bits \intersect mask

(* Mutant: the two bytes the other way round. *)
SwappedInt16(low, high) ==
    LET word == high + 256 * low IN IF word > 32767 THEN word - 65536 ELSE word

(* The bytes of a word, and the word of two bytes. *)
Low(word) == word % 256
High(word) == (word % 65536) \div 256
Int16(low, high) ==
    LET word == low + 256 * high IN IF word > 32767 THEN word - 65536 ELSE word

(* Of buff, counted from 0.  The first function has the name of the other. *)
bigEndianInt16ToFloat(buff, i) == Int16(buff[i + 1], buff[i + 2])
LITTLE_ENDIAN_INT16_TO_FLOAT(buff, i) == Int16(buff[i + 2], buff[i + 1])

-----------------------------------------------------------------------------
(* bmi088_data.hpp. *)
GyroRegister == [RATE_X_LSB |-> 2, GYRO_RANGE |-> 15, GYRO_BANDWIDTH |-> 16, GYRO_LPM1 |-> 17]
GyroRange == [DPS2000 |-> 0, DPS1000 |-> 1, DPS500 |-> 2, DPS250 |-> 3, DPS125 |-> 4]
GyroBandwidth ==
    [ODR2000_BANDWIDTH532 |-> 0, ODR2000_BANDWIDTH230 |-> 1, ODR1000_BANDWIDTH116 |-> 2,
     ODR400_BANDWIDTH47 |-> 3, ODR200_BANDWIDTH23 |-> 4, ODR100_BANDWIDTH12 |-> 5,
     ODR200_BANDWIDTH64 |-> 6, ODR100_BANDWIDTH32 |-> 7]
GyroLpm1 == [PWRMODE_NORMAL |-> 0, PWRMODE_SUSPEND |-> 128, PWRMODE_DEEP_SUSPEND |-> 32]
AccRegister == [ACC_X_LSB |-> 18, TEMP_MSB |-> 34, ACC_CONF |-> 64, ACC_RANGE |-> 65,
                ACC_PWR_CTRL |-> 125]
AccBandwidth == [OSR4_OVERSAMPLING |-> 8, OSR2_OVERSAMPLING |-> 9, NORMAL |-> 10]
AccOutputRate == [Hz12_5 |-> 5, Hz25 |-> 6, Hz50 |-> 7, Hz100 |-> 8, Hz200 |-> 9, Hz400 |-> 10,
                  Hz800 |-> 11, Hz1600 |-> 12]
AccRange == [G3 |-> 0, G6 |-> 1, G12 |-> 2, G24 |-> 3]
AccPwrCtrl == [ACCELEROMETER_OFF |-> 0, ACCELEROMETER_ON |-> 4]

(* Mutant: both fields start at bit 0. *)
AccConfUnshifted(s) == Bits(AccBandwidth[s.accOversampling]) \union Bits(AccOutputRate[s.accOutputRate])

AccConf(s) ==
    BIT_SHIFT(Bits(AccBandwidth[s.accOversampling]), 4)
        \union Bits(AccOutputRate[s.accOutputRate])

(* What initialize() writes to a Bmi088. *)
BmiWrites(s) ==
    [acc |-> [r \in {"ACC_CONF", "ACC_RANGE", "ACC_PWR_CTRL"} |->
                 IF r = "ACC_CONF" THEN AccConf(s)
                 ELSE IF r = "ACC_RANGE" THEN Bits(AccRange["G3"])
                 ELSE Bits(AccPwrCtrl["ACCELEROMETER_ON"])],
     gyro |-> [r \in {"GYRO_RANGE", "GYRO_BANDWIDTH", "GYRO_LPM1"} |->
                  IF r = "GYRO_RANGE" THEN Bits(GyroRange["DPS2000"])
                  ELSE IF r = "GYRO_BANDWIDTH" THEN Bits(GyroBandwidth[s.gyroOutputRate]) \union {7}
                  ELSE Bits(GyroLpm1["PWRMODE_NORMAL"])]]

(* mpu6500_config.hpp. *)
MPU6500_CONFIG_DATA ==
    BIT_MASK(BIT_SHIFT(Bits(0), 7), {6})
        \union BIT_MASK(BIT_SHIFT(Bits(0), 3), 3 .. 5)
        \union BIT_MASK(BIT_SHIFT(Bits(2), 0), 0 .. 2)
MPU6500_GYRO_CONFIG_DATA ==
    BIT_MASK(BIT_SHIFT(Bits(3), 3), 3 .. 4) \union BIT_MASK(BIT_SHIFT(Bits(0), 0), 0 .. 1)
MPU6500_ACCEL_CONFIG_DATA == BIT_MASK(BIT_SHIFT(Bits(2), 3), 3 .. 4)
MPU6500_ACCEL_CONFIG_2_DATA ==
    BIT_MASK(BIT_SHIFT(Bits(0), 3), {3}) \union BIT_MASK(BIT_SHIFT(Bits(0), 0), 0 .. 2)

(* Of the eight switches only I2C_MST_EN is on: the third of those listed. *)
MPU6500_USER_CTRL_DATA ==
    UNION {BIT_MASK(BIT_SHIFT(IF switch = 2 THEN Bits(1) ELSE {}, switch), {switch})
               : switch \in 0 .. 7}
MPU6500_PWR_MGMT_1_CLKSEL == Bits(2)

MpuWrites ==
    [CONFIG |-> MPU6500_CONFIG_DATA, GYRO_CONFIG |-> MPU6500_GYRO_CONFIG_DATA,
     ACCEL_CONFIG |-> MPU6500_ACCEL_CONFIG_DATA, ACCEL_CONFIG_2 |-> MPU6500_ACCEL_CONFIG_2_DATA,
     USER_CTRL |-> MPU6500_USER_CTRL_DATA, PWR_MGMT_1 |-> MPU6500_PWR_MGMT_1_CLKSEL,
     PWR_MGMT_2 |-> {}]
MpuRegister == [ACCEL_XOUT_H |-> 59, TEMP_OUT_H |-> 65, GYRO_XOUT_H |-> 67]

-----------------------------------------------------------------------------
Nothing == [accRaw |-> Frames!Zero, gyroRaw |-> Frames!Zero, accOffsetRaw |-> Frames!Zero,
            accCorrected |-> Frames!Zero, temperature |-> 0]

DefaultSettings == [accOversampling |-> "NORMAL", accOutputRate |-> "Hz800",
                    gyroOutputRate |-> "ODR1000_BANDWIDTH116"]

Init ==
    /\ model \in {"bmi088", "mpu6500"}
    /\ settings = DefaultSettings
    /\ written = <<>> /\ applied = <<>>
    /\ mounting = Frames!identity
    /\ measured = [acc |-> Frames!Zero, gyro |-> Frames!Zero, temperature |-> 0]
    /\ imuData = Nothing /\ calibratedAt = Frames!Zero
    /\ reads = 0

(* One of the setters of a Bmi088 is called, before or after initialize().  To
   bound the model only a program that leaves the settings alone reads. *)
setSettings ==
    /\ model = "bmi088" /\ settings = DefaultSettings /\ mounting = Frames!identity /\ reads = 0
    /\ \/ \E s \in DOMAIN AccBandwidth : settings' = [settings EXCEPT !.accOversampling = s]
       \/ \E s \in DOMAIN AccOutputRate : settings' = [settings EXCEPT !.accOutputRate = s]
       \/ \E s \in DOMAIN GyroBandwidth : settings' = [settings EXCEPT !.gyroOutputRate = s]
    /\ UNCHANGED <<model, written, applied, mounting, measured, imuData, calibratedAt, reads>>

initialize ==
    /\ written = <<>>
    /\ written' = IF model = "bmi088" THEN BmiWrites(settings) ELSE MpuWrites
    /\ applied' = settings
    /\ UNCHANGED <<model, settings, mounting, measured, imuData, calibratedAt, reads>>

(* Mutant: the transform itself, not its inverse. *)
MountedAsGiven(t) == t

setMountingTransform(t) == Frames!getInverse(t)

(* Before the calibration.  The variable holds what the program gave. *)
Mount ==
    /\ reads = 0 /\ written # <<>> /\ mounting = Frames!identity
    /\ \E q \in Mountings :
        mounting' = Frames!StaticTransform(Frames!Zero, Frames!fromEulerAngles(q[1], q[2], q[3]))
    /\ UNCHANGED <<model, settings, written, applied, measured, imuData, calibratedAt, reads>>

(* External: the bytes at len addresses from address on. *)
Burst(memory, address, len) == [i \in 1 .. len |-> memory[address + i - 1]]

AccMemory(m) ==
    LET t == m.temperature % 2048
    IN  [a \in AccRegister["ACC_X_LSB"] .. AccRegister["TEMP_MSB"] + 1 |->
            LET at == a - AccRegister["ACC_X_LSB"]
            IN  IF at < 6
                THEN IF at % 2 = 0 THEN Low(m.acc[at \div 2 + 1])
                     ELSE High(m.acc[at \div 2 + 1])
                ELSE IF a = AccRegister["TEMP_MSB"] THEN t \div 8 ELSE (t % 8) * 32]

GyroMemory(m) ==
    [a \in GyroRegister["RATE_X_LSB"] .. GyroRegister["RATE_X_LSB"] + 5 |->
        LET at == a - GyroRegister["RATE_X_LSB"]
        IN  IF at % 2 = 0 THEN Low(m.gyro[at \div 2 + 1])
            ELSE High(m.gyro[at \div 2 + 1])]

MpuMemory(m) ==
    [a \in MpuRegister["ACCEL_XOUT_H"] .. MpuRegister["GYRO_XOUT_H"] + 5 |->
        LET at == (a - MpuRegister["ACCEL_XOUT_H"]) \div 2
            word == IF at < 3 THEN m.acc[at + 1]
                    ELSE IF a < MpuRegister["GYRO_XOUT_H"] THEN m.temperature
                    ELSE m.gyro[at - 3]
        IN  IF (a - MpuRegister["ACCEL_XOUT_H"]) % 2 = 0 THEN High(word) ELSE Low(word)]

(* In eighths of a degree above 23 degrees. *)
parseTemp(tempMsb, tempLsb) ==
    LET temp == tempMsb * 8 + tempLsb \div 32
    IN  IF temp > 1023 THEN temp - 2048 ELSE temp

BmiRead(m) ==
    LET acc == Burst(AccMemory(m), AccRegister["ACC_X_LSB"], 6)
        gyro == Burst(GyroMemory(m), GyroRegister["RATE_X_LSB"], 6)
        temp == Burst(AccMemory(m), AccRegister["TEMP_MSB"], 2)
    IN  [acc |-> <<bigEndianInt16ToFloat(acc, 0), bigEndianInt16ToFloat(acc, 2),
                   bigEndianInt16ToFloat(acc, 4)>>,
         gyro |-> <<bigEndianInt16ToFloat(gyro, 0), bigEndianInt16ToFloat(gyro, 2),
                    bigEndianInt16ToFloat(gyro, 4)>>,
         temperature |-> parseTemp(temp[1], temp[2])]

(* The temperature is not read as a signed number. *)
MpuRead(m) ==
    LET rx == Burst(MpuMemory(m), MpuRegister["ACCEL_XOUT_H"], 14)
    IN  [acc |-> <<LITTLE_ENDIAN_INT16_TO_FLOAT(rx, 0), LITTLE_ENDIAN_INT16_TO_FLOAT(rx, 2),
                   LITTLE_ENDIAN_INT16_TO_FLOAT(rx, 4)>>,
         gyro |-> <<LITTLE_ENDIAN_INT16_TO_FLOAT(rx, 8), LITTLE_ENDIAN_INT16_TO_FLOAT(rx, 10),
                    LITTLE_ENDIAN_INT16_TO_FLOAT(rx, 12)>>,
         temperature |-> rx[7] * 256 + rx[8]]

applyMountingTransformToRaw(v) == Frames!On(setMountingTransform(mounting).tRotation, v)

read ==
    /\ written # <<>> /\ reads < MaxReads /\ settings = DefaultSettings
    /\ reads' = reads + 1
    /\ \E acc, gyro \in Readings, t \in Temperatures :
        measured' = [acc |-> acc, gyro |-> gyro, temperature |-> t]
    /\ LET raw == IF model = "bmi088" THEN BmiRead(measured') ELSE MpuRead(measured')
           accRaw == applyMountingTransformToRaw(raw.acc)
       IN  imuData' = [imuData EXCEPT
               !.accRaw = accRaw, !.gyroRaw = applyMountingTransformToRaw(raw.gyro),
               !.accCorrected = Frames!Minus(accRaw, imuData.accOffsetRaw),
               !.temperature = raw.temperature]
    /\ UNCHANGED <<model, settings, written, applied, mounting, calibratedAt>>

(* In whole counts.  That of a Bmi088 is the weight of one count, 9.81 * 3 /
   32768, where that of an Mpu6500 is the number of counts of 1 g. *)
getAccelerationSensitivity == IF model = "bmi088" THEN (981 * 3) \div (100 * 32768) ELSE 4096

(* A calibration all of whose samples are the last one that was read, with
   the next read (see Imu for those that differ). *)
calibrate ==
    /\ reads > 0 /\ reads < MaxReads /\ calibratedAt = Frames!Zero
    /\ calibratedAt' = imuData.accRaw
    /\ imuData' = [imuData EXCEPT
           !.accOffsetRaw = Frames!Minus(imuData.accRaw, <<0, 0, getAccelerationSensitivity>>),
           !.accCorrected = <<0, 0, getAccelerationSensitivity>>]
    /\ UNCHANGED <<model, settings, written, applied, mounting, measured, reads>>

Next == setSettings \/ initialize \/ Mount \/ read \/ calibrate

-----------------------------------------------------------------------------
(* The number in the bits of a register from one bit to another, four at most. *)
Field(bits, from, to) ==
    LET Weight(i) == IF from + i \in bits /\ from + i <= to THEN PowerOf2[i + 1] ELSE 0
    IN  Weight(0) + Weight(1) + Weight(2) + Weight(3)

(* The chip is set to the rates a program chose before it initialized it, and
   to the ranges that the scales of the driver are made for (bmi088.hpp:60-82,
   mpu6500.hpp:97-113): 3 g and 2000 degrees per second, 8 g and 2000. *)
RangesFitScales ==
    written # <<>> =>
        IF model = "bmi088"
        THEN /\ Field(written.acc["ACC_CONF"], 4, 7) = AccBandwidth[applied.accOversampling]
             /\ Field(written.acc["ACC_CONF"], 0, 3) = AccOutputRate[applied.accOutputRate]
             /\ Field(written.gyro["GYRO_BANDWIDTH"], 0, 2) = GyroBandwidth[applied.gyroOutputRate]
             /\ PowerOf2[Field(written.acc["ACC_RANGE"], 0, 1) + 1] * 3 = 3
             /\ 2000 \div PowerOf2[Field(written.gyro["GYRO_RANGE"], 0, 2) + 1] = 2000
        ELSE /\ PowerOf2[Field(written.ACCEL_CONFIG, 3, 4) + 1] * 2 * 4096 = 32768
             /\ (PowerOf2[Field(written.GYRO_CONFIG, 3, 4) + 1] * 250 * 16384) \div 1000 = 32768
             /\ Field(written.CONFIG, 0, 2) = 2
             /\ Field(written.GYRO_CONFIG, 0, 1) = 0

(* What is read is what was measured, with its sign, on the axes of the robot.
   A temperature of an Mpu6500 below its zero, 21 degrees, is not. *)
ReadsWhatIsMeasured ==
    reads > 0 =>
        /\ imuData.accRaw = Frames!On(mounting.rotation, measured.acc)
        /\ imuData.gyroRaw = Frames!On(mounting.rotation, measured.gyro)
        /\ model = "bmi088" \/ measured.temperature >= 0
               => imuData.temperature = measured.temperature

(* "When calibrated, the IMU data is valid" (abstract_imu.hpp:72): a level
   sensor that feels nothing but its weight then measures 1 g upwards. *)
Counts1G == IF model = "bmi088" THEN 10922 ELSE 4096

WeightIsLeft ==
    calibratedAt = <<0, 0, Counts1G>> /\ imuData.accRaw = calibratedAt
        => imuData.accCorrected = <<0, 0, Counts1G>>

(* That holds for the one of the sensors. *)
WeightIsLeftByMpu == model = "mpu6500" => WeightIsLeft
=============================================================================
