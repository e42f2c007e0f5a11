---------------------------- MODULE Controllers ----------------------------
(***************************************************************************)
(* What a robot program computes with in every loop: src/tap/algorithms    *)
(* (SmoothPid, FuzzyPD with its rule table, DiscreteFilter, the two linear *)
(* predictors, interpolateLinear2D, Odometry2DTracker), the PowerLimiter   *)
(* of src/tap/control/chassis and the Servo of src/tap/motor.              *)
(*                                                                         *)
(* Each is an object of its own; a behaviour uses one.  Numbers are        *)
(* integers and what the code divides is kept as a fraction [num, den];    *)
(* directions are quarter turns.  The configuration of a SmoothPid stays   *)
(* and its Kalman filters have no measurement noise, which is the default: *)
(* they return what they are given.                                        *)
(***************************************************************************)
EXTENDS Integers, Sequences, FiniteSetsExt, SequencesExt

CONSTANTS
    PidConfigs, PidErrors,        \* even errors, so that a difference is halved exactly
    FilterCoefficients,           \* [natural, forced], divided by natural[1] exactly
    FilterInputs,
    Circles, Rates,               \* of the signal that is predicted; no circle: 0
    FuzzyScale, FuzzyParams,      \* an error of FuzzyScale is maxError
    Powers, PowerBuffers, PowerLimit, LimitThreshold, CritThreshold,
    Drives, DriveReach,           \* what the chassis does between two updates
    Override,                     \* the position that the program sets
    FullPwm,                      \* what the fraction 1 of a period is
    Servos,                       \* [maximumPwm, minimumPwm, pwmRampSpeed] it is constructed with
    PwmTargets,
    LoopTime, MaxSteps            \* bounds the time, and the calls since the last reset

VARIABLES
    runs,       \* the object that is used
    config, pid,
    filter, steady,     \* history: what the filter was filled with
    fed,        \* history: what was given to the controller, filter or predictor
    predictor, rate,
    fuzzy,
    limiter, referee, ratio,
    account,    \* history: what the referee last said, and the energy used since
    tracker, chassis,
    lost, origin,       \* history: what no yaw was known for; where the tracking began
    servo, course,      \* history: the PWM and the time at which the servo got its target
    now

controllerVars == <<config, pid, filter, steady, fed>>
predictorVars == <<predictor, rate, fuzzy>>
limiterVars == <<limiter, referee, ratio, account>>
odometryVars == <<tracker, chassis, lost, origin>>
servoVars == <<servo, course>>
loopVars == <<runs, controllerVars, predictorVars, limiterVars, odometryVars, servoVars, now>>

Abs(x) == IF x < 0 THEN -x ELSE x
Least(x, y) == IF x < y THEN x ELSE y
Greatest(x, y) == IF x > y THEN x ELSE y
Fraction(num, den) == [num |-> num, den |-> den]

limitVal(val, min, max) ==
    IF min > max THEN val ELSE IF val < min THEN min ELSE IF val > max THEN max ELSE val

-----------------------------------------------------------------------------
(* SmoothPid *)

FreshPid == [p |-> 0, i |-> 0, output |-> 0, prevError |-> 0]

Deadened(c, error) ==
    IF Abs(error) < c.errDeadzone THEN 0
    ELSE IF ~c.smoothDeadzone THEN error
    ELSE IF error > 0 THEN error - c.errDeadzone ELSE error + c.errDeadzone

(* Mutant: integrates whatever the output is. *)
WindsUp(c, controller) == TRUE

Integrates(c, controller) == ~(c.antiSaturation /\ Abs(controller.output) >= c.maxOutput)

runController(c, controller, error, errorDerivative, dt) ==
    LET e == Deadened(c, error)
        p == c.kp * e
        i == IF Integrates(c, controller)
             THEN limitVal(controller.i + c.ki * e * dt, -c.maxICumulative, c.maxICumulative)
             ELSE controller.i
        d == IF Abs(e) < c.errorDerivativeFloor THEN 0 ELSE -c.kd * errorDerivative
    IN  [controller EXCEPT !.p = p, !.i = i, !.output = limitVal(p + i + d, -c.maxOutput, c.maxOutput)]

runControllerDerivateError(c, controller, error, dt) ==
    LET length == IF dt = 0 THEN 1 ELSE dt
    IN  runController(c, [controller EXCEPT !.prevError = error], error,
                      (error - controller.prevError) \div length, length)

(* Mutant: the next derivative is still taken from the error before the reset. *)
resetOutput(controller) == [FreshPid EXCEPT !.prevError = controller.prevError]

reset(controller) == FreshPid

RunPid ==
    /\ Len(fed) < MaxSteps
    /\ \E error \in PidErrors, dt \in 0 .. 2 :
           /\ pid' = runControllerDerivateError(config, pid, error, dt)
           /\ fed' = Append(fed, <<error, dt>>)
    /\ UNCHANGED <<config, filter, steady>>

ResetPid == pid' = reset(pid) /\ fed' = <<>> /\ UNCHANGED <<config, filter, steady>>

(* The largest part of an output that does not come from the integral, and
   the most that one step adds to it. *)
LOCAL Swing == LET most == Max({Abs(e) : e \in PidErrors})
               IN  (config.kp + 2 * config.kd + 2 * config.ki) * most

(* SmoothPid stays within its limits, whatever its errors and the times between
   them are (smooth_pid.cpp:44-86). *)
StaysWithinLimits ==
    Abs(pid.output) <= config.maxOutput /\ Abs(pid.i) <= config.maxICumulative

(* A saturated one does not go on winding its integral up, and after reset()
   it is as a new one. *)
NeverWindsUp ==
    /\ config.antiSaturation => Abs(pid.i) <= config.maxOutput + Swing
    /\ pid = FoldLeft(LAMBDA controller, step :
                          runControllerDerivateError(config, controller, step[1], step[2]),
                      FreshPid, fed)

-----------------------------------------------------------------------------
(* DiscreteFilter *)

Filled(value) == LET size == Len(filter.coefficients.natural)
                 IN  [filter EXCEPT !.natural = [n \in 1 .. size |-> value],
                                    !.forced = [n \in 1 .. size |-> value]]

(* Mutant: copies from the front, so that the first value fills the rest. *)
ShiftedForward(values, value) == <<value>> \o [n \in 1 .. Len(values) - 1 |-> values[1]]

Shifted(values, value) == <<value>> \o Front(values)

filterData(dat) ==
    LET c      == filter.coefficients
        size   == Len(c.natural)
        forced == Shifted(filter.forced, dat)
        sum    == FoldLeft(+, 0, [n \in 1 .. size |-> c.forced[n] * forced[n]])
                  - FoldLeft(+, 0, [n \in 1 .. size - 1 |-> c.natural[n + 1] * filter.natural[n]])
    IN  [filter EXCEPT !.forced = forced,
                       !.natural = Shifted(filter.natural, sum \div c.natural[1])]

Filter ==
    /\ Len(fed) < MaxSteps
    /\ \E dat \in FilterInputs :
           /\ filter' = filterData(dat)
           /\ fed' = Append(fed, [x |-> dat, y |-> filter'.natural[1]])
    /\ UNCHANGED <<config, pid, steady>>

(* reset() fills the filter with 0. *)
setSteadyState ==
    /\ \E value \in FilterInputs \union {0} : filter' = Filled(value) /\ steady' = value
    /\ fed' = <<>>
    /\ UNCHANGED <<config, pid>>

LOCAL Past(n, of(_)) == IF n >= 1 THEN of(fed[n]) ELSE steady

(* Every output satisfies the difference equation that the comment of
   filterData() gives, with what came before the first input at steady state. *)
SolvesDifferenceEquation ==
    LET c == filter.coefficients
        Terms(coefficients, first, n, of(_)) ==
            FoldLeft(+, 0, [k \in 1 .. Len(coefficients) |->
                                IF k < first THEN 0 ELSE coefficients[k] * Past(n + 1 - k, of)])
    IN  \A n \in 1 .. Len(fed) :
            c.natural[1] * fed[n].y =
                Terms(c.forced, 1, n, LAMBDA step : step.x) - Terms(c.natural, 2, n, LAMBDA step : step.y)

-----------------------------------------------------------------------------
(* LinearInterpolationPredictor and LinearInterpolationPredictorWrapped, of a
   signal that moves at a constant rate. *)

Wrapped == INSTANCE WrappedFloat

OnCircle(value) == IF predictor.circle = 0 THEN value ELSE value % predictor.circle
Signal == OnCircle(rate * now + 1)

Difference(value) ==
    IF predictor.circle = 0 THEN value - predictor.previousValue
    ELSE Wrapped!minDifference(Wrapped!Wrapped(predictor.previousValue, 0, predictor.circle),
                               Wrapped!Wrapped(value, 0, predictor.circle))

(* Mutant: the next slope is again taken from the first value. *)
MovedOn(value) == [predictor EXCEPT !.lastUpdateCallTime = now]

Updated(value) == [predictor EXCEPT !.lastUpdateCallTime = now, !.previousValue = value]

update ==
    /\ IF now <= predictor.lastUpdateCallTime
       THEN /\ predictor' = [predictor EXCEPT !.slope = Fraction(0, 1)]
            /\ fed' = IF fed = <<>> THEN <<>> ELSE <<"value">>
       ELSE /\ predictor' = [Updated(Signal) EXCEPT
                   !.slope = Fraction(Difference(Signal), now - predictor.lastUpdateCallTime)]
            /\ fed' = <<"value">> \o fed
    /\ UNCHANGED <<rate, fuzzy, config, pid, filter, steady>>

resetPredictor ==
    /\ predictor' = [Updated(Signal) EXCEPT !.slope = Fraction(0, 1)]
    /\ fed' = <<"value">>
    /\ UNCHANGED <<rate, fuzzy, config, pid, filter, steady>>

(* getInterpolatedValue() times the slope's denominator *)
getInterpolatedValue ==
    predictor.slope.num * (now - predictor.lastUpdateCallTime)
        + predictor.previousValue * predictor.slope.den

(* Once two values of a straight line are known, the line is predicted, also
   where it goes round. *)
PredictsLine ==
    Len(fed) >= 2 =>
        LET apart == getInterpolatedValue - Signal * predictor.slope.den
        IN  IF predictor.circle = 0 THEN apart = 0
            ELSE apart % (predictor.circle * predictor.slope.den) = 0

-----------------------------------------------------------------------------
(* FuzzyPD and FuzzyPDRuleTable *)

FuzzyMembers == {"N", "Z", "P"}

performSingleValueFuzzification(value) ==
    [N |-> IF value < 0 THEN Least(-value, FuzzyScale) ELSE 0,
     Z |-> Greatest(FuzzyScale - Abs(value), 0),
     P |-> IF value < 0 THEN 0 ELSE Least(value, FuzzyScale)]

(* The cells of the matrix that speak for the small, medium and large gain. *)
KpCells == <<{<<"Z", "Z">>},
             {<<"Z", "N">>, <<"N", "Z">>, <<"P", "Z">>, <<"Z", "P">>, <<"N", "N">>, <<"P", "P">>},
             {<<"N", "P">>, <<"P", "N">>}>>

KdCells == <<{<<"N", "P">>, <<"P", "N">>, <<"Z", "Z">>},
             {<<"N", "N">>, <<"N", "Z">>, <<"P", "Z">>, <<"P", "P">>},
             {<<"Z", "N">>, <<"Z", "P">>}>>

computeGain(weights, values) ==
    LET weightSum == FoldLeft(+, 0, weights)
    IN  IF weightSum = 0 THEN Fraction(0, 1)
        ELSE Fraction(FoldLeft(+, 0, [n \in 1 .. 3 |-> weights[n] * values[n]]), weightSum)

(* Mutant: one case of the rules is forgotten. *)
performDefuzzificationWithoutPP(cells, matrix, params) ==
    computeGain([n \in 1 .. 3 |-> Max({0} \union {matrix[cell] : cell \in cells[n] \ {<<"P", "P">>}})],
                params)

performDefuzzification(cells, matrix, params) ==
    computeGain([n \in 1 .. 3 |-> Max({matrix[cell] : cell \in cells[n]})], params)

performFuzzyUpdate(e, d) ==
    LET members == [error |-> performSingleValueFuzzification(e),
                    derivative |-> performSingleValueFuzzification(d)]
        matrix  == [cell \in FuzzyMembers \X FuzzyMembers |->
                        Least(members.error[cell[1]], members.derivative[cell[2]])]
    IN  [kp |-> performDefuzzification(KpCells, matrix, FuzzyParams),
         kd |-> performDefuzzification(KdCells, matrix, FuzzyParams)]

(* FuzzyPD::runController: the gains are those of the limited inputs. *)
UpdateGains ==
    /\ \E error, derivative \in -(FuzzyScale + 1) .. FuzzyScale + 1 :
           fuzzy' = [error |-> error, derivative |-> derivative,
                     gains |-> performFuzzyUpdate(limitVal(error, -FuzzyScale, FuzzyScale),
                                                  limitVal(derivative, -FuzzyScale, FuzzyScale))]
    /\ UNCHANGED <<predictor, rate>>

(* Whatever the error does some rule applies, so that a gain is between the
   smallest and the largest of its parameters; and left is like right. *)
RulesCoverErrors ==
    LET Fits(gain) == /\ Min(Range(FuzzyParams)) * gain.den <= gain.num
                      /\ gain.num <= Max(Range(FuzzyParams)) * gain.den
        Limited(value) == limitVal(value, -FuzzyScale, FuzzyScale)
    IN  /\ Fits(fuzzy.gains.kp) /\ Fits(fuzzy.gains.kd)
        /\ fuzzy.gains = performFuzzyUpdate(-Limited(fuzzy.error), -Limited(fuzzy.derivative))
        /\ fuzzy.error >= FuzzyScale /\ fuzzy.derivative <= -FuzzyScale =>
               fuzzy.gains.kp = Fraction(FuzzyParams[3] * FuzzyScale, FuzzyScale)

-----------------------------------------------------------------------------
(* interpolateLinear2D, times dx * dy *)

(* Mutant: the two values that are next to the corner are exchanged. *)
WeightedCrosswise(q11, q12, q21, q22, x2x, xx1, y2y, yy1) ==
    q11 * x2x * y2y + q12 * xx1 * y2y + q21 * x2x * yy1 + q22 * xx1 * yy1

Weighted(q11, q12, q21, q22, x2x, xx1, y2y, yy1) ==
    q11 * x2x * y2y + q21 * xx1 * y2y + q12 * x2x * yy1 + q22 * xx1 * yy1

interpolateLinear2D(values, grid, xDes, yDes) ==
    LET x  == limitVal(xDes, grid.xMin, grid.xMax)
        y  == limitVal(yDes, grid.yMin, grid.yMax)
        i  == limitVal((x - grid.xMin) \div grid.dx, 0, Len(values) - 2)
        j  == limitVal((y - grid.yMin) \div grid.dy, 0, Len(values[1]) - 2)
        x1 == grid.xMin + i * grid.dx
        y1 == grid.yMin + j * grid.dy
    IN  Weighted(values[i + 1][j + 1], values[i + 1][j + 2], values[i + 2][j + 1], values[i + 2][j + 2],
                 x1 + grid.dx - x, x - x1, y1 + grid.dy - y, y - y1)

LOCAL Grid == [xMin |-> -2, xMax |-> 4, dx |-> 3, yMin |-> 0, yMax |-> 6, dy |-> 2]
LOCAL Surface(x, y) == 2 * x * y - 3 * x + y
LOCAL Table == [i \in 1 .. 3 |-> [j \in 1 .. 4 |->
                   Surface(Grid.xMin + (i - 1) * Grid.dx, Grid.yMin + (j - 1) * Grid.dy)]]

(* A surface that is straight in both directions is met everywhere in the
   table, also on its edges, and beyond them the value of the edge. *)
MeetsSurface ==
    interpolateLinear2D(Table, Grid, fuzzy.error, fuzzy.derivative)
        = Grid.dx * Grid.dy * Surface(limitVal(fuzzy.error, Grid.xMin, Grid.xMax),
                                      limitVal(fuzzy.derivative, Grid.yMin, Grid.yMax))

-----------------------------------------------------------------------------
(* PowerLimiter.  The referee's limit changes with robot data only, whose
   first use replaces the buffer; here it stays.  Energies are in units of one
   power times one unit of time. *)

FreshLimiter == [energyBuffer |-> LimitThreshold, consumedPower |-> 0, prevTime |-> 0,
                 prevRobotDataReceivedTimestamp |-> 0]

(* Mutant: charges the time since the last call with the power of now. *)
ChargedAtOnce(power) == (power - PowerLimit) * (now - limiter.prevTime)

Charged(power) == (limiter.consumedPower - PowerLimit) * (now - limiter.prevTime)

updatePowerAndEnergyBuffer(power) ==
    LET isNew == referee.robotDataReceivedTimestamp # limiter.prevRobotDataReceivedTimestamp
    IN  /\ limiter' = [energyBuffer |-> IF isNew THEN referee.powerBuffer
                                        ELSE limiter.energyBuffer - Charged(power),
                       consumedPower |-> power, prevTime |-> now,
                       prevRobotDataReceivedTimestamp |-> referee.robotDataReceivedTimestamp]
        /\ account' = IF isNew THEN [heard |-> referee.powerBuffer, used |-> 0] ELSE account

Ratio(energyBuffer) ==
    IF energyBuffer < LimitThreshold THEN limitVal(energyBuffer - CritThreshold, 0, LimitThreshold)
    ELSE LimitThreshold

(* times energyBufferLimitThreshold *)
getPowerLimitRatio ==
    /\ IF ~referee.receiving
       THEN ratio' = LimitThreshold /\ UNCHANGED <<limiter, account>>
       ELSE \E power \in Powers :
                /\ updatePowerAndEnergyBuffer(power)
                /\ ratio' = Ratio(limiter'.energyBuffer)
    /\ UNCHANGED referee

(* External: robot data, another message, or none for a while. *)
Referee ==
    /\ \/ \E powerBuffer \in PowerBuffers :
              referee' = [receiving |-> TRUE, robotDataReceivedTimestamp |-> now,
                          powerBuffer |-> powerBuffer]
       \/ referee' = [referee EXCEPT !.receiving = ~@]
    /\ UNCHANGED <<limiter, ratio, account>>

(* The buffer is what the referee last said it is, less the energy used
   beyond the limit since: no time is counted twice or left out, however
   irregular the calls are and whether or not the referee was heard. *)
BufferIsBalanced ==
    limiter.energyBuffer - (limiter.consumedPower - PowerLimit) * (now - limiter.prevTime)
        = account.heard - account.used

-----------------------------------------------------------------------------
(* Odometry2DTracker.  modm's Location2D turns a displacement by its
   orientation.  The chassis turns where nothing was driven since the last
   displacement was read: update() is called often enough. *)

Plus(v, w) == <<v[1] + w[1], v[2] + w[2]>>
Minus(v, w) == <<v[1] - w[1], v[2] - w[2]>>
Within(v) == Abs(v[1]) + Abs(v[2]) <= DriveReach

(* External: a displacement of something that faces yaw. *)
Turned(v, yaw) ==
    CASE yaw = 0 -> v [] yaw = 1 -> <<-v[2], v[1]>>
      [] yaw = 2 -> <<-v[1], -v[2]>> [] OTHER -> <<v[2], -v[1]>>

Cos(yaw) == <<1, 0, -1, 0>>[yaw + 1]
Sin(yaw) == <<0, 1, 0, -1>>[yaw + 1]

getVelocityWorldRelative(v, heading) ==
    <<Cos(heading) * v[1] - Sin(heading) * v[2], Sin(heading) * v[1] + Cos(heading) * v[2]>>

Driven == Minus(chassis.displacement, tracker.prevChassisAbsoluteDisplacement)

(* Mutant: moves before the orientation is set. *)
MovedFirst(read) ==
    [read EXCEPT !.location = Plus(@, Turned(Driven, tracker.chassisYaw)),
                 !.velocity = getVelocityWorldRelative(chassis.velocity, read.chassisYaw)]

Moved(read) ==
    [read EXCEPT !.location = Plus(@, Turned(Driven, read.chassisYaw)),
                 !.velocity = getVelocityWorldRelative(chassis.velocity, read.chassisYaw)]

updateOdometry(validDisplacement, validOrientation) ==
    LET read == IF validOrientation THEN [tracker EXCEPT !.chassisYaw = chassis.yaw] ELSE tracker
    IN  tracker' = IF ~validDisplacement THEN read
                   ELSE [IF read.displacementPrimed /\ validOrientation THEN Moved(read) ELSE read
                            EXCEPT !.displacementPrimed = TRUE,
                                   !.prevChassisAbsoluteDisplacement = chassis.displacement]

UpdateOdometry ==
    \E validDisplacement, validOrientation \in BOOLEAN :
        /\ updateOdometry(validDisplacement, validOrientation)
        /\ LET behind == Turned(Driven, chassis.yaw)
           IN  /\ origin' = IF validDisplacement /\ ~tracker.displacementPrimed
                            THEN Minus(chassis.position, tracker.location) ELSE origin
               /\ lost' = IF validDisplacement /\ tracker.displacementPrimed /\ ~validOrientation
                          THEN Plus(lost, behind) ELSE lost
        /\ Within(lost') /\ UNCHANGED chassis

overrideOdometryPosition ==
    /\ tracker.location # Override
    /\ tracker' = [tracker EXCEPT !.location = Override]
    /\ origin' = Plus(origin, Minus(tracker.location, Override))
    /\ UNCHANGED <<chassis, lost>>

(* External: the chassis drives in the direction it faces, or turns. *)
Chassis ==
    /\ \/ \E drive \in Drives :
              chassis' = [chassis EXCEPT
                             !.displacement = Plus(@, drive), !.velocity = drive,
                             !.position = Plus(@, Turned(drive, chassis.yaw))]
       \/ /\ Driven = <<0, 0>>
          /\ chassis' = [chassis EXCEPT !.yaw = (@ + 1) % 4]
    /\ Within(chassis'.displacement) /\ Within(chassis'.position)
    /\ UNCHANGED <<tracker, lost, origin>>

(* The place the tracker reports, what it has yet to read and what was driven
   while no yaw was known make up the place where the chassis is. *)
TracksChassis ==
    tracker.displacementPrimed =>
        chassis.position = Plus(Plus(origin, tracker.location),
                                Plus(lost, Turned(Driven, chassis.yaw)))

-----------------------------------------------------------------------------
(* Servo.  The PWM that is sent is a ramp's. *)

Ramp == INSTANCE Ramp

(* The constructor, which leaves currentPwm as it happens to be. *)
Servo(c) ==
    LET max == limitVal(c.maximumPwm, 0, FullPwm)
        min == limitVal(c.minimumPwm, 0, FullPwm)
    IN  [pwmOutputRamp |-> Ramp!RampAt(0), currentPwm |-> "unset",
         maxPwm |-> IF max < min THEN FullPwm ELSE max, minPwm |-> IF max < min THEN 0 ELSE min,
         pwmRampSpeed |-> c.pwmRampSpeed, prevTime |-> 0]

setTargetPwm(pwm) ==
    /\ servo' = [servo EXCEPT
           !.pwmOutputRamp = Ramp!setTarget(@, limitVal(pwm, servo.minPwm, servo.maxPwm)),
           !.prevTime = now]
    /\ course' = [from |-> servo.pwmOutputRamp.value, at |-> now]

(* Mutant: moves by the time since the target was set, again and again. *)
SteppedFromTarget(ramp) == [servo EXCEPT !.pwmOutputRamp = ramp, !.currentPwm = ramp.value]

Stepped(ramp) == [servo EXCEPT !.pwmOutputRamp = ramp, !.currentPwm = ramp.value, !.prevTime = now]

updateSendPwmRamp ==
    /\ servo' = Stepped(Ramp!update(servo.pwmOutputRamp,
                                    servo.pwmRampSpeed * (now - servo.prevTime)))
    /\ UNCHANGED course

(* However irregular the updates are, a servo moves from where it was when it
   got its target straight towards it at the speed it was given, and says only
   then that it is there (servo.cpp:53-74).  The
   target is within the limits; on the way to the first one the PWM is not,
   since the ramp begins at 0. *)
ServoMovesSteadily ==
    LET ramp == servo.pwmOutputRamp
        gone == servo.pwmRampSpeed * (servo.prevTime - course.at)
        distance == Abs(ramp.target - course.from)
    IN  /\ Abs(ramp.value - course.from) = Least(gone, distance)
        /\ Abs(ramp.target - ramp.value) = distance - Least(gone, distance)
        /\ ramp.targetReached => ramp.value = ramp.target
        /\ servo.prevTime > course.at => (ramp.targetReached <=> ramp.value = ramp.target)
        /\ course.at > 0 => ramp.target \in servo.minPwm .. servo.maxPwm
        /\ servo.prevTime > course.at => servo.currentPwm = ramp.value

-----------------------------------------------------------------------------
Init ==
    /\ runs \in {"pid", "filter", "predictor", "fuzzy", "limiter", "odometry", "servo"}
    /\ config \in PidConfigs /\ (runs # "pid" => config = CHOOSE c \in PidConfigs : TRUE)
    /\ pid = FreshPid
    /\ \E coefficients \in FilterCoefficients :
           /\ filter = [coefficients |-> coefficients, natural |-> <<0, 0, 0>>, forced |-> <<0, 0, 0>>]
           /\ runs # "filter" => coefficients = CHOOSE c \in FilterCoefficients : TRUE
    /\ steady = 0 /\ fed = <<>>
    /\ \E circle \in Circles :
           /\ predictor = [circle |-> circle, lastUpdateCallTime |-> 0, previousValue |-> 0,
                           slope |-> Fraction(0, 1)]
           /\ runs # "predictor" => circle = 0
    /\ rate \in Rates /\ (runs # "predictor" => rate = CHOOSE r \in Rates : TRUE)
    /\ fuzzy = [error |-> 0, derivative |-> 0, gains |-> performFuzzyUpdate(0, 0)]
    /\ limiter = FreshLimiter
    /\ referee = [receiving |-> FALSE, robotDataReceivedTimestamp |-> 0, powerBuffer |-> 0]
    /\ ratio = LimitThreshold /\ account = [heard |-> LimitThreshold, used |-> 0]
    /\ tracker = [displacementPrimed |-> FALSE, prevChassisAbsoluteDisplacement |-> <<0, 0>>,
                  chassisYaw |-> 0, location |-> <<0, 0>>, velocity |-> <<0, 0>>]
    /\ chassis = [position |-> <<0, 0>>, displacement |-> <<0, 0>>, velocity |-> <<0, 0>>, yaw |-> 0]
    /\ lost = <<0, 0>> /\ origin = <<0, 0>>
    /\ \E c \in Servos : servo = Servo(c) /\ (runs # "servo" => c = CHOOSE d \in Servos : TRUE)
    /\ course = [from |-> 0, at |-> 0]
    /\ now = 0

(* Time passes where it matters, and the motors use their power. *)
Tick ==
    /\ runs \in {"predictor", "limiter", "servo"}
    /\ now < LoopTime /\ now' = now + 1
    /\ account' = [account EXCEPT !.used = @ + limiter.consumedPower - PowerLimit]
    /\ UNCHANGED <<runs, controllerVars, predictorVars, limiter, referee, ratio, odometryVars,
                   servoVars>>

UsePid ==
    /\ \/ runs = "pid" /\ (RunPid \/ ResetPid)
       \/ runs = "filter" /\ (Filter \/ setSteadyState)
    /\ UNCHANGED <<runs, predictorVars, limiterVars, odometryVars, servoVars, now>>

UsePredictor ==
    /\ runs = "predictor" /\ (update \/ resetPredictor)
    /\ UNCHANGED <<runs, limiterVars, odometryVars, servoVars, now>>

UseFuzzy ==
    /\ runs = "fuzzy" /\ UpdateGains
    /\ UNCHANGED <<runs, controllerVars, limiterVars, odometryVars, servoVars, now>>

UseLimiter ==
    /\ runs = "limiter" /\ (getPowerLimitRatio \/ Referee)
    /\ UNCHANGED <<runs, controllerVars, predictorVars, odometryVars, servoVars, now>>

UseOdometry ==
    /\ runs = "odometry" /\ (UpdateOdometry \/ overrideOdometryPosition \/ Chassis)
    /\ UNCHANGED <<runs, controllerVars, predictorVars, limiterVars, servoVars, now>>

UseServo ==
    /\ runs = "servo" /\ ((\E pwm \in PwmTargets : setTargetPwm(pwm)) \/ updateSendPwmRamp)
    /\ UNCHANGED <<runs, controllerVars, predictorVars, limiterVars, odometryVars, now>>

Next == UseServo \/ Tick \/ UsePid \/ UsePredictor \/ UseFuzzy \/ UseLimiter \/ UseOdometry

Spec == Init /\ [][Next]_loopVars

-----------------------------------------------------------------------------
(* What the objects keep to, however long they are used. *)
LoopKeeps ==
    /\ runs = "pid" => StaysWithinLimits
    /\ runs = "limiter" => BufferIsBalanced
    /\ runs = "odometry" => TracksChassis
    /\ runs = "servo" => ServoMovesSteadily

(* What they compute of what they were given. *)
LoopComputes ==
    /\ runs = "pid" => NeverWindsUp
    /\ runs = "filter" => SolvesDifferenceEquation
    /\ runs = "predictor" => PredictsLine
    /\ runs = "fuzzy" => RulesCoverErrors /\ MeetsSurface
=============================================================================
