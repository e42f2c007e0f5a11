SPECIFICATION DevicesSpec
CONSTANTS
    dji1 = dji1
    dji1Again = dji1Again
    dji8 = dji8
    rev1 = rev1
    rev8 = rev8
    other = other
    Listeners = {dji1, dji1Again, rev1, rev8, other}
    CanIdentifier <- MCCanIdentifier
    CanBus <- MCCanBus
    Messages <- MCMessages
    QueueSize = 2
    ClockPeriod = 16
    Periods = {1, 2, 3}
    Timeouts = {1, 2, 4}
    Horizon = 10
    Profiles = {foo, bar, baz}
    MAX_PROFILED_ELEMENTS = 2
    CounterAtBoot = 14
    MaxCalls = 3
    ProfilingEnd = 4
    Errors = {e1, e2, e3, e4, e5}
    ERROR_LIST_MAX_SIZE = 4
    Lowers <- MCLowers
    Interval0 = 8
    Amounts <- MCAmounts
    Reach = 20
    EncoderResolution = 5
    HomePositions = {2}
    Offsets = {2}
    RevWord = 7
    ShaftReach = 4
    COUNT = 3
    NullEncoders = {}
    Misalignments = {1, 2, 3}
    one = one
    two = two
    three = three
    four = four
    seven = seven
    Motors = {one, two, three, four}
    MotorIdentifier <- MCMotorIdentifier
    MotorCanBus <- MCMotorCanBus
    MotorInverted = {two, four}
    CurrentControl = {four}
    Doubled = {one, two}
    OutputWord = 8
    Outputs <- MCOutputs
    Torques <- MCTorques
    MotorTemperatures <- MCMotorTemperatures
    RevMotors = {one, seven}
    RevIdentifier <- MCRevIdentifier
    RevCanBus <- MCRevCanBus
    Slots = {3}
    ControlModes = {"VELOCITY", "SMART_MOTION"}
    MaxRequests = 2
    MOTOR_DISCONNECT_TIME = 2
    Samples = {0, 2, 6}
    offsetSampleCount = 2
    MaxCalibrations = 2
    Mountings <- MCMountings
    Readings <- MCReadings
    Temperatures <- MCTemperatures
    MaxReads = 2
    Vectors <- MCVectors
    Turns <- MCTurns
    AngularVelocities <- MCAngularVelocities
    MaxUpdates = 2
    Bytes = {0, 165}
    Damages = {1, 2, 4, 8, 16, 32, 64, 90, 128, 129, 255}
    MaxLength = 4
    MaxDamaged = 2
    PidConfigs <- MCPidConfigs
    PidErrors <- MCPidErrors
    FilterCoefficients <- MCFilterCoefficients
    FilterInputs <- MCFilterInputs
    Circles = {0, 20}
    Rates <- MCRates
    FuzzyScale = 4
    FuzzyParams <- MCFuzzyParams
    Powers = {0, 3}
    PowerBuffers = {2, 6}
    PowerLimit = 1
    LimitThreshold = 5
    CritThreshold = 2
    Drives <- MCDrives
    DriveReach = 2
    Override <- MCOverride
    FullPwm = 4
    Servos <- MCServos
    PwmTargets = {0, 2, 9}
    LoopTime = 4
    MaxSteps = 4
INVARIANTS
    NoDanglingListener
    PromisesKept
    ComputesRightly
    EncodersFollow
    MotorsObey
PROPERTIES
    ProcessedByItsListener
    PositionContinues
CHECK_DEADLOCK FALSE
