SPECIFICATION Spec
CONSTANTS
    COMMANDS = 4
    Commands = {c1, c2, c3, c4, c5, c6}
    MaxSchedules = 1
    Governors = {g1, g2}
    AddedWhileScheduled = FALSE
    targetDisplacement = 2
    moveTime = 2
    pauseAfterMoveTime = 1
    setToTargetOnEnd = TRUE
    setpointTolerance = 0
    unjamDisplacement = 2
    unjamThreshold = 1
    maxWaitTime = 2
    targetCycleCount = 1
    JamTolerance = 1
    JamTime = 1
    desiredSetpoint = 1
    targetIntegralChange = 2
    integralSetpointTolerance = 1
    unjamSetpoint = 2
    targetUnjamIntegralChange = 1
    setpoint = 2
    speed = 1
    Reach = 2
INVARIANTS
    ChildrenDriven
    SequenceInOrder
    PushesNoFurther
PROPERTIES
    EndsWhenItShould
CHECK_DEADLOCK FALSE
