SPECIFICATION Spec
CONSTANTS
    Commands = {c1, c2}
    MaxSchedules = 2
PROPERTY FinishesOnce
CHECK_DEADLOCK FALSE
