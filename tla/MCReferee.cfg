SPECIFICATION Spec
CONSTANTS
    MaxHp = 2
    DPS_TRACKER_DEQUE_SIZE = 2
    Second = 2
    Horizon = 6
    MaxHits = 4
    OtherLengths = {5, 6, 40}
    MsgIds = {511, 512, 767}
    Handlers = {"first", "second"}
    MaxMessages = 2
    Transmitters = {"indicator", "other"}
    Indicators = {"indicator"}
    Delay = 3
    GraphicWait = 2
    MIN_UPDATE_PERIOD = 4
    MsgLens = {0, 113, 114}
    States = {"green", "yellow"}
    InitialState = "green"
    Drawings <- MCDrawings
    MaxConfigs = 3
INVARIANTS
    DpsIsRecentDamage
    SaidIsUnderstood
    MessagesSpaced
    ShownIsCurrent
PROPERTY
    NotAllWait
CHECK_DEADLOCK FALSE
