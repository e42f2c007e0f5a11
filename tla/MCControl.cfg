SPECIFICATION ControlSpec
CONSTANTS
    Command = {c1, c2, c3, c4}
    Scheduler = {s1, s2}
    MAX_COMMAND_COUNT = 3
    nullptr = nullptr
    m1 = m1
    m2 = m2
    m3 = m3
    m4 = m4
    a = a
    b = b
    Commands = {m1, m2, m3, m4}
    Requires <- MCRequires
    AlwaysReady = {m1, m3, m4}
    Mappings <- MCMappings
    Frames <- MCFrames
    MaxStarts = 3
    Kinds = {"scheduler", "tests", "motors"}
    maxEntries = 2
    Subsystems = {1, 2, 3}
    Tested = {2, 3}
    MenuCommands = {11, 12}
    MenuMotors = {0, 1, 2}
    MAX_LINE_LENGTH = 11
    MaxTyped = 11
    Clients = {k1, k2}
    LISTEN_QUEUE_SIZE = 1
    MessageLengths = {0, 2, 9}
    Word = 8
    MaxSent = 3
    MaxWrites = 2
INVARIANTS
    IdentifiersUnique
    IteratorsSeeScheduled
    OneMaster
    MappingsObeyed
    MenusShow
    LinesCarried
PROPERTIES
    HeldResumes
    OKActsOnMarked
CHECK_DEADLOCK FALSE
