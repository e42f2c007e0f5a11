SPECIFICATION FairSpec
CONSTANTS
    NumCommands = 5
    NumSubsystems = 3
    Reqs <- MCReqs
    DefaultCommand <- MCDefault
    TestCommand <- MCTest
    AlwaysReady <- MCAlwaysReady
INVARIANTS
    TypeOK
    NoSharedSubsystem
    AssociationExact
    ScheduledOnRegistered
    LifecycleAlternates
    AtMostOncePerRun
    EverySubsystemRefreshed
    SafeDisconnectStops
    DefaultsInControl
    FinishedTestRecorded
PROPERTIES
    ImplementsOwnership
    DisconnectEndsAll
    DefaultsResume
