SPECIFICATION Spec
CONSTANTS
    NumCommands = 5
    NumSubsystems = 3
    Reqs <- MCReqs
    DefaultCommand <- MCDefault
    TestCommand <- MCTest
    AlwaysReady <- MCAlwaysReady
INVARIANT
    PassedTestsRan
