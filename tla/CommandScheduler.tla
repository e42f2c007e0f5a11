-------------------------- MODULE CommandScheduler --------------------------
(***************************************************************************)
(* tap::control::CommandScheduler.  Commands and subsystems are named by   *)
(* their global identifiers, the bit positions of the scheduler's bitmaps; *)
(* a bitmap is the set of the identifiers whose bit is 1.                  *)
(*                                                                         *)
(* The main loop is one thread, so the public functions are actions that   *)
(* start when run() is not in progress.  run() itself is cut at each call  *)
(* of safeDisconnected() and at each command and subsystem it visits: the  *)
(* safe disconnect function is virtual and is asked again before every     *)
(* decision, so that its answer may change half way through a run().       *)
(***************************************************************************)
EXTENDS Integers

CONSTANTS
    NumCommands,    \* commands constructed, identifiers 0 .. NumCommands - 1
    NumSubsystems,  \* subsystems constructed
    Reqs,           \* Command::getRequirementsBitwise()
    DefaultCommand, \* Subsystem::getDefaultCommand(), nullptr for none
    TestCommand,    \* Subsystem::getTestCommand(), nullptr for none
    AlwaysReady     \* commands that keep Command's isReady(), which is true

Command == 0 .. NumCommands - 1
Subsystem == 0 .. NumSubsystems - 1
nullptr == -1

ASSUME CountAssumption == NumCommands \in Nat /\ NumSubsystems \in Nat
ASSUME ReqsAssumption == Reqs \in [Command -> SUBSET Subsystem]
ASSUME DefaultAssumption ==
    DefaultCommand \in [Subsystem -> Command \union {nullptr}]
ASSUME TestAssumption ==
    TestCommand \in [Subsystem -> Command \union {nullptr}]
ASSUME ReadyAssumption == AlwaysReady \subseteq Command

Tests == {TestCommand[s] : s \in Subsystem} \ {nullptr}

VARIABLES
    isMasterScheduler,
    registeredSubsystems,  \* registeredSubsystemBitmap
    associatedSubsystems,  \* subsystemsAssociatedWithCommandBitmap
    addedCommands,         \* addedCommandBitmap
    passingSubsystems,     \* subsystemsPassingHardwareTests
    disconnected,          \* what the safe disconnect function returns now
    pc,                    \* where run() or runAllHardwareTests() stands
    index,                 \* currIndex of the iterator it uses
    finished,              \* test commands whose isFinished() returns true now
    depth,                 \* history: calls of initialize() minus calls of end()
    executed,              \* history: commands executed in this run()
    refreshed,             \* history: subsystems on which this run() called refresh()
    shutDown,              \* history: ... on which it called refreshSafeDisconnect()
    steady,                \* history: no change of disconnected since run() began
    untested               \* history: subsystems whose test was asked for by
                           \*   runHardwareTest() and has not started since

schedule == <<associatedSubsystems, addedCommands, finished, depth>>
hardwareTests == <<passingSubsystems, untested>>
control == <<pc, index>>
history == <<executed, refreshed, shutDown, steady>>
configuration == <<isMasterScheduler, registeredSubsystems>>
vars == <<configuration, schedule, hardwareTests, control, disconnected, history>>

Phases == {"idle", "executing", "removing", "testing", "refreshing",
           "defaulting", "adding", "startingTests"}

TypeOK ==
    /\ isMasterScheduler \in BOOLEAN
    /\ registeredSubsystems \subseteq Subsystem
    /\ associatedSubsystems \subseteq Subsystem
    /\ addedCommands \subseteq Command
    /\ passingSubsystems \subseteq Subsystem
    /\ disconnected \in BOOLEAN
    /\ pc \in Phases
    /\ index \in Nat
    /\ finished \subseteq Tests
    /\ depth \in [Command -> Int]
    /\ executed \subseteq Command
    /\ refreshed \subseteq Subsystem
    /\ shutDown \subseteq Subsystem
    /\ steady \in BOOLEAN
    /\ untested \subseteq Subsystem

(* A test command that was never run may already report isFinished(). *)
Init ==
    /\ isMasterScheduler \in BOOLEAN
    /\ registeredSubsystems = {}
    /\ associatedSubsystems = {}
    /\ addedCommands = {}
    /\ passingSubsystems = {}
    /\ disconnected \in BOOLEAN
    /\ pc = "idle"
    /\ index = 0
    /\ finished \in SUBSET Tests
    /\ depth = [c \in Command |-> 0]
    /\ executed = {}
    /\ refreshed = {}
    /\ shutDown = {}
    /\ steady = FALSE
    /\ untested = {}

-----------------------------------------------------------------------------
(* The bitmaps. *)

(* The union of the requirements of the commands in S. *)
Requirements(S) == UNION {Reqs[c] : c \in S}

(* Mutant: only a command with the very same requirements conflicts. *)
ConflictingIfEqual(c) == {d \in addedCommands : Reqs[d] = Reqs[c]}

(* Mutant: only a command that c covers completely conflicts. *)
ConflictingIfCovered(c) == {d \in addedCommands : Reqs[d] \subseteq Reqs[c]}

(* The scheduled commands that use a subsystem c requires. *)
Conflicting(c) == {d \in addedCommands : Reqs[d] \intersect Reqs[c] # {}}

isCommandScheduled(c) == c \in addedCommands

(* The position of an iterator over S that has passed all indices below index. *)
IsNext(i, S) ==
    /\ i \in S
    /\ i >= index
    /\ \A j \in S : j >= index => i <= j

AtEnd(S) == \A j \in S : j < index

(* Mutant: the bits of the requirements stay set. *)
RemoveKeepingAssociation(S) ==
    /\ addedCommands' = addedCommands \ S
    /\ depth' = [c \in Command |-> IF c \in S THEN depth[c] - 1 ELSE depth[c]]
    /\ UNCHANGED associatedSubsystems

(***************************************************************************)
(* removeCommand on every command of S, a set of scheduled commands:       *)
(* end(), then clear the bits of its requirements, then its own bit.       *)
(***************************************************************************)
Remove(S) ==
    /\ associatedSubsystems' = associatedSubsystems \ Requirements(S)
    /\ addedCommands' = addedCommands \ S
    /\ depth' = [c \in Command |-> IF c \in S THEN depth[c] - 1 ELSE depth[c]]

(* Mutant: one registered requirement is enough. *)
AcceptedIfAnyRegistered(c) ==
    /\ ~disconnected
    /\ Reqs[c] \intersect registeredSubsystems # {}

(* Mutant: the safe disconnect function is not asked. *)
AcceptedWhenDisconnected(c) ==
    /\ Reqs[c] # {}
    /\ Reqs[c] \subseteq registeredSubsystems

(* What addCommand requires of a command that reports isReady(). *)
Accepted(c) ==
    /\ ~disconnected
    /\ Reqs[c] # {}
    /\ Reqs[c] \subseteq registeredSubsystems

(* Mutant: the evicted commands are removed after c took its subsystems. *)
ScheduleThenEvict(c) ==
    LET evicted == Conflicting(c) IN
    /\ associatedSubsystems' =
           (associatedSubsystems \union Reqs[c]) \ Requirements(evicted \ {c})
    /\ addedCommands' = (addedCommands \ evicted) \union {c}
    /\ depth' = [d \in Command |->
                    depth[d] - (IF d \in evicted THEN 1 ELSE 0)
                             + (IF d = c THEN 1 ELSE 0)]
    /\ finished' = finished \ {c}

(* Mutant: a command that is already scheduled is not ended first. *)
ScheduleAgain(c) ==
    LET evicted == Conflicting(c) \ {c} IN
    /\ associatedSubsystems' =
           (associatedSubsystems \ Requirements(evicted)) \union Reqs[c]
    /\ addedCommands' = (addedCommands \ evicted) \union {c}
    /\ depth' = [d \in Command |->
                    depth[d] - (IF d \in evicted THEN 1 ELSE 0)
                             + (IF d = c THEN 1 ELSE 0)]
    /\ finished' = finished \ {c}

(***************************************************************************)
(* The end of addCommand: every scheduled command that shares a subsystem  *)
(* with c (c itself when it is already scheduled) is removed, then c takes *)
(* its subsystems and initialize() resets it.                              *)
(***************************************************************************)
Schedule(c) ==
    LET evicted == Conflicting(c) IN
    /\ associatedSubsystems' =
           (associatedSubsystems \ Requirements(evicted)) \union Reqs[c]
    /\ addedCommands' = (addedCommands \ evicted) \union {c}
    /\ depth' = [d \in Command |->
                    depth[d] - (IF d \in evicted THEN 1 ELSE 0)
                             + (IF d = c THEN 1 ELSE 0)]
    /\ finished' = finished \ {c}

(* The subsystems whose hardware test is c. *)
TestedBy(c) == {s \in Subsystem : TestCommand[s] = c}

(* addCommand leaves the scheduler alone when c is refused or not ready. *)
Refused(c) == Accepted(c) => c \notin AlwaysReady

-----------------------------------------------------------------------------
(* Calls from outside, between two calls of run(). *)

(* Mutant: the bit is shifted once too often. *)
registerNextSubsystem(s) ==
    /\ pc = "idle"
    /\ s \notin registeredSubsystems
    /\ registeredSubsystems' = registeredSubsystems \union {s + 1}
    /\ UNCHANGED <<isMasterScheduler, schedule, hardwareTests, control,
                   disconnected, history>>

registerSubsystem(s) ==
    /\ pc = "idle"
    /\ s \notin registeredSubsystems
    /\ registeredSubsystems' = registeredSubsystems \union {s}
    /\ UNCHANGED <<isMasterScheduler, schedule, hardwareTests, control,
                   disconnected, history>>

addCommand(c) ==
    /\ pc = "idle"
    /\ Accepted(c)
    /\ Schedule(c)
    /\ untested' = untested \ TestedBy(c)
    /\ UNCHANGED <<configuration, passingSubsystems, control, disconnected, history>>

removeCommand(c) ==
    /\ pc = "idle"
    /\ isCommandScheduled(c)
    /\ Remove({c})
    /\ UNCHANGED <<configuration, finished, hardwareTests, control,
                   disconnected, history>>

(* The body of runHardwareTest: forget the last verdict, add the test. *)
StartTest(s) ==
    LET test == TestCommand[s] IN
    /\ test # nullptr
    /\ passingSubsystems' = passingSubsystems \ {s}
    /\ \/ /\ Accepted(test)
          /\ Schedule(test)
          /\ untested' = untested \ TestedBy(test)
       \/ /\ Refused(test)
          /\ untested' = untested \union {s}
          /\ UNCHANGED schedule

runHardwareTest(s) ==
    /\ pc = "idle"
    /\ StartTest(s)
    /\ UNCHANGED <<configuration, control, disconnected, history>>

stopHardwareTest(s) == TestCommand[s] # nullptr /\ removeCommand(TestCommand[s])

stopAllHardwareTests ==
    /\ pc = "idle"
    /\ Remove({TestCommand[s] : s \in registeredSubsystems} \intersect addedCommands)
    /\ UNCHANGED <<configuration, finished, hardwareTests, control,
                   disconnected, history>>

(* runAllHardwareTests asks each registered subsystem in turn. *)
TestsBegin ==
    /\ pc = "idle"
    /\ pc' = "startingTests"
    /\ index' = 0
    /\ UNCHANGED <<configuration, schedule, hardwareTests, disconnected, history>>

TestsNext(s) ==
    /\ pc = "startingTests"
    /\ IsNext(s, registeredSubsystems)
    /\ \/ StartTest(s)
       \/ /\ TestCommand[s] = nullptr
          /\ UNCHANGED <<schedule, hardwareTests>>
    /\ index' = s + 1
    /\ UNCHANGED <<configuration, pc, disconnected, history>>

TestsEnd ==
    /\ pc = "startingTests"
    /\ AtEnd(registeredSubsystems)
    /\ pc' = "idle"
    /\ UNCHANGED <<configuration, schedule, hardwareTests, index, disconnected, history>>

-----------------------------------------------------------------------------
(* run(): first the commands. *)

(* Mutant: a disconnected run() executes the commands as well. *)
RunBeginExecuting ==
    /\ pc = "idle"
    /\ pc' = "executing"
    /\ index' = 0
    /\ executed' = {}
    /\ refreshed' = {}
    /\ shutDown' = {}
    /\ steady' = TRUE
    /\ UNCHANGED <<configuration, schedule, hardwareTests, disconnected>>

RunBegin ==
    /\ pc = "idle"
    /\ pc' = IF disconnected THEN "removing" ELSE "executing"
    /\ index' = 0
    /\ executed' = {}
    /\ refreshed' = {}
    /\ shutDown' = {}
    /\ steady' = TRUE
    /\ UNCHANGED <<configuration, schedule, hardwareTests, disconnected>>

RemoveNext(c) ==
    /\ pc = "removing"
    /\ IsNext(c, addedCommands)
    /\ Remove({c})
    /\ index' = c + 1
    /\ UNCHANGED <<configuration, finished, hardwareTests, pc, disconnected, history>>

(* Mutant: the iterator does not move past a command that goes on. *)
ExecuteNextAgain(c) ==
    /\ pc = "executing"
    /\ IsNext(c, addedCommands)
    /\ \/ /\ Remove({c})
          /\ finished' = finished \union ({c} \intersect Tests)
       \/ /\ finished' = finished \ {c}
          /\ UNCHANGED <<associatedSubsystems, addedCommands, depth>>
    /\ index' = c
    /\ executed' = executed \union {c}
    /\ UNCHANGED <<configuration, hardwareTests, pc, disconnected, refreshed,
                   shutDown, steady>>

(* execute(), then isFinished(): a finished command is removed. *)
ExecuteNext(c) ==
    /\ pc = "executing"
    /\ IsNext(c, addedCommands)
    /\ \/ /\ Remove({c})
          /\ finished' = finished \union ({c} \intersect Tests)
       \/ /\ finished' = finished \ {c}
          /\ UNCHANGED <<associatedSubsystems, addedCommands, depth>>
    /\ index' = c + 1
    /\ executed' = executed \union {c}
    /\ UNCHANGED <<configuration, hardwareTests, pc, disconnected, refreshed,
                   shutDown, steady>>

(* Only the master scheduler goes on to the subsystems. *)
CommandsEnd ==
    /\ pc \in {"removing", "executing"}
    /\ AtEnd(addedCommands)
    /\ pc' = IF isMasterScheduler THEN "testing" ELSE "idle"
    /\ index' = 0
    /\ UNCHANGED <<configuration, schedule, hardwareTests, disconnected, history>>

-----------------------------------------------------------------------------
(* run(): then, for each registered subsystem, its test, refresh and default. *)

(* Nothing controls s. *)
Unassociated(s) == s \notin associatedSubsystems

(* Mutant: the verdict is taken from a test that is still scheduled. *)
TestNextIfScheduled(s) ==
    /\ pc = "testing"
    /\ IsNext(s, registeredSubsystems)
    /\ passingSubsystems' =
           IF ~disconnected /\ TestCommand[s] \in finished \intersect addedCommands
           THEN passingSubsystems \union {s}
           ELSE passingSubsystems
    /\ pc' = "refreshing"
    /\ index' = s
    /\ UNCHANGED <<configuration, schedule, untested, disconnected, history>>

TestNext(s) ==
    /\ pc = "testing"
    /\ IsNext(s, registeredSubsystems)
    /\ passingSubsystems' =
           IF ~disconnected /\ Unassociated(s) /\ TestCommand[s] \in finished
           THEN passingSubsystems \union {s}
           ELSE passingSubsystems
    /\ pc' = "refreshing"
    /\ index' = s
    /\ UNCHANGED <<configuration, schedule, untested, disconnected, history>>

(* Mutant: nothing is called on the subsystems while disconnected. *)
RefreshIfConnected ==
    /\ pc = "refreshing"
    /\ refreshed' = IF disconnected THEN refreshed ELSE refreshed \union {index}
    /\ pc' = "defaulting"
    /\ UNCHANGED <<configuration, schedule, hardwareTests, index, disconnected,
                   executed, shutDown, steady>>

Refresh ==
    /\ pc = "refreshing"
    /\ IF disconnected
       THEN shutDown' = shutDown \union {index} /\ UNCHANGED refreshed
       ELSE refreshed' = refreshed \union {index} /\ UNCHANGED shutDown
    /\ pc' = "defaulting"
    /\ UNCHANGED <<configuration, schedule, hardwareTests, index, disconnected,
                   executed, steady>>

(* Mutant: a default command is added only when no command runs at all. *)
NeedsDefaultIfIdle(s) ==
    /\ ~disconnected
    /\ addedCommands = {}
    /\ DefaultCommand[s] # nullptr

NeedsDefault(s) ==
    /\ ~disconnected
    /\ Unassociated(s)
    /\ DefaultCommand[s] # nullptr

DefaultNext ==
    /\ pc = "defaulting"
    /\ IF NeedsDefault(index)
       THEN pc' = "adding" /\ UNCHANGED index
       ELSE pc' = "testing" /\ index' = index + 1
    /\ UNCHANGED <<configuration, schedule, hardwareTests, disconnected, history>>

(* addCommand asks the safe disconnect function once more. *)
AddDefault ==
    LET default == DefaultCommand[index] IN
    /\ pc = "adding"
    /\ \/ /\ Accepted(default)
          /\ Schedule(default)
          /\ untested' = untested \ TestedBy(default)
       \/ /\ Refused(default)
          /\ UNCHANGED <<schedule, untested>>
    /\ pc' = "testing"
    /\ index' = index + 1
    /\ UNCHANGED <<configuration, passingSubsystems, disconnected, history>>

RunEnd ==
    /\ pc = "testing"
    /\ AtEnd(registeredSubsystems)
    /\ pc' = "idle"
    /\ UNCHANGED <<configuration, schedule, hardwareTests, index, disconnected, history>>

-----------------------------------------------------------------------------
(* The safe disconnect function changes its answer, at any time. *)
ConnectionChange ==
    /\ disconnected' = ~disconnected
    /\ steady' = FALSE
    /\ UNCHANGED <<configuration, schedule, hardwareTests, control, executed,
                   refreshed, shutDown>>

Call ==
    \/ \E s \in Subsystem :
          registerSubsystem(s) \/ runHardwareTest(s) \/ stopHardwareTest(s)
    \/ \E c \in Command : addCommand(c) \/ removeCommand(c)
    \/ stopAllHardwareTests
    \/ TestsBegin

(* The steps the scheduler's own loops take. *)
Step ==
    \/ RunBegin
    \/ \E c \in Command : RemoveNext(c) \/ ExecuteNext(c)
    \/ CommandsEnd
    \/ \E s \in Subsystem : TestNext(s) \/ TestsNext(s)
    \/ Refresh
    \/ DefaultNext
    \/ AddDefault
    \/ RunEnd
    \/ TestsEnd

Next == Call \/ Step \/ ConnectionChange

Spec == Init /\ [][Next]_vars

(***************************************************************************)
(* Each of the scheduler's loops goes on until it ends, and the main loop  *)
(* calls run() again and again, however many other calls it makes in       *)
(* between.  No other call is ever certain.                                *)
(***************************************************************************)
FairSpec == Spec /\ WF_vars(Step) /\ SF_vars(RunBegin)

-----------------------------------------------------------------------------
(* Properties. *)

(***************************************************************************)
(* Two commands that require the same subsystem are never scheduled        *)
(* together: addCommand ends the commands that hold a subsystem before the *)
(* new one takes it.                                                       *)
(***************************************************************************)
NoSharedSubsystem ==
    \A c, d \in addedCommands : c # d => Reqs[c] \intersect Reqs[d] = {}

(***************************************************************************)
(* The two bitmaps agree: a subsystem is marked as associated exactly when *)
(* a scheduled command requires it.  run() consults only this bit to start *)
(* default commands, addCommand only the commands.                         *)
(***************************************************************************)
AssociationExact == associatedSubsystems = Requirements(addedCommands)

(***************************************************************************)
(* A scheduled command controls only registered subsystems, at least one,  *)
(* so that every command that runs has its subsystems refreshed.           *)
(***************************************************************************)
ScheduledOnRegistered ==
    \A c \in addedCommands : Reqs[c] # {} /\ Reqs[c] \subseteq registeredSubsystems

(***************************************************************************)
(* Calls of initialize() and end() alternate for each command, also when a *)
(* scheduled command is added again, and a command is scheduled exactly    *)
(* between the two.                                                        *)
(***************************************************************************)
LifecycleAlternates ==
    \A c \in Command : depth[c] = IF c \in addedCommands THEN 1 ELSE 0

(***************************************************************************)
(* One call of run() executes a command at most once and refreshes a       *)
(* subsystem at most once, whatever it removes and adds on its way.        *)
(***************************************************************************)
AtMostOncePerRun ==
    /\ pc = "executing" =>
          \A c \in addedCommands : c \in executed => c < index
    /\ pc = "refreshing" => index \notin refreshed \union shutDown

(* run() of the master scheduler is about to return. *)
RunComplete == pc = "testing" /\ AtEnd(registeredSubsystems)

(***************************************************************************)
(* run() of the master scheduler refreshes every registered subsystem, and *)
(* when it is disconnected from start to end it shuts every one of them    *)
(* down.                                                                   *)
(***************************************************************************)
EverySubsystemRefreshed ==
    RunComplete =>
        /\ refreshed \union shutDown = registeredSubsystems
        /\ steady /\ disconnected => shutDown = registeredSubsystems

(***************************************************************************)
(* Once a run() has begun disconnected, and until the connection is back,  *)
(* nothing is scheduled and nothing can be: not by default commands, by    *)
(* hardware tests or by addCommand.                                        *)
(***************************************************************************)
SafeDisconnectStops ==
    steady /\ disconnected /\ pc # "removing" => addedCommands = {}

(* Each registered subsystem's default command requires nothing else. *)
DefaultsAreOwn ==
    \A s \in registeredSubsystems :
        DefaultCommand[s] # nullptr => Reqs[DefaultCommand[s]] \subseteq {s}

(***************************************************************************)
(* At the end of a connected run() every subsystem whose default command   *)
(* is always ready is controlled by some command, provided no default      *)
(* command reaches into another subsystem (one that does may evict the     *)
(* command of a subsystem that run() has already visited).                 *)
(***************************************************************************)
DefaultsInControl ==
    RunComplete /\ steady /\ ~disconnected /\ DefaultsAreOwn =>
        \A s \in registeredSubsystems :
            DefaultCommand[s] \in AlwaysReady /\ Reqs[DefaultCommand[s]] = {s}
                => s \in associatedSubsystems

(***************************************************************************)
(* A hardware test that finishes in a connected run() is recorded as       *)
(* passed by the same run(), although its end has already freed the        *)
(* subsystem, unless the default command of another subsystem grabs the    *)
(* subsystem first.                                                        *)
(***************************************************************************)
FinishedTestRecorded ==
    RunComplete /\ steady /\ ~disconnected /\ DefaultsAreOwn =>
        \A s \in registeredSubsystems :
            LET test == TestCommand[s] IN
            test \in executed \intersect finished /\ s \in Reqs[test]
                => s \in passingSubsystems

(***************************************************************************)
(* The command that controls each subsystem, read from the bitmaps.        *)
(***************************************************************************)
Owner(s) ==
    IF s \in associatedSubsystems
    THEN CHOOSE c \in addedCommands : s \in Reqs[c]
    ELSE nullptr

Ownership == INSTANCE SubsystemOwnership
    WITH NoCommand <- nullptr, owner <- [s \in Subsystem |-> Owner(s)]

(***************************************************************************)
(* The scheduler implements the ownership of subsystems: the bitmaps and   *)
(* the loop over the commands only ever make subsystems change hands as a  *)
(* whole.                                                                  *)
(***************************************************************************)
ImplementsOwnership == Ownership!Spec

(***************************************************************************)
(* If the connection is lost for good, then sooner or later every command  *)
(* has ended and none is scheduled again.                                  *)
(***************************************************************************)
DisconnectEndsAll == <>[]disconnected => <>[](addedCommands = {})

(***************************************************************************)
(* While the master is connected for good, a registered subsystem with an  *)
(* always ready default command is never left without a command for ever,  *)
(* whichever commands take it and end.                                     *)
(***************************************************************************)
DefaultsResume ==
    \A s \in Subsystem :
        DefaultCommand[s] \in AlwaysReady /\ s \in Reqs[DefaultCommand[s]] =>
            (<>[](/\ isMasterScheduler /\ ~disconnected
                  /\ Reqs[DefaultCommand[s]] \subseteq registeredSubsystems)
                => []<>(s \in Requirements(addedCommands)))

(***************************************************************************)
(* command_scheduler.hpp:248-249 says hasPassedTest() tells whether "the   *)
(* test command has passed": after runHardwareTest(), the verdict is that  *)
(* of a test command which has been started since.                         *)
(***************************************************************************)
PassedTestsRan == untested \intersect passingSubsystems = {}
=============================================================================
