----------------------- MODULE CommandScheduler_proofs -----------------------
(***************************************************************************)
(* Proofs about CommandScheduler, for any number of commands and           *)
(* subsystems and any requirements, defaults and tests.                    *)
(*                                                                         *)
(* Core says what the bitmaps mean and is preserved by the two operations  *)
(* that write them, Remove and Schedule; every action that changes them is *)
(* one of the two.  Position says where the iterators of run() can stand.  *)
(***************************************************************************)
EXTENDS CommandScheduler, TLAPS

Core ==
    /\ NoSharedSubsystem
    /\ AssociationExact
    /\ ScheduledOnRegistered
    /\ LifecycleAlternates

Position ==
    /\ pc \in {"refreshing", "defaulting", "adding"} => index \in registeredSubsystems
    /\ pc = "adding" => DefaultCommand[index] \in Command

IInv == TypeOK /\ Position /\ Core

-----------------------------------------------------------------------------
(* Lemmas about the two operations on the bitmaps. *)

LEMMA TestsType == Tests \subseteq Command
BY TestAssumption DEF Tests

(* Removing scheduled commands frees their subsystems and no others. *)
LEMMA RemoveType ==
    ASSUME TypeOK, NEW S \in SUBSET addedCommands, Remove(S)
    PROVE  /\ associatedSubsystems' \subseteq Subsystem
           /\ addedCommands' \subseteq Command
           /\ depth' \in [Command -> Int]
BY DEF TypeOK, Remove

LEMMA RemoveCore ==
    ASSUME TypeOK, Core, NEW S \in SUBSET addedCommands, Remove(S),
           UNCHANGED registeredSubsystems
    PROVE  Core'
<1>1. NoSharedSubsystem'
  BY DEF Core, Remove, NoSharedSubsystem
<1>2. AssociationExact'
  <2>1. ASSUME NEW s \in associatedSubsystems'
        PROVE  s \in Requirements(addedCommands')
    BY <2>1 DEF Core, Remove, AssociationExact, Requirements
  <2>2. ASSUME NEW c \in addedCommands', NEW s \in Reqs[c]
        PROVE  s \in associatedSubsystems'
    BY <2>2 DEF Core, Remove, AssociationExact, NoSharedSubsystem, Requirements
  <2>3. QED
    BY <2>1, <2>2 DEF AssociationExact, Requirements
<1>3. ScheduledOnRegistered'
  BY DEF Core, Remove, ScheduledOnRegistered
<1>4. LifecycleAlternates'
  BY DEF Core, Remove, LifecycleAlternates, TypeOK
<1>5. QED
  BY <1>1, <1>2, <1>3, <1>4 DEF Core

LEMMA ScheduleType ==
    ASSUME TypeOK, NEW c \in Command, Schedule(c)
    PROVE  /\ associatedSubsystems' \subseteq Subsystem
           /\ addedCommands' \subseteq Command
           /\ depth' \in [Command -> Int]
           /\ finished' \subseteq Tests
BY ReqsAssumption DEF TypeOK, Schedule

(* An accepted command takes its subsystems from all who held one of them. *)
LEMMA ScheduleCore ==
    ASSUME TypeOK, Core, NEW c \in Command, Accepted(c), Schedule(c),
           UNCHANGED registeredSubsystems
    PROVE  Core'
<1> DEFINE evicted == Conflicting(c)
<1>0. /\ evicted \subseteq addedCommands
      /\ addedCommands' = (addedCommands \ evicted) \union {c}
      /\ associatedSubsystems' =
             (associatedSubsystems \ Requirements(evicted)) \union Reqs[c]
      /\ \A d \in addedCommands \ evicted : Reqs[d] \intersect Reqs[c] = {}
  BY DEF Schedule, Conflicting
<1>1. NoSharedSubsystem'
  BY <1>0 DEF Core, NoSharedSubsystem
<1>2. AssociationExact'
  <2>1. ASSUME NEW s \in associatedSubsystems'
        PROVE  s \in Requirements(addedCommands')
    BY <1>0, <2>1 DEF Core, AssociationExact, Requirements
  <2>2. ASSUME NEW d \in addedCommands', NEW s \in Reqs[d]
        PROVE  s \in associatedSubsystems'
    BY <1>0, <2>2 DEF Core, AssociationExact, NoSharedSubsystem, Requirements
  <2>3. QED
    BY <2>1, <2>2 DEF AssociationExact, Requirements
<1>3. ScheduledOnRegistered'
  BY <1>0 DEF Core, ScheduledOnRegistered, Accepted
<1>4. LifecycleAlternates'
  <2>1. c \in addedCommands => c \in evicted
    BY DEF Conflicting, Accepted
  <2>2. QED
    BY <1>0, <2>1 DEF Core, LifecycleAlternates, Schedule, TypeOK
<1>5. QED
  BY <1>1, <1>2, <1>3, <1>4 DEF Core

-----------------------------------------------------------------------------
(* The inductive invariant. *)

LEMMA InitInv == Init => IInv
<1> SUFFICES ASSUME Init PROVE IInv
  OBVIOUS
<1>1. TypeOK
  <2>1. depth \in [Command -> Int]
    BY DEF Init
  <2>2. isMasterScheduler \in BOOLEAN /\ disconnected \in BOOLEAN
    BY DEF Init
  <2>3. QED
    BY <2>1, <2>2 DEF Init, TypeOK, Phases
<1>2. Position
  BY DEF Init, Position
<1>3. NoSharedSubsystem /\ ScheduledOnRegistered
  BY DEF Init, NoSharedSubsystem, ScheduledOnRegistered
<1>4. AssociationExact /\ LifecycleAlternates
  BY DEF Init, AssociationExact, LifecycleAlternates, Requirements
<1>5. QED
  BY <1>1, <1>2, <1>3, <1>4 DEF IInv, Core

(* The part of IInv that a step leaving the schedule alone keeps. *)
LEMMA CoreUnchanged ==
    Core /\ UNCHANGED <<schedule, registeredSubsystems>> => Core'
BY DEF Core, NoSharedSubsystem, AssociationExact, ScheduledOnRegistered,
       LifecycleAlternates, Requirements, schedule

(* A test is started by a call of addCommand, or refused. *)
LEMMA StartTestInv ==
    ASSUME IInv, NEW s \in Subsystem, StartTest(s), UNCHANGED registeredSubsystems
    PROVE  /\ Core'
           /\ associatedSubsystems' \subseteq Subsystem
           /\ addedCommands' \subseteq Command
           /\ depth' \in [Command -> Int]
           /\ finished' \subseteq Tests
           /\ passingSubsystems' \subseteq Subsystem
           /\ untested' \subseteq Subsystem
<1> DEFINE test == TestCommand[s]
<1>1. test \in Command
  BY TestAssumption DEF StartTest
<1>2. passingSubsystems' \subseteq Subsystem /\ untested' \subseteq Subsystem
  BY DEF StartTest, IInv, TypeOK
<1>3. CASE Accepted(test) /\ Schedule(test)
  BY <1>1, <1>2, <1>3, ScheduleType, ScheduleCore DEF IInv
<1>4. CASE UNCHANGED schedule
  <2>1. Core'
    BY <1>4, CoreUnchanged DEF IInv
  <2>2. QED
    BY <1>2, <1>4, <2>1 DEF schedule, IInv, TypeOK
<1>5. QED
  BY <1>3, <1>4 DEF StartTest

LEMMA CallInv == IInv /\ Call => IInv'
<1> SUFFICES ASSUME IInv, Call PROVE IInv'
  OBVIOUS
<1> USE DEF IInv, configuration, hardwareTests, control, history
<1>1. ASSUME NEW s \in Subsystem, registerSubsystem(s)
      PROVE  IInv'
  <2>1. TypeOK' /\ Position'
    BY <1>1 DEF registerSubsystem, TypeOK, Position, schedule
  <2>2. Core'
    BY <1>1 DEF registerSubsystem, schedule, Core, NoSharedSubsystem,
                AssociationExact, ScheduledOnRegistered, LifecycleAlternates,
                Requirements
  <2>3. QED
    BY <2>1, <2>2
<1>2. ASSUME NEW c \in Command, addCommand(c)
      PROVE  IInv'
  <2>1. Accepted(c) /\ Schedule(c) /\ UNCHANGED registeredSubsystems
    BY <1>2 DEF addCommand
  <2>2. Core'
    BY <2>1, ScheduleCore
  <2>3. TypeOK' /\ Position'
    BY <1>2, <2>1, ScheduleType DEF addCommand, TypeOK, Position
  <2>4. QED
    BY <2>2, <2>3
<1>3. ASSUME NEW c \in Command, removeCommand(c)
      PROVE  IInv'
  <2>1. Remove({c}) /\ {c} \in SUBSET addedCommands /\ UNCHANGED registeredSubsystems
    BY <1>3 DEF removeCommand, isCommandScheduled
  <2>2. Core'
    BY <2>1, RemoveCore
  <2>3. TypeOK' /\ Position'
    BY <1>3, <2>1, RemoveType DEF removeCommand, TypeOK, Position
  <2>4. QED
    BY <2>2, <2>3
<1>4. ASSUME NEW s \in Subsystem, runHardwareTest(s)
      PROVE  IInv'
  <2>1. StartTest(s) /\ UNCHANGED registeredSubsystems
    BY <1>4 DEF runHardwareTest
  <2>2. TypeOK' /\ Position'
    BY <1>4, <2>1, StartTestInv DEF runHardwareTest, TypeOK, Position
  <2>3. QED
    BY <2>1, <2>2, StartTestInv
<1>5. ASSUME NEW s \in Subsystem, stopHardwareTest(s)
      PROVE  IInv'
  BY <1>3, <1>5, TestAssumption DEF stopHardwareTest
<1>6. CASE stopAllHardwareTests
  <2> DEFINE S == {TestCommand[s] : s \in registeredSubsystems} \intersect addedCommands
  <2>1. Remove(S) /\ S \in SUBSET addedCommands /\ UNCHANGED registeredSubsystems
    BY <1>6 DEF stopAllHardwareTests
  <2>2. Core'
    BY <2>1, RemoveCore
  <2>3. /\ associatedSubsystems' \subseteq Subsystem
        /\ addedCommands' \subseteq Command
        /\ depth' \in [Command -> Int]
    BY <2>1, RemoveType
  <2>4. TypeOK' /\ Position'
    BY <1>6, <2>3 DEF stopAllHardwareTests, TypeOK, Position
  <2>5. QED
    BY <2>2, <2>4
<1>7. CASE TestsBegin
  <2>1. TypeOK' /\ Position'
    BY <1>7 DEF TestsBegin, TypeOK, Position, Phases, schedule
  <2>2. QED
    BY <1>7, <2>1, CoreUnchanged DEF TestsBegin
<1>8. QED
  BY <1>1, <1>2, <1>3, <1>4, <1>5, <1>6, <1>7 DEF Call

LEMMA StepInv == IInv /\ Step => IInv'
<1> SUFFICES ASSUME IInv, Step PROVE IInv'
  OBVIOUS
<1> USE DEF IInv, configuration, hardwareTests, control, history
<1>1. CASE RunBegin
  <2>1. TypeOK' /\ Position'
    BY <1>1 DEF RunBegin, TypeOK, Position, Phases, schedule
  <2>2. QED
    BY <1>1, <2>1, CoreUnchanged DEF RunBegin
<1>2. ASSUME NEW c \in Command, RemoveNext(c)
      PROVE  IInv'
  <2>1. Remove({c}) /\ {c} \in SUBSET addedCommands /\ UNCHANGED registeredSubsystems
    BY <1>2 DEF RemoveNext, IsNext
  <2>2. Core'
    BY <2>1, RemoveCore
  <2>3. index' \in Nat
    BY <1>2, CountAssumption DEF RemoveNext, Command
  <2>4. TypeOK' /\ Position'
    BY <1>2, <2>1, <2>3, RemoveType DEF RemoveNext, TypeOK, Position
  <2>5. QED
    BY <2>2, <2>4
<1>3. ASSUME NEW c \in Command, ExecuteNext(c)
      PROVE  IInv'
  <2>1. index' \in Nat
    BY <1>3, CountAssumption DEF ExecuteNext, Command
  <2>2. CASE Remove({c}) /\ finished' = finished \union ({c} \intersect Tests)
    <3>1. {c} \in SUBSET addedCommands /\ UNCHANGED registeredSubsystems
      BY <1>3 DEF ExecuteNext, IsNext
    <3>2. Core'
      BY <2>2, <3>1, RemoveCore
    <3>3. TypeOK' /\ Position'
      BY <1>3, <2>1, <2>2, <3>1, RemoveType DEF ExecuteNext, TypeOK, Position
    <3>4. QED
      BY <3>2, <3>3
  <2>3. CASE /\ finished' = finished \ {c}
             /\ UNCHANGED <<associatedSubsystems, addedCommands, depth>>
    <3>1. Core'
      BY <1>3, <2>3 DEF ExecuteNext, Core, NoSharedSubsystem, AssociationExact,
                        ScheduledOnRegistered, LifecycleAlternates, Requirements
    <3>2. TypeOK' /\ Position'
      BY <1>3, <2>1, <2>3 DEF ExecuteNext, TypeOK, Position
    <3>3. QED
      BY <3>1, <3>2
  <2>4. QED
    BY <1>3, <2>2, <2>3 DEF ExecuteNext
<1>4. CASE CommandsEnd
  <2>1. TypeOK' /\ Position'
    BY <1>4 DEF CommandsEnd, TypeOK, Position, Phases, schedule
  <2>2. QED
    BY <1>4, <2>1, CoreUnchanged DEF CommandsEnd
<1>5. ASSUME NEW s \in Subsystem, TestNext(s)
      PROVE  IInv'
  <2>1. s \in Nat /\ s \in registeredSubsystems
    BY <1>5, CountAssumption DEF TestNext, IsNext, Subsystem
  <2>2. TypeOK' /\ Position'
    BY <1>5, <2>1 DEF TestNext, TypeOK, Position, Phases, schedule
  <2>3. QED
    BY <1>5, <2>2, CoreUnchanged DEF TestNext
<1>6. ASSUME NEW s \in Subsystem, TestsNext(s)
      PROVE  IInv'
  <2>1. index' \in Nat
    BY <1>6, CountAssumption DEF TestsNext, Subsystem
  <2>2. CASE StartTest(s)
    <3>1. UNCHANGED registeredSubsystems
      BY <1>6 DEF TestsNext
    <3>2. TypeOK' /\ Position'
      BY <1>6, <2>1, <2>2, <3>1, StartTestInv DEF TestsNext, TypeOK, Position
    <3>3. QED
      BY <2>2, <3>1, <3>2, StartTestInv
  <2>3. CASE UNCHANGED <<schedule, hardwareTests>>
    <3>1. TypeOK' /\ Position'
      BY <1>6, <2>1, <2>3 DEF TestsNext, TypeOK, Position, schedule
    <3>2. QED
      BY <1>6, <2>3, <3>1, CoreUnchanged DEF TestsNext
  <2>4. QED
    BY <1>6, <2>2, <2>3 DEF TestsNext
<1>7. CASE Refresh
  <2>1. index \in Subsystem
    BY <1>7 DEF Refresh, Position, TypeOK
  <2>2. TypeOK' /\ Position'
    BY <1>7, <2>1 DEF Refresh, TypeOK, Position, Phases, schedule
  <2>3. QED
    BY <1>7, <2>2, CoreUnchanged DEF Refresh
<1>8. CASE DefaultNext
  <2>1. NeedsDefault(index) => DefaultCommand[index] \in Command
    BY <1>8, DefaultAssumption DEF DefaultNext, NeedsDefault, Position, TypeOK
  <2>2. TypeOK' /\ Position'
    BY <1>8, <2>1 DEF DefaultNext, TypeOK, Position, Phases, schedule
  <2>3. QED
    BY <1>8, <2>2, CoreUnchanged DEF DefaultNext
<1>9. CASE AddDefault
  <2> DEFINE default == DefaultCommand[index]
  <2>1. default \in Command /\ UNCHANGED registeredSubsystems /\ index' \in Nat
    BY <1>9 DEF AddDefault, Position, TypeOK
  <2>2. CASE /\ Accepted(default)
             /\ Schedule(default)
             /\ untested' = untested \ TestedBy(default)
    <3>1. Core'
      BY <2>1, <2>2, ScheduleCore
    <3>2. TypeOK' /\ Position'
      BY <1>9, <2>1, <2>2, ScheduleType DEF AddDefault, TypeOK, Position, Phases
    <3>3. QED
      BY <3>1, <3>2
  <2>3. CASE UNCHANGED <<schedule, untested>>
    <3>1. TypeOK' /\ Position'
      BY <1>9, <2>1, <2>3 DEF AddDefault, TypeOK, Position, Phases, schedule
    <3>2. QED
      BY <2>1, <2>3, <3>1, CoreUnchanged
  <2>4. QED
    BY <1>9, <2>2, <2>3 DEF AddDefault
<1>10. CASE RunEnd
  <2>1. TypeOK' /\ Position'
    BY <1>10 DEF RunEnd, TypeOK, Position, Phases, schedule
  <2>2. QED
    BY <1>10, <2>1, CoreUnchanged DEF RunEnd
<1>11. CASE TestsEnd
  <2>1. TypeOK' /\ Position'
    BY <1>11 DEF TestsEnd, TypeOK, Position, Phases, schedule
  <2>2. QED
    BY <1>11, <2>1, CoreUnchanged DEF TestsEnd
<1>12. QED
  BY <1>1, <1>2, <1>3, <1>4, <1>5, <1>6, <1>7, <1>8, <1>9, <1>10, <1>11 DEF Step

LEMMA NextInv == IInv /\ [Next]_vars => IInv'
<1> SUFFICES ASSUME IInv, [Next]_vars PROVE IInv'
  OBVIOUS
<1>1. CASE Call
  BY <1>1, CallInv
<1>2. CASE Step
  BY <1>2, StepInv
<1>3. CASE ConnectionChange
  <2>1. TypeOK' /\ Position'
    BY <1>3 DEF ConnectionChange, IInv, TypeOK, Position, configuration, schedule,
                hardwareTests, control
  <2>2. QED
    BY <1>3, <2>1, CoreUnchanged DEF ConnectionChange, IInv, configuration
<1>4. CASE UNCHANGED vars
  <2>1. TypeOK' /\ Position'
    BY <1>4 DEF vars, IInv, TypeOK, Position, configuration, schedule,
                hardwareTests, control, history
  <2>2. QED
    BY <1>4, <2>1, CoreUnchanged DEF vars, IInv, configuration
<1>5. QED
  BY <1>1, <1>2, <1>3, <1>4 DEF Next

LEMMA Invariance == Spec => []IInv
BY InitInv, NextInv, PTL DEF Spec

-----------------------------------------------------------------------------
(* Theorems. *)

(* Every variable keeps its type, whatever is called and in which order. *)
THEOREM TypeCorrect == Spec => []TypeOK
BY Invariance, PTL DEF IInv

(***************************************************************************)
(* The scheduler's main promise (command_scheduler.hpp:54-63): two         *)
(* commands that require the same subsystem are never scheduled together.  *)
(***************************************************************************)
THEOREM Exclusive == Spec => []NoSharedSubsystem
BY Invariance, PTL DEF IInv, Core

(***************************************************************************)
(* The bitmap of associated subsystems, updated by addCommand and          *)
(* removeCommand, always equals what could be computed from the bitmap of  *)
(* commands.                                                               *)
(***************************************************************************)
THEOREM AssociationCorrect == Spec => []AssociationExact
BY Invariance, PTL DEF IInv, Core

(* A scheduled command only drives registered subsystems, and at least one. *)
THEOREM OnRegistered == Spec => []ScheduledOnRegistered
BY Invariance, PTL DEF IInv, Core

(***************************************************************************)
(* initialize() and end() of each command alternate, so that no command is *)
(* executed or ended that was not initialized (command.hpp:91-113).        *)
(***************************************************************************)
THEOREM LifecycleCorrect == Spec => []LifecycleAlternates
BY Invariance, PTL DEF IInv, Core

-----------------------------------------------------------------------------
(***************************************************************************)
(* The history of one run(): while it visits the subsystems, the visited   *)
(* ones are exactly the registered ones the iterator has passed, and a     *)
(* run() that has been disconnected all along has removed every command it *)
(* passed and refreshed nothing.                                           *)
(***************************************************************************)
Visited == refreshed \union shutDown

RunHistory ==
    /\ pc \in {"executing", "removing"} => Visited = {}
    /\ pc \notin {"idle", "startingTests"} => Visited \subseteq registeredSubsystems
    /\ pc = "executing" => \A c \in executed : c < index
    /\ pc \in {"testing", "refreshing"} =>
          \A s \in registeredSubsystems : s \in Visited <=> s < index
    /\ pc \in {"defaulting", "adding"} =>
          \A s \in registeredSubsystems : s \in Visited <=> s <= index
    /\ pc \in {"testing", "refreshing", "defaulting", "adding"} /\ steady /\ disconnected
          => refreshed = {}

Stopping ==
    /\ pc = "removing" => \A c \in addedCommands : c >= index
    /\ pc = "executing" /\ steady => ~disconnected
    /\ SafeDisconnectStops

LEMMA RunHistoryInv == IInv /\ RunHistory /\ [Next]_vars => RunHistory'
<1> SUFFICES ASSUME IInv, RunHistory, [Next]_vars PROVE RunHistory'
  OBVIOUS
<1> USE DEF configuration, hardwareTests, control, history
<1>1. CASE Call
  <2>1. ASSUME pc = "idle", pc' = pc
        PROVE  RunHistory'
    BY <2>1 DEF RunHistory
  <2>2. CASE TestsBegin
    BY <2>2 DEF TestsBegin, RunHistory
  <2>3. QED
    BY <1>1, <2>1, <2>2 DEF Call, registerSubsystem, addCommand, removeCommand,
          runHardwareTest, stopHardwareTest, stopAllHardwareTests
<1>2. CASE RunBegin
  BY <1>2 DEF RunBegin, RunHistory, Visited
<1>3. ASSUME NEW c \in Command, RemoveNext(c)
      PROVE  RunHistory'
  BY <1>3 DEF RemoveNext, RunHistory, Visited
<1>4. ASSUME NEW c \in Command, ExecuteNext(c)
      PROVE  RunHistory'
  <2>1. c \in Nat /\ c >= index /\ index \in Nat /\ executed \subseteq Nat
    BY <1>4, CountAssumption DEF ExecuteNext, IsNext, Command, IInv, TypeOK
  <2>2. pc = "executing" /\ pc' = "executing" /\ Visited' = Visited
    BY <1>4 DEF ExecuteNext, Visited
  <2>3. \A d \in executed' : d < index'
    BY <1>4, <2>1, <2>2 DEF ExecuteNext, RunHistory
  <2>4. QED
    BY <2>2, <2>3 DEF RunHistory
<1>5. CASE CommandsEnd
  <2>1. registeredSubsystems \subseteq Nat
    BY CountAssumption DEF IInv, TypeOK, Subsystem
  <2>2. Visited' = {} /\ refreshed' = {} /\ index' = 0 /\ pc' \in {"testing", "idle"}
    BY <1>5 DEF CommandsEnd, RunHistory, Visited
  <2>3. \A s \in registeredSubsystems' : ~(s < index')
    BY <1>5, <2>1, <2>2 DEF CommandsEnd
  <2>4. QED
    BY <2>2, <2>3 DEF RunHistory
<1>6. ASSUME NEW s \in Subsystem, TestNext(s)
      PROVE  RunHistory'
  <2>1. registeredSubsystems \subseteq Nat /\ index \in Nat /\ s \in Nat
    BY CountAssumption DEF IInv, TypeOK, Subsystem
  <2>2. \A u \in registeredSubsystems : u < s <=> u < index
    BY <1>6, <2>1 DEF TestNext, IsNext
  <2>3. QED
    BY <1>6, <2>2 DEF TestNext, RunHistory, Visited
<1>7. ASSUME NEW s \in Subsystem, TestsNext(s)
      PROVE  RunHistory'
  BY <1>7 DEF TestsNext, RunHistory
<1>8. CASE Refresh
  <2>1. registeredSubsystems \subseteq Nat /\ index \in registeredSubsystems
    BY <1>8, CountAssumption DEF IInv, TypeOK, Subsystem, Position, Refresh
  <2>2. Visited' = Visited \union {index}
    BY <1>8 DEF Refresh, Visited
  <2>3. \A s \in registeredSubsystems : s \in Visited <=> s < index
    BY <1>8 DEF Refresh, RunHistory
  <2>4. \A s \in registeredSubsystems : s < index \/ s = index <=> s <= index
    BY <2>1
  <2>5. \A s \in registeredSubsystems : s \in Visited' <=> s <= index
    BY <2>2, <2>3, <2>4
  <2>6. Visited' \subseteq registeredSubsystems
    BY <1>8, <2>1, <2>2 DEF Refresh, RunHistory
  <2>7. steady /\ disconnected => refreshed' = {}
    BY <1>8 DEF Refresh, RunHistory
  <2>8. QED
    BY <1>8, <2>5, <2>6, <2>7 DEF Refresh, RunHistory
<1>9. ASSUME pc \in {"defaulting", "adding"}, pc' = "testing", index' = index + 1,
             UNCHANGED <<registeredSubsystems, refreshed, shutDown, steady, disconnected>>
      PROVE  RunHistory'
  <2>1. registeredSubsystems \subseteq Nat /\ index \in Nat
    BY CountAssumption DEF IInv, TypeOK, Subsystem
  <2>2. \A s \in registeredSubsystems : s <= index <=> s < index + 1
    BY <2>1
  <2>3. QED
    BY <1>9, <2>2 DEF RunHistory, Visited
<1>10. CASE DefaultNext
  <2>1. CASE NeedsDefault(index)
    BY <1>10, <2>1 DEF DefaultNext, RunHistory, Visited
  <2>2. CASE ~NeedsDefault(index)
    BY <1>9, <1>10, <2>2 DEF DefaultNext
  <2>3. QED
    BY <2>1, <2>2
<1>11. CASE AddDefault
  BY <1>9, <1>11 DEF AddDefault
<1>12. CASE RunEnd \/ TestsEnd
  BY <1>12 DEF RunEnd, TestsEnd, RunHistory
<1>13. CASE ConnectionChange
  BY <1>13 DEF ConnectionChange, RunHistory, Visited
<1>14. CASE UNCHANGED vars
  BY <1>14 DEF vars, RunHistory, Visited
<1>15. QED
  BY <1>1, <1>2, <1>3, <1>4, <1>5, <1>6, <1>7, <1>8, <1>10, <1>11, <1>12, <1>13, <1>14
     DEF Next, Step

LEMMA StoppingInv == IInv /\ Stopping /\ [Next]_vars => Stopping'
<1> SUFFICES ASSUME IInv, Stopping, [Next]_vars PROVE Stopping'
  OBVIOUS
<1> USE DEF configuration, hardwareTests, control, history, Stopping
<1>1. ASSUME UNCHANGED <<addedCommands, pc, index, steady, disconnected>>
      PROVE  Stopping'
  BY <1>1 DEF SafeDisconnectStops
<1>2. ASSUME ~disconnected, disconnected' = disconnected, pc' \notin {"removing"}
      PROVE  Stopping'
  BY <1>2 DEF SafeDisconnectStops
<1>3. ASSUME NEW S \in SUBSET addedCommands, Remove(S), pc = "idle", pc' = "idle",
             UNCHANGED <<steady, disconnected>>
      PROVE  Stopping'
  BY <1>3 DEF Remove, SafeDisconnectStops
<1>4. ASSUME NEW c \in Command, removeCommand(c)
      PROVE  Stopping'
  <2>1. {c} \in SUBSET addedCommands
    BY <1>4 DEF removeCommand, isCommandScheduled
  <2>2. QED
    BY <1>3, <1>4, <2>1 DEF removeCommand
<1>5. ASSUME NEW s \in Subsystem, StartTest(s), pc' = pc, pc # "removing",
             UNCHANGED <<steady, disconnected>>
      PROVE  Stopping'
  <2>1. CASE Accepted(TestCommand[s])
    BY <1>2, <1>5, <2>1 DEF Accepted
  <2>2. CASE UNCHANGED schedule
    BY <1>5, <2>2 DEF schedule, SafeDisconnectStops
  <2>3. QED
    BY <1>5, <2>1, <2>2 DEF StartTest
<1>6. CASE Call
  <2>1. ASSUME NEW s \in Subsystem, registerSubsystem(s)
        PROVE  Stopping'
    BY <1>1, <2>1 DEF registerSubsystem, schedule
  <2>2. ASSUME NEW s \in Subsystem, runHardwareTest(s)
        PROVE  Stopping'
    BY <1>5, <2>2 DEF runHardwareTest
  <2>3. ASSUME NEW s \in Subsystem, stopHardwareTest(s)
        PROVE  Stopping'
    BY <1>4, <2>3, TestAssumption DEF stopHardwareTest
  <2>4. ASSUME NEW c \in Command, addCommand(c)
        PROVE  Stopping'
    BY <1>2, <2>4 DEF addCommand, Accepted
  <2>5. CASE stopAllHardwareTests
    BY <1>3, <2>5 DEF stopAllHardwareTests
  <2>6. CASE TestsBegin
    BY <2>6 DEF TestsBegin, schedule, SafeDisconnectStops
  <2>7. QED
    BY <1>4, <1>6, <2>1, <2>2, <2>3, <2>4, <2>5, <2>6 DEF Call
<1>7. CASE Step
  <2>1. CASE RunBegin
    <3>1. index' = 0 /\ addedCommands' \subseteq Nat
      BY <2>1, CountAssumption DEF RunBegin, schedule, IInv, TypeOK, Command
    <3>2. QED
      BY <2>1, <3>1 DEF RunBegin, SafeDisconnectStops
  <2>2. ASSUME NEW c \in Command, RemoveNext(c)
        PROVE  Stopping'
    <3>1. addedCommands \subseteq Nat /\ c \in addedCommands /\ index \in Nat
      BY <2>2, CountAssumption DEF RemoveNext, IsNext, IInv, TypeOK, Command
    <3>2. \A d \in addedCommands \ {c} : d >= c + 1
      BY <2>2, <3>1 DEF RemoveNext, IsNext
    <3>3. QED
      BY <2>2, <3>2 DEF RemoveNext, Remove, SafeDisconnectStops
  <2>3. ASSUME NEW c \in Command, ExecuteNext(c)
        PROVE  Stopping'
    BY <2>3 DEF ExecuteNext, SafeDisconnectStops
  <2>4. CASE CommandsEnd
    <3>1. addedCommands \subseteq Nat /\ index \in Nat
      BY CountAssumption DEF IInv, TypeOK, Command
    <3>2. pc = "removing" => addedCommands = {}
      BY <2>4, <3>1 DEF CommandsEnd, AtEnd
    <3>3. QED
      BY <2>4, <3>2 DEF CommandsEnd, schedule, SafeDisconnectStops
  <2>5. ASSUME NEW s \in Subsystem, TestNext(s)
        PROVE  Stopping'
    BY <2>5 DEF TestNext, schedule, SafeDisconnectStops
  <2>6. ASSUME NEW s \in Subsystem, TestsNext(s)
        PROVE  Stopping'
    <3>1. CASE StartTest(s)
      BY <1>5, <2>6, <3>1 DEF TestsNext
    <3>2. CASE UNCHANGED schedule
      BY <2>6, <3>2 DEF TestsNext, schedule, SafeDisconnectStops
    <3>3. QED
      BY <2>6, <3>1, <3>2 DEF TestsNext
  <2>7. CASE Refresh \/ DefaultNext \/ RunEnd \/ TestsEnd
    BY <2>7 DEF Refresh, DefaultNext, RunEnd, TestsEnd, schedule, SafeDisconnectStops
  <2>8. CASE AddDefault
    <3>1. CASE Accepted(DefaultCommand[index])
      BY <1>2, <2>8, <3>1 DEF AddDefault, Accepted
    <3>2. CASE UNCHANGED schedule
      BY <2>8, <3>2 DEF AddDefault, schedule, SafeDisconnectStops
    <3>3. QED
      BY <2>8, <3>1, <3>2 DEF AddDefault
  <2>9. QED
    BY <1>7, <2>1, <2>2, <2>3, <2>4, <2>5, <2>6, <2>7, <2>8 DEF Step
<1>8. CASE ConnectionChange
  BY <1>8 DEF ConnectionChange, schedule, SafeDisconnectStops
<1>9. CASE UNCHANGED vars
  BY <1>1, <1>9 DEF vars, schedule
<1>10. QED
  BY <1>6, <1>7, <1>8, <1>9 DEF Next

LEMMA HistoryInvariance == Spec => [](RunHistory /\ Stopping)
<1>1. Init => RunHistory /\ Stopping
  BY DEF Init, RunHistory, Stopping, SafeDisconnectStops
<1>2. QED
  BY <1>1, Invariance, RunHistoryInv, StoppingInv, PTL DEF Spec

(***************************************************************************)
(* What a run() that stays connected has settled.  A test command that was *)
(* executed and is finished holds no subsystem any more; nothing takes one *)
(* of them before its turn, since a default command that is added requires *)
(* only the subsystem it is added for, which nobody holds.  So each        *)
(* subsystem the iterator has passed has its verdict and its default       *)
(* command, and each one it has not passed is as the commands left it.     *)
(***************************************************************************)
Visiting == {"testing", "refreshing", "defaulting", "adding"}

(* The always ready default command of s requires s and nothing else. *)
HasReadyDefault(s) ==
    DefaultCommand[s] \in AlwaysReady /\ Reqs[DefaultCommand[s]] = {s}

(* The test of s was executed in this run(), held s, and is finished. *)
TestDone(s) ==
    TestCommand[s] \in executed \intersect finished /\ s \in Reqs[TestCommand[s]]

(* run() has asked for the verdict on s. *)
VerdictGiven(s) == IF pc = "testing" THEN s < index ELSE s <= index

Settled ==
    /\ pc = "removing" => executed = {}
    /\ pc = "executing" =>
          \A c \in executed \intersect finished :
              Reqs[c] \intersect associatedSubsystems = {}
    /\ pc \in Visiting /\ steady /\ ~disconnected /\ DefaultsAreOwn =>
          /\ pc = "adding" => index \notin associatedSubsystems
          /\ \A s \in registeredSubsystems :
                s < index /\ HasReadyDefault(s) => s \in associatedSubsystems
          /\ \A s \in registeredSubsystems :
                TestDone(s) => IF VerdictGiven(s) THEN s \in passingSubsystems
                                                 ELSE s \notin associatedSubsystems

(***************************************************************************)
(* command_scheduler.hpp:124-130: one run() executes no command twice and  *)
(* refreshes no subsystem twice.                                           *)
(***************************************************************************)
THEOREM AtMostOnce == Spec => []AtMostOncePerRun
<1>1. IInv /\ RunHistory => AtMostOncePerRun
  <2> SUFFICES ASSUME IInv, RunHistory PROVE AtMostOncePerRun
    OBVIOUS
  <2>1. pc = "refreshing" => index \in registeredSubsystems /\ ~(index < index)
    BY CountAssumption DEF IInv, TypeOK, Position, Subsystem
  <2>2. QED
    BY <2>1 DEF RunHistory, AtMostOncePerRun, Visited
<1>2. QED
  BY <1>1, Invariance, HistoryInvariance, PTL

(***************************************************************************)
(* A master's run() refreshes each registered subsystem, and shuts each of *)
(* them down if it is disconnected from start to end.                      *)
(***************************************************************************)
THEOREM EveryRefreshed == Spec => []EverySubsystemRefreshed
<1>1. IInv /\ RunHistory => EverySubsystemRefreshed
  BY DEF RunHistory, EverySubsystemRefreshed, RunComplete, AtEnd, Visited
<1>2. QED
  BY <1>1, Invariance, HistoryInvariance, PTL

(***************************************************************************)
(* After a run() that began disconnected nothing is scheduled until the    *)
(* connection is back, whichever calls are made meanwhile.                 *)
(***************************************************************************)
THEOREM DisconnectStops == Spec => []SafeDisconnectStops
BY HistoryInvariance, PTL DEF Stopping

-----------------------------------------------------------------------------
(* What a connected run() settles is kept by every step. *)

(* Only the visited subsystems, bitmaps and histories matter for Settled. *)
LEMMA SettledUnchanged ==
    Settled /\ UNCHANGED <<registeredSubsystems, schedule, passingSubsystems, pc, index,
                           disconnected, executed, steady>>
        => Settled'
BY DEF Settled, schedule, DefaultsAreOwn, HasReadyDefault, TestDone, VerdictGiven

(* A default command that is added while nobody holds its subsystem evicts
   nobody, takes that subsystem and nothing else, and is not finished. *)
LEMMA DefaultTakesOwn ==
    ASSUME IInv, DefaultsAreOwn, index \in registeredSubsystems,
           index \notin associatedSubsystems, DefaultCommand[index] \in Command,
           Accepted(DefaultCommand[index]), Schedule(DefaultCommand[index])
    PROVE  /\ associatedSubsystems' = associatedSubsystems \union {index}
           /\ finished' = finished \ {DefaultCommand[index]}
<1> DEFINE default == DefaultCommand[index]
<1>1. Reqs[default] = {index}
  <2>1. default # nullptr
    BY CountAssumption DEF Command, nullptr
  <2>2. QED
    BY <2>1 DEF DefaultsAreOwn, Accepted
<1>2. Conflicting(default) = {}
  BY <1>1 DEF Conflicting, IInv, Core, AssociationExact, Requirements
<1>3. QED
  BY <1>1, <1>2 DEF Schedule, Requirements

LEMMA SettledInv == IInv /\ RunHistory /\ Settled /\ [Next]_vars => Settled'
<1> SUFFICES ASSUME IInv, RunHistory, Settled, [Next]_vars PROVE Settled'
  OBVIOUS
<1> USE DEF configuration, hardwareTests, control, history
<1>0. /\ registeredSubsystems \subseteq Nat
      /\ index \in Nat
  BY CountAssumption DEF IInv, TypeOK, Subsystem
<1>1. ASSUME pc' \in {"idle", "startingTests"}
      PROVE  Settled'
  BY <1>1 DEF Settled, Visiting
<1>2. CASE Call
  <2>1. pc' \in {"idle", "startingTests"}
    BY <1>2 DEF Call, registerSubsystem, addCommand, removeCommand, runHardwareTest,
                stopHardwareTest, stopAllHardwareTests, TestsBegin
  <2>2. QED
    BY <1>1, <2>1
<1>3. CASE RunBegin
  BY <1>3 DEF RunBegin, Settled, Visiting
<1>4. ASSUME NEW c \in Command, RemoveNext(c)
      PROVE  Settled'
  BY <1>4 DEF RemoveNext, Settled, Visiting
<1>5. ASSUME NEW c \in Command, ExecuteNext(c)
      PROVE  Settled'
  <2>1. /\ pc = "executing" /\ pc' = "executing"
        /\ executed' = executed \union {c}
    BY <1>5 DEF ExecuteNext
  <2>2. CASE Remove({c}) /\ finished' = finished \union ({c} \intersect Tests)
    <3>1. associatedSubsystems' = associatedSubsystems \ Reqs[c]
      BY <2>2 DEF Remove, Requirements
    <3>2. QED
      BY <2>1, <2>2, <3>1 DEF Settled, Visiting
  <2>3. CASE finished' = finished \ {c} /\ UNCHANGED associatedSubsystems
    BY <2>1, <2>3 DEF Settled, Visiting
  <2>4. QED
    BY <1>5, <2>2, <2>3 DEF ExecuteNext
<1>6. CASE CommandsEnd
  <2>1. CASE ~isMasterScheduler
    BY <1>1, <1>6, <2>1 DEF CommandsEnd
  <2>2. CASE isMasterScheduler
    <3>1. /\ pc' = "testing" /\ index' = 0
          /\ UNCHANGED <<schedule, executed, registeredSubsystems>>
      BY <1>6, <2>2 DEF CommandsEnd
    <3>2. \A s \in registeredSubsystems' : ~(s < index') /\ ~VerdictGiven(s)'
      BY <1>0, <3>1 DEF VerdictGiven
    <3>3. \A c \in executed \intersect finished :
              Reqs[c] \intersect associatedSubsystems = {}
      BY <1>6 DEF CommandsEnd, Settled
    <3>4. \A s \in registeredSubsystems' : TestDone(s)' => s \notin associatedSubsystems'
      BY <3>1, <3>3 DEF TestDone, schedule
    <3>5. QED
      BY <3>1, <3>2, <3>4 DEF Settled
  <2>3. QED
    BY <2>1, <2>2
<1>7. ASSUME NEW s \in Subsystem, TestNext(s)
      PROVE  Settled'
  <2>1. /\ pc = "testing" /\ pc' = "refreshing" /\ index' = s
        /\ passingSubsystems \subseteq passingSubsystems'
        /\ ~disconnected /\ Unassociated(s) /\ TestCommand[s] \in finished
               => s \in passingSubsystems'
        /\ UNCHANGED <<registeredSubsystems, schedule, executed, steady, disconnected>>
        /\ s \in registeredSubsystems
    BY <1>7 DEF TestNext, IsNext
  <2>2. \A u \in registeredSubsystems : (u < s <=> u < index) /\ (u <= s <=> u < index \/ u = s)
    BY <1>0, <1>7 DEF TestNext, IsNext
  <2>3. SUFFICES ASSUME steady, ~disconnected, DefaultsAreOwn
                 PROVE  Settled'
    BY <2>1 DEF Settled, DefaultsAreOwn
  <2>4. ASSUME NEW u \in registeredSubsystems, u < s, HasReadyDefault(u)
        PROVE  u \in associatedSubsystems
    BY <2>1, <2>2, <2>3, <2>4 DEF Settled, Visiting
  <2>5. ASSUME NEW u \in registeredSubsystems, TestDone(u)
        PROVE  IF u <= s THEN u \in passingSubsystems' ELSE u \notin associatedSubsystems
    <3>1. IF u < index THEN u \in passingSubsystems ELSE u \notin associatedSubsystems
      BY <2>1, <2>3, <2>5 DEF Settled, Visiting, VerdictGiven
    <3>2. CASE u = s
      BY <2>1, <2>2, <2>3, <2>5, <3>1, <3>2 DEF Unassociated, TestDone
    <3>3. QED
      BY <2>1, <2>2, <3>1, <3>2
  <2>6. QED
    BY <2>1, <2>4, <2>5 DEF Settled, HasReadyDefault, TestDone, VerdictGiven, schedule
<1>8. ASSUME NEW s \in Subsystem, TestsNext(s)
      PROVE  Settled'
  BY <1>1, <1>8 DEF TestsNext
<1>9. CASE Refresh
  BY <1>9 DEF Refresh, Settled, Visiting, schedule, DefaultsAreOwn, HasReadyDefault, TestDone,
              VerdictGiven
(* The end of a visit: what is asked for index holds, and the others keep theirs. *)
<1>10. ASSUME pc \in {"defaulting", "adding"}, pc' = "testing", index' = index + 1,
              UNCHANGED <<registeredSubsystems, passingSubsystems, executed, steady,
                          disconnected>>,
              finished' \subseteq finished,
              steady /\ ~disconnected /\ DefaultsAreOwn =>
                  /\ associatedSubsystems \subseteq associatedSubsystems'
                  /\ associatedSubsystems' \subseteq associatedSubsystems \union {index}
                  /\ HasReadyDefault(index) => index \in associatedSubsystems'
       PROVE  Settled'
  <2>1. \A s \in registeredSubsystems : s < index + 1 <=> s < index \/ s = index
    BY <1>0
  <2>2. \A s \in registeredSubsystems : s <= index <=> s < index \/ s = index
    BY <1>0
  <2>3. SUFFICES ASSUME steady, ~disconnected, DefaultsAreOwn
                 PROVE  Settled'
    BY <1>10 DEF Settled, DefaultsAreOwn
  <2>4. ASSUME NEW s \in registeredSubsystems, s < index + 1, HasReadyDefault(s)
        PROVE  s \in associatedSubsystems'
    BY <1>10, <2>1, <2>3, <2>4 DEF Settled, Visiting
  <2>5. ASSUME NEW s \in registeredSubsystems,
               TestCommand[s] \in executed \intersect finished', s \in Reqs[TestCommand[s]]
        PROVE  IF s < index + 1 THEN s \in passingSubsystems
                                ELSE s \notin associatedSubsystems'
    <3>1. TestDone(s)
      BY <1>10, <2>5 DEF TestDone
    <3>2. IF s <= index THEN s \in passingSubsystems ELSE s \notin associatedSubsystems
      BY <1>10, <2>3, <3>1 DEF Settled, Visiting, VerdictGiven
    <3>3. QED
      BY <1>10, <2>1, <2>2, <2>3, <3>2
  <2>6. QED
    BY <1>10, <2>4, <2>5 DEF Settled, HasReadyDefault, TestDone, VerdictGiven
<1>11. CASE DefaultNext
  <2>1. CASE NeedsDefault(index)
    BY <1>11, <2>1 DEF DefaultNext, NeedsDefault, Unassociated, Settled, Visiting, schedule,
                       DefaultsAreOwn, HasReadyDefault, TestDone, VerdictGiven
  <2>2. CASE ~NeedsDefault(index)
    <3>1. ~disconnected /\ HasReadyDefault(index) => index \in associatedSubsystems
      BY <2>2, ReadyAssumption, CountAssumption
         DEF NeedsDefault, Unassociated, HasReadyDefault, Command, nullptr
    <3>2. QED
      BY <1>10, <1>11, <2>2, <3>1 DEF DefaultNext, schedule
  <2>3. QED
    BY <2>1, <2>2
<1>12. CASE AddDefault
  <2> DEFINE default == DefaultCommand[index]
  <2>1. /\ pc = "adding" /\ pc' = "testing" /\ index' = index + 1
        /\ index \in registeredSubsystems
        /\ default \in Command
        /\ UNCHANGED <<registeredSubsystems, passingSubsystems, executed, steady, disconnected>>
    BY <1>12 DEF AddDefault, IInv, Position
  <2>2. steady /\ ~disconnected /\ DefaultsAreOwn => index \notin associatedSubsystems
    BY <2>1 DEF Settled, Visiting
  <2>3. CASE Accepted(default) /\ Schedule(default)
    BY <1>10, <2>1, <2>2, <2>3, DefaultTakesOwn DEF Schedule
  <2>4. CASE Refused(default) /\ UNCHANGED schedule
    <3>1. ~disconnected => ~HasReadyDefault(index)
      BY <2>1, <2>4 DEF Refused, Accepted, HasReadyDefault
    <3>2. QED
      BY <1>10, <2>1, <2>4, <3>1 DEF schedule
  <2>5. QED
    BY <1>12, <2>3, <2>4 DEF AddDefault
<1>13. CASE RunEnd \/ TestsEnd
  BY <1>1, <1>13 DEF RunEnd, TestsEnd
<1>14. CASE ConnectionChange
  BY <1>14 DEF ConnectionChange, Settled, Visiting, schedule
<1>15. CASE UNCHANGED vars
  BY <1>15, SettledUnchanged DEF vars
<1>16. QED
  BY <1>2, <1>3, <1>4, <1>5, <1>6, <1>7, <1>8, <1>9, <1>11, <1>12, <1>13, <1>14, <1>15
     DEF Next, Step

LEMMA SettledInvariance == Spec => []Settled
<1>1. Init => Settled
  BY DEF Init, Settled, Visiting
<1>2. QED
  BY <1>1, Invariance, HistoryInvariance, SettledInv, PTL DEF Spec

(***************************************************************************)
(* command_scheduler.cpp:197-203: at the end of a run() that stayed        *)
(* connected, each subsystem with an always ready default command of its   *)
(* own is controlled by some command.                                      *)
(***************************************************************************)
THEOREM DefaultsControl == Spec => []DefaultsInControl
<1>1. IInv /\ Settled => DefaultsInControl
  BY DEF Settled, Visiting, DefaultsInControl, RunComplete, AtEnd, HasReadyDefault
<1>2. QED
  BY <1>1, Invariance, SettledInvariance, PTL

(***************************************************************************)
(* command_scheduler.cpp:183-190: the run() in which a hardware test       *)
(* finishes records it as passed, in whichever order the commands end and  *)
(* the defaults take the subsystems again.                                 *)
(***************************************************************************)
THEOREM TestsRecorded == Spec => []FinishedTestRecorded
<1>1. IInv /\ Settled => FinishedTestRecorded
  BY DEF Settled, Visiting, FinishedTestRecorded, RunComplete, AtEnd, TestDone, VerdictGiven
<1>2. QED
  BY <1>1, Invariance, SettledInvariance, PTL

-----------------------------------------------------------------------------
(* The refinement of SubsystemOwnership. *)

owner == [s \in Subsystem |-> Owner(s)]

LEMMA OwnerScheduled ==
    ASSUME IInv, NEW s \in Subsystem, NEW c \in addedCommands, s \in Reqs[c]
    PROVE  owner[s] = c
<1>1. s \in associatedSubsystems
  BY DEF IInv, Core, AssociationExact, Requirements
<1>2. \A d \in addedCommands : s \in Reqs[d] => d = c
  BY DEF IInv, Core, NoSharedSubsystem
<1>3. QED
  BY <1>1, <1>2 DEF owner, Owner

LEMMA OwnerRequires ==
    ASSUME IInv, NEW s \in Subsystem, owner[s] # nullptr
    PROVE  owner[s] \in addedCommands /\ s \in Reqs[owner[s]]
<1>1. s \in associatedSubsystems
  BY DEF owner, Owner
<1>2. PICK c \in addedCommands : s \in Reqs[c]
  BY <1>1 DEF IInv, Core, AssociationExact, Requirements
<1>3. QED
  BY <1>2, OwnerScheduled

LEMMA OwnerNone ==
    ASSUME NEW s \in Subsystem, s \notin associatedSubsystems
    PROVE  owner[s] = nullptr
BY DEF owner, Owner

LEMMA OwnerUnchanged ==
    UNCHANGED <<associatedSubsystems, addedCommands>> => UNCHANGED owner
BY DEF owner, Owner

(* Removing commands releases exactly what they own. *)
LEMMA RemoveReleases ==
    ASSUME IInv, IInv', NEW S \in SUBSET addedCommands, Remove(S)
    PROVE  Ownership!Release(S)
<1>1. ASSUME NEW s \in Subsystem
      PROVE  owner'[s] = IF owner[s] \in S THEN nullptr ELSE owner[s]
  <2>1. nullptr \notin addedCommands
    BY CountAssumption DEF IInv, TypeOK, Command, nullptr
  <2>2. CASE owner[s] \in S
    <3>1. s \in Reqs[owner[s]]
      BY <2>1, <2>2, OwnerRequires
    <3>2. s \notin associatedSubsystems'
      BY <2>2, <3>1 DEF Remove, Requirements
    <3>3. QED
      BY <2>2, <3>2 DEF owner, Owner
  <2>3. CASE owner[s] \notin S /\ owner[s] # nullptr
    <3>1. owner[s] \in addedCommands' /\ s \in Reqs[owner[s]]
      BY <2>3, OwnerRequires DEF Remove
    <3>2. s \in associatedSubsystems'
      BY <3>1 DEF IInv, Core, AssociationExact, Requirements
    <3>3. \A d \in addedCommands' : s \in Reqs[d] => d = owner[s]
      BY <3>1 DEF IInv, Core, NoSharedSubsystem
    <3>4. QED
      BY <2>3, <3>1, <3>2, <3>3 DEF owner, Owner
  <2>4. CASE owner[s] = nullptr
    <3>1. s \notin associatedSubsystems
      BY <2>1, <2>4, OwnerScheduled DEF IInv, Core, AssociationExact, Requirements
    <3>2. s \notin associatedSubsystems'
      BY <3>1 DEF Remove
    <3>3. QED
      BY <2>4, <3>2 DEF owner, Owner
  <2>5. QED
    BY <2>2, <2>3, <2>4
<1>2. QED
  BY <1>1 DEF Ownership!Release, owner

(* Scheduling acquires the requirements and releases those of the evicted. *)
LEMMA ScheduleAcquires ==
    ASSUME IInv, IInv', NEW c \in Command, Accepted(c), Schedule(c)
    PROVE  Ownership!Acquire(c)
<1> DEFINE evicted == Conflicting(c)
<1>0. nullptr \notin Command /\ addedCommands \subseteq Command
  BY CountAssumption DEF IInv, TypeOK, Command, nullptr
<1>1. Ownership!Displaced(c) = evicted
  <2>1. Ownership!Displaced(c) = {owner[s] : s \in Reqs[c]} \ {nullptr}
    BY DEF Ownership!Displaced, owner
  <2>2. Reqs[c] \subseteq Subsystem
    BY ReqsAssumption
  <2>3. ASSUME NEW s \in Reqs[c], owner[s] # nullptr
        PROVE  owner[s] \in evicted
    BY <2>2, <2>3, OwnerRequires DEF Conflicting
  <2>4. ASSUME NEW d \in evicted
        PROVE  \E s \in Reqs[c] : owner[s] = d
    BY <2>2, <2>4, OwnerScheduled DEF Conflicting
  <2>5. nullptr \notin evicted
    BY <1>0 DEF Conflicting
  <2>6. QED
    BY <2>1, <2>3, <2>4, <2>5
<1>2. /\ addedCommands' = (addedCommands \ evicted) \union {c}
      /\ associatedSubsystems' =
             (associatedSubsystems \ Requirements(evicted)) \union Reqs[c]
  BY DEF Schedule
<1>3. ASSUME NEW s \in Subsystem
      PROVE  owner'[s] = IF s \in Reqs[c] THEN c
                         ELSE IF owner[s] \in evicted THEN nullptr
                         ELSE owner[s]
  <2>1. \A d, e \in addedCommands' : s \in Reqs[d] /\ s \in Reqs[e] => d = e
    BY DEF IInv, Core, NoSharedSubsystem
  <2>2. CASE s \in Reqs[c]
    <3>1. c \in addedCommands' /\ s \in associatedSubsystems'
      BY <1>2, <2>2
    <3>2. QED
      BY <2>1, <2>2, <3>1 DEF owner, Owner
  <2>3. CASE s \notin Reqs[c] /\ owner[s] \in evicted
    <3>1. s \in Reqs[owner[s]]
      BY <1>0, <2>3, OwnerRequires DEF Conflicting
    <3>2. s \notin associatedSubsystems'
      BY <1>2, <2>3, <3>1 DEF Requirements
    <3>3. QED
      BY <2>3, <3>2 DEF owner, Owner
  <2>4. CASE s \notin Reqs[c] /\ owner[s] \notin evicted /\ owner[s] # nullptr
    <3>1. owner[s] \in addedCommands' /\ s \in Reqs[owner[s]]
      BY <1>2, <2>4, OwnerRequires
    <3>2. s \in associatedSubsystems'
      BY <3>1 DEF IInv, Core, AssociationExact, Requirements
    <3>3. QED
      BY <2>1, <2>4, <3>1, <3>2 DEF owner, Owner
  <2>5. CASE s \notin Reqs[c] /\ owner[s] = nullptr
    <3>1. s \notin associatedSubsystems
      BY <1>0, <2>5, OwnerScheduled DEF IInv, Core, AssociationExact, Requirements
    <3>2. s \notin associatedSubsystems'
      BY <1>2, <2>5, <3>1
    <3>3. nullptr \notin evicted
      BY <1>0 DEF Conflicting
    <3>4. QED
      BY <2>5, <3>2, <3>3 DEF owner, Owner
  <2>6. QED
    BY <2>2, <2>3, <2>4, <2>5
<1>4. QED
  BY <1>1, <1>3 DEF Ownership!Acquire, owner, Accepted

(***************************************************************************)
(* Every step of the scheduler acquires all the requirements of a command, *)
(* releases all those of some commands, or leaves the ownership alone.     *)
(***************************************************************************)
LEMMA StepRefines == IInv /\ IInv' /\ [Next]_vars => [Ownership!Next]_owner
<1> SUFFICES ASSUME IInv, IInv', [Next]_vars PROVE [Ownership!Next]_owner
  OBVIOUS
<1>1. ASSUME NEW c \in Command, Accepted(c), Schedule(c)
      PROVE  Ownership!Next
  BY <1>1, ScheduleAcquires DEF Ownership!Next
<1>2. ASSUME NEW S \in SUBSET addedCommands, Remove(S)
      PROVE  Ownership!Next
  <2>1. ASSUME NEW c \in S
        PROVE  c \in Ownership!Owners
    <3>1. PICK s \in Subsystem : s \in Reqs[c]
      BY <2>1, ReqsAssumption DEF IInv, Core, ScheduledOnRegistered, TypeOK
    <3>2. owner[s] = c /\ c # nullptr
      BY <2>1, <3>1, OwnerScheduled, CountAssumption, SMTT(40) DEF IInv, TypeOK, Command, nullptr
    <3>3. QED
      BY <3>2 DEF Ownership!Owners, owner
  <2>2. Ownership!Release(S)
    BY <1>2, RemoveReleases
  <2>3. QED
    BY <2>1, <2>2 DEF Ownership!Next
<1>3. ASSUME UNCHANGED <<associatedSubsystems, addedCommands>>
      PROVE  UNCHANGED owner
  BY <1>3, OwnerUnchanged
<1>4. ASSUME NEW c \in Command, removeCommand(c)
      PROVE  Ownership!Next
  <2>1. {c} \in SUBSET addedCommands /\ Remove({c})
    BY <1>4 DEF removeCommand, isCommandScheduled
  <2>2. QED
    BY <1>2, <2>1
<1>5. ASSUME NEW s \in Subsystem, StartTest(s)
      PROVE  [Ownership!Next]_owner
  <2>1. TestCommand[s] \in Command
    BY <1>5, TestAssumption DEF StartTest
  <2>2. QED
    BY <1>1, <1>3, <1>5, <2>1 DEF StartTest, schedule
<1>6. CASE Call
  <2>1. ASSUME NEW s \in Subsystem, registerSubsystem(s)
        PROVE  [Ownership!Next]_owner
    BY <1>3, <2>1 DEF registerSubsystem, schedule
  <2>2. ASSUME NEW s \in Subsystem, runHardwareTest(s)
        PROVE  [Ownership!Next]_owner
    BY <1>5, <2>2 DEF runHardwareTest
  <2>3. ASSUME NEW s \in Subsystem, stopHardwareTest(s)
        PROVE  [Ownership!Next]_owner
    BY <1>4, <2>3, TestAssumption DEF stopHardwareTest
  <2>4. ASSUME NEW c \in Command, addCommand(c)
        PROVE  [Ownership!Next]_owner
    BY <1>1, <2>4 DEF addCommand
  <2>5. CASE stopAllHardwareTests
    BY <1>2, <2>5 DEF stopAllHardwareTests
  <2>6. CASE TestsBegin
    BY <1>3, <2>6 DEF TestsBegin, schedule
  <2>7. QED
    BY <1>4, <1>6, <2>1, <2>2, <2>3, <2>4, <2>5, <2>6 DEF Call
<1>7. CASE Step
  <2>1. ASSUME NEW c \in Command, RemoveNext(c) \/ ExecuteNext(c)
        PROVE  [Ownership!Next]_owner
    <3>1. {c} \in SUBSET addedCommands
      BY <2>1 DEF RemoveNext, ExecuteNext, IsNext
    <3>2. QED
      BY <1>2, <1>3, <2>1, <3>1 DEF RemoveNext, ExecuteNext
  <2>2. ASSUME NEW s \in Subsystem, TestsNext(s)
        PROVE  [Ownership!Next]_owner
    BY <1>3, <1>5, <2>2 DEF TestsNext, schedule
  <2>3. CASE AddDefault
    <3>1. DefaultCommand[index] \in Command
      BY <2>3 DEF AddDefault, IInv, Position
    <3>2. QED
      BY <1>1, <1>3, <2>3, <3>1 DEF AddDefault, schedule
  <2>4. ASSUME UNCHANGED schedule
        PROVE  [Ownership!Next]_owner
    BY <1>3, <2>4 DEF schedule
  <2>5. QED
    BY <1>7, <2>1, <2>2, <2>3, <2>4 DEF Step, RunBegin, CommandsEnd, TestNext,
          Refresh, DefaultNext, RunEnd, TestsEnd
<1>8. CASE ConnectionChange \/ UNCHANGED vars
  BY <1>3, <1>8 DEF ConnectionChange, vars, schedule
<1>9. QED
  BY <1>6, <1>7, <1>8 DEF Next

(***************************************************************************)
(* The scheduler implements the abstract ownership of subsystems: its      *)
(* bitmaps, loops and refusals allow nothing that SubsystemOwnership does  *)
(* not.                                                                    *)
(***************************************************************************)
THEOREM Refinement == Spec => ImplementsOwnership
<1>1. Init => Ownership!Init
  BY DEF Init, Ownership!Init, Owner
<1>2. Spec => [][Ownership!Next]_owner
  BY Invariance, StepRefines, PTL DEF Spec
<1>3. QED
  BY <1>1, <1>2, PTL DEF Spec, ImplementsOwnership, Ownership!Spec, owner
=============================================================================
