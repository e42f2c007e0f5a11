------------------------- MODULE MCComposedCommands -------------------------
(***************************************************************************)
(* The commands that are made of other commands, and those that move a     *)
(* setpoint subsystem.  They share nothing, so one run drives one of them, *)
(* chosen in the initial state; the others stay as they were constructed.  *)
(***************************************************************************)
EXTENDS Integers

CONSTANTS
    COMMANDS, Commands, MaxSchedules, Governors, AddedWhileScheduled,
    targetDisplacement, moveTime, pauseAfterMoveTime, setToTargetOnEnd, setpointTolerance,
    unjamDisplacement, unjamThreshold, maxWaitTime, targetCycleCount, JamTolerance, JamTime,
    desiredSetpoint, targetIntegralChange, integralSetpointTolerance, unjamSetpoint,
    targetUnjamIntegralChange, setpoint, speed, Reach

ASSUME CompositionAssumption ==
    /\ COMMANDS \in Nat \ {0}
    /\ MaxSchedules \in Nat
    /\ AddedWhileScheduled \in BOOLEAN

ASSUME MovesAssumption ==
    /\ {targetDisplacement, moveTime, unjamDisplacement, unjamThreshold, maxWaitTime,
        targetCycleCount, unjamSetpoint, targetUnjamIntegralChange, speed, Reach}
           \subseteq Nat \ {0}
    /\ {JamTolerance, JamTime, pauseAfterMoveTime, setpointTolerance,
        integralSetpointTolerance} \subseteq Nat
    /\ setToTargetOnEnd \in BOOLEAN
    /\ {desiredSetpoint, targetIntegralChange} \subseteq Int
    /\ setpoint \in -Reach .. Reach

VARIABLES
    driven, \* the command that the scheduler adds, runs and removes
    currentCommand, commandInitialized, sequenced, sequenceScheduled, sequenceCompleted,
    RACE, finishedCommands, concurrent, concurrentScheduled, schedules, completed,
    limited, governedCommandSelected, stopFallbackCommandIfGovernorsReady, readyGovernors,
    finishedGovernors, governed, governorScheduled, turn,
    moved, move, unjam, inner, unjamSequenceCommencing, moveScheduled, moveChild,
    moveOver, moveFrom, moveSince,
    integrated, finalTargetIntegralSetpoint, unjamIntegral, innerIntegral,
    integralUnjamming, integralScheduled, integralChild,
    automaticallyClearJam, setSetpointToTargetOnEnd, positioned, rampToSetpoint,
    absoluteElapsed, absoluteScheduled, absoluteFrom, absoluteSince, absoluteOver

Sequential == INSTANCE SequentialCommand WITH
    child <- sequenced, scheduled <- sequenceScheduled, completed <- sequenceCompleted
Concurrent == INSTANCE ConcurrentCommand WITH
    child <- concurrent, scheduled <- concurrentScheduled
Governor == INSTANCE GovernorWithFallbackCommand WITH
    child <- governed, scheduled <- governorScheduled
MoveUnjam == INSTANCE MoveUnjamCommand WITH
    subsystem <- moved, scheduled <- moveScheduled, child <- moveChild, over <- moveOver,
    from <- moveFrom, since <- moveSince
Integral == INSTANCE MoveUnjamIntegralCommand WITH
    subsystem <- integrated, unjam <- unjamIntegral, inner <- innerIntegral,
    unjamSequenceCommencing <- integralUnjamming, scheduled <- integralScheduled,
    child <- integralChild
Absolute == INSTANCE MoveAbsoluteCommand WITH
    subsystem <- positioned, elapsed <- absoluteElapsed, scheduled <- absoluteScheduled,
    from <- absoluteFrom, since <- absoluteSince, over <- absoluteOver

sequentialVars == <<currentCommand, commandInitialized, sequenced, sequenceScheduled,
                    sequenceCompleted>>
concurrentVars == <<RACE, finishedCommands, concurrent, concurrentScheduled, schedules,
                    completed>>
governorVars == <<limited, governedCommandSelected, stopFallbackCommandIfGovernorsReady,
                  readyGovernors, finishedGovernors, governed, governorScheduled, turn>>
moveUnjamVars == <<moved, move, unjam, inner, unjamSequenceCommencing, moveScheduled,
                   moveChild, moveOver, moveFrom, moveSince>>
integralVars == <<integrated, finalTargetIntegralSetpoint, unjamIntegral, innerIntegral,
                  integralUnjamming, integralScheduled, integralChild>>
absoluteVars == <<automaticallyClearJam, setSetpointToTargetOnEnd, positioned,
                  rampToSetpoint, absoluteElapsed, absoluteScheduled, absoluteFrom,
                  absoluteSince, absoluteOver>>
vars == <<driven, sequentialVars, concurrentVars, governorVars, moveUnjamVars,
          integralVars, absoluteVars>>

Init ==
    /\ driven \in {"sequential", "concurrent", "governor", "move and unjam", "integral",
                   "absolute"}
    /\ Sequential!Init /\ Concurrent!Init /\ Governor!Init
    /\ MoveUnjam!Init /\ Integral!Init /\ Absolute!Init
    /\ driven # "sequential" => ~commandInitialized
    /\ driven # "concurrent" => ~RACE
    /\ driven # "governor" =>
          /\ ~limited /\ ~stopFallbackCommandIfGovernorsReady
          /\ readyGovernors = {}
          /\ finishedGovernors = {}
    /\ driven # "absolute" => ~automaticallyClearJam /\ ~setSetpointToTargetOnEnd

OnlySequential ==
    /\ driven = "sequential"
    /\ UNCHANGED <<driven, concurrentVars, governorVars, moveUnjamVars, integralVars,
                   absoluteVars>>

OnlyConcurrent ==
    /\ driven = "concurrent"
    /\ UNCHANGED <<driven, sequentialVars, governorVars, moveUnjamVars, integralVars,
                   absoluteVars>>

OnlyGovernor ==
    /\ driven = "governor"
    /\ UNCHANGED <<driven, sequentialVars, concurrentVars, moveUnjamVars, integralVars,
                   absoluteVars>>

OnlyMoveUnjam ==
    /\ driven = "move and unjam"
    /\ UNCHANGED <<driven, sequentialVars, concurrentVars, governorVars, integralVars,
                   absoluteVars>>

OnlyIntegral ==
    /\ driven = "integral"
    /\ UNCHANGED <<driven, sequentialVars, concurrentVars, governorVars, moveUnjamVars,
                   absoluteVars>>

OnlyAbsolute ==
    /\ driven = "absolute"
    /\ UNCHANGED <<driven, sequentialVars, concurrentVars, governorVars, moveUnjamVars,
                   integralVars>>

Next ==
    \/ Sequential!Next /\ OnlySequential
    \/ Concurrent!Next /\ OnlyConcurrent
    \/ Governor!Next /\ OnlyGovernor
    \/ MoveUnjam!Next /\ OnlyMoveUnjam
    \/ Integral!Next /\ OnlyIntegral
    \/ Absolute!Next /\ OnlyAbsolute

(* While a command is scheduled the scheduler runs it again and again. *)
Run ==
    \/ Governor!Run /\ OnlyGovernor
    \/ MoveUnjam!Run /\ OnlyMoveUnjam
    \/ Integral!Run /\ OnlyIntegral

(* Time passes. *)
Tick ==
    \/ MoveUnjam!Tick /\ OnlyMoveUnjam
    \/ Integral!Tick /\ OnlyIntegral

Spec == Init /\ [][Next]_vars /\ WF_vars(Run) /\ WF_vars(Tick)

(* No command of a composed command misses, or gets twice, one of its calls. *)
ChildrenDriven ==
    /\ Sequential!ChildrenDriven
    /\ Concurrent!ChildrenDriven
    /\ Governor!ChildrenDriven
    /\ MoveUnjam!ChildrenDriven
    /\ Integral!ChildrenDriven

(* A sequence runs its commands one after the other, and all of them. *)
SequenceInOrder == Sequential!InOrder

(* A concurrent command finishes when all of its commands, or in a race one,
   have; a fallback that is to stop for ready governors does, and a governed
   command that a governor wants to stop; unjamming ends, whatever the subsystem
   does. *)
EndsWhenItShould ==
    /\ Concurrent!FinishesOnce
    /\ Governor!FallbackYields /\ Governor!GovernedStops
    /\ MoveUnjam!UnjamEnds
    /\ Integral!UnjamEnds

(* The setpoint of a move is never ahead of its time, and a move that is over
   does not go on pushing into a jam. *)
PushesNoFurther ==
    /\ MoveUnjam!RampsFromStart /\ Absolute!RampsFromStart
    /\ MoveUnjam!HoldsWhenOver /\ Integral!StopsWhenOver /\ Absolute!HoldsWhenOver
=============================================================================
