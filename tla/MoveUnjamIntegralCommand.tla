---------------------- MODULE MoveUnjamIntegralCommand ----------------------
(***************************************************************************)
(* tap::control::setpoint: MoveUnjamIntegralComprisedCommand with its two  *)
(* commands MoveIntegralCommand and UnjamIntegralCommand, which command a  *)
(* velocity and watch its integral.  It is driven as MoveUnjamCommand is;  *)
(* unlike it, it asks whether it is ready, and has no flag for a lost      *)
(* connection.  When the subsystem says it is jammed is its own affair.    *)
(***************************************************************************)
EXTENDS Integers, CommandLifecycle

CONSTANTS
    desiredSetpoint, targetIntegralChange, integralSetpointTolerance,
    unjamSetpoint, targetUnjamIntegralChange, maxWaitTime, targetCycleCount,
    Reach   \* bound: the integral is in -Reach .. Reach

VARIABLES
    subsystem,                   \* [setpoint, integral, jammed, online]
    finalTargetIntegralSetpoint, \* of the move that runs, or 0
    unjam,                       \* [state, timeout, positionBefore, backwardsCleared,
                                 \*  forwardsCleared, backwardsCount]
    inner,                       \* the command in comprisedCommandScheduler
    unjamSequenceCommencing,
    scheduled,                   \* the comprised command is in the robot's scheduler
    child                        \* history: what was called on the two commands

vars == <<subsystem, finalTargetIntegralSetpoint, unjam, inner, unjamSequenceCommencing,
          scheduled, child>>

Stopped == -1

(***************************************************************************)
(* MoveIntegralCommand.                                                    *)
(***************************************************************************)
MoveReady(s) == ~s.jammed /\ s.online

MoveStarted(s) == [s EXCEPT !.setpoint = desiredSetpoint]

targetIntegralReached(s) ==
    IF targetIntegralChange > 0
    THEN s.integral > finalTargetIntegralSetpoint - integralSetpointTolerance
    ELSE s.integral < finalTargetIntegralSetpoint + integralSetpointTolerance

MoveFinished(s) == s.jammed \/ ~s.online \/ targetIntegralReached(s)

MoveEnded(s) == [s EXCEPT !.setpoint = 0]

(***************************************************************************)
(* UnjamIntegralCommand.                                                   *)
(***************************************************************************)
UnjamReady(s) == s.online

(* Mutant: a cycle is not counted. *)
UncountedBackwards(u, s) ==
    [unjam |-> [u EXCEPT !.state = "backward", !.timeout = maxWaitTime],
     subsystem |-> [s EXCEPT !.setpoint = -unjamSetpoint]]

Backwards(u, s) ==
    [unjam |-> [u EXCEPT !.state = "backward", !.timeout = maxWaitTime,
                         !.backwardsCount = @ + 1],
     subsystem |-> [s EXCEPT !.setpoint = -unjamSetpoint]]

Forwards(u, s) ==
    [unjam |-> [u EXCEPT !.state = "forward", !.timeout = maxWaitTime],
     subsystem |-> [s EXCEPT !.setpoint = unjamSetpoint]]

NotUnjamming ==
    [state |-> "backward", timeout |-> Stopped, positionBefore |-> 0,
     backwardsCleared |-> FALSE, forwardsCleared |-> FALSE, backwardsCount |-> 0]

UnjamStarted(s) == Backwards([NotUnjamming EXCEPT !.positionBefore = s.integral], s)

(* The switch of execute(). *)
UnjamSwitched(u, s) ==
    CASE u.state = "backward" /\ s.integral <= u.positionBefore - targetUnjamIntegralChange ->
            Forwards([u EXCEPT !.backwardsCleared = TRUE], s)
      [] u.state = "forward" /\ s.integral >= u.positionBefore ->
            Backwards([u EXCEPT !.forwardsCleared = TRUE], s)
      [] u.state = "backward" /\ s.integral > u.positionBefore - targetUnjamIntegralChange
            /\ u.timeout = 0 -> Forwards(u, s)
      [] u.state = "forward" /\ s.integral < u.positionBefore
            /\ u.timeout = 0 -> Backwards(u, s)
      [] OTHER -> [unjam |-> u, subsystem |-> s]

UnjamExecuted(started) ==
    LET now == UnjamSwitched(started.unjam, started.subsystem) IN
    [now EXCEPT !.unjam.state =
        IF now.unjam.backwardsCleared /\ now.unjam.forwardsCleared THEN "cleared" ELSE @]

UnjamFinished(u, s) ==
    ~s.online \/ u.state = "cleared" \/ u.backwardsCount >= targetCycleCount + 1

(* Mutant: a jam that was not cleared leaves the setpoint where it was. *)
UnjamEndedMoving(u, s) ==
    IF u.state = "cleared" THEN [s EXCEPT !.jammed = FALSE, !.setpoint = 0] ELSE s

UnjamEnded(u, s) ==
    [s EXCEPT !.jammed = IF u.state = "cleared" THEN FALSE ELSE @, !.setpoint = 0]

-----------------------------------------------------------------------------
(***************************************************************************)
(* MoveUnjamIntegralComprisedCommand, and the scheduler it has for itself. *)
(***************************************************************************)
Init ==
    /\ subsystem = [setpoint |-> 0, integral |-> 0, jammed |-> FALSE, online |-> FALSE]
    /\ finalTargetIntegralSetpoint = 0
    /\ unjam = NotUnjamming
    /\ inner = "none"
    /\ unjamSequenceCommencing = FALSE
    /\ scheduled = FALSE
    /\ child = [c \in {"move", "unjam"} |-> Idle]

isReady == IF subsystem.jammed THEN UnjamReady(subsystem) ELSE MoveReady(subsystem)

(* What end() of the inner command that runs does to the subsystem. *)
InnerEnded(s) ==
    CASE inner = "move" -> MoveEnded(s)
      [] inner = "unjam" -> UnjamEnded(unjam, s)
      [] OTHER -> s

ChildEnded == IF inner = "none" THEN child ELSE [child EXCEPT ![inner] = Ended(@)]

(* The inner commands are gone, and the subsystem is as s. *)
End(s) ==
    /\ subsystem' = s
    /\ inner' = "none"
    /\ unjam' = NotUnjamming
    /\ finalTargetIntegralSetpoint' = 0

(* addCommand: isReady(), end() if it is scheduled already, and initialize(). *)
Add ==
    /\ isReady
    /\ \E s \in {InnerEnded(subsystem)} :
          IF MoveReady(s)
          THEN /\ s.integral + targetIntegralChange <= Reach
               /\ subsystem' = MoveStarted(s)
               /\ finalTargetIntegralSetpoint' = s.integral + targetIntegralChange
               /\ inner' = "move"
               /\ unjam' = NotUnjamming
               /\ child' = [ChildEnded EXCEPT !["move"] = Initialized(@)]
          ELSE End(s) /\ child' = ChildEnded
    /\ unjamSequenceCommencing' = FALSE
    /\ scheduled' = TRUE

Remove ==
    /\ scheduled
    /\ End(InnerEnded(subsystem))
    /\ child' = ChildEnded
    /\ scheduled' = FALSE
    /\ UNCHANGED unjamSequenceCommencing

(***************************************************************************)
(* run() of the scheduler: execute(), isFinished() and perhaps end() of    *)
(* the comprised command.                                                  *)
(***************************************************************************)
RunMove ==
    /\ scheduled /\ ~subsystem.jammed
    /\ inner = "move"
    /\ IF MoveFinished(subsystem)
       THEN /\ End(MoveEnded(subsystem))
            /\ scheduled' = FALSE
            /\ child' = [child EXCEPT !["move"] = Ended(Executed(@))]
       ELSE /\ child' = [child EXCEPT !["move"] = Executed(@)]
            /\ UNCHANGED <<subsystem, finalTargetIntegralSetpoint, unjam, inner, scheduled>>
    /\ UNCHANGED unjamSequenceCommencing

(* UnjamIntegralCommand, initialized before or now, is executed and perhaps ended. *)
RunUnjam(started, children) ==
    \E now \in {UnjamExecuted(started)} :
        IF UnjamFinished(now.unjam, now.subsystem)
        THEN /\ End(UnjamEnded(now.unjam, now.subsystem))
             /\ scheduled' = FALSE
             /\ child' = [children EXCEPT !["unjam"] = Ended(Executed(@))]
        ELSE /\ subsystem' = now.subsystem
             /\ unjam' = now.unjam
             /\ inner' = "unjam"
             /\ finalTargetIntegralSetpoint' = 0
             /\ child' = [children EXCEPT !["unjam"] = Executed(@)]
             /\ UNCHANGED scheduled

(* A jam: the unjam command replaces the one that runs. *)
RunJammed ==
    /\ scheduled /\ subsystem.jammed /\ UnjamReady(subsystem)
    /\ ~unjamSequenceCommencing
    /\ unjamSequenceCommencing' = TRUE
    /\ RunUnjam(UnjamStarted(InnerEnded(subsystem)),
                [ChildEnded EXCEPT !["unjam"] = Initialized(@)])

(* Mutant: with the unjam command refused, the move is taken to go on. *)
RunJammedOfflineGoesOn ==
    /\ scheduled /\ subsystem.jammed /\ ~UnjamReady(subsystem)
    /\ ~unjamSequenceCommencing
    /\ unjamSequenceCommencing' = TRUE
    /\ scheduled' = FALSE
    /\ UNCHANGED <<subsystem, finalTargetIntegralSetpoint, unjam, inner, child>>

(* A jam while the subsystem is offline: the unjam command is refused, the *)
(* move, if it runs, finishes, and so does the comprised command.          *)
RunJammedOffline ==
    /\ scheduled /\ subsystem.jammed /\ ~UnjamReady(subsystem)
    /\ ~unjamSequenceCommencing
    /\ unjamSequenceCommencing' = TRUE
    /\ scheduled' = FALSE
    /\ End(InnerEnded(subsystem))
    /\ child' = IF inner = "move" THEN [child EXCEPT !["move"] = Ended(Executed(@))]
                ELSE child

RunUnjamming ==
    /\ scheduled
    /\ inner = "unjam"
    /\ RunUnjam([unjam |-> unjam, subsystem |-> subsystem], child)
    /\ UNCHANGED unjamSequenceCommencing

(* MoveIntegralCommand was not ready, and there is no jam any more: finished. *)
RunNothing ==
    /\ scheduled
    /\ inner = "none" /\ ~subsystem.jammed
    /\ scheduled' = FALSE
    /\ UNCHANGED <<subsystem, finalTargetIntegralSetpoint, unjam, inner,
                   unjamSequenceCommencing, child>>

Run == RunMove \/ RunJammed \/ RunJammedOffline \/ RunUnjamming \/ RunNothing

(* The clock of the timer, and the subsystem. *)
Tick ==
    /\ unjam.timeout > 0
    /\ unjam' = [unjam EXCEPT !.timeout = @ - 1]
    /\ UNCHANGED <<subsystem, finalTargetIntegralSetpoint, inner, unjamSequenceCommencing,
                   scheduled, child>>

SubsystemChanges ==
    /\ \/ \E i \in {subsystem.integral - 1, subsystem.integral + 1} \intersect (-Reach .. Reach) :
             subsystem' = [subsystem EXCEPT !.integral = i]
       \/ subsystem' = [subsystem EXCEPT !.jammed = ~@]
       \/ subsystem' = [subsystem EXCEPT !.online = ~@]
    /\ UNCHANGED <<finalTargetIntegralSetpoint, unjam, inner, unjamSequenceCommencing,
                   scheduled, child>>

Next == Add \/ Remove \/ Run \/ Tick \/ SubsystemChanges

Spec == Init /\ [][Next]_vars

(***************************************************************************)
(* The main loop calls run() again and again, and time passes.             *)
(***************************************************************************)
FairSpec == Spec /\ WF_vars(Run) /\ WF_vars(Tick)

-----------------------------------------------------------------------------
(***************************************************************************)
(* The scheduler of the comprised command drives its two commands          *)
(* properly: never both, never one without its initialize() or its end(),  *)
(* and none when the comprised command is over.                            *)
(***************************************************************************)
ChildrenDriven ==
    /\ \A c \in {"move", "unjam"} :
          child[c].misused = {} /\ (child[c].active <=> inner = c)
    /\ inner # "none" => scheduled

(***************************************************************************)
(* However the command came to its end - a jam, a target, a lost           *)
(* connection, the robot's scheduler - it stops the subsystem.             *)
(***************************************************************************)
StopsWhenOver == ~scheduled => subsystem.setpoint = 0

(***************************************************************************)
(* unjam_integral_command.hpp:34-36: unjamming ends, with the jam cleared  *)
(* or after its cycles, whatever the subsystem does.                       *)
(***************************************************************************)
UnjamEnds == inner = "unjam" ~> inner # "unjam"
=============================================================================
