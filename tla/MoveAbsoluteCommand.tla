------------------------ MODULE MoveAbsoluteCommand -------------------------
(***************************************************************************)
(* tap::control::setpoint::MoveAbsoluteCommand: ramps the setpoint of its  *)
(* subsystem from where the subsystem is to a fixed value.  It is driven   *)
(* the way a CommandScheduler drives a command.  Whether the subsystem is  *)
(* jammed or online is its own affair.                                     *)
(***************************************************************************)
EXTENDS Ramp

CONSTANTS
    setpoint, speed, setpointTolerance,
    Reach   \* bound: the subsystem is in -Reach .. Reach

VARIABLES
    automaticallyClearJam, setSetpointToTargetOnEnd, \* constant after construction
    subsystem,      \* [setpoint, value, jammed, online]
    rampToSetpoint,
    elapsed,        \* time since prevMoveTime
    scheduled,
    from, since,    \* history: value and time when it was initialized, until it ends
    over            \* history: value and jammed when it ended, until it starts again

vars == <<automaticallyClearJam, setSetpointToTargetOnEnd, subsystem, rampToSetpoint,
          elapsed, scheduled, from, since, over>>

configuration == <<automaticallyClearJam, setSetpointToTargetOnEnd>>

(* Bound of the times: by then the ramp has arrived from anywhere. *)
Longest == 1 + (2 * Reach) \div speed

Later(time) == IF time < Longest THEN time + 1 ELSE time

Never == [value |-> 0, jammed |-> FALSE]

Init ==
    /\ automaticallyClearJam \in BOOLEAN
    /\ setSetpointToTargetOnEnd \in BOOLEAN
    /\ subsystem = [setpoint |-> 0, value |-> 0, jammed |-> FALSE, online |-> FALSE]
    /\ rampToSetpoint = RampAt(0)
    /\ elapsed = 0
    /\ scheduled = FALSE
    /\ from = 0 /\ since = 0
    /\ over = Never

isReady == ~subsystem.jammed /\ subsystem.online

(* Mutant: a jam at the end is not asked for. *)
EndedAtTarget(s) ==
    [s EXCEPT !.setpoint = IF setSetpointToTargetOnEnd THEN setpoint ELSE s.value,
              !.jammed = @ /\ ~automaticallyClearJam]

(* end(): the subsystem after it. *)
Ended(s) ==
    [s EXCEPT !.setpoint = IF ~s.jammed /\ setSetpointToTargetOnEnd THEN setpoint
                           ELSE s.value,
              !.jammed = @ /\ ~automaticallyClearJam]

(* Mutant: the time in which the subsystem could not move is made up for. *)
initializeLate ==
    /\ rampToSetpoint' = setValue(setTarget(rampToSetpoint, setpoint), subsystem.value)
    /\ UNCHANGED elapsed

initialize ==
    /\ rampToSetpoint' = setValue(setTarget(rampToSetpoint, setpoint), subsystem.value)
    /\ elapsed' = 0

(* addCommand: isReady(), end() if it is scheduled already, and initialize(). *)
Add ==
    /\ isReady
    /\ subsystem' = IF scheduled THEN Ended(subsystem) ELSE subsystem
    /\ initialize
    /\ scheduled' = TRUE
    /\ from' = subsystem.value /\ since' = 0
    /\ over' = Never
    /\ UNCHANGED configuration

End(s) ==
    /\ subsystem' = Ended(s)
    /\ scheduled' = FALSE
    /\ over' = [value |-> s.value, jammed |-> s.jammed]
    /\ from' = 0 /\ since' = 0

Remove ==
    /\ scheduled
    /\ End(subsystem)
    /\ UNCHANGED <<configuration, rampToSetpoint, elapsed>>

(* run() of the scheduler: execute(), and end() if that finished it. *)
RunStuck ==
    /\ scheduled
    /\ subsystem.jammed \/ ~subsystem.online
    /\ elapsed' = 0
    /\ End([subsystem EXCEPT !.setpoint = subsystem.value])
    /\ UNCHANGED <<configuration, rampToSetpoint>>

RunMoving ==
    /\ scheduled
    /\ ~subsystem.jammed /\ subsystem.online
    /\ elapsed' = 0
    /\ rampToSetpoint' = update(rampToSetpoint, elapsed * speed)
    /\ \E s \in {[subsystem EXCEPT !.setpoint = rampToSetpoint'.value]} :
          IF /\ rampToSetpoint'.targetReached
             /\ compareClose(s.value, rampToSetpoint'.target, setpointTolerance)
          THEN End(s)
          ELSE subsystem' = s /\ UNCHANGED <<scheduled, from, since, over>>
    /\ UNCHANGED configuration

Tick ==
    /\ elapsed' = Later(elapsed)
    /\ since' = IF scheduled THEN Later(since) ELSE since
    /\ UNCHANGED <<configuration, subsystem, rampToSetpoint, scheduled, from, over>>

SubsystemChanges ==
    /\ \/ \E v \in {subsystem.value - 1, subsystem.value + 1} \intersect (-Reach .. Reach) :
             subsystem' = [subsystem EXCEPT !.value = v]
       \/ subsystem' = [subsystem EXCEPT !.jammed = ~@]
       \/ subsystem' = [subsystem EXCEPT !.online = ~@]
    /\ UNCHANGED <<configuration, rampToSetpoint, elapsed, scheduled, from, since, over>>

Next == Add \/ Remove \/ RunStuck \/ RunMoving \/ Tick \/ SubsystemChanges

Spec == Init /\ [][Next]_vars

-----------------------------------------------------------------------------
(***************************************************************************)
(* The ramp is never further from where it began than the time since then  *)
(* allows, however the calls, jams and reconnections fell: the time of an  *)
(* earlier move is not made up for.                                        *)
(***************************************************************************)
RampsFromStart ==
    scheduled => Distance(rampToSetpoint.value, from) <= since * speed

(***************************************************************************)
(* move_absolute_command.hpp:42-44: a command that ends in a jam stops the *)
(* subsystem where it is.                                                  *)
(***************************************************************************)
HoldsWhenOver == ~scheduled /\ over.jammed => subsystem.setpoint = over.value
=============================================================================
