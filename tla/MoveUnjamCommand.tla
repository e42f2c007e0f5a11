-------------------------- MODULE MoveUnjamCommand --------------------------
(***************************************************************************)
(* tap::control::setpoint: MoveUnjamComprisedCommand with its two commands *)
(* MoveCommand and UnjamCommand, which a CommandScheduler of its own runs, *)
(* the jam checker, and the setpoint subsystem they all act on.  The       *)
(* command is added, run and removed the way the robot's CommandScheduler  *)
(* does; run() ends with refresh() of the subsystem.  A method is an       *)
(* operator that takes the fields of its object, and the subsystem.        *)
(*                                                                         *)
(* A timer is the time it has left, or Stopped.  The subsystem does not    *)
(* change between two calls of one run().  What initialize() of a command  *)
(* sets is forgotten when the command is ended, but for the ramp.          *)
(***************************************************************************)
EXTENDS Ramp, CommandLifecycle

CONSTANTS
    targetDisplacement, moveTime, pauseAfterMoveTime, setToTargetOnEnd,
    setpointTolerance,                  \* of MoveCommand
    unjamDisplacement, unjamThreshold, maxWaitTime, targetCycleCount,
    JamTolerance, JamTime,              \* of the jam checker
    Reach                               \* bound: the subsystem is in -Reach .. Reach

VARIABLES
    subsystem,  \* [setpoint, value, jammed, online, jamTimeout]
    move,       \* [ramp, elapsed, pause], elapsed the time since previousMoveTime
    unjam,      \* [state, timeout, setpointBefore, valueBefore, backwardsCleared,
                \*  forwardsCleared, backwardsCount]
    inner,      \* the command in comprisedCommandScheduler
    unjamSequenceCommencing,
    scheduled,  \* the comprised command is in the robot's scheduler
    child,      \* history: what was called on the two commands
    over,       \* history: value and jammed when a command was last ended in a jam,
                \*   until the next is initialized
    from, since \* history: setpoint and time when the move that runs began

vars == <<subsystem, move, unjam, inner, unjamSequenceCommencing, scheduled, child,
          over, from, since>>

Stopped == -1

Elapse(timer) == IF timer > 0 THEN timer - 1 ELSE timer

ToMoveTime(time) == IF time < moveTime THEN time + 1 ELSE time

(***************************************************************************)
(* SetpointContinuousJamChecker: check() in every refresh() of the         *)
(* subsystem, and restart() in clearJam().                                 *)
(***************************************************************************)
Check(s) ==
    [s EXCEPT !.jamTimeout =
        IF compareClose(s.value, s.setpoint, JamTolerance) THEN JamTime ELSE @]

Refresh(s) ==
    LET checked == Check(s) IN
    [checked EXCEPT !.jammed =
        @ \/ (~compareClose(s.value, s.setpoint, JamTolerance) /\ checked.jamTimeout = 0)]

ClearJam(s) == [s EXCEPT !.jammed = FALSE, !.jamTimeout = JamTime]

(***************************************************************************)
(* MoveCommand.                                                            *)
(***************************************************************************)
MoveReady(s) == ~s.jammed /\ s.online

(* Mutant: initialize() keeps the time of the last call of execute(), long ago. *)
MoveStartedLate(s) ==
    [ramp |-> setValue(setTarget(move.ramp, s.setpoint + targetDisplacement), s.setpoint),
     elapsed |-> moveTime, pause |-> Stopped]

MoveStarted(s) ==
    [ramp |-> setValue(setTarget(move.ramp, s.setpoint + targetDisplacement), s.setpoint),
     elapsed |-> 0, pause |-> Stopped]

AtTarget(m, s) == compareClose(s.value, m.ramp.target, setpointTolerance)

(* execute(), of a subsystem that is online and not jammed. *)
MoveExecuted(m, s) ==
    LET ramp == update(m.ramp, (m.elapsed * targetDisplacement) \div moveTime) IN
    [ramp |-> ramp, elapsed |-> 0,
     pause |-> IF m.pause = Stopped /\ AtTarget(m, s) THEN pauseAfterMoveTime ELSE m.pause]

MoveFinished(m, s) ==
    \/ s.jammed \/ ~s.online
    \/ AtTarget(m, s) /\ m.ramp.targetReached /\ m.pause = 0

(* Mutant: end() sends the subsystem on to its target, jammed or not. *)
MoveEndedAtTarget(m, s, interrupted) ==
    [s EXCEPT !.setpoint = IF interrupted \/ ~setToTargetOnEnd THEN s.value
                           ELSE m.ramp.target]

MoveEnded(m, s, interrupted) ==
    [s EXCEPT !.setpoint =
        IF interrupted \/ s.jammed \/ ~s.online \/ ~setToTargetOnEnd THEN s.value
        ELSE m.ramp.target]

(***************************************************************************)
(* UnjamCommand: backwards and forwards until the threshold was passed     *)
(* both ways, and then back to where the setpoint was.                     *)
(***************************************************************************)
UnjamReady(s) == s.online

(* Mutant: a cycle is not counted. *)
UncountedBackwards(u, s) ==
    [unjam |-> [u EXCEPT !.state = "backward", !.timeout = maxWaitTime],
     subsystem |-> [s EXCEPT !.setpoint = u.valueBefore - unjamDisplacement]]

Backwards(u, s) ==
    [unjam |-> [u EXCEPT !.state = "backward", !.timeout = maxWaitTime,
                         !.backwardsCount = @ + 1],
     subsystem |-> [s EXCEPT !.setpoint = u.valueBefore - unjamDisplacement]]

Forwards(u, s) ==
    [unjam |-> [u EXCEPT !.state = "forward", !.timeout = maxWaitTime],
     subsystem |-> [s EXCEPT !.setpoint = u.valueBefore + unjamDisplacement]]

NotUnjamming ==
    [state |-> "backward", timeout |-> Stopped, setpointBefore |-> 0, valueBefore |-> 0,
     backwardsCleared |-> FALSE, forwardsCleared |-> FALSE, backwardsCount |-> 0]

UnjamStarted(s) ==
    Backwards([NotUnjamming EXCEPT !.setpointBefore = s.setpoint, !.valueBefore = s.value], s)

(* The switch of execute(). *)
UnjamSwitched(u, s) ==
    CASE u.state = "backward" /\ s.value <= u.valueBefore - unjamThreshold ->
            Forwards([u EXCEPT !.backwardsCleared = TRUE], s)
      [] u.state = "forward" /\ s.value >= u.valueBefore + unjamThreshold ->
            Backwards([u EXCEPT !.forwardsCleared = TRUE], s)
      [] u.state = "backward" /\ s.value > u.valueBefore - unjamThreshold
            /\ u.timeout = 0 -> Forwards(u, s)
      [] u.state = "forward" /\ s.value < u.valueBefore + unjamThreshold
            /\ u.timeout = 0 -> Backwards(u, s)
      [] u.state = "cleared" /\ u.timeout = 0 ->
            Forwards([u EXCEPT !.backwardsCleared = FALSE, !.forwardsCleared = FALSE], s)
      [] OTHER -> [unjam |-> u, subsystem |-> s]

UnjamExecuted(started) ==
    LET now == UnjamSwitched(started.unjam, started.subsystem) IN
    IF now.unjam.state # "cleared" /\ now.unjam.backwardsCleared /\ now.unjam.forwardsCleared
    THEN [unjam |-> [now.unjam EXCEPT !.state = "cleared", !.timeout = maxWaitTime],
          subsystem |-> [now.subsystem EXCEPT !.setpoint = now.unjam.setpointBefore]]
    ELSE now

UnjamFinished(u, s) ==
    \/ ~s.online
    \/ u.state = "cleared" /\ 10 * Distance(s.value, u.setpointBefore) <= 9 * JamTolerance
    \/ u.backwardsCount >= targetCycleCount + 1

(* Mutant: a jam that was not cleared leaves the setpoint where it was. *)
UnjamEndedPushing(u, s) == IF u.state = "cleared" THEN ClearJam(s) ELSE s

UnjamEnded(u, s) ==
    IF u.state = "cleared" THEN ClearJam(s) ELSE [s EXCEPT !.setpoint = s.value]

-----------------------------------------------------------------------------
(***************************************************************************)
(* MoveUnjamComprisedCommand, and the scheduler it has for itself.         *)
(***************************************************************************)
Never == [value |-> 0, jammed |-> FALSE]

Observed(s) == IF s.jammed THEN [value |-> s.value, jammed |-> TRUE] ELSE Never

NotMoving(m) == [m EXCEPT !.elapsed = 0, !.pause = Stopped]

Init ==
    /\ subsystem = [setpoint |-> 0, value |-> 0, jammed |-> FALSE, online |-> FALSE,
                    jamTimeout |-> Stopped]
    /\ move = [ramp |-> RampAt(0), elapsed |-> 0, pause |-> Stopped]
    /\ unjam = NotUnjamming
    /\ inner = "none"
    /\ unjamSequenceCommencing = FALSE
    /\ scheduled = FALSE
    /\ child = [c \in {"move", "unjam"} |-> Idle]
    /\ over = Never
    /\ from = 0 /\ since = 0

(* What end() of the inner command that runs does to the subsystem. *)
InnerEnded(s, interrupted) ==
    CASE inner = "move" -> MoveEnded(move, s, interrupted)
      [] inner = "unjam" -> UnjamEnded(unjam, s)
      [] OTHER -> s

ChildEnded == IF inner = "none" THEN child ELSE [child EXCEPT ![inner] = Ended(@)]

(* end() of the comprised command: no inner command runs, s is the subsystem. *)
End(s) ==
    /\ inner' = "none"
    /\ unjam' = NotUnjamming
    /\ move' = NotMoving(move)
    /\ child' = ChildEnded
    /\ over' = IF inner = "none" THEN over ELSE Observed(s)
    /\ from' = 0 /\ since' = 0

(* addCommand: end() if it is scheduled already, and initialize(). *)
Add ==
    \E s \in {IF scheduled THEN InnerEnded(subsystem, TRUE) ELSE subsystem} :
    \E ended \in {IF scheduled THEN ChildEnded ELSE child} :
        /\ s.setpoint + targetDisplacement <= Reach
        /\ subsystem' = s
        /\ unjam' = NotUnjamming
        /\ IF MoveReady(s)
           THEN /\ move' = MoveStarted(s)
                /\ inner' = "move"
                /\ child' = [ended EXCEPT !["move"] = Initialized(@)]
                /\ from' = s.setpoint
                /\ over' = Never
           ELSE /\ inner' = "none"
                /\ child' = ended
                /\ over' = IF inner = "none" THEN over ELSE Observed(s)
                /\ from' = 0
                /\ move' = NotMoving(move)
        /\ since' = 0
        /\ unjamSequenceCommencing' = FALSE
        /\ scheduled' = TRUE

Remove(interrupted) ==
    /\ scheduled
    /\ \E s \in {InnerEnded(subsystem, interrupted)} : End(s) /\ subsystem' = s
    /\ scheduled' = FALSE
    /\ UNCHANGED unjamSequenceCommencing

(***************************************************************************)
(* run() of the scheduler: execute(), isFinished() and perhaps end() of    *)
(* the comprised command, and the refresh() of the subsystem.              *)
(***************************************************************************)
RunMove ==
    /\ scheduled /\ subsystem.online /\ ~subsystem.jammed
    /\ inner = "move"
    /\ \E m \in {MoveExecuted(move, subsystem)} :
       \E s \in {[subsystem EXCEPT !.setpoint = m.ramp.value]} :
          /\ IF MoveFinished(m, s)
             THEN \E ended \in {MoveEnded(m, s, FALSE)} :
                     /\ move' = NotMoving(m)
                     /\ subsystem' = Refresh(ended)
                     /\ inner' = "none" /\ scheduled' = FALSE
                     /\ over' = Observed(ended)
                     /\ child' = [child EXCEPT !["move"] = Ended(Executed(@))]
                     /\ from' = 0 /\ since' = 0
             ELSE /\ move' = m
                  /\ subsystem' = Refresh(s)
                  /\ child' = [child EXCEPT !["move"] = Executed(@)]
                  /\ UNCHANGED <<inner, scheduled, over, from, since>>
    /\ UNCHANGED <<unjam, unjamSequenceCommencing>>

(* UnjamCommand, initialized before or now, is executed and perhaps ended. *)
RunUnjam(started, children) ==
    /\ \E now \in {UnjamExecuted(started)} :
          IF UnjamFinished(now.unjam, now.subsystem)
          THEN \E ended \in {UnjamEnded(now.unjam, now.subsystem)} :
                  /\ unjam' = NotUnjamming
                  /\ subsystem' = Refresh(ended)
                  /\ inner' = "none" /\ scheduled' = FALSE
                  /\ over' = Observed(ended)
                  /\ child' = [children EXCEPT !["unjam"] = Ended(Executed(@))]
          ELSE /\ unjam' = now.unjam
               /\ subsystem' = Refresh(now.subsystem)
               /\ inner' = "unjam" /\ scheduled' = TRUE
               /\ over' = Never
               /\ child' = [children EXCEPT !["unjam"] = Executed(@)]
    /\ from' = 0 /\ since' = 0
    /\ move' = NotMoving(move)

(* Mutant: the command that runs is not ended when the unjam command is added. *)
RunJammedBoth ==
    /\ scheduled /\ subsystem.online /\ subsystem.jammed
    /\ ~unjamSequenceCommencing
    /\ unjamSequenceCommencing' = TRUE
    /\ RunUnjam(UnjamStarted(subsystem), [child EXCEPT !["unjam"] = Initialized(@)])

(* A jam: the unjam command, which is ready, replaces the one that runs. *)
RunJammed ==
    /\ scheduled /\ subsystem.online /\ subsystem.jammed
    /\ ~unjamSequenceCommencing
    /\ unjamSequenceCommencing' = TRUE
    /\ RunUnjam(UnjamStarted(InnerEnded(subsystem, TRUE)),
                [ChildEnded EXCEPT !["unjam"] = Initialized(@)])

RunUnjamming ==
    /\ scheduled /\ subsystem.online
    /\ inner = "unjam"
    /\ RunUnjam([unjam |-> unjam, subsystem |-> subsystem], child)
    /\ UNCHANGED unjamSequenceCommencing

(* MoveCommand was not ready, and there is no jam any more: finished. *)
RunNothing ==
    /\ scheduled /\ subsystem.online
    /\ inner = "none" /\ ~subsystem.jammed
    /\ scheduled' = FALSE
    /\ subsystem' = Refresh(subsystem)
    /\ UNCHANGED <<move, unjam, inner, unjamSequenceCommencing, child, over, from, since>>

(* agitatorDisconnectFault: finished, and end() as if it were interrupted. *)
RunOffline ==
    /\ scheduled /\ ~subsystem.online
    /\ \E s \in {InnerEnded(subsystem, TRUE)} : End(s) /\ subsystem' = Refresh(s)
    /\ scheduled' = FALSE
    /\ UNCHANGED unjamSequenceCommencing

RunIdle ==
    /\ ~scheduled
    /\ subsystem' = Refresh(subsystem)
    /\ UNCHANGED <<move, unjam, inner, unjamSequenceCommencing, scheduled, child, over,
                   from, since>>

Run == RunMove \/ RunJammed \/ RunUnjamming \/ RunNothing \/ RunOffline \/ RunIdle

(* The clock of the timers, and the subsystem: it moves, it comes and goes. *)
Tick ==
    /\ subsystem' = [subsystem EXCEPT !.jamTimeout = Elapse(@)]
    /\ move' = IF inner = "move"
               THEN [move EXCEPT !.elapsed = ToMoveTime(@), !.pause = Elapse(@)] ELSE move
    /\ unjam' = [unjam EXCEPT !.timeout = Elapse(@)]
    /\ since' = IF inner = "move" THEN ToMoveTime(since) ELSE since
    /\ UNCHANGED <<inner, unjamSequenceCommencing, scheduled, child, over, from>>

Drift ==
    /\ \E v \in {subsystem.value - 1, subsystem.value + 1} \intersect (-Reach .. Reach) :
          subsystem' = [subsystem EXCEPT !.value = v]
    /\ UNCHANGED <<move, unjam, inner, unjamSequenceCommencing, scheduled, child, over,
                   from, since>>

Connection ==
    /\ subsystem' = [subsystem EXCEPT !.online = ~@]
    /\ UNCHANGED <<move, unjam, inner, unjamSequenceCommencing, scheduled, child, over,
                   from, since>>

Next ==
    \/ Add
    \/ \E interrupted \in BOOLEAN : Remove(interrupted)
    \/ Run
    \/ Tick \/ Drift \/ Connection

Spec == Init /\ [][Next]_vars

(***************************************************************************)
(* The main loop calls run() again and again, and time passes.             *)
(***************************************************************************)
FairSpec == Spec /\ WF_vars(Run) /\ WF_vars(Tick)

-----------------------------------------------------------------------------
(***************************************************************************)
(* The scheduler of the comprised command drives its two commands          *)
(* properly: never both, never one without its initialize() or its end(),  *)
(* and none when the comprised command is over, whatever ended it - a jam, *)
(* a target, a lost connection, the robot's scheduler.                     *)
(***************************************************************************)
ChildrenDriven ==
    /\ \A c \in {"move", "unjam"} :
          child[c].misused = {} /\ (child[c].active <=> inner = c)
    /\ inner # "none" => scheduled

(***************************************************************************)
(* unjam_command.hpp:43-46, move_command.cpp:90-93: a command that is over *)
(* and leaves the jam behind has the subsystem stay where it is, "so the   *)
(* motor does not attempt to keep rotating forward (and possible           *)
(* stalling)".                                                             *)
(***************************************************************************)
HoldsWhenOver ==
    inner = "none" /\ over.jammed => subsystem.setpoint = over.value

(***************************************************************************)
(* The setpoint of a move is never further from where it began than the    *)
(* time since then allows, however the calls, jams and reconnections fell: *)
(* the time of an earlier move, or of a pause, is not made up for.         *)
(***************************************************************************)
RampsFromStart ==
    inner = "move" =>
        Distance(subsystem.setpoint, from) * moveTime <= since * targetDisplacement

(***************************************************************************)
(* unjam_command.hpp:39-50: unjamming ends, with the jam cleared or after  *)
(* its cycles, whatever the subsystem does.                                *)
(***************************************************************************)
UnjamEnds == inner = "unjam" ~> inner # "unjam"
=============================================================================
