--------------------- MODULE MCComposedCommands_proofs ---------------------
(***************************************************************************)
(* What the composed commands keep, whoever adds, runs and removes them,   *)
(* for any commands, distances and times.  Each kind has an inductive      *)
(* invariant of its own, which the steps of the others leave alone.        *)
(***************************************************************************)
EXTENDS MCComposedCommands, TLAPS

(* A command as it was called: a Child of CommandLifecycle. *)
Calls == [active : BOOLEAN, misused : SUBSET {"initialize", "execute", "end"}]

(***************************************************************************)
(* SequentialCommand: exactly the current command is active, once it was   *)
(* initialized, and those before it have finished.                         *)
(***************************************************************************)
SequentialInv ==
    /\ currentCommand \in 0 .. COMMANDS
    /\ commandInitialized \in BOOLEAN
    /\ sequenced \in [0 .. COMMANDS - 1 -> Calls]
    /\ sequenceScheduled \in BOOLEAN
    /\ sequenceScheduled => currentCommand # COMMANDS
    /\ \A i \in 0 .. COMMANDS - 1 :
          /\ sequenced[i].misused \subseteq {"end"}
          /\ sequenced[i].active <=>
                sequenceScheduled /\ i = currentCommand /\ commandInitialized
    /\ sequenceCompleted = 0 .. currentCommand - 1

(* Only a command that was never initialized is ended too early. *)
LEMMA SequentialStep == ASSUME SequentialInv, Sequential!Next PROVE SequentialInv'
<1> USE CompositionAssumption DEF SequentialInv, Calls, Sequential!Index
<1> USE DEF Sequential!Initialized, Sequential!Executed, Sequential!Ended, Sequential!Misuse
<1>1. CASE Sequential!Add
  <2>1. /\ sequenced' \in [0 .. COMMANDS - 1 -> Calls]
        /\ \A i \in 0 .. COMMANDS - 1 :
              sequenced'[i].misused \subseteq {"end"} /\ ~sequenced'[i].active
    BY <1>1 DEF Sequential!Add, Sequential!AfterEnd
  <2>2. /\ currentCommand' = 0 /\ commandInitialized' = FALSE
        /\ sequenceScheduled' = TRUE /\ sequenceCompleted' = {}
    BY <1>1 DEF Sequential!Add, Sequential!initialize
  <2>3. sequenceCompleted' = 0 .. currentCommand' - 1
    BY <2>2
  <2>4. commandInitialized' \in BOOLEAN /\ sequenceScheduled' \in BOOLEAN
    BY <2>2
  <2>5. QED
    BY <2>1, <2>2, <2>3, <2>4
<1>2. CASE Sequential!Wait
  BY <1>2 DEF Sequential!Wait, Sequential!vars
<1>3. CASE Sequential!GoOn
  BY <1>3, ZenonT(60) DEF Sequential!GoOn, Sequential!Driven
<1>4. CASE Sequential!FinishCurrent
  <2>1. /\ sequenced' \in [0 .. COMMANDS - 1 -> Calls]
        /\ \A i \in 0 .. COMMANDS - 1 :
              sequenced'[i].misused \subseteq {"end"} /\ ~sequenced'[i].active
    BY <1>4 DEF Sequential!FinishCurrent, Sequential!Driven
  <2>2. /\ currentCommand \in 0 .. COMMANDS - 1
        /\ currentCommand' = currentCommand + 1 /\ commandInitialized' = FALSE
        /\ sequenceScheduled' = (currentCommand' # COMMANDS)
        /\ sequenceCompleted' = (0 .. currentCommand - 1) \union {currentCommand}
    BY <1>4 DEF Sequential!FinishCurrent
  <2>3. sequenceCompleted' = 0 .. currentCommand' - 1
    BY <2>2
  <2>4. commandInitialized' \in BOOLEAN /\ sequenceScheduled' \in BOOLEAN
    BY <2>2
  <2>5. QED
    BY <2>1, <2>2, <2>3, <2>4
<1>5. CASE Sequential!Remove
  BY <1>5 DEF Sequential!Remove, Sequential!AfterEnd
<1>6. QED
  BY <1>1, <1>2, <1>3, <1>4, <1>5 DEF Sequential!Next

-----------------------------------------------------------------------------
(***************************************************************************)
(* ConcurrentTemplateCommand: finishedCommands, which initialize() does    *)
(* not reset, holds what has finished this time, as long as this is the    *)
(* first time.                                                             *)
(***************************************************************************)
ConcurrentInv ==
    /\ RACE \in BOOLEAN
    /\ schedules \in Nat
    /\ concurrent \in [Commands -> Calls]
    /\ concurrentScheduled \in BOOLEAN
    /\ finishedCommands \subseteq Commands
    /\ completed = finishedCommands
    /\ schedules = 0 => ~concurrentScheduled /\ finishedCommands = {}
    /\ Concurrent!ChildrenDriven

(* A concurrent command that is added once ends what it has not finished. *)
LEMMA ConcurrentStep ==
    ASSUME MaxSchedules <= 1, ConcurrentInv, Concurrent!Next
    PROVE  ConcurrentInv'
<1> USE CompositionAssumption DEF ConcurrentInv, Concurrent!ChildrenDriven, Calls
<1> USE DEF Concurrent!Initialized, Concurrent!Executed, Concurrent!Ended, Concurrent!Misuse
<1>1. CASE Concurrent!Add
  <2>1. schedules = 0 /\ schedules' = 1
    BY <1>1 DEF Concurrent!Add
  <2>2. QED
    BY <1>1, <2>1 DEF Concurrent!Add, Concurrent!AfterInitialize
<1>2. CASE Concurrent!Run
  <2>1. PICK done \in SUBSET (Commands \ finishedCommands) :
          /\ finishedCommands' = finishedCommands \union done
          /\ completed' = completed \union done
          /\ concurrentScheduled' = ~Concurrent!isFinished(finishedCommands \union done)
          /\ concurrent' = IF Concurrent!isFinished(finishedCommands \union done)
                           THEN Concurrent!AfterEnd(Concurrent!AfterExecute(done),
                                                    finishedCommands \union done)
                           ELSE Concurrent!AfterExecute(done)
    BY <1>2 DEF Concurrent!Run
  <2>2. concurrentScheduled /\ UNCHANGED <<RACE, schedules>>
    BY <1>2 DEF Concurrent!Run
  <2>3. /\ Concurrent!AfterExecute(done) \in [Commands -> Calls]
        /\ \A c \in Commands :
              /\ Concurrent!AfterExecute(done)[c].misused = {}
              /\ Concurrent!AfterExecute(done)[c].active <=> c \notin finishedCommands \union done
    BY <2>1, <2>2 DEF Concurrent!AfterExecute
  <2>4. Concurrent!isFinished(finishedCommands \union done) \in BOOLEAN
    BY DEF Concurrent!isFinished
  <2>5. CASE Concurrent!isFinished(finishedCommands \union done)
    <3>1. /\ concurrent' \in [Commands -> Calls]
          /\ \A c \in Commands : concurrent'[c].misused = {} /\ ~concurrent'[c].active
      BY <2>1, <2>3, <2>5 DEF Concurrent!AfterEnd
    <3>2. QED
      BY <2>1, <2>2, <2>5, <3>1
  <2>6. CASE ~Concurrent!isFinished(finishedCommands \union done)
    BY <2>1, <2>2, <2>3, <2>6
  <2>7. QED
    BY <2>4, <2>5, <2>6
<1>3. CASE Concurrent!Remove
  BY <1>3 DEF Concurrent!Remove, Concurrent!AfterEnd
<1>4. QED
  BY <1>1, <1>2, <1>3 DEF Concurrent!Next

-----------------------------------------------------------------------------
(***************************************************************************)
(* GovernorWithFallbackCommand: the selected command, and no other, runs.  *)
(***************************************************************************)
GovernorInv ==
    /\ limited \in BOOLEAN
    /\ governedCommandSelected \in BOOLEAN
    /\ governed \in [{"governed", "fallback"} -> Calls]
    /\ governorScheduled \in BOOLEAN
    /\ Governor!ChildrenDriven

(* isReady() changes the selection only while neither of the two runs. *)
LEMMA GovernorStep ==
    ASSUME ~AddedWhileScheduled, GovernorInv, Governor!Next
    PROVE  GovernorInv'
<1> USE DEF GovernorInv, Governor!ChildrenDriven, Governor!Selected, Calls
<1> USE DEF Governor!Initialized, Governor!Executed, Governor!Ended, Governor!Misuse
<1>1. CASE Governor!GovernorsChange
  BY <1>1 DEF Governor!GovernorsChange
<1>2. CASE Governor!Add
  <2>1. ~governorScheduled /\ governorScheduled' = TRUE /\ UNCHANGED limited
    BY <1>2 DEF Governor!Add
  <2>2. governedCommandSelected' \in BOOLEAN
    BY <1>2 DEF Governor!Add, Governor!checkGovernorReadiness
  <2>3. governed' = [governed EXCEPT ![IF governedCommandSelected' THEN "governed"
                                       ELSE "fallback"] =
                        [active |-> TRUE, misused |-> {}]]
    BY <1>2, <2>1, <2>2 DEF Governor!Add
  <2>4. QED
    BY <2>1, <2>2, <2>3
<1>3. CASE Governor!AddNotReady
  BY <1>3 DEF Governor!AddNotReady, Governor!checkGovernorReadiness
<1>4. CASE Governor!Run
  BY <1>4 DEF Governor!Run, Governor!isFinished, Governor!GovernedFinished,
              Governor!checkAnyGovernorFinished, Governor!checkGovernorReadiness
<1>5. CASE Governor!Remove
  BY <1>5 DEF Governor!Remove
<1>6. QED
  BY <1>1, <1>2, <1>3, <1>4, <1>5 DEF Governor!Next

-----------------------------------------------------------------------------
(***************************************************************************)
(* MoveUnjamComprisedCommand.                                              *)
(***************************************************************************)
Subsystems ==
    [setpoint : Int, value : Int, jammed : BOOLEAN, online : BOOLEAN, jamTimeout : Int]

Ramps == [target : Int, value : Int, targetReached : BOOLEAN]

Moves == [ramp : Ramps, elapsed : 0 .. moveTime, pause : Int]

Unjams ==
    [state : {"backward", "forward", "cleared"}, timeout : Int, setpointBefore : Int,
     valueBefore : Int, backwardsCleared : BOOLEAN, forwardsCleared : BOOLEAN,
     backwardsCount : Int]

(* The ramp of the move that runs lags behind its time, or its time is over. *)
Ramping ==
    /\ move.ramp.target = moveFrom + targetDisplacement
    /\ moved.setpoint = move.ramp.value
    /\ move.ramp.value \in moveFrom .. moveFrom + targetDisplacement
    /\ move.elapsed <= moveSince
    /\ \/ moveSince = moveTime
       \/ (move.ramp.value - moveFrom) * moveTime
             <= (moveSince - move.elapsed) * targetDisplacement

MoveUnjamTypes ==
    /\ moved \in Subsystems
    /\ move \in Moves
    /\ unjam \in Unjams
    /\ inner \in {"none", "move", "unjam"}
    /\ unjamSequenceCommencing \in BOOLEAN
    /\ moveScheduled \in BOOLEAN
    /\ moveChild \in [{"move", "unjam"} -> Calls]
    /\ moveOver \in [value : Int, jammed : BOOLEAN]
    /\ moveFrom \in Int
    /\ moveSince \in 0 .. moveTime

(* The unjam command runs only after the flag was set, which keeps a second
   jam from starting it again. *)
MoveUnjamDriven ==
    /\ MoveUnjam!ChildrenDriven
    /\ inner = "unjam" => unjamSequenceCommencing

MoveUnjamInv ==
    /\ MoveUnjamTypes
    /\ MoveUnjamDriven
    /\ MoveUnjam!HoldsWhenOver
    /\ inner = "move" => Ramping

(* What the proofs need of the constants, one by one. *)
LEMMA MovesTypes ==
    /\ targetDisplacement \in Nat \ {0} /\ moveTime \in Nat \ {0} /\ speed \in Nat \ {0}
    /\ unjamDisplacement \in Int /\ unjamThreshold \in Int /\ maxWaitTime \in Int
    /\ targetCycleCount \in Int /\ unjamSetpoint \in Int /\ targetUnjamIntegralChange \in Int
    /\ JamTolerance \in Int /\ JamTime \in Int /\ pauseAfterMoveTime \in Int
    /\ setpointTolerance \in Int /\ integralSetpointTolerance \in Int
BY MovesAssumption

(* The jam checker looks at the subsystem and does not move it. *)
LEMMA RefreshKeeps ==
    ASSUME NEW s \in Subsystems
    PROVE  /\ MoveUnjam!Refresh(s) \in Subsystems
           /\ MoveUnjam!Refresh(s).setpoint = s.setpoint
           /\ MoveUnjam!Refresh(s).value = s.value
BY MovesTypes DEF MoveUnjam!Refresh, MoveUnjam!Check, MoveUnjam!compareClose,
   MoveUnjam!Distance, Subsystems

(* Whatever inner command is ended in a jam, it leaves the setpoint where the
   subsystem is. *)
LEMMA InnerEndedHolds ==
    ASSUME MoveUnjamTypes, NEW interrupted \in BOOLEAN
    PROVE  LET s == MoveUnjam!InnerEnded(moved, interrupted) IN
           /\ s \in Subsystems
           /\ inner = "none" => s = moved
           /\ inner # "none" /\ s.jammed => s.setpoint = s.value
BY MovesTypes DEF MoveUnjamTypes, MoveUnjam!InnerEnded, MoveUnjam!MoveEnded, MoveUnjam!UnjamEnded,
   MoveUnjam!ClearJam, Subsystems, Moves, Ramps, Unjams

(* Unjamming, in either direction, keeps to the types. *)
LEMMA DirectionTypes ==
    ASSUME NEW u \in Unjams, NEW s \in Subsystems
    PROVE  /\ MoveUnjam!Backwards(u, s).unjam \in Unjams
           /\ MoveUnjam!Backwards(u, s).subsystem \in Subsystems
           /\ MoveUnjam!Forwards(u, s).unjam \in Unjams
           /\ MoveUnjam!Forwards(u, s).subsystem \in Subsystems
<1>1. u.backwardsCount + 1 \in Int /\ u.valueBefore - unjamDisplacement \in Int
      /\ u.valueBefore + unjamDisplacement \in Int
  BY MovesTypes DEF Unjams
<1>2. [u EXCEPT !.state = "backward", !.timeout = maxWaitTime, !.backwardsCount = @ + 1] \in Unjams
  BY <1>1, MovesTypes DEF Unjams
<1>3. [u EXCEPT !.state = "forward", !.timeout = maxWaitTime] \in Unjams
  BY MovesTypes DEF Unjams
<1>4. \A i \in Int : [s EXCEPT !.setpoint = i] \in Subsystems
  BY DEF Subsystems
<1>5. QED
  BY <1>1, <1>2, <1>3, <1>4 DEF MoveUnjam!Backwards, MoveUnjam!Forwards

(* So does its start. *)
LEMMA UnjamStartedTypes ==
    ASSUME NEW s \in Subsystems
    PROVE  /\ MoveUnjam!UnjamStarted(s).unjam \in Unjams
           /\ MoveUnjam!UnjamStarted(s).subsystem \in Subsystems
<1>1. MoveUnjam!NotUnjamming \in Unjams
  BY DEF MoveUnjam!NotUnjamming, MoveUnjam!Stopped, Unjams
<1>2. [MoveUnjam!NotUnjamming EXCEPT !.setpointBefore = s.setpoint, !.valueBefore = s.value]
          \in Unjams
  BY <1>1 DEF Unjams, Subsystems
<1>3. QED
  BY <1>2, DirectionTypes DEF MoveUnjam!UnjamStarted

(* And so does each execute(). *)
LEMMA UnjamExecutedTypes ==
    ASSUME NEW started, started.unjam \in Unjams, started.subsystem \in Subsystems
    PROVE  /\ MoveUnjam!UnjamExecuted(started).unjam \in Unjams
           /\ MoveUnjam!UnjamExecuted(started).subsystem \in Subsystems
<1> DEFINE now == MoveUnjam!UnjamSwitched(started.unjam, started.subsystem)
<1>1. now.unjam \in Unjams /\ now.subsystem \in Subsystems
  <2> DEFINE u == started.unjam
             s == started.subsystem
             back == [u EXCEPT !.backwardsCleared = TRUE]
             forth == [u EXCEPT !.forwardsCleared = TRUE]
             again == [u EXCEPT !.backwardsCleared = FALSE, !.forwardsCleared = FALSE]
  <2>1. {back, forth, again, u} \subseteq Unjams
    BY DEF Unjams
  <2>2. \/ \E v \in {back, forth, again, u} :
             now = MoveUnjam!Backwards(v, s) \/ now = MoveUnjam!Forwards(v, s)
        \/ now.unjam = u /\ now.subsystem = s
    BY DEF MoveUnjam!UnjamSwitched
  <2>3. QED
    BY <2>1, <2>2, DirectionTypes
<1> HIDE DEF now
<1>2. QED
  BY <1>1, MovesTypes DEF MoveUnjam!UnjamExecuted, now, Unjams, Subsystems

(* A step after which no inner command runs: it was ended, if it ran. *)
LEMMA NoneRunsInv ==
    ASSUME MoveUnjamInv, NEW interrupted \in BOOLEAN,
           inner' = "none", moved' \in Subsystems, move' \in Moves, unjam' \in Unjams,
           unjamSequenceCommencing' \in BOOLEAN, moveScheduled' \in BOOLEAN,
           moveFrom' = 0, moveSince' = 0,
           moveChild' = MoveUnjam!ChildEnded,
           moved'.setpoint = MoveUnjam!InnerEnded(moved, interrupted).setpoint,
           moveOver' = IF inner = "none" THEN moveOver
                       ELSE MoveUnjam!Observed(MoveUnjam!InnerEnded(moved, interrupted))
    PROVE  MoveUnjamInv'
<1> DEFINE s == MoveUnjam!InnerEnded(moved, interrupted)
<1>1. /\ s \in Subsystems
      /\ inner = "none" => s = moved
      /\ inner # "none" /\ s.jammed => s.setpoint = s.value
  BY InnerEndedHolds DEF MoveUnjamInv
<1> HIDE DEF s
<1>2. MoveUnjamTypes'
  <2>1. moveChild' \in [{"move", "unjam"} -> Calls]
    BY DEF MoveUnjamInv, MoveUnjamTypes, MoveUnjam!ChildEnded, MoveUnjam!Ended, MoveUnjam!Misuse,
           Calls
  <2>2. moveOver' \in [value : Int, jammed : BOOLEAN]
    BY <1>1 DEF MoveUnjamInv, MoveUnjamTypes, MoveUnjam!Observed, MoveUnjam!Never, Subsystems, s
  <2>3. moveFrom' \in Int /\ moveSince' \in 0 .. moveTime
    BY MovesTypes
  <2>4. QED
    BY <2>1, <2>2, <2>3 DEF MoveUnjamTypes
<1>3. MoveUnjamDriven'
  BY DEF MoveUnjamInv, MoveUnjamTypes, MoveUnjamDriven, MoveUnjam!ChildrenDriven,
         MoveUnjam!ChildEnded, MoveUnjam!Ended, MoveUnjam!Misuse, Calls
<1>4. MoveUnjam!HoldsWhenOver'
  BY <1>1 DEF MoveUnjamInv, MoveUnjam!HoldsWhenOver, MoveUnjam!Observed, MoveUnjam!Never, s
<1>5. QED
  BY <1>2, <1>3, <1>4 DEF MoveUnjamInv

(* A move that is over, and an unjamming that is. *)
LEMMA NotMovingTypes == ASSUME NEW m \in Moves PROVE MoveUnjam!NotMoving(m) \in Moves
<1>1. 0 \in 0 .. moveTime /\ MoveUnjam!Stopped \in Int
  BY MovesTypes DEF MoveUnjam!Stopped
<1>2. QED
  BY <1>1 DEF Moves, MoveUnjam!NotMoving

LEMMA NotUnjammingTypes == MoveUnjam!NotUnjamming \in Unjams
BY DEF MoveUnjam!NotUnjamming, MoveUnjam!Stopped, Unjams

(* Ramp::setTarget() sets the target, also if it believes it is set already. *)
LEMMA TargetSet ==
    ASSUME NEW ramp \in Ramps, NEW t \in Int
    PROVE  /\ MoveUnjam!setTarget(ramp, t) \in Ramps
           /\ MoveUnjam!setTarget(ramp, t).target = t
<1>1. ramp.target \in Int
  BY DEF Ramps
<1>2. MoveUnjam!compareClose(t, ramp.target, 0) <=> t = ramp.target
  BY <1>1 DEF MoveUnjam!compareClose, MoveUnjam!Distance
<1>3. [ramp EXCEPT !.target = t, !.targetReached = FALSE] \in Ramps
  BY DEF Ramps
<1>4. QED
  BY <1>2, <1>3 DEF MoveUnjam!setTarget, Ramps

(* addCommand: what runs is ended, and the move begins where the setpoint is. *)
LEMMA MoveUnjamAdd == ASSUME MoveUnjamInv, MoveUnjam!Add PROVE MoveUnjamInv'
<1>1. PICK s \in {IF moveScheduled THEN MoveUnjam!InnerEnded(moved, TRUE) ELSE moved},
           ended \in {IF moveScheduled THEN MoveUnjam!ChildEnded ELSE moveChild} :
        /\ moved' = s
        /\ unjam' = MoveUnjam!NotUnjamming
        /\ IF MoveUnjam!MoveReady(s)
           THEN /\ move' = MoveUnjam!MoveStarted(s)
                /\ inner' = "move"
                /\ moveChild' = [ended EXCEPT !["move"] = MoveUnjam!Initialized(@)]
                /\ moveFrom' = s.setpoint
                /\ moveOver' = MoveUnjam!Never
           ELSE /\ inner' = "none"
                /\ moveChild' = ended
                /\ moveOver' = IF inner = "none" THEN moveOver ELSE MoveUnjam!Observed(s)
                /\ moveFrom' = 0
                /\ move' = MoveUnjam!NotMoving(move)
        /\ moveSince' = 0
        /\ unjamSequenceCommencing' = FALSE
        /\ moveScheduled' = TRUE
  BY DEF MoveUnjam!Add
<1>2. s = MoveUnjam!InnerEnded(moved, TRUE) /\ ended = MoveUnjam!ChildEnded
  BY <1>1 DEF MoveUnjamInv, MoveUnjamTypes, MoveUnjamDriven, MoveUnjam!ChildrenDriven,
              MoveUnjam!InnerEnded, MoveUnjam!ChildEnded
<1>3. s \in Subsystems
  BY <1>2, InnerEndedHolds DEF MoveUnjamInv
<1>4. moveScheduled' \in BOOLEAN /\ unjamSequenceCommencing' \in BOOLEAN
  BY <1>1
<1>5. CASE ~MoveUnjam!MoveReady(s)
  <2>1. /\ inner' = "none" /\ moveChild' = MoveUnjam!ChildEnded
        /\ moved' = s /\ unjam' = MoveUnjam!NotUnjamming
        /\ moveOver' = IF inner = "none" THEN moveOver ELSE MoveUnjam!Observed(s)
        /\ moveFrom' = 0 /\ moveSince' = 0 /\ move' = MoveUnjam!NotMoving(move)
    BY <1>1, <1>2, <1>5
  <2>2. move' \in Moves /\ unjam' \in Unjams
    BY <2>1, NotMovingTypes, NotUnjammingTypes DEF MoveUnjamInv, MoveUnjamTypes
  <2>3. QED
    BY <1>2, <1>3, <1>4, <2>1, <2>2, NoneRunsInv
<1>6. CASE MoveUnjam!MoveReady(s)
  <2>1. /\ inner' = "move" /\ moved' = s /\ unjam' = MoveUnjam!NotUnjamming
        /\ move' = MoveUnjam!MoveStarted(s)
        /\ moveChild' = [MoveUnjam!ChildEnded EXCEPT !["move"] = MoveUnjam!Initialized(@)]
        /\ moveFrom' = s.setpoint /\ moveSince' = 0 /\ moveOver' = MoveUnjam!Never
    BY <1>1, <1>2, <1>6
  <2>2. /\ move' \in Moves /\ move'.ramp.target = s.setpoint + targetDisplacement
        /\ move'.ramp.value = s.setpoint /\ move'.elapsed = 0
    <3> DEFINE t == s.setpoint + targetDisplacement
               aimed == MoveUnjam!setTarget(move.ramp, t)
               ramp == MoveUnjam!setValue(aimed, s.setpoint)
    <3>1. move.ramp \in Ramps /\ t \in Int /\ s.setpoint \in Int
      BY <1>3, MovesTypes DEF MoveUnjamInv, MoveUnjamTypes, Moves, Subsystems
    <3>2. aimed \in Ramps /\ aimed.target = t
      BY <3>1, TargetSet
    <3>3. ramp \in Ramps /\ ramp.target = t /\ ramp.value = s.setpoint
      BY <3>1, <3>2 DEF MoveUnjam!setValue, Ramps
    <3>4. 0 \in 0 .. moveTime /\ MoveUnjam!Stopped \in Int
      BY MovesTypes DEF MoveUnjam!Stopped
    <3>5. move' = [ramp |-> ramp, elapsed |-> 0, pause |-> MoveUnjam!Stopped]
      BY <2>1 DEF MoveUnjam!MoveStarted
    <3>6. QED
      BY <3>3, <3>4, <3>5 DEF Moves
  <2>3. Ramping'
    BY <1>3, <2>1, <2>2, MovesTypes DEF Ramping, Subsystems
  <2>4. MoveUnjamTypes'
    <3>1. moveChild' \in [{"move", "unjam"} -> Calls]
      BY <2>1, ZenonT(60) DEF MoveUnjamInv, MoveUnjamTypes, MoveUnjam!ChildEnded, MoveUnjam!Ended,
                  MoveUnjam!Initialized, MoveUnjam!Misuse, Calls
    <3>2. moveOver' \in [value : Int, jammed : BOOLEAN]
      BY <2>1 DEF MoveUnjam!Never
    <3>3. moveFrom' \in Int /\ moveSince' \in 0 .. moveTime
      BY <1>3, <2>1, MovesTypes DEF Subsystems
    <3>4. QED
      BY <1>3, <1>4, <2>1, <2>2, <3>1, <3>2, <3>3, NotUnjammingTypes DEF MoveUnjamTypes
  <2>5. MoveUnjamDriven'
    BY <1>1, <2>1 DEF MoveUnjamInv, MoveUnjamTypes, MoveUnjamDriven, MoveUnjam!ChildrenDriven,
       MoveUnjam!ChildEnded, MoveUnjam!Ended, MoveUnjam!Initialized, MoveUnjam!Misuse, Calls
  <2>6. QED
    BY <2>1, <2>3, <2>4, <2>5 DEF MoveUnjamInv, MoveUnjam!HoldsWhenOver
<1>7. QED
  BY <1>5, <1>6

(* The two ways in which the comprised command is ended from outside. *)
LEMMA MoveUnjamEnd ==
    ASSUME MoveUnjamInv, MoveUnjam!RunOffline \/ \E interrupted \in BOOLEAN : MoveUnjam!Remove(interrupted)
    PROVE  MoveUnjamInv'
<1>1. PICK interrupted \in BOOLEAN : \E s \in {MoveUnjam!InnerEnded(moved, interrupted)} :
         MoveUnjam!End(s) /\ moved' \in {s, MoveUnjam!Refresh(s)}
  BY DEF MoveUnjam!RunOffline, MoveUnjam!Remove
<1>2. moveScheduled' = FALSE /\ UNCHANGED unjamSequenceCommencing
  BY DEF MoveUnjam!RunOffline, MoveUnjam!Remove
<1> DEFINE s == MoveUnjam!InnerEnded(moved, interrupted)
<1>3. s \in Subsystems
  BY InnerEndedHolds DEF MoveUnjamInv
<1> HIDE DEF s
<1>4. MoveUnjam!End(s) /\ moved' \in {s, MoveUnjam!Refresh(s)}
  BY <1>1 DEF s
<1>5. moved' \in Subsystems /\ moved'.setpoint = s.setpoint
  BY <1>3, <1>4, RefreshKeeps
<1>6. move' \in Moves /\ unjam' \in Unjams
  BY <1>4, NotMovingTypes, NotUnjammingTypes DEF MoveUnjam!End, MoveUnjamInv, MoveUnjamTypes
<1>7. moveScheduled' \in BOOLEAN /\ unjamSequenceCommencing' \in BOOLEAN
  BY <1>2 DEF MoveUnjamInv, MoveUnjamTypes
<1>8. QED
  BY <1>4, <1>5, <1>6, <1>7, NoneRunsInv DEF MoveUnjam!End, s

(* Whole numbers of the ramp: no step is longer than its time allows. *)
LEMMA StepInTime ==
    ASSUME NEW elapsed \in Nat
    PROVE  /\ (elapsed * targetDisplacement) \div moveTime \in Nat
           /\ ((elapsed * targetDisplacement) \div moveTime) * moveTime
                 <= elapsed * targetDisplacement
<1> DEFINE x == elapsed * targetDisplacement
<1>1. x \in Nat /\ moveTime \in Nat \ {0}
  BY MovesTypes
<1> HIDE DEF x
<1>2. x \div moveTime \in Nat /\ (x \div moveTime) * moveTime <= x
  BY <1>1
<1>3. QED
  BY <1>2 DEF x

(* Ramp::update() upwards: not past the target, and not further than allowed. *)
LEMMA RampUpdated ==
    ASSUME NEW ramp \in Ramps, NEW increment \in Nat
    PROVE  LET next == MoveUnjam!update(ramp, increment) IN
           /\ next \in Ramps
           /\ next.target = ramp.target
           /\ ramp.value <= ramp.target =>
                 /\ ramp.value <= next.value /\ next.value <= ramp.target
                 /\ next.value <= ramp.value + increment
<1> DEFINE value == IF MoveUnjam!Distance(ramp.target, ramp.value) <= increment THEN ramp.target
                    ELSE IF ramp.target < ramp.value THEN ramp.value - increment
                    ELSE ramp.value + increment
<1>1. ramp.target \in Int /\ ramp.value \in Int
  BY DEF Ramps
<1>2. /\ value \in Int
      /\ ramp.value <= ramp.target =>
            ramp.value <= value /\ value <= ramp.target /\ value <= ramp.value + increment
  BY <1>1 DEF MoveUnjam!Distance
<1>3. MoveUnjam!Distance(increment, 0) = increment
  BY DEF MoveUnjam!Distance
<1> HIDE DEF value
<1>4. MoveUnjam!compareClose(value, ramp.target, 0) \in BOOLEAN
  BY <1>1, <1>2 DEF MoveUnjam!compareClose, MoveUnjam!Distance
<1>5. MoveUnjam!update(ramp, increment) =
         [ramp EXCEPT !.value = value,
                      !.targetReached = MoveUnjam!compareClose(value, ramp.target, 0)]
  BY <1>3 DEF MoveUnjam!update, value
<1>6. QED
  BY <1>2, <1>4, <1>5 DEF Ramps

(* execute() of the move: its ramp has made up for the time since the last call. *)
LEMMA MoveExecutedRamps ==
    ASSUME MoveUnjamTypes, Ramping
    PROVE  LET m == MoveUnjam!MoveExecuted(move, moved) IN
           /\ m \in Moves
           /\ m.ramp.target = moveFrom + targetDisplacement
           /\ m.ramp.value \in moveFrom .. moveFrom + targetDisplacement
           /\ m.elapsed = 0
           /\ \/ moveSince = moveTime
              \/ (m.ramp.value - moveFrom) * moveTime <= moveSince * targetDisplacement
<1> DEFINE increment == (move.elapsed * targetDisplacement) \div moveTime
           ramp == MoveUnjam!update(move.ramp, increment)
           m == MoveUnjam!MoveExecuted(move, moved)
<1>1. /\ move.ramp \in Ramps /\ move.elapsed \in Nat /\ move.pause \in Int
      /\ moveFrom \in Int /\ moveSince \in Nat /\ move.ramp.value \in Int
      /\ targetDisplacement \in Nat /\ moveTime \in Nat
  BY MovesTypes DEF MoveUnjamTypes, Moves, Ramps
<1>2. increment \in Nat /\ increment * moveTime <= move.elapsed * targetDisplacement
  BY <1>1, StepInTime
<1>3. /\ ramp \in Ramps /\ ramp.target = moveFrom + targetDisplacement
      /\ ramp.value \in Int
      /\ move.ramp.value <= ramp.value /\ ramp.value <= ramp.target
      /\ ramp.value <= move.ramp.value + increment
  <2> HIDE DEF increment
  <2>1. move.ramp.value <= move.ramp.target
    BY <1>1 DEF Ramping
  <2>2. QED
    BY <1>1, <1>2, <2>1, RampUpdated DEF Ramping, Ramps
<1>4. m.ramp = ramp /\ m.elapsed = 0 /\ m \in Moves
  <2>1. pauseAfterMoveTime \in Int /\ 0 \in 0 .. moveTime
    BY MovesTypes
  <2> HIDE DEF ramp
  <2>2. m = [ramp |-> ramp, elapsed |-> 0,
             pause |-> IF move.pause = MoveUnjam!Stopped /\ MoveUnjam!AtTarget(move, moved)
                       THEN pauseAfterMoveTime ELSE move.pause]
    BY DEF MoveUnjam!MoveExecuted, ramp
  <2>3. QED
    BY <1>1, <1>3, <2>1, <2>2 DEF Moves
<1>5. ramp.value \in moveFrom .. moveFrom + targetDisplacement
  BY <1>1, <1>3 DEF Ramping
<1> HIDE DEF increment, ramp, m
<1>6. ASSUME (move.ramp.value - moveFrom) * moveTime
                 <= (moveSince - move.elapsed) * targetDisplacement
      PROVE  (ramp.value - moveFrom) * moveTime <= moveSince * targetDisplacement
  <2>1. (ramp.value - moveFrom) * moveTime
            <= (move.ramp.value - moveFrom + increment) * moveTime
    BY <1>1, <1>2, <1>3
  <2>2. (move.ramp.value - moveFrom + increment) * moveTime
            = (move.ramp.value - moveFrom) * moveTime + increment * moveTime
    BY <1>1, <1>2
  <2>3. (moveSince - move.elapsed) * targetDisplacement + move.elapsed * targetDisplacement
            = moveSince * targetDisplacement
    BY <1>1
  <2>4. QED
    BY <1>1, <1>2, <1>3, <1>6, <2>1, <2>2, <2>3
<1>7. QED
  BY <1>3, <1>4, <1>5, <1>6 DEF Ramping, m

(* A run() in which the move goes on or finishes. *)
LEMMA MoveUnjamRunMove == ASSUME MoveUnjamInv, MoveUnjam!RunMove PROVE MoveUnjamInv'
<1> DEFINE m == MoveUnjam!MoveExecuted(move, moved)
           s == [moved EXCEPT !.setpoint = m.ramp.value]
           ended == MoveUnjam!MoveEnded(m, s, FALSE)
<1>1. /\ MoveUnjamTypes /\ MoveUnjamDriven /\ Ramping
      /\ moveScheduled /\ inner = "move" /\ ~moved.jammed
  BY DEF MoveUnjam!RunMove, MoveUnjamInv
<1>2. /\ m \in Moves
      /\ m.ramp.target = moveFrom + targetDisplacement
      /\ m.ramp.value \in moveFrom .. moveFrom + targetDisplacement
      /\ m.elapsed = 0
      /\ \/ moveSince = moveTime
         \/ (m.ramp.value - moveFrom) * moveTime <= moveSince * targetDisplacement
  BY <1>1, MoveExecutedRamps
<1> HIDE DEF m
<1>3. s \in Subsystems /\ s.setpoint = m.ramp.value /\ s.jammed = FALSE
  BY <1>1, <1>2 DEF MoveUnjamTypes, Subsystems, Moves, Ramps
<1> HIDE DEF s
<1>4. ended \in Subsystems /\ ended.jammed = FALSE
  BY <1>2, <1>3 DEF MoveUnjam!MoveEnded, Subsystems, Moves, Ramps
<1> HIDE DEF ended
<1>5. UNCHANGED <<unjam, unjamSequenceCommencing>>
  BY DEF MoveUnjam!RunMove
<1>6. CASE /\ move' = MoveUnjam!NotMoving(m)
           /\ moved' = MoveUnjam!Refresh(ended)
           /\ inner' = "none" /\ moveScheduled' = FALSE
           /\ moveOver' = MoveUnjam!Observed(ended)
           /\ moveChild' = [moveChild EXCEPT !["move"] =
                               MoveUnjam!Ended(MoveUnjam!Executed(@))]
           /\ moveFrom' = 0 /\ moveSince' = 0
  <2>1. moveChild' = MoveUnjam!ChildEnded
    BY <1>1, <1>6 DEF MoveUnjamTypes, MoveUnjamDriven, MoveUnjam!ChildrenDriven,
       MoveUnjam!ChildEnded, MoveUnjam!Ended, MoveUnjam!Executed, MoveUnjam!Misuse, Calls
  <2>2. moveOver' = MoveUnjam!Never
    BY <1>4, <1>6 DEF MoveUnjam!Observed
  <2>3. MoveUnjamTypes'
    <3>1. moved' \in Subsystems /\ move' \in Moves
      BY <1>2, <1>4, <1>6, RefreshKeeps, NotMovingTypes
    <3>2. moveOver' \in [value : Int, jammed : BOOLEAN]
      BY <2>2 DEF MoveUnjam!Never
    <3>3. moveFrom' \in Int /\ moveSince' \in 0 .. moveTime
      BY <1>6, MovesTypes
    <3>4. moveChild' \in [{"move", "unjam"} -> Calls]
      BY <1>1, <2>1 DEF MoveUnjamTypes, MoveUnjam!ChildEnded, MoveUnjam!Ended,
         MoveUnjam!Misuse, Calls
    <3>5. moveScheduled' \in BOOLEAN
      BY <1>6
    <3>6. QED
      BY <1>1, <1>5, <1>6, <3>1, <3>2, <3>3, <3>4, <3>5 DEF MoveUnjamTypes
  <2>4. MoveUnjamDriven'
    BY <1>1, <1>6, <2>1 DEF MoveUnjamTypes, MoveUnjamDriven, MoveUnjam!ChildrenDriven,
       MoveUnjam!ChildEnded, MoveUnjam!Ended, MoveUnjam!Misuse, Calls
  <2>5. MoveUnjam!HoldsWhenOver'
    BY <2>2 DEF MoveUnjam!HoldsWhenOver, MoveUnjam!Never
  <2>6. QED
    BY <1>6, <2>3, <2>4, <2>5 DEF MoveUnjamInv
<1>7. CASE /\ move' = m
           /\ moved' = MoveUnjam!Refresh(s)
           /\ moveChild' = [moveChild EXCEPT !["move"] = MoveUnjam!Executed(@)]
           /\ UNCHANGED <<inner, moveScheduled, moveOver, moveFrom, moveSince>>
  <2>1. moveChild' = moveChild
    BY <1>1, <1>7 DEF MoveUnjamTypes, MoveUnjamDriven, MoveUnjam!ChildrenDriven,
       MoveUnjam!Executed, MoveUnjam!Misuse, Calls
  <2>2. moved' \in Subsystems /\ moved'.setpoint = m.ramp.value
    BY <1>3, <1>7, RefreshKeeps
  <2>3. Ramping'
    BY <1>1, <1>2, <1>7, <2>2, MovesTypes DEF Ramping, MoveUnjamTypes
  <2>4. MoveUnjamTypes' /\ MoveUnjamDriven'
    BY <1>1, <1>2, <1>5, <1>7, <2>1, <2>2 DEF MoveUnjamTypes, MoveUnjamDriven,
       MoveUnjam!ChildrenDriven
  <2>5. QED
    BY <1>1, <1>7, <2>3, <2>4 DEF MoveUnjamInv, MoveUnjam!HoldsWhenOver
<1>8. QED
  BY <1>6, <1>7 DEF MoveUnjam!RunMove, m, s, ended

(* The unjam command, running, is executed; it goes on, or it ends and holds. *)
LEMMA RunUnjamInv ==
    ASSUME MoveUnjamInv, NEW started, started.unjam \in Unjams, started.subsystem \in Subsystems,
           NEW children \in [{"move", "unjam"} -> Calls],
           \A c \in {"move", "unjam"} :
              children[c].misused = {} /\ (children[c].active <=> c = "unjam"),
           unjamSequenceCommencing' = TRUE,
           MoveUnjam!RunUnjam(started, children)
    PROVE  MoveUnjamInv'
<1> DEFINE now == MoveUnjam!UnjamExecuted(started)
           ended == MoveUnjam!UnjamEnded(now.unjam, now.subsystem)
<1>1. now.unjam \in Unjams /\ now.subsystem \in Subsystems
  BY UnjamExecutedTypes
<1>2. /\ moveFrom' = 0 /\ moveSince' = 0
      /\ move' = MoveUnjam!NotMoving(move)
  BY DEF MoveUnjam!RunUnjam
<1>3. /\ moveFrom' \in Int /\ moveSince' \in 0 .. moveTime /\ move' \in Moves
      /\ unjamSequenceCommencing' \in BOOLEAN
  BY <1>2, NotMovingTypes, MovesTypes DEF MoveUnjamInv, MoveUnjamTypes
<1> HIDE DEF now
<1>4. ended \in Subsystems /\ (ended.jammed => ended.setpoint = ended.value)
  BY <1>1, MovesTypes DEF MoveUnjam!UnjamEnded, MoveUnjam!ClearJam, Subsystems
<1> HIDE DEF ended
<1>5. CASE /\ unjam' = MoveUnjam!NotUnjamming
           /\ moved' = MoveUnjam!Refresh(ended)
           /\ inner' = "none" /\ moveScheduled' = FALSE
           /\ moveOver' = MoveUnjam!Observed(ended)
           /\ moveChild' = [children EXCEPT !["unjam"] =
                               MoveUnjam!Ended(MoveUnjam!Executed(@))]
  <2>1. /\ moveChild' \in [{"move", "unjam"} -> Calls]
        /\ \A c \in {"move", "unjam"} : moveChild'[c].misused = {} /\ ~moveChild'[c].active
    BY <1>5 DEF MoveUnjam!Ended, MoveUnjam!Executed, MoveUnjam!Misuse, Calls
  <2>2. moved' \in Subsystems /\ moved'.setpoint = ended.setpoint
    BY <1>4, <1>5, RefreshKeeps
  <2>3. /\ moveOver' \in [value : Int, jammed : BOOLEAN]
        /\ moveOver'.jammed => moved'.setpoint = moveOver'.value
    BY <1>4, <1>5, <2>2 DEF MoveUnjam!Observed, MoveUnjam!Never, Subsystems
  <2>4. moveScheduled' \in BOOLEAN /\ unjam' \in Unjams
    BY <1>5, NotUnjammingTypes
  <2>5. MoveUnjamTypes'
    BY <1>3, <1>5, <2>1, <2>2, <2>3, <2>4 DEF MoveUnjamTypes
  <2>6. MoveUnjamDriven' /\ MoveUnjam!HoldsWhenOver'
    BY <1>5, <2>1, <2>3 DEF MoveUnjamDriven, MoveUnjam!ChildrenDriven, MoveUnjam!HoldsWhenOver
  <2>7. QED
    BY <1>5, <2>5, <2>6 DEF MoveUnjamInv
<1>6. CASE /\ unjam' = now.unjam
           /\ moved' = MoveUnjam!Refresh(now.subsystem)
           /\ inner' = "unjam" /\ moveScheduled' = TRUE
           /\ moveOver' = MoveUnjam!Never
           /\ moveChild' = [children EXCEPT !["unjam"] = MoveUnjam!Executed(@)]
  <2>1. moveChild' = children
    BY <1>6 DEF MoveUnjam!Executed, MoveUnjam!Misuse, Calls
  <2>2. moved' \in Subsystems
    BY <1>1, <1>6, RefreshKeeps
  <2>3. moveOver' \in [value : Int, jammed : BOOLEAN] /\ moveScheduled' \in BOOLEAN
    BY <1>6 DEF MoveUnjam!Never
  <2>4. MoveUnjamTypes'
    BY <1>1, <1>3, <1>6, <2>1, <2>2, <2>3 DEF MoveUnjamTypes
  <2>5. MoveUnjamDriven' /\ MoveUnjam!HoldsWhenOver'
    BY <1>6, <2>1 DEF MoveUnjamDriven, MoveUnjam!ChildrenDriven, MoveUnjam!HoldsWhenOver
  <2>6. QED
    BY <1>6, <2>4, <2>5 DEF MoveUnjamInv
<1>7. QED
  BY <1>5, <1>6 DEF MoveUnjam!RunUnjam, now, ended

(* A run() in a jam: the move, if it runs, is ended before the unjamming. *)
LEMMA MoveUnjamJammed ==
    ASSUME MoveUnjamInv, MoveUnjam!RunJammed \/ MoveUnjam!RunUnjamming
    PROVE  MoveUnjamInv'
<1>1. CASE MoveUnjam!RunJammed
  <2> DEFINE s == MoveUnjam!InnerEnded(moved, TRUE)
             started == MoveUnjam!UnjamStarted(s)
             children == [MoveUnjam!ChildEnded EXCEPT !["unjam"] = MoveUnjam!Initialized(@)]
  <2>1. inner # "unjam" /\ unjamSequenceCommencing' = TRUE
        /\ MoveUnjam!RunUnjam(started, children)
    BY <1>1 DEF MoveUnjam!RunJammed, MoveUnjamInv, MoveUnjamDriven
  <2>2. started.unjam \in Unjams /\ started.subsystem \in Subsystems
    BY InnerEndedHolds, UnjamStartedTypes DEF MoveUnjamInv
  <2>3. /\ children \in [{"move", "unjam"} -> Calls]
        /\ \A c \in {"move", "unjam"} :
              children[c].misused = {} /\ (children[c].active <=> c = "unjam")
    BY <2>1 DEF MoveUnjamInv, MoveUnjamTypes, MoveUnjamDriven, MoveUnjam!ChildrenDriven,
       MoveUnjam!ChildEnded, MoveUnjam!Ended, MoveUnjam!Initialized, MoveUnjam!Misuse, Calls
  <2> HIDE DEF started, children
  <2>4. QED
    BY <2>1, <2>2, <2>3, RunUnjamInv
<1>2. CASE MoveUnjam!RunUnjamming
  <2> DEFINE started == [unjam |-> unjam, subsystem |-> moved]
  <2>1. /\ inner = "unjam" /\ unjamSequenceCommencing' = unjamSequenceCommencing
        /\ MoveUnjam!RunUnjam(started, moveChild)
    BY <1>2 DEF MoveUnjam!RunUnjamming
  <2>2. unjamSequenceCommencing' = TRUE
    BY <2>1 DEF MoveUnjamInv, MoveUnjamTypes, MoveUnjamDriven
  <2>3. started.unjam \in Unjams /\ started.subsystem \in Subsystems
    BY DEF MoveUnjamInv, MoveUnjamTypes
  <2>4. /\ moveChild \in [{"move", "unjam"} -> Calls]
        /\ \A c \in {"move", "unjam"} :
              moveChild[c].misused = {} /\ (moveChild[c].active <=> c = "unjam")
    BY <2>1 DEF MoveUnjamInv, MoveUnjamTypes, MoveUnjamDriven, MoveUnjam!ChildrenDriven
  <2> HIDE DEF started
  <2>5. QED
    BY <2>1, <2>2, <2>3, <2>4, RunUnjamInv
<1>3. QED
  BY <1>1, <1>2

(* Steps that leave the commands alone: run() when nothing runs, time, and
   what happens to the subsystem. *)
LEMMA MoveUnjamElsewhere ==
    ASSUME MoveUnjamInv,
           MoveUnjam!RunNothing \/ MoveUnjam!RunIdle \/ MoveUnjam!Tick \/ MoveUnjam!Drift
              \/ MoveUnjam!Connection
    PROVE  MoveUnjamInv'
<1>1. /\ UNCHANGED <<inner, unjamSequenceCommencing, moveChild, moveOver, moveFrom>>
      /\ moved'.setpoint = moved.setpoint /\ moved' \in Subsystems
      /\ moveScheduled' \in BOOLEAN
      /\ inner # "none" => UNCHANGED moveScheduled
  <2>1. moved \in Subsystems
    BY DEF MoveUnjamInv, MoveUnjamTypes
  <2>2. CASE MoveUnjam!RunNothing
    BY <2>1, <2>2, RefreshKeeps DEF MoveUnjam!RunNothing
  <2>3. CASE MoveUnjam!RunIdle
    BY <2>1, <2>3, RefreshKeeps DEF MoveUnjam!RunIdle, MoveUnjamInv, MoveUnjamTypes
  <2>4. CASE MoveUnjam!Tick
    BY <2>1, <2>4 DEF MoveUnjam!Tick, MoveUnjam!Elapse, Subsystems, MoveUnjamInv, MoveUnjamTypes
  <2>5. CASE MoveUnjam!Drift
    BY <2>1, <2>5, MovesAssumption
       DEF MoveUnjam!Drift, Subsystems, MoveUnjamInv, MoveUnjamTypes
  <2>6. CASE MoveUnjam!Connection
    BY <2>1, <2>6 DEF MoveUnjam!Connection, Subsystems, MoveUnjamInv, MoveUnjamTypes
  <2>7. QED
    BY <2>2, <2>3, <2>4, <2>5, <2>6
<1>2. /\ move' \in Moves /\ unjam' \in Unjams /\ moveSince' \in 0 .. moveTime
      /\ inner = "move" => Ramping'
  <2>1. CASE UNCHANGED <<move, unjam, moveSince>>
    BY <1>1, <2>1 DEF MoveUnjamInv, MoveUnjamTypes, Ramping
  <2>2. CASE MoveUnjam!Tick
    <3>1. \A time \in 0 .. moveTime : MoveUnjam!ToMoveTime(time) \in 0 .. moveTime
      BY MovesTypes DEF MoveUnjam!ToMoveTime
    <3>2. \A timer \in Int : MoveUnjam!Elapse(timer) \in Int
      BY DEF MoveUnjam!Elapse
    <3>3. move' \in Moves /\ unjam' \in Unjams /\ moveSince' \in 0 .. moveTime
      BY <2>2, <3>1, <3>2 DEF MoveUnjam!Tick, MoveUnjamInv, MoveUnjamTypes, Moves, Unjams
    <3>4. ASSUME inner = "move"
          PROVE  Ramping'
      <4>1. /\ move'.ramp = move.ramp
            /\ move'.elapsed = MoveUnjam!ToMoveTime(move.elapsed)
            /\ moveSince' = MoveUnjam!ToMoveTime(moveSince)
        BY <2>2, <3>4 DEF MoveUnjam!Tick, MoveUnjamInv, MoveUnjamTypes, Moves
      <4>2. /\ move.elapsed \in 0 .. moveTime /\ moveSince \in 0 .. moveTime
            /\ moveTime \in Nat /\ Ramping
        BY <3>4, MovesTypes DEF MoveUnjamInv, MoveUnjamTypes, Moves
      <4>3. \/ moveSince' = moveTime
            \/ move'.elapsed <= moveSince' /\ moveSince' - move'.elapsed = moveSince - move.elapsed
        BY <4>1, <4>2 DEF MoveUnjam!ToMoveTime, Ramping
      <4>4. move'.elapsed <= moveSince'
        BY <4>1, <4>2 DEF MoveUnjam!ToMoveTime, Ramping
      <4>5. moveSince = moveTime => moveSince' = moveTime
        BY <4>1, <4>2 DEF MoveUnjam!ToMoveTime
      <4>6. QED
        BY <1>1, <4>1, <4>2, <4>3, <4>4, <4>5 DEF Ramping
    <3>5. QED
      BY <3>3, <3>4
  <2>3. QED
    BY <2>1, <2>2 DEF MoveUnjam!RunNothing, MoveUnjam!RunIdle, MoveUnjam!Drift,
                      MoveUnjam!Connection
<1>3. MoveUnjamTypes'
  BY <1>1, <1>2 DEF MoveUnjamInv, MoveUnjamTypes
<1>4. MoveUnjamDriven'
  BY <1>1 DEF MoveUnjamInv, MoveUnjamDriven, MoveUnjam!ChildrenDriven
<1>5. MoveUnjam!HoldsWhenOver'
  BY <1>1 DEF MoveUnjamInv, MoveUnjam!HoldsWhenOver
<1>6. QED
  BY <1>1, <1>2, <1>3, <1>4, <1>5 DEF MoveUnjamInv

(* Every step of the move with its unjamming. *)
LEMMA MoveUnjamStep == ASSUME MoveUnjamInv, MoveUnjam!Next PROVE MoveUnjamInv'
BY MoveUnjamAdd, MoveUnjamEnd, MoveUnjamRunMove, MoveUnjamJammed, MoveUnjamElsewhere
   DEF MoveUnjam!Next, MoveUnjam!Run

(* What Ramping says of the time since the last execute(), for any time. *)
LEMMA RampingInTime ==
    ASSUME MoveUnjamInv
    PROVE  MoveUnjam!RampsFromStart
<1>1. CASE inner = "move"
  <2>1. /\ Ramping /\ moveFrom \in Int /\ moveSince \in 0 .. moveTime
        /\ move.elapsed \in 0 .. moveTime /\ moved.setpoint \in Int
        /\ targetDisplacement \in Nat /\ moveTime \in Nat
    BY <1>1, MovesTypes DEF MoveUnjamInv, MoveUnjamTypes, Moves, Subsystems
  <2>2. /\ MoveUnjam!Distance(moved.setpoint, moveFrom) = moved.setpoint - moveFrom
        /\ moved.setpoint - moveFrom <= targetDisplacement
    BY <2>1 DEF Ramping, MoveUnjam!Distance
  <2>3. CASE moveSince = moveTime
    BY <2>1, <2>2, <2>3 DEF MoveUnjam!RampsFromStart
  <2>4. CASE (move.ramp.value - moveFrom) * moveTime
                 <= (moveSince - move.elapsed) * targetDisplacement
    <3>1. (moveSince - move.elapsed) * targetDisplacement <= moveSince * targetDisplacement
      BY <2>1
    <3>2. QED
      BY <2>1, <2>2, <2>4, <3>1 DEF MoveUnjam!RampsFromStart, Ramping
  <2>5. QED
    BY <2>1, <2>3, <2>4 DEF Ramping
<1>2. QED
  BY <1>1 DEF MoveUnjam!RampsFromStart

-----------------------------------------------------------------------------
(***************************************************************************)
(* MoveUnjamIntegralComprisedCommand: it commands a velocity, so that the  *)
(* subsystem stands still whenever no inner command runs.                  *)
(***************************************************************************)
Integrated == [setpoint : Int, integral : Int, jammed : BOOLEAN, online : BOOLEAN]

IntegralInv ==
    /\ integrated \in Integrated
    /\ innerIntegral \in {"none", "move", "unjam"}
    /\ integralUnjamming \in BOOLEAN
    /\ integralScheduled \in BOOLEAN
    /\ integralChild \in [{"move", "unjam"} -> Calls]
    /\ Integral!ChildrenDriven
    /\ innerIntegral = "unjam" => integralUnjamming
    /\ innerIntegral = "none" => integrated.setpoint = 0

(* end() of the unjam command stops the subsystem, cleared or not. *)
LEMMA IntegralUnjamEnded ==
    ASSUME NEW u, NEW s \in Integrated
    PROVE  /\ Integral!UnjamEnded(u, s) \in Integrated
           /\ Integral!UnjamEnded(u, s).setpoint = 0
<1> DEFINE jam == IF u.state = "cleared" THEN FALSE ELSE s.jammed
<1>1. jam \in BOOLEAN
  BY DEF Integrated
<1>2. Integral!UnjamEnded(u, s) = [s EXCEPT !.jammed = jam, !.setpoint = 0]
  BY DEF Integral!UnjamEnded, Integrated
<1>3. \A b \in BOOLEAN : [s EXCEPT !.jammed = b] \in Integrated
  BY DEF Integrated
<1>4. \A r \in Integrated :
         [r EXCEPT !.setpoint = 0] \in Integrated /\ [r EXCEPT !.setpoint = 0].setpoint = 0
  BY DEF Integrated
<1> HIDE DEF jam
<1>5. QED
  BY <1>1, <1>2, <1>3, <1>4

(* Whatever inner command runs: after its end() the subsystem stands still. *)
LEMMA IntegralEnded ==
    ASSUME IntegralInv
    PROVE  /\ Integral!InnerEnded(integrated) \in Integrated
           /\ Integral!InnerEnded(integrated).setpoint = 0
           /\ Integral!ChildEnded \in [{"move", "unjam"} -> Calls]
           /\ \A c \in {"move", "unjam"} :
                 Integral!ChildEnded[c].misused = {} /\ ~Integral!ChildEnded[c].active
<1>1. /\ Integral!InnerEnded(integrated) \in Integrated
      /\ Integral!InnerEnded(integrated).setpoint = 0
  BY IntegralUnjamEnded
     DEF IntegralInv, Integral!InnerEnded, Integral!MoveEnded, Integrated
<1>2. /\ Integral!ChildEnded \in [{"move", "unjam"} -> Calls]
      /\ \A c \in {"move", "unjam"} :
            Integral!ChildEnded[c].misused = {} /\ ~Integral!ChildEnded[c].active
  BY DEF IntegralInv, Integral!ChildrenDriven, Integral!ChildEnded, Integral!Ended,
         Integral!Misuse, Calls
<1>3. QED
  BY <1>1, <1>2

(* The unjam command, running, is executed, and goes on or ends. *)
LEMMA IntegralRunUnjam ==
    ASSUME IntegralInv, integralScheduled, NEW started, started.subsystem \in Integrated,
           NEW children \in [{"move", "unjam"} -> Calls],
           \A c \in {"move", "unjam"} :
              children[c].misused = {} /\ (children[c].active <=> c = "unjam"),
           integralUnjamming' = TRUE,
           Integral!RunUnjam(started, children)
    PROVE  IntegralInv'
<1> DEFINE now == Integral!UnjamExecuted(started)
           ended == Integral!UnjamEnded(now.unjam, now.subsystem)
<1>1. now.subsystem \in Integrated
  <2>1. Integral!UnjamSwitched(started.unjam, started.subsystem).subsystem \in Integrated
    <3>1. \A u : /\ Integral!Backwards(u, started.subsystem).subsystem \in Integrated
                 /\ Integral!Forwards(u, started.subsystem).subsystem \in Integrated
      BY MovesTypes DEF Integral!Backwards, Integral!Forwards, Integrated
    <3>2. QED
      BY <3>1 DEF Integral!UnjamSwitched
  <2>2. now.subsystem = Integral!UnjamSwitched(started.unjam, started.subsystem).subsystem
    BY DEF Integral!UnjamExecuted, Integral!UnjamSwitched, Integral!Backwards, Integral!Forwards
  <2>3. QED
    BY <2>1, <2>2
<1> HIDE DEF now
<1>2. ended \in Integrated /\ ended.setpoint = 0
  BY <1>1, IntegralUnjamEnded
<1> HIDE DEF ended
<1>3. integralUnjamming' \in BOOLEAN
  OBVIOUS
<1>4. CASE /\ Integral!End(ended) /\ integralScheduled' = FALSE
           /\ integralChild' = [children EXCEPT !["unjam"] =
                                   Integral!Ended(Integral!Executed(@))]
  <2>1. /\ integralChild' \in [{"move", "unjam"} -> Calls]
        /\ \A c \in {"move", "unjam"} :
              integralChild'[c].misused = {} /\ ~integralChild'[c].active
    BY <1>4 DEF Integral!Ended, Integral!Executed, Integral!Misuse, Calls
  <2>2. /\ integrated' = ended /\ innerIntegral' = "none" /\ integralScheduled' \in BOOLEAN
    BY <1>4 DEF Integral!End
  <2>3. QED
    BY <1>2, <1>3, <2>1, <2>2 DEF IntegralInv, Integral!ChildrenDriven
<1>5. CASE /\ integrated' = now.subsystem /\ innerIntegral' = "unjam"
           /\ integralChild' = [children EXCEPT !["unjam"] = Integral!Executed(@)]
           /\ UNCHANGED integralScheduled
  <2>1. integralChild' = children
    BY <1>5 DEF Integral!Executed, Integral!Misuse, Calls
  <2>2. QED
    BY <1>1, <1>3, <1>5, <2>1 DEF IntegralInv, Integral!ChildrenDriven
<1>6. QED
  BY <1>4, <1>5 DEF Integral!RunUnjam, now, ended

(* Every step of the integral move with its unjamming. *)
LEMMA IntegralStep == ASSUME IntegralInv, Integral!Next PROVE IntegralInv'
<1> DEFINE s == Integral!InnerEnded(integrated)
           none == Integral!ChildEnded
<1>1. /\ s \in Integrated /\ s.setpoint = 0
      /\ none \in [{"move", "unjam"} -> Calls]
      /\ \A c \in {"move", "unjam"} : none[c].misused = {} /\ ~none[c].active
  BY IntegralEnded
<1> HIDE DEF s, none
<1>2. CASE Integral!Add
  <2>1. /\ integralUnjamming' = FALSE /\ integralScheduled' = TRUE
        /\ \/ /\ integrated' = Integral!MoveStarted(s) /\ innerIntegral' = "move"
              /\ integralChild' = [none EXCEPT !["move"] = Integral!Initialized(@)]
           \/ /\ integrated' = s /\ innerIntegral' = "none"
              /\ integralChild' = none
    BY <1>2 DEF Integral!Add, Integral!End, s, none
  <2>2. integralUnjamming' \in BOOLEAN /\ integralScheduled' \in BOOLEAN
    BY <2>1
  <2>3. Integral!MoveStarted(s) \in Integrated
    BY <1>1, MovesAssumption DEF Integral!MoveStarted, Integrated
  <2>4. CASE /\ integrated' = Integral!MoveStarted(s) /\ innerIntegral' = "move"
             /\ integralChild' = [none EXCEPT !["move"] = Integral!Initialized(@)]
    <3>1. /\ integralChild' \in [{"move", "unjam"} -> Calls]
          /\ \A c \in {"move", "unjam"} :
                integralChild'[c].misused = {} /\ (integralChild'[c].active <=> c = "move")
      BY <1>1, <2>4 DEF Integral!Initialized, Integral!Misuse, Calls
    <3>2. QED
      BY <2>1, <2>2, <2>3, <2>4, <3>1 DEF IntegralInv, Integral!ChildrenDriven
  <2>5. CASE integrated' = s /\ innerIntegral' = "none" /\ integralChild' = none
    BY <1>1, <2>2, <2>5 DEF IntegralInv, Integral!ChildrenDriven
  <2>6. QED
    BY <2>1, <2>4, <2>5
<1>3. CASE Integral!Remove
  <2>1. /\ integrated' = s /\ innerIntegral' = "none" /\ integralChild' = none
        /\ integralScheduled' \in BOOLEAN /\ UNCHANGED integralUnjamming
    BY <1>3 DEF Integral!Remove, Integral!End, s, none
  <2>2. QED
    BY <1>1, <2>1 DEF IntegralInv, Integral!ChildrenDriven
<1>4. CASE Integral!RunMove
  <2>1. CASE UNCHANGED <<integrated, innerIntegral, integralScheduled>>
             /\ integralChild' = [integralChild EXCEPT !["move"] = Integral!Executed(@)]
    <3>1. integralChild' = integralChild
      BY <1>4, <2>1 DEF Integral!RunMove, IntegralInv, Integral!ChildrenDriven,
         Integral!Executed, Integral!Misuse, Calls
    <3>2. QED
      BY <1>4, <2>1, <3>1 DEF Integral!RunMove, IntegralInv, Integral!ChildrenDriven
  <2>2. CASE /\ Integral!End(Integral!MoveEnded(integrated))
             /\ integralScheduled' = FALSE
             /\ integralChild' = [integralChild EXCEPT !["move"] =
                                     Integral!Ended(Integral!Executed(@))]
    <3>1. /\ integralChild' \in [{"move", "unjam"} -> Calls]
          /\ \A c \in {"move", "unjam"} :
                integralChild'[c].misused = {} /\ ~integralChild'[c].active
      BY <1>4, <2>2 DEF Integral!RunMove, IntegralInv, Integral!ChildrenDriven,
         Integral!Ended, Integral!Executed, Integral!Misuse, Calls
    <3>2. /\ integrated' \in Integrated /\ integrated'.setpoint = 0
          /\ innerIntegral' = "none"
      BY <2>2 DEF Integral!End, Integral!MoveEnded, IntegralInv, Integrated
    <3>3. integralScheduled' \in BOOLEAN /\ UNCHANGED integralUnjamming
      BY <1>4, <2>2 DEF Integral!RunMove
    <3>4. QED
      BY <3>1, <3>2, <3>3 DEF IntegralInv, Integral!ChildrenDriven
  <2>3. QED
    BY <1>4, <2>1, <2>2 DEF Integral!RunMove
<1>5. CASE Integral!RunJammed
  <2> DEFINE started == Integral!UnjamStarted(s)
             children == [none EXCEPT !["unjam"] = Integral!Initialized(@)]
  <2>1. /\ integralScheduled /\ integralUnjamming' = TRUE
        /\ Integral!RunUnjam(started, children)
    BY <1>5 DEF Integral!RunJammed, s, none
  <2>2. started.subsystem \in Integrated
    BY <1>1, MovesTypes DEF Integral!UnjamStarted, Integral!Backwards, Integrated
  <2>3. /\ children \in [{"move", "unjam"} -> Calls]
        /\ \A c \in {"move", "unjam"} :
              children[c].misused = {} /\ (children[c].active <=> c = "unjam")
    BY <1>1 DEF Integral!Initialized, Integral!Misuse, Calls
  <2> HIDE DEF started, children
  <2>4. QED
    BY <2>1, <2>2, <2>3, IntegralRunUnjam
<1>6. CASE Integral!RunJammedOffline
  <2>1. /\ integrated' = s /\ innerIntegral' = "none"
        /\ integralScheduled' = FALSE /\ integralUnjamming' = TRUE
        /\ innerIntegral # "unjam"
    BY <1>6 DEF Integral!RunJammedOffline, Integral!End, IntegralInv, s
  <2>2. integralScheduled' \in BOOLEAN /\ integralUnjamming' \in BOOLEAN
    BY <2>1
  <2>3. /\ integralChild' \in [{"move", "unjam"} -> Calls]
        /\ \A c \in {"move", "unjam"} :
              integralChild'[c].misused = {} /\ ~integralChild'[c].active
    BY <1>6, <2>1 DEF Integral!RunJammedOffline, IntegralInv, Integral!ChildrenDriven,
       Integral!Ended, Integral!Executed, Integral!Misuse, Calls
  <2>4. QED
    BY <1>1, <2>1, <2>2, <2>3 DEF IntegralInv, Integral!ChildrenDriven
<1>7. CASE Integral!RunUnjamming
  <2> DEFINE started == [unjam |-> unjamIntegral, subsystem |-> integrated]
  <2>1. /\ innerIntegral = "unjam" /\ integralScheduled
        /\ Integral!RunUnjam(started, integralChild)
        /\ UNCHANGED integralUnjamming
    BY <1>7 DEF Integral!RunUnjamming
  <2>2. integralUnjamming' = TRUE
    BY <2>1 DEF IntegralInv
  <2>3. /\ started.subsystem \in Integrated
        /\ integralChild \in [{"move", "unjam"} -> Calls]
        /\ \A c \in {"move", "unjam"} :
              integralChild[c].misused = {} /\ (integralChild[c].active <=> c = "unjam")
    BY <2>1 DEF IntegralInv, Integral!ChildrenDriven
  <2> HIDE DEF started
  <2>4. QED
    BY <2>1, <2>2, <2>3, IntegralRunUnjam
<1>8. CASE Integral!RunNothing
  BY <1>8 DEF Integral!RunNothing, IntegralInv, Integral!ChildrenDriven
<1>9. CASE Integral!Tick \/ Integral!SubsystemChanges
  <2>1. integrated' \in Integrated /\ integrated'.setpoint = integrated.setpoint
    <3>1. \/ integrated' = integrated
          \/ \E i \in Int : integrated' = [integrated EXCEPT !.integral = i]
          \/ integrated' = [integrated EXCEPT !.jammed = ~@]
          \/ integrated' = [integrated EXCEPT !.online = ~@]
      BY <1>9 DEF Integral!Tick, Integral!SubsystemChanges, IntegralInv, Integrated
    <3>2. QED
      BY <3>1 DEF IntegralInv, Integrated
  <2>2. QED
    BY <1>9, <2>1 DEF Integral!Tick, Integral!SubsystemChanges, IntegralInv,
       Integral!ChildrenDriven
<1>10. QED
  BY <1>2, <1>3, <1>4, <1>5, <1>6, <1>7, <1>8, <1>9 DEF Integral!Next, Integral!Run

-----------------------------------------------------------------------------
(***************************************************************************)
(* MoveAbsoluteCommand: it ramps from where the subsystem is, upwards or   *)
(* downwards.                                                              *)
(***************************************************************************)
Positioned == [setpoint : Int, value : -Reach .. Reach, jammed : BOOLEAN, online : BOOLEAN]

AbsoluteTypes ==
    /\ setSetpointToTargetOnEnd \in BOOLEAN
    /\ automaticallyClearJam \in BOOLEAN
    /\ positioned \in Positioned
    /\ rampToSetpoint \in Ramps
    /\ absoluteElapsed \in 0 .. Absolute!Longest
    /\ absoluteScheduled \in BOOLEAN
    /\ absoluteFrom \in -Reach .. Reach
    /\ absoluteSince \in 0 .. Absolute!Longest
    /\ absoluteOver \in [value : Int, jammed : BOOLEAN]

Between(x, a, b) == (a <= x /\ x <= b) \/ (b <= x /\ x <= a)

(* As for the other move, but in either direction. *)
AbsoluteRamping ==
    /\ rampToSetpoint.target = setpoint
    /\ Between(rampToSetpoint.value, absoluteFrom, setpoint)
    /\ absoluteElapsed <= absoluteSince
    /\ \/ absoluteSince = Absolute!Longest
       \/ Absolute!Distance(rampToSetpoint.value, absoluteFrom)
             <= (absoluteSince - absoluteElapsed) * speed

AbsoluteInv ==
    /\ AbsoluteTypes
    /\ Absolute!HoldsWhenOver
    /\ absoluteScheduled => AbsoluteRamping

(* In the longest time that is counted a ramp gets anywhere. *)
LEMMA LongestIsEnough ==
    /\ Absolute!Longest \in Nat
    /\ 2 * Reach <= Absolute!Longest * speed
<1> DEFINE x == 2 * Reach
<1>1. x \in Nat /\ speed \in Nat \ {0}
  BY MovesAssumption
<1> HIDE DEF x
<1>2. x \div speed \in Nat /\ x <= (x \div speed) * speed + speed
  BY <1>1
<1>3. (1 + x \div speed) * speed = (x \div speed) * speed + speed
  BY <1>1, <1>2
<1>4. Absolute!Longest = 1 + x \div speed
  BY DEF Absolute!Longest, x
<1>5. QED
  BY <1>1, <1>2, <1>3, <1>4 DEF x

(* Ramp::update() in either direction. *)
LEMMA AbsoluteUpdated ==
    ASSUME NEW ramp \in Ramps, NEW increment \in Nat
    PROVE  LET next == Absolute!update(ramp, increment) IN
           /\ next \in Ramps
           /\ next.target = ramp.target
           /\ Between(next.value, ramp.value, ramp.target)
           /\ Absolute!Distance(next.value, ramp.value) <= increment
<1> DEFINE value == IF Absolute!Distance(ramp.target, ramp.value) <= increment THEN ramp.target
                    ELSE IF ramp.target < ramp.value THEN ramp.value - increment
                    ELSE ramp.value + increment
<1>1. ramp.target \in Int /\ ramp.value \in Int
  BY DEF Ramps
<1>2. /\ value \in Int
      /\ Between(value, ramp.value, ramp.target)
      /\ Absolute!Distance(value, ramp.value) <= increment
  BY <1>1 DEF Absolute!Distance, Between
<1>3. Absolute!Distance(increment, 0) = increment
  BY DEF Absolute!Distance
<1> HIDE DEF value
<1>4. Absolute!compareClose(value, ramp.target, 0) \in BOOLEAN
  BY <1>1, <1>2 DEF Absolute!compareClose, Absolute!Distance
<1>5. Absolute!update(ramp, increment) =
         [ramp EXCEPT !.value = value,
                      !.targetReached = Absolute!compareClose(value, ramp.target, 0)]
  BY <1>3 DEF Absolute!update, value
<1>6. QED
  BY <1>2, <1>4, <1>5 DEF Ramps

(* end() in a jam holds the subsystem where it is. *)
LEMMA AbsoluteEndedHolds ==
    ASSUME NEW s \in Positioned
    PROVE  /\ Absolute!Ended(s) \in Positioned
           /\ Absolute!Ended(s).value = s.value
           /\ s.jammed => Absolute!Ended(s).setpoint = s.value
<1>1. setpoint \in Int /\ s.value \in Int
  BY MovesAssumption DEF Positioned
<1> DEFINE jam == s.jammed /\ ~automaticallyClearJam
           there == IF ~s.jammed /\ setSetpointToTargetOnEnd THEN setpoint ELSE s.value
<1>2. jam \in BOOLEAN /\ there \in Int /\ (s.jammed => there = s.value)
  BY <1>1 DEF Positioned
<1>3. Absolute!Ended(s) = [s EXCEPT !.setpoint = there, !.jammed = jam]
  BY DEF Absolute!Ended, Positioned
<1>4. \A b \in BOOLEAN, i \in Int :
         LET next == [s EXCEPT !.setpoint = i, !.jammed = b] IN
         next \in Positioned /\ next.value = s.value /\ next.setpoint = i
  BY DEF Positioned
<1>5. /\ [s EXCEPT !.setpoint = there, !.jammed = jam] \in Positioned
      /\ [s EXCEPT !.setpoint = there, !.jammed = jam].value = s.value
      /\ [s EXCEPT !.setpoint = there, !.jammed = jam].setpoint = there
  <2> HIDE DEF jam, there
  <2>1. QED
    BY <1>2, <1>4
<1> HIDE DEF jam, there
<1>6. QED
  BY <1>2, <1>3, <1>5

(* end(), in a jam or not. *)
LEMMA AbsoluteEnd ==
    ASSUME AbsoluteInv, NEW s \in Positioned, Absolute!End(s),
           UNCHANGED <<automaticallyClearJam, setSetpointToTargetOnEnd>>,
           rampToSetpoint' \in Ramps, absoluteElapsed' \in 0 .. Absolute!Longest
    PROVE  AbsoluteInv'
<1>1. /\ positioned' \in Positioned
      /\ s.jammed => positioned'.setpoint = s.value
  BY AbsoluteEndedHolds DEF Absolute!End
<1>2. /\ absoluteScheduled' = FALSE /\ absoluteOver' = [value |-> s.value, jammed |-> s.jammed]
      /\ absoluteFrom' = 0 /\ absoluteSince' = 0
  BY DEF Absolute!End
<1>3. /\ absoluteScheduled' \in BOOLEAN /\ absoluteOver' \in [value : Int, jammed : BOOLEAN]
      /\ absoluteFrom' \in -Reach .. Reach /\ absoluteSince' \in 0 .. Absolute!Longest
  <2>1. s.jammed \in BOOLEAN /\ s.value \in Int
    BY MovesAssumption DEF Positioned
  <2>2. 0 \in -Reach .. Reach /\ 0 \in 0 .. Absolute!Longest
    BY MovesAssumption, LongestIsEnough
  <2>3. QED
    BY <1>2, <2>1, <2>2
<1>4. AbsoluteTypes' /\ Absolute!HoldsWhenOver'
  BY <1>1, <1>2, <1>3, LongestIsEnough
     DEF AbsoluteInv, AbsoluteTypes, Absolute!HoldsWhenOver, Absolute!Longest
<1>5. QED
  BY <1>2, <1>4 DEF AbsoluteInv

(* Every step of the absolute move. *)
LEMMA AbsoluteStep == ASSUME AbsoluteInv, Absolute!Next PROVE AbsoluteInv'
<1>1. /\ AbsoluteTypes /\ Absolute!HoldsWhenOver
      /\ setpoint \in Int /\ Reach \in Nat /\ speed \in Nat /\ Absolute!Longest \in Nat
  BY MovesAssumption, LongestIsEnough DEF AbsoluteInv
<1>2. CASE Absolute!Add
  <2>1. /\ absoluteScheduled' = TRUE /\ absoluteOver' = Absolute!Never
        /\ absoluteFrom' = positioned.value /\ absoluteSince' = 0 /\ absoluteElapsed' = 0
        /\ rampToSetpoint' = Absolute!setValue(Absolute!setTarget(rampToSetpoint, setpoint),
                                               positioned.value)
        /\ positioned' \in {positioned, Absolute!Ended(positioned)}
        /\ UNCHANGED <<automaticallyClearJam, setSetpointToTargetOnEnd>>
    BY <1>2 DEF Absolute!Add, Absolute!initialize, Absolute!configuration
  <2>2. positioned' \in Positioned
    BY <1>1, <2>1, AbsoluteEndedHolds DEF AbsoluteTypes
  <2>3. positioned.value \in -Reach .. Reach /\ positioned.value \in Int
    BY <1>1 DEF AbsoluteTypes, Positioned
  <2>4. /\ rampToSetpoint' \in Ramps /\ rampToSetpoint'.target = setpoint
        /\ rampToSetpoint'.value = positioned.value
    <3> DEFINE aimed == Absolute!setTarget(rampToSetpoint, setpoint)
    <3>1. aimed \in Ramps /\ aimed.target = setpoint
      <4>1. rampToSetpoint \in Ramps /\ rampToSetpoint.target \in Int
        BY <1>1 DEF AbsoluteTypes, Ramps
      <4>2. Absolute!compareClose(setpoint, rampToSetpoint.target, 0)
               <=> setpoint = rampToSetpoint.target
        BY <1>1, <4>1 DEF Absolute!compareClose, Absolute!Distance
      <4>3. [rampToSetpoint EXCEPT !.target = setpoint, !.targetReached = FALSE] \in Ramps
        BY <1>1, <4>1 DEF Ramps
      <4>4. QED
        BY <4>1, <4>2, <4>3 DEF Absolute!setTarget, Ramps
    <3> HIDE DEF aimed
    <3>2. QED
      BY <2>1, <2>3, <3>1 DEF Absolute!setValue, Ramps, aimed
  <2>5. AbsoluteRamping'
    BY <1>1, <2>1, <2>3, <2>4 DEF AbsoluteRamping, Between, Absolute!Distance
  <2>6. /\ absoluteScheduled' \in BOOLEAN /\ absoluteOver' \in [value : Int, jammed : BOOLEAN]
        /\ absoluteSince' \in 0 .. Absolute!Longest /\ absoluteElapsed' \in 0 .. Absolute!Longest
        /\ absoluteFrom' \in -Reach .. Reach
    BY <1>1, <2>1, <2>3 DEF Absolute!Never
  <2>7. AbsoluteTypes'
    BY <1>1, <2>1, <2>2, <2>4, <2>6 DEF AbsoluteTypes, Absolute!Longest
  <2>8. QED
    BY <2>1, <2>5, <2>7 DEF AbsoluteInv, Absolute!HoldsWhenOver
<1>3. CASE Absolute!Remove
  BY <1>1, <1>3, AbsoluteEnd DEF Absolute!Remove, Absolute!configuration, AbsoluteTypes
<1>4. CASE Absolute!RunStuck
  <2>1. [positioned EXCEPT !.setpoint = positioned.value] \in Positioned
    BY <1>1 DEF AbsoluteTypes, Positioned
  <2>2. absoluteElapsed' \in 0 .. Absolute!Longest /\ rampToSetpoint' \in Ramps
    BY <1>1, <1>4 DEF Absolute!RunStuck, AbsoluteTypes
  <2>3. QED
    BY <1>4, <2>1, <2>2, AbsoluteEnd DEF Absolute!RunStuck, Absolute!configuration
<1>5. CASE Absolute!RunMoving
  <2> DEFINE increment == absoluteElapsed * speed
             s == [positioned EXCEPT !.setpoint = rampToSetpoint'.value]
  <2>1. absoluteScheduled /\ AbsoluteRamping
    BY <1>5 DEF Absolute!RunMoving, AbsoluteInv
  <2>2. increment \in Nat /\ absoluteElapsed \in Nat /\ absoluteSince \in Nat
    BY <1>1 DEF AbsoluteTypes
  <2> HIDE DEF increment
  <2>3. /\ rampToSetpoint' = Absolute!update(rampToSetpoint, increment)
        /\ absoluteElapsed' = 0 /\ UNCHANGED <<automaticallyClearJam, setSetpointToTargetOnEnd>>
    BY <1>5 DEF Absolute!RunMoving, Absolute!configuration, increment
  <2>4. /\ rampToSetpoint' \in Ramps /\ rampToSetpoint'.target = setpoint
        /\ Between(rampToSetpoint'.value, rampToSetpoint.value, setpoint)
        /\ Absolute!Distance(rampToSetpoint'.value, rampToSetpoint.value) <= increment
        /\ rampToSetpoint'.value \in Int /\ rampToSetpoint.value \in Int
    BY <1>1, <2>1, <2>2, <2>3, AbsoluteUpdated DEF AbsoluteTypes, AbsoluteRamping, Ramps
  <2>5. s \in Positioned
    BY <1>1, <2>4 DEF AbsoluteTypes, Positioned
  <2>6. absoluteElapsed' \in 0 .. Absolute!Longest
    BY <1>1, <2>3
  <2> HIDE DEF s
  <2>7. CASE Absolute!End(s)
    BY <2>3, <2>4, <2>5, <2>6, <2>7, AbsoluteEnd
  <2>8. CASE positioned' = s /\ UNCHANGED <<absoluteScheduled, absoluteFrom, absoluteSince,
                                            absoluteOver>>
    <3>1. AbsoluteTypes'
      BY <1>1, <2>3, <2>4, <2>5, <2>6, <2>8 DEF AbsoluteTypes, Absolute!Longest
    <3>2. absoluteFrom \in Int
      BY <1>1 DEF AbsoluteTypes
    <3>3. Between(rampToSetpoint'.value, absoluteFrom, setpoint)
      BY <1>1, <2>1, <2>4, <3>2 DEF AbsoluteRamping, Between
    <3>4. Absolute!Distance(rampToSetpoint'.value, absoluteFrom)
             <= Absolute!Distance(rampToSetpoint.value, absoluteFrom) + increment
      BY <1>1, <2>2, <2>4, <3>2 DEF Absolute!Distance
    <3>5. (absoluteSince - absoluteElapsed) * speed + increment = absoluteSince * speed
      BY <1>1, <2>2 DEF increment
    <3>6. Absolute!Distance(rampToSetpoint.value, absoluteFrom) \in Int
          /\ Absolute!Distance(rampToSetpoint'.value, absoluteFrom) \in Int
          /\ (absoluteSince - absoluteElapsed) * speed \in Int
      BY <1>1, <2>2, <2>4, <3>2 DEF Absolute!Distance
    <3>7. \/ absoluteSince = Absolute!Longest
          \/ Absolute!Distance(rampToSetpoint'.value, absoluteFrom) <= absoluteSince * speed
      BY <2>1, <2>2, <3>4, <3>5, <3>6 DEF AbsoluteRamping
    <3>8. AbsoluteRamping'
      BY <1>1, <2>2, <2>3, <2>4, <2>8, <3>3, <3>7
         DEF AbsoluteRamping, Absolute!Longest, Absolute!Distance
    <3>9. QED
      BY <2>1, <2>8, <3>1, <3>8 DEF AbsoluteInv, Absolute!HoldsWhenOver
  <2>9. QED
    BY <1>5, <2>7, <2>8 DEF Absolute!RunMoving, s
<1>6. CASE Absolute!Tick
  <2>1. \A time \in 0 .. Absolute!Longest : Absolute!Later(time) \in 0 .. Absolute!Longest
    BY <1>1 DEF Absolute!Later
  <2>2. AbsoluteTypes'
    BY <1>1, <1>6, <2>1
       DEF Absolute!Tick, Absolute!configuration, AbsoluteTypes, Absolute!Longest
  <2>3. ASSUME absoluteScheduled
        PROVE  AbsoluteRamping'
    <3>1. /\ absoluteElapsed' = Absolute!Later(absoluteElapsed)
          /\ absoluteSince' = Absolute!Later(absoluteSince)
          /\ UNCHANGED <<rampToSetpoint, absoluteFrom>>
      BY <1>6, <2>3 DEF Absolute!Tick
    <3>2. /\ absoluteElapsed \in 0 .. Absolute!Longest /\ absoluteSince \in 0 .. Absolute!Longest
          /\ AbsoluteRamping
      BY <2>3 DEF AbsoluteInv, AbsoluteTypes
    <3>3. \/ absoluteSince' = Absolute!Longest
          \/ absoluteSince' - absoluteElapsed' = absoluteSince - absoluteElapsed
      BY <1>1, <3>1, <3>2 DEF Absolute!Later, AbsoluteRamping
    <3>4. /\ absoluteElapsed' <= absoluteSince'
          /\ absoluteSince = Absolute!Longest => absoluteSince' = Absolute!Longest
      BY <1>1, <3>1, <3>2 DEF Absolute!Later, AbsoluteRamping
    <3>5. QED
      BY <3>1, <3>2, <3>3, <3>4 DEF AbsoluteRamping, Absolute!Longest
  <2>4. QED
    BY <1>1, <1>6, <2>2, <2>3 DEF Absolute!Tick, AbsoluteInv, Absolute!HoldsWhenOver
<1>7. CASE Absolute!SubsystemChanges
  <2>1. \/ \E v \in -Reach .. Reach : positioned' = [positioned EXCEPT !.value = v]
        \/ positioned' = [positioned EXCEPT !.jammed = ~@]
        \/ positioned' = [positioned EXCEPT !.online = ~@]
    BY <1>7 DEF Absolute!SubsystemChanges
  <2>2. positioned' \in Positioned /\ positioned'.setpoint = positioned.setpoint
    BY <1>1, <2>1 DEF AbsoluteTypes, Positioned
  <2>3. QED
    BY <1>1, <1>7, <2>2
       DEF Absolute!SubsystemChanges, Absolute!configuration, AbsoluteInv, AbsoluteTypes,
           AbsoluteRamping, Absolute!HoldsWhenOver, Absolute!Longest
<1>8. QED
  BY <1>2, <1>3, <1>4, <1>5, <1>6, <1>7 DEF Absolute!Next

(* What AbsoluteRamping says of the time since the last execute(), for any time. *)
LEMMA AbsoluteInTime ==
    ASSUME AbsoluteInv
    PROVE  Absolute!RampsFromStart
<1>1. CASE absoluteScheduled
  <2>1. /\ AbsoluteRamping /\ absoluteFrom \in -Reach .. Reach
        /\ absoluteSince \in Nat /\ absoluteElapsed \in Nat /\ rampToSetpoint.value \in Int
        /\ speed \in Nat /\ setpoint \in -Reach .. Reach /\ Reach \in Nat
    BY <1>1, MovesAssumption, LongestIsEnough DEF AbsoluteInv, AbsoluteTypes, Ramps
  <2>2. Absolute!Distance(rampToSetpoint.value, absoluteFrom) <= 2 * Reach
        /\ Absolute!Distance(rampToSetpoint.value, absoluteFrom) \in Int
    BY <2>1 DEF AbsoluteRamping, Between, Absolute!Distance
  <2>3. CASE absoluteSince = Absolute!Longest
    BY <2>1, <2>2, <2>3, LongestIsEnough DEF Absolute!RampsFromStart
  <2>4. CASE Absolute!Distance(rampToSetpoint.value, absoluteFrom)
                <= (absoluteSince - absoluteElapsed) * speed
    <3>1. (absoluteSince - absoluteElapsed) * speed <= absoluteSince * speed
      BY <2>1
    <3>2. QED
      BY <2>1, <2>2, <2>4, <3>1 DEF Absolute!RampsFromStart
  <2>5. QED
    BY <2>1, <2>3, <2>4 DEF AbsoluteRamping
<1>2. QED
  BY <1>1 DEF Absolute!RampsFromStart

-----------------------------------------------------------------------------
(***************************************************************************)
(* One behaviour drives one of the commands; the invariants of all hold in *)
(* it, since a step of one leaves the others alone.                        *)
(***************************************************************************)
LEMMA SequentialAlways == Spec => []SequentialInv
<1>1. Init => SequentialInv
  <2> SUFFICES ASSUME Init PROVE SequentialInv
    OBVIOUS
  <2>1. Sequential!Init
    BY DEF Init
  <2>2. /\ sequenced \in [0 .. COMMANDS - 1 -> Calls]
        /\ \A i \in 0 .. COMMANDS - 1 :
              sequenced[i].misused \subseteq {"end"} /\ ~sequenced[i].active
    <3>1. sequenced = [i \in 0 .. COMMANDS - 1 |-> [active |-> FALSE, misused |-> {}]]
      BY <2>1 DEF Sequential!Init, Sequential!Idle, Sequential!Index
    <3>2. QED
      BY <3>1 DEF Calls
  <2>3. sequenceScheduled \in BOOLEAN /\ ~sequenceScheduled /\ commandInitialized \in BOOLEAN
    BY <2>1 DEF Sequential!Init
  <2>4. currentCommand \in 0 .. COMMANDS /\ sequenceCompleted = 0 .. currentCommand - 1
    BY <2>1, CompositionAssumption DEF Sequential!Init
  <2>5. QED
    BY <2>2, <2>3, <2>4 DEF SequentialInv
<1>2. SequentialInv /\ [Next]_vars => SequentialInv'
  <2>1. SequentialInv /\ UNCHANGED sequentialVars => SequentialInv'
    BY DEF SequentialInv, sequentialVars
  <2>2. QED
    BY <2>1, SequentialStep DEF Next, vars, OnlyConcurrent, OnlyGovernor, OnlyMoveUnjam,
       OnlyIntegral, OnlyAbsolute
<1>3. QED
  BY <1>1, <1>2, PTL DEF Spec

(* The concurrent command, if it is added once. *)
LEMMA ConcurrentAlways == ASSUME MaxSchedules <= 1 PROVE Spec => []ConcurrentInv
<1>1. Init => ConcurrentInv
  <2> SUFFICES ASSUME Init PROVE ConcurrentInv
    OBVIOUS
  <2>1. /\ RACE \in BOOLEAN /\ schedules = 0 /\ finishedCommands = {} /\ completed = {}
        /\ concurrent = [c \in Commands |-> [active |-> FALSE, misused |-> {}]]
        /\ concurrentScheduled = FALSE
    BY DEF Init, Concurrent!Init, Concurrent!Idle
  <2>2. concurrentScheduled \in BOOLEAN
    BY <2>1
  <2>3. /\ concurrent \in [Commands -> Calls]
        /\ \A c \in Commands : concurrent[c].misused = {} /\ ~concurrent[c].active
    BY <2>1 DEF Calls
  <2>4. QED
    BY <2>1, <2>2, <2>3 DEF ConcurrentInv, Concurrent!ChildrenDriven
<1>2. ConcurrentInv /\ [Next]_vars => ConcurrentInv'
  <2>1. ConcurrentInv /\ UNCHANGED concurrentVars => ConcurrentInv'
    BY DEF ConcurrentInv, Concurrent!ChildrenDriven, concurrentVars
  <2>2. QED
    BY <2>1, ConcurrentStep DEF Next, vars, OnlySequential, OnlyGovernor, OnlyMoveUnjam,
       OnlyIntegral, OnlyAbsolute
<1>3. QED
  BY <1>1, <1>2, PTL DEF Spec

(* The governor, if no mapping adds it while it runs. *)
LEMMA GovernorAlways == ASSUME ~AddedWhileScheduled PROVE Spec => []GovernorInv
<1>1. Init => GovernorInv
  <2> SUFFICES ASSUME Init PROVE GovernorInv
    OBVIOUS
  <2>1. /\ limited \in BOOLEAN /\ governedCommandSelected = limited
        /\ governed = [c \in {"governed", "fallback"} |-> [active |-> FALSE, misused |-> {}]]
        /\ governorScheduled = FALSE
    BY DEF Init, Governor!Init, Governor!Idle
  <2>2. governorScheduled \in BOOLEAN
    BY <2>1
  <2>3. /\ governed \in [{"governed", "fallback"} -> Calls]
        /\ \A c \in {"governed", "fallback"} : governed[c].misused = {} /\ ~governed[c].active
    BY <2>1 DEF Calls
  <2>4. QED
    BY <2>1, <2>2, <2>3 DEF GovernorInv, Governor!ChildrenDriven
<1>2. GovernorInv /\ [Next]_vars => GovernorInv'
  <2>1. GovernorInv /\ UNCHANGED governorVars => GovernorInv'
    BY DEF GovernorInv, Governor!ChildrenDriven, Governor!Selected, governorVars
  <2>2. QED
    BY <2>1, GovernorStep DEF Next, vars, OnlySequential, OnlyConcurrent, OnlyMoveUnjam,
       OnlyIntegral, OnlyAbsolute
<1>3. QED
  BY <1>1, <1>2, PTL DEF Spec

(* The move with its unjamming. *)
LEMMA MoveUnjamAlways == Spec => []MoveUnjamInv
<1>1. Init => MoveUnjamInv
  <2> SUFFICES ASSUME Init PROVE MoveUnjamInv
    OBVIOUS
  <2>1. MoveUnjam!Init
    BY DEF Init
  <2>2. /\ inner = "none" /\ unjamSequenceCommencing = FALSE /\ moveScheduled = FALSE
        /\ moveChild = [c \in {"move", "unjam"} |-> [active |-> FALSE, misused |-> {}]]
        /\ moveOver = [value |-> 0, jammed |-> FALSE] /\ unjam = MoveUnjam!NotUnjamming
        /\ moveFrom = 0 /\ moveSince = 0
    BY <2>1 DEF MoveUnjam!Init, MoveUnjam!Idle, MoveUnjam!Never
  <2>3. moved \in Subsystems
    BY <2>1 DEF MoveUnjam!Init, MoveUnjam!Stopped, Subsystems
  <2>4. move \in Moves /\ moveSince \in 0 .. moveTime
    <3>1. 0 \in 0 .. moveTime /\ MoveUnjam!Stopped \in Int /\ MoveUnjam!RampAt(0) \in Ramps
      BY MovesTypes DEF MoveUnjam!Stopped, MoveUnjam!RampAt, Ramps
    <3>2. QED
      BY <2>1, <3>1 DEF MoveUnjam!Init, Moves
  <2>5. /\ moveChild \in [{"move", "unjam"} -> Calls]
        /\ \A c \in {"move", "unjam"} : moveChild[c].misused = {} /\ ~moveChild[c].active
    BY <2>2 DEF Calls
  <2>6. unjamSequenceCommencing \in BOOLEAN /\ moveScheduled \in BOOLEAN
    BY <2>1 DEF MoveUnjam!Init
  <2>7. moveOver \in [value : Int, jammed : BOOLEAN] /\ ~moveOver.jammed
    BY <2>2
  <2>8. QED
    BY <2>2, <2>3, <2>4, <2>5, <2>6, <2>7, NotUnjammingTypes
       DEF MoveUnjamInv, MoveUnjamTypes, MoveUnjamDriven, MoveUnjam!ChildrenDriven,
           MoveUnjam!HoldsWhenOver
<1>2. MoveUnjamInv /\ [Next]_vars => MoveUnjamInv'
  <2>1. MoveUnjamInv /\ UNCHANGED moveUnjamVars => MoveUnjamInv'
    BY DEF MoveUnjamInv, MoveUnjamTypes, MoveUnjamDriven, MoveUnjam!ChildrenDriven,
           MoveUnjam!HoldsWhenOver, Ramping, moveUnjamVars
  <2>2. QED
    BY <2>1, MoveUnjamStep DEF Next, vars, OnlySequential, OnlyConcurrent, OnlyGovernor,
       OnlyIntegral, OnlyAbsolute
<1>3. QED
  BY <1>1, <1>2, PTL DEF Spec

(* The integral move with its unjamming. *)
LEMMA IntegralAlways == Spec => []IntegralInv
<1>1. Init => IntegralInv
  <2> SUFFICES ASSUME Init PROVE IntegralInv
    OBVIOUS
  <2>1. Integral!Init
    BY DEF Init
  <2>2. /\ innerIntegral = "none" /\ integralUnjamming = FALSE /\ integralScheduled = FALSE
        /\ integralChild = [c \in {"move", "unjam"} |-> [active |-> FALSE, misused |-> {}]]
    BY <2>1 DEF Integral!Init, Integral!Idle
  <2>3. integrated \in Integrated /\ integrated.setpoint = 0
    BY <2>1 DEF Integral!Init, Integrated
  <2>4. /\ integralChild \in [{"move", "unjam"} -> Calls]
        /\ \A c \in {"move", "unjam"} :
              integralChild[c].misused = {} /\ ~integralChild[c].active
    BY <2>2 DEF Calls
  <2>5. integralUnjamming \in BOOLEAN /\ integralScheduled \in BOOLEAN
    BY <2>1 DEF Integral!Init
  <2>6. QED
    BY <2>2, <2>3, <2>4, <2>5 DEF IntegralInv, Integral!ChildrenDriven
<1>2. IntegralInv /\ [Next]_vars => IntegralInv'
  <2>1. IntegralInv /\ UNCHANGED integralVars => IntegralInv'
    BY DEF IntegralInv, Integral!ChildrenDriven, integralVars
  <2>2. QED
    BY <2>1, IntegralStep DEF Next, vars, OnlySequential, OnlyConcurrent, OnlyGovernor,
       OnlyMoveUnjam, OnlyAbsolute
<1>3. QED
  BY <1>1, <1>2, PTL DEF Spec

(* The absolute move. *)
LEMMA AbsoluteAlways == Spec => []AbsoluteInv
<1>1. Init => AbsoluteInv
  <2> SUFFICES ASSUME Init PROVE AbsoluteInv
    OBVIOUS
  <2>1. Absolute!Init
    BY DEF Init
  <2>2. 0 \in 0 .. Absolute!Longest /\ 0 \in -Reach .. Reach
    BY MovesAssumption, LongestIsEnough
  <2>3. positioned \in Positioned
    BY <2>1, <2>2 DEF Absolute!Init, Positioned
  <2>4. rampToSetpoint \in Ramps
    BY <2>1 DEF Absolute!Init, Absolute!RampAt, Ramps
  <2>5. absoluteOver \in [value : Int, jammed : BOOLEAN] /\ ~absoluteOver.jammed
    BY <2>1 DEF Absolute!Init, Absolute!Never
  <2>6. absoluteScheduled \in BOOLEAN /\ ~absoluteScheduled
    BY <2>1 DEF Absolute!Init
  <2>7. QED
    BY <2>1, <2>2, <2>3, <2>4, <2>5, <2>6
       DEF Absolute!Init, AbsoluteInv, AbsoluteTypes, Absolute!HoldsWhenOver
<1>2. AbsoluteInv /\ [Next]_vars => AbsoluteInv'
  <2>1. AbsoluteInv /\ UNCHANGED absoluteVars => AbsoluteInv'
    BY DEF AbsoluteInv, AbsoluteTypes, AbsoluteRamping, Absolute!HoldsWhenOver,
           Absolute!Longest, absoluteVars
  <2>2. QED
    BY <2>1, AbsoluteStep DEF Next, vars, OnlySequential, OnlyConcurrent, OnlyGovernor,
       OnlyMoveUnjam, OnlyIntegral
<1>3. QED
  BY <1>1, <1>2, PTL DEF Spec

(***************************************************************************)
(* No command of a composed command misses, or gets twice, one of the      *)
(* calls that command.hpp promises it, however the composed command is     *)
(* added, run, interrupted and added again.  Two cases are excepted, and   *)
(* the code does go wrong in them: a concurrent command that is added a    *)
(* second time, and a governor that is added while it runs.                *)
(***************************************************************************)
THEOREM CommandsDriven ==
    ASSUME MaxSchedules <= 1, ~AddedWhileScheduled
    PROVE  Spec => []ChildrenDriven
<1>1. /\ SequentialInv => Sequential!ChildrenDriven
      /\ ConcurrentInv => Concurrent!ChildrenDriven
      /\ GovernorInv => Governor!ChildrenDriven
      /\ MoveUnjamInv => MoveUnjam!ChildrenDriven
      /\ IntegralInv => Integral!ChildrenDriven
  BY DEF SequentialInv, Sequential!ChildrenDriven, Sequential!Index, ConcurrentInv,
         GovernorInv, MoveUnjamInv, MoveUnjamDriven, IntegralInv
<1>2. SequentialInv /\ ConcurrentInv /\ GovernorInv /\ MoveUnjamInv /\ IntegralInv
        => ChildrenDriven
  BY <1>1 DEF ChildrenDriven
<1>3. QED
  BY <1>2, SequentialAlways, ConcurrentAlways, GovernorAlways, MoveUnjamAlways, IntegralAlways,
     PTL

(***************************************************************************)
(* SequentialCommand::execute() starts a command only when all before it   *)
(* have finished since the sequence was last initialized, and a sequence   *)
(* that reaches its end has finished them all, for any number of commands. *)
(***************************************************************************)
THEOREM SequenceOrdered == Spec => []SequenceInOrder
<1>1. SequentialInv => SequenceInOrder
  BY CompositionAssumption DEF SequentialInv, SequenceInOrder, Sequential!InOrder,
     Sequential!Index
<1>2. QED
  BY <1>1, SequentialAlways, PTL

(***************************************************************************)
(* The setpoint of a move is never further from where it began than its    *)
(* speed and the time since then allow, and a move that was ended in a jam *)
(* holds the subsystem where it is, or stops it, for all distances,        *)
(* speeds, times and tolerances.                                           *)
(***************************************************************************)
THEOREM MovesHold == Spec => []PushesNoFurther
<1>1. MoveUnjamInv => MoveUnjam!RampsFromStart /\ MoveUnjam!HoldsWhenOver
  BY RampingInTime DEF MoveUnjamInv
<1>2. AbsoluteInv => Absolute!RampsFromStart /\ Absolute!HoldsWhenOver
  BY AbsoluteInTime DEF AbsoluteInv
<1>3. IntegralInv => Integral!StopsWhenOver
  BY DEF IntegralInv, Integral!ChildrenDriven, Integral!StopsWhenOver
<1>4. MoveUnjamInv /\ AbsoluteInv /\ IntegralInv => PushesNoFurther
  BY <1>1, <1>2, <1>3 DEF PushesNoFurther
<1>5. QED
  BY <1>4, MoveUnjamAlways, AbsoluteAlways, IntegralAlways, PTL

(***************************************************************************)
(* A run() takes the concurrent command out of the scheduler exactly when  *)
(* all of its commands, or in a race one, have finished - the first time   *)
(* it is used (concurrent_command.hpp).  Nothing is left to be forgotten   *)
(* then by initialize().                                                   *)
(***************************************************************************)
THEOREM FinishesTheFirstTime ==
    ASSUME MaxSchedules <= 1
    PROVE  Spec => Concurrent!FinishesOnce
<1>1. ConcurrentInv /\ Concurrent!Run
        => (~concurrentScheduled' <=> IF RACE THEN completed' # {} ELSE completed' = Commands)
  BY DEF ConcurrentInv, Concurrent!Run, Concurrent!isFinished
<1>2. ConcurrentInv /\ [Next]_vars
        => [Concurrent!Run => (~concurrentScheduled' <=>
                IF RACE THEN completed' # {} ELSE completed' = Commands)]_(Concurrent!vars)
  BY <1>1
<1>3. QED
  BY <1>2, ConcurrentAlways, PTL DEF Spec, Concurrent!FinishesOnce
=============================================================================
