-------------------------- MODULE ConcurrentCommand --------------------------
(***************************************************************************)
(* tap::control::ConcurrentTemplateCommand: runs its commands side by side *)
(* until all of them, or with RACE one of them, have finished.  A command  *)
(* scheduler adds, runs and removes it.                                    *)
(***************************************************************************)
EXTENDS Integers, CommandLifecycle

CONSTANTS
    Commands,       \* the commands it runs, allCommands as a bitmap
    MaxSchedules    \* bound: how often it is added to the scheduler

VARIABLES
    RACE,               \* the template parameter
    finishedCommands,   \* the bitmap, never cleared after construction
    child,              \* what has been called on each command, a Child
    scheduled,          \* this command is in the scheduler
    schedules,          \* how often it has been added
    completed           \* history: commands that finished since initialize()

vars == <<RACE, finishedCommands, child, scheduled, schedules, completed>>

Init ==
    /\ RACE \in BOOLEAN
    /\ finishedCommands = {}
    /\ child = [c \in Commands |-> Idle]
    /\ scheduled = FALSE
    /\ schedules = 0
    /\ completed = {}

isFinished(finished) ==
    IF RACE THEN finished # {} ELSE finished = Commands

(* Mutant: a race ends all of its commands, the finished ones again. *)
AfterEndOfAll(children, finished) == [c \in Commands |-> Ended(children[c])]

(* The children after end(): those not yet finished are ended. *)
AfterEnd(children, finished) ==
    [c \in Commands |-> IF c \in finished THEN children[c] ELSE Ended(children[c])]

(* The children after initialize(), which resets nothing else. *)
AfterInitialize(children) == [c \in Commands |-> Initialized(children[c])]

(* addCommand, with end() first if this command is already scheduled. *)
Add ==
    /\ schedules < MaxSchedules
    /\ child' = AfterInitialize(
                    IF scheduled THEN AfterEnd(child, finishedCommands) ELSE child)
    /\ scheduled' = TRUE
    /\ schedules' = schedules + 1
    /\ completed' = {}
    /\ UNCHANGED <<RACE, finishedCommands>>

(* The children after execute(), in which the commands of done finish. *)
AfterExecute(done) ==
    [c \in Commands |->
        IF c \in finishedCommands THEN child[c]
        ELSE IF c \in done THEN Ended(Executed(child[c]))
        ELSE Executed(child[c])]

(* Mutant: one finished command is enough without a race. *)
RunAsRace ==
    /\ scheduled
    /\ \E done \in SUBSET (Commands \ finishedCommands) :
          LET finished == finishedCommands \union done IN
          /\ finishedCommands' = finished
          /\ completed' = completed \union done
          /\ scheduled' = (finished = {})
          /\ child' = IF finished # {}
                      THEN AfterEnd(AfterExecute(done), finished)
                      ELSE AfterExecute(done)
    /\ UNCHANGED <<RACE, schedules>>

(* One run() of the scheduler: execute(), then end() if that finished it. *)
Run ==
    /\ scheduled
    /\ \E done \in SUBSET (Commands \ finishedCommands) :
          LET finished == finishedCommands \union done IN
          /\ finishedCommands' = finished
          /\ completed' = completed \union done
          /\ scheduled' = ~isFinished(finished)
          /\ child' = IF isFinished(finished)
                      THEN AfterEnd(AfterExecute(done), finished)
                      ELSE AfterExecute(done)
    /\ UNCHANGED <<RACE, schedules>>

(* The scheduler removes this command before it is finished. *)
Remove ==
    /\ scheduled
    /\ child' = AfterEnd(child, finishedCommands)
    /\ scheduled' = FALSE
    /\ UNCHANGED <<RACE, finishedCommands, schedules, completed>>

Next == Add \/ Run \/ Remove

Spec == Init /\ [][Next]_vars

-----------------------------------------------------------------------------
(***************************************************************************)
(* Every command is initialized, executed and ended in this order, exactly *)
(* the unfinished ones are ended when the others finish, lose the race or  *)
(* are interrupted, and none is left running when this command is not      *)
(* scheduled.                                                              *)
(***************************************************************************)
ChildrenDriven ==
    \A c \in Commands :
        /\ child[c].misused = {}
        /\ child[c].active <=> scheduled /\ c \notin completed

(***************************************************************************)
(* command.hpp:95-97 demands of every command: "Ensure that initialize()   *)
(* resets any state stored in the command!"  A run() takes the command out *)
(* of the scheduler if and only if it has finished since it was added: all *)
(* of its commands or, in a race, one of them.                             *)
(***************************************************************************)
FinishesOnce ==
    [][Run => (~scheduled' <=> IF RACE THEN completed' # {} ELSE completed' = Commands)]_vars
=============================================================================
