-------------------------- MODULE SequentialCommand --------------------------
(***************************************************************************)
(* tap::control::SequentialCommand: runs its commands one after another,   *)
(* each when it is ready.  It is driven the way a CommandScheduler drives  *)
(* a command: added (and, if it is already scheduled, ended first), run    *)
(* and removed.                                                            *)
(***************************************************************************)
EXTENDS Integers, CommandLifecycle

CONSTANT COMMANDS   \* the number of commands, at least one

Index == 0 .. COMMANDS - 1

VARIABLES
    currentCommand,     \* in 0 .. COMMANDS
    commandInitialized,
    child,              \* what has been called on each command, a Child
    scheduled,          \* this command is in the scheduler
    completed           \* history: commands that finished since initialize()

vars == <<currentCommand, commandInitialized, child, scheduled, completed>>

(* The constructor leaves commandInitialized uninitialized. *)
Init ==
    /\ currentCommand = 0
    /\ commandInitialized \in BOOLEAN
    /\ child = [i \in Index |-> Idle]
    /\ scheduled = FALSE
    /\ completed = {}

(* The children after end(): the current command is ended, if there is one. *)
AfterEnd ==
    IF currentCommand # COMMANDS
    THEN [child EXCEPT ![currentCommand] = Ended(@)]
    ELSE child

(* Mutant: initialize() goes on with the command that was interrupted. *)
initializeResuming ==
    /\ currentCommand' = currentCommand % COMMANDS
    /\ UNCHANGED commandInitialized

initialize ==
    /\ currentCommand' = 0
    /\ commandInitialized' = FALSE

(***************************************************************************)
(* addCommand on this command; isReady() asks the first command.  If it is *)
(* already scheduled the scheduler ends it before initialize().            *)
(***************************************************************************)
Add ==
    /\ child' = IF scheduled THEN AfterEnd ELSE child
    /\ initialize
    /\ scheduled' = TRUE
    /\ completed' = {}

(***************************************************************************)
(* One run() of the scheduler: execute(), and end() once all commands are  *)
(* finished.  The current command is ready or not, and finishes or not.    *)
(***************************************************************************)
Wait ==
    /\ scheduled
    /\ ~commandInitialized
    /\ UNCHANGED vars

(* The current command as execute() leaves it if it does not finish. *)
Driven ==
    Executed(IF commandInitialized THEN child[currentCommand]
             ELSE Initialized(child[currentCommand]))

GoOn ==
    /\ scheduled
    /\ child' = [child EXCEPT ![currentCommand] = Driven]
    /\ commandInitialized' = TRUE
    /\ UNCHANGED <<currentCommand, scheduled, completed>>

(* Mutant: a finished command is not ended. *)
FinishCurrentWithoutEnd ==
    /\ scheduled
    /\ child' = [child EXCEPT ![currentCommand] = Driven]
    /\ commandInitialized' = FALSE
    /\ currentCommand' = currentCommand + 1
    /\ completed' = completed \union {currentCommand}
    /\ scheduled' = (currentCommand' # COMMANDS)

FinishCurrent ==
    /\ scheduled
    /\ child' = [child EXCEPT ![currentCommand] = Ended(Driven)]
    /\ commandInitialized' = FALSE
    /\ currentCommand' = currentCommand + 1
    /\ completed' = completed \union {currentCommand}
    /\ scheduled' = (currentCommand' # COMMANDS)

(* The scheduler removes this command before it is finished. *)
Remove ==
    /\ scheduled
    /\ child' = AfterEnd
    /\ scheduled' = FALSE
    /\ UNCHANGED <<currentCommand, commandInitialized, completed>>

Next == Add \/ Wait \/ GoOn \/ FinishCurrent \/ Remove

Spec == Init /\ [][Next]_vars

-----------------------------------------------------------------------------
(***************************************************************************)
(* No command is executed that was not initialized, none is initialized    *)
(* twice without an end() in between, and none is left running when the    *)
(* sequence is not scheduled, however often it is interrupted and added    *)
(* again.                                                                  *)
(***************************************************************************)
ChildrenDriven ==
    /\ \A i \in Index : child[i].misused \subseteq {"end"}
    /\ \A i \in Index : child[i].active =>
          scheduled /\ i = currentCommand /\ commandInitialized

(***************************************************************************)
(* The commands run in order: one is active only after all before it have  *)
(* finished since the sequence was last initialized, and a sequence that   *)
(* reaches its end has finished them all.                                  *)
(***************************************************************************)
InOrder ==
    /\ \A i \in Index : child[i].active => completed = 0 .. i - 1
    /\ currentCommand = COMMANDS => completed = Index
=============================================================================
