--------------------- MODULE GovernorWithFallbackCommand ---------------------
(***************************************************************************)
(* tap::control::governor::GovernorWithFallbackCommand: when it is asked   *)
(* isReady() it selects the governed command or the fallback, and then     *)
(* passes every call on to the selected one.  addCommand of the scheduler  *)
(* asks isReady() before anything else, also when this command is already  *)
(* scheduled and about to be ended first.                                  *)
(*                                                                         *)
(* GovernorLimitedCommand, which has no fallback and is not ready unless   *)
(* its governors are, is the same command with the governed one selected   *)
(* for ever.  It tells its governors of each initialize(); what they make  *)
(* of that is theirs (GovernorsChange).                                    *)
(***************************************************************************)
EXTENDS Integers, CommandLifecycle

CONSTANTS
    Governors,          \* commandGovernorList
    AddedWhileScheduled \* TRUE if a mapping may add it while it is scheduled

VARIABLES
    limited,            \* it is a GovernorLimitedCommand
    governedCommandSelected,
    stopFallbackCommandIfGovernorsReady,
    readyGovernors,     \* governors whose isReady() returns true now
    finishedGovernors,  \* governors whose isFinished() returns true now
    child,              \* what was called on the governed command and the fallback
    scheduled,          \* this command is in the scheduler
    turn                \* history: parity of the calls of execute()

vars == <<limited, governedCommandSelected, stopFallbackCommandIfGovernorsReady,
          readyGovernors, finishedGovernors, child, scheduled, turn>>

Init ==
    /\ limited \in BOOLEAN
    /\ governedCommandSelected = limited
    /\ stopFallbackCommandIfGovernorsReady \in BOOLEAN
    /\ limited => ~stopFallbackCommandIfGovernorsReady
    /\ readyGovernors \in SUBSET Governors
    /\ finishedGovernors \in SUBSET Governors
    /\ child = [c \in {"governed", "fallback"} |-> Idle]
    /\ scheduled = FALSE
    /\ turn = 0

(* The child that the calls are passed on to. *)
Selected(governed) == IF governed THEN "governed" ELSE "fallback"

checkGovernorReadiness == readyGovernors = Governors

checkAnyGovernorFinished == finishedGovernors # {}

(* Mutant: the fallback goes on whatever the governors say. *)
isFinishedByChild(childFinished) ==
    childFinished \/ (governedCommandSelected /\ checkAnyGovernorFinished)

GovernedFinished(childFinished) == childFinished \/ checkAnyGovernorFinished

(* isFinished(), given that of the selected command. *)
isFinished(childFinished) ==
    IF governedCommandSelected THEN GovernedFinished(childFinished)
    ELSE childFinished \/ (stopFallbackCommandIfGovernorsReady /\ checkGovernorReadiness)

(* A limited command is not ready unless its governors are. *)
MayStart == limited => checkGovernorReadiness

(* The governors change their minds between two calls. *)
GovernorsChange ==
    /\ readyGovernors' \in SUBSET Governors
    /\ finishedGovernors' \in SUBSET Governors
    /\ UNCHANGED <<limited, governedCommandSelected, stopFallbackCommandIfGovernorsReady,
                   child, scheduled, turn>>

(***************************************************************************)
(* addCommand: isReady() selects, end() follows if this command is         *)
(* scheduled already, and then initialize().                               *)
(***************************************************************************)
AfterEnd == [child EXCEPT ![Selected(governedCommandSelected')] = Ended(@)]

Add ==
    /\ scheduled => AddedWhileScheduled
    /\ MayStart
    /\ governedCommandSelected' = (limited \/ checkGovernorReadiness)
    /\ LET children == IF scheduled THEN AfterEnd ELSE child IN
       child' = [children EXCEPT ![Selected(governedCommandSelected')] = Initialized(@)]
    /\ scheduled' = TRUE
    /\ UNCHANGED <<limited, stopFallbackCommandIfGovernorsReady, readyGovernors,
                   finishedGovernors, turn>>

(* addCommand when the selected command is not ready: the selection stays. *)
AddNotReady ==
    /\ scheduled => AddedWhileScheduled
    /\ governedCommandSelected' = (limited \/ checkGovernorReadiness)
    /\ UNCHANGED <<limited, stopFallbackCommandIfGovernorsReady, readyGovernors,
                   finishedGovernors, child, scheduled, turn>>

(* Mutant: execute() selects anew, by what the governors say now. *)
RunSelecting ==
    /\ scheduled
    /\ \E childFinished \in BOOLEAN :
          LET current == Selected(checkGovernorReadiness)
              finished == isFinished(childFinished) IN
          /\ scheduled' = ~finished
          /\ child' = [child EXCEPT ![current] =
                          IF finished THEN Ended(Executed(@)) ELSE Executed(@)]
    /\ turn' = 1 - turn
    /\ UNCHANGED <<limited, governedCommandSelected, stopFallbackCommandIfGovernorsReady,
                   readyGovernors, finishedGovernors>>

(* One run() of the scheduler: execute(), then end() if that finished it. *)
Run ==
    /\ scheduled
    /\ \E childFinished \in BOOLEAN :
          LET current == Selected(governedCommandSelected)
              finished == isFinished(childFinished) IN
          /\ scheduled' = ~finished
          /\ child' = [child EXCEPT ![current] =
                          IF finished THEN Ended(Executed(@)) ELSE Executed(@)]
    /\ turn' = 1 - turn
    /\ UNCHANGED <<limited, governedCommandSelected, stopFallbackCommandIfGovernorsReady,
                   readyGovernors, finishedGovernors>>

(* The scheduler removes this command before it is finished. *)
Remove ==
    /\ scheduled
    /\ child' = [child EXCEPT ![Selected(governedCommandSelected)] = Ended(@)]
    /\ scheduled' = FALSE
    /\ UNCHANGED <<limited, governedCommandSelected, stopFallbackCommandIfGovernorsReady,
                   readyGovernors, finishedGovernors, turn>>

Next == GovernorsChange \/ Add \/ AddNotReady \/ Run \/ Remove

Spec == Init /\ [][Next]_vars

(***************************************************************************)
(* While this command is scheduled the scheduler runs it again and again.  *)
(***************************************************************************)
FairSpec == Spec /\ WF_vars(Run)

-----------------------------------------------------------------------------
(***************************************************************************)
(* governor_with_fallback_command.hpp:37-38 says one of the two commands   *)
(* is selected in isReady(), "at which point that command will be executed *)
(* until its completion": the selected command, and no other, gets its     *)
(* initialize(), execute() and end() in this order, however the governors  *)
(* change in between.                                                      *)
(***************************************************************************)
ChildrenDriven ==
    \A c \in {"governed", "fallback"} :
        /\ child[c].misused = {}
        /\ child[c].active <=> scheduled /\ c = Selected(governedCommandSelected)

(***************************************************************************)
(* With stopFallbackCommandIfGovernorsReady a fallback cannot outlive      *)
(* governors that are ready for good: it is ended, whether it finishes by  *)
(* itself or not, so that the governed command has its turn.               *)
(***************************************************************************)
FallbackYields ==
    stopFallbackCommandIfGovernorsReady
        => (<>[]checkGovernorReadiness => <>[](~child["fallback"].active))

(***************************************************************************)
(* A governor that wants the governed command to stop, and goes on to want *)
(* it, is heard: the command does not outlive the next run of the          *)
(* scheduler, with a fallback or without (governor_limited_command.hpp:86, *)
(* governor_with_fallback_command.hpp:116).                                *)
(***************************************************************************)
GovernedStops ==
    <>[]checkAnyGovernorFinished => []<>(~child["governed"].active)
=============================================================================
