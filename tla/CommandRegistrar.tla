-------------------------- MODULE CommandRegistrar --------------------------
(***************************************************************************)
(* The global registrar behind the command identifiers, the schedulers     *)
(* that index their bitmaps with them, and the flag that allows only one   *)
(* master scheduler.  The subsystem registrar is the same code over        *)
(* another array.                                                          *)
(*                                                                         *)
(* A scheduler is reduced to the bits that it sets and clears; what a      *)
(* command requires and when it finishes is CommandScheduler's subject.    *)
(***************************************************************************)
EXTENDS Integers

CONSTANTS
    Command,            \* the command objects of the program
    Scheduler,          \* the scheduler objects
    MAX_COMMAND_COUNT,  \* slots of the registrar, 64 in the source
    nullptr             \* an empty slot

Index == 0 .. MAX_COMMAND_COUNT - 1
INVALID == -1

ASSUME MaxAssumption == MAX_COMMAND_COUNT \in Nat \ {0}
ASSUME NullAssumption == nullptr \notin Command

VARIABLES
    registrar,              \* globalCommandRegistrar
    maxCommandIndex,
    globalIdentifier,       \* of each live command, INVALID before and after
    asserted,               \* a modm_assert has failed: the program has stopped
    added,                  \* each scheduler's addedCommandBitmap
    role,                   \* each scheduler: not constructed, plain or master
    masterSchedulerExists,
    scheduled               \* history: the commands each scheduler runs

commands == <<registrar, maxCommandIndex, globalIdentifier>>
bitmaps == <<added, scheduled>>
masters == <<role, masterSchedulerExists>>
vars == <<commands, asserted, bitmaps, masters>>

TypeOK ==
    /\ registrar \in [Index -> Command \union {nullptr}]
    /\ maxCommandIndex \in 0 .. MAX_COMMAND_COUNT
    /\ globalIdentifier \in [Command -> Index \union {INVALID}]
    /\ asserted \in BOOLEAN
    /\ added \in [Scheduler -> SUBSET Index]
    /\ role \in [Scheduler -> {"none", "plain", "master"}]
    /\ masterSchedulerExists \in BOOLEAN
    /\ scheduled \in [Scheduler -> SUBSET Command]

Init ==
    /\ registrar = [i \in Index |-> nullptr]
    /\ maxCommandIndex = 0
    /\ globalIdentifier = [c \in Command |-> INVALID]
    /\ asserted = FALSE
    /\ added = [s \in Scheduler |-> {}]
    /\ role = [s \in Scheduler |-> "none"]
    /\ masterSchedulerExists = FALSE
    /\ scheduled = [s \in Scheduler |-> {}]

Live(c) == globalIdentifier[c] # INVALID

Free(i) == registrar[i] = nullptr

-----------------------------------------------------------------------------
(* Commands are constructed into the lowest free slot ... *)

constructCommand(c) ==
    /\ ~asserted /\ ~Live(c)
    /\ maxCommandIndex < MAX_COMMAND_COUNT
    /\ \E i \in Index :
          /\ Free(i)
          /\ \A j \in Index : j < i => ~Free(j)
          /\ maxCommandIndex' =
                 IF i + 1 > maxCommandIndex THEN i + 1 ELSE maxCommandIndex
          /\ registrar' = [registrar EXCEPT ![i] = c]
          /\ globalIdentifier' = [globalIdentifier EXCEPT ![c] = i]
    /\ UNCHANGED <<asserted, bitmaps, masters>>

(* ... or the assertion "Too many commands constructed!" stops the program. *)
ConstructAsserts(c) ==
    /\ ~asserted /\ ~Live(c)
    /\ maxCommandIndex >= MAX_COMMAND_COUNT
    /\ asserted' = TRUE
    /\ UNCHANGED <<commands, bitmaps, masters>>

(* Mutant: the last slot is emptied instead of the command's own. *)
destructCommandAtEnd(c) ==
    /\ ~asserted /\ Live(c)
    /\ \A s \in Scheduler : c \notin scheduled[s]
    /\ registrar' = [registrar EXCEPT ![maxCommandIndex - 1] = nullptr]
    /\ maxCommandIndex' = IF globalIdentifier[c] = maxCommandIndex - 1
                          THEN maxCommandIndex - 1
                          ELSE maxCommandIndex
    /\ globalIdentifier' = [globalIdentifier EXCEPT ![c] = INVALID]
    /\ UNCHANGED <<asserted, bitmaps, masters>>

(* Mutant: the maximum shrinks whichever command is destroyed. *)
destructCommandShrinking(c) ==
    /\ ~asserted /\ Live(c)
    /\ \A s \in Scheduler : c \notin scheduled[s]
    /\ registrar' = [registrar EXCEPT ![globalIdentifier[c]] = nullptr]
    /\ maxCommandIndex' = maxCommandIndex - 1
    /\ globalIdentifier' = [globalIdentifier EXCEPT ![c] = INVALID]
    /\ UNCHANGED <<asserted, bitmaps, masters>>

(***************************************************************************)
(* A command is destroyed only when no scheduler runs it: nothing in the   *)
(* code checks this, and the bit of a scheduled one would outlive it.      *)
(***************************************************************************)
destructCommand(c) ==
    /\ ~asserted /\ Live(c)
    /\ \A s \in Scheduler : c \notin scheduled[s]
    /\ registrar' = [registrar EXCEPT ![globalIdentifier[c]] = nullptr]
    /\ maxCommandIndex' = IF globalIdentifier[c] = maxCommandIndex - 1
                          THEN maxCommandIndex - 1
                          ELSE maxCommandIndex
    /\ globalIdentifier' = [globalIdentifier EXCEPT ![c] = INVALID]
    /\ UNCHANGED <<asserted, bitmaps, masters>>

-----------------------------------------------------------------------------
(* Schedulers. *)

(* The constructor: only the first master becomes one. *)
constructScheduler(s, masterScheduler) ==
    /\ ~asserted /\ role[s] = "none"
    /\ role' = [role EXCEPT ![s] = IF masterScheduler /\ ~masterSchedulerExists
                                   THEN "master" ELSE "plain"]
    /\ masterSchedulerExists' = (masterSchedulerExists \/ masterScheduler)
    /\ UNCHANGED <<commands, asserted, bitmaps>>

(* Mutant: destroying any scheduler clears the flag. *)
destructAnyScheduler(s) ==
    /\ ~asserted /\ role[s] # "none"
    /\ masterSchedulerExists' = FALSE
    /\ role' = [role EXCEPT ![s] = "none"]
    /\ added' = [added EXCEPT ![s] = {}]
    /\ scheduled' = [scheduled EXCEPT ![s] = {}]
    /\ UNCHANGED <<commands, asserted>>

destructScheduler(s) ==
    /\ ~asserted /\ role[s] # "none"
    /\ masterSchedulerExists' = (masterSchedulerExists /\ role[s] # "master")
    /\ role' = [role EXCEPT ![s] = "none"]
    /\ added' = [added EXCEPT ![s] = {}]
    /\ scheduled' = [scheduled EXCEPT ![s] = {}]
    /\ UNCHANGED <<commands, asserted>>

addCommand(s, c) ==
    /\ ~asserted /\ role[s] # "none" /\ Live(c)
    /\ added' = [added EXCEPT ![s] = @ \union {globalIdentifier[c]}]
    /\ scheduled' = [scheduled EXCEPT ![s] = @ \union {c}]
    /\ UNCHANGED <<commands, asserted, masters>>

removeCommand(s, c) ==
    /\ ~asserted /\ role[s] # "none" /\ Live(c)
    /\ globalIdentifier[c] \in added[s]
    /\ added' = [added EXCEPT ![s] = @ \ {globalIdentifier[c]}]
    /\ scheduled' = [scheduled EXCEPT ![s] = @ \ {c}]
    /\ UNCHANGED <<commands, asserted, masters>>

Next ==
    \/ \E c \in Command : constructCommand(c) \/ ConstructAsserts(c) \/ destructCommand(c)
    \/ \E s \in Scheduler :
          \/ \E master \in BOOLEAN : constructScheduler(s, master)
          \/ destructScheduler(s)
          \/ \E c \in Command : addCommand(s, c) \/ removeCommand(s, c)

Spec == Init /\ [][Next]_vars

-----------------------------------------------------------------------------
(* What cmdMapBegin() .. cmdMapEnd() of scheduler s yields. *)
Iterated(s) == {registrar[i] : i \in {j \in added[s] : j < maxCommandIndex}}

(***************************************************************************)
(* Each live command stands in the slot of its identifier and every other  *)
(* slot is empty: no two live commands share a bit of the bitmaps.         *)
(***************************************************************************)
IdentifiersUnique ==
    \A i \in Index, c \in Command : registrar[i] = c <=> globalIdentifier[c] = i

(***************************************************************************)
(* The iterators stop at maxCommandIndex, and yet a scheduler's loop sees  *)
(* each of its commands and nothing else, in whichever order commands came *)
(* and went before.                                                        *)
(***************************************************************************)
IteratorsSeeScheduled == \A s \in Scheduler : Iterated(s) = scheduled[s]

(***************************************************************************)
(* At most one scheduler is the master, and the flag tells whether there   *)
(* is one, also after masters have been destroyed and constructed again.   *)
(***************************************************************************)
OneMaster ==
    /\ \A s, t \in Scheduler : role[s] = "master" /\ role[t] = "master" => s = t
    /\ masterSchedulerExists <=> \E s \in Scheduler : role[s] = "master"
=============================================================================
