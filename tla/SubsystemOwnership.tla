------------------------- MODULE SubsystemOwnership -------------------------
(***************************************************************************)
(* What a CommandScheduler promises, with no bitmaps and no run loop: each *)
(* subsystem has at most one owner, a command that owns anything owns      *)
(* exactly the subsystems it requires, and ownership moves in two ways     *)
(* only: a command takes all of its subsystems at once (whoever held one   *)
(* of them loses all of its own), or some commands give up all of theirs.  *)
(***************************************************************************)
EXTENDS Integers

CONSTANTS
    Subsystem,      \* subsystems that can be owned
    Command,        \* commands that can own them
    Reqs,           \* the subsystems each command requires
    NoCommand       \* the owner of a subsystem that nobody owns

VARIABLE owner

Init == owner = [s \in Subsystem |-> NoCommand]

(* The commands that lose their subsystems when c is scheduled. *)
Displaced(c) == {owner[s] : s \in Reqs[c]} \ {NoCommand}

Acquire(c) ==
    /\ Reqs[c] # {}
    /\ owner' = [s \in Subsystem |->
                    IF s \in Reqs[c] THEN c
                    ELSE IF owner[s] \in Displaced(c) THEN NoCommand
                    ELSE owner[s]]

Owners == {owner[s] : s \in Subsystem} \ {NoCommand}

Release(S) ==
    owner' = [s \in Subsystem |->
                 IF owner[s] \in S THEN NoCommand ELSE owner[s]]

Next ==
    \/ \E c \in Command : Acquire(c)
    \/ \E S \in SUBSET Owners : Release(S)

Spec == Init /\ [][Next]_owner
=============================================================================
