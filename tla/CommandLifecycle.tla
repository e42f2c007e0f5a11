-------------------------- MODULE CommandLifecycle --------------------------
(***************************************************************************)
(* The calls a command expects (command.hpp): initialize(), then execute() *)
(* any number of times, then end(), and from the start again.  A command   *)
(* that runs other commands makes these calls on them; what it did to each *)
(* child is kept in a record of whether the child is between initialize()  *)
(* and end(), and of the calls that came at the wrong time.                *)
(***************************************************************************)

Child == [active : BOOLEAN, misused : SUBSET {"initialize", "execute", "end"}]

Idle == [active |-> FALSE, misused |-> {}]

Misuse(child, call, wrong) == child.misused \union (IF wrong THEN {call} ELSE {})

Initialized(child) ==
    [active |-> TRUE, misused |-> Misuse(child, "initialize", child.active)]

Executed(child) ==
    [child EXCEPT !.misused = Misuse(child, "execute", ~child.active)]

Ended(child) ==
    [active |-> FALSE, misused |-> Misuse(child, "end", ~child.active)]
=============================================================================
