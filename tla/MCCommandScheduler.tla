------------------------- MODULE MCCommandScheduler -------------------------
(***************************************************************************)
(* Three subsystems and five commands: the default commands of subsystems  *)
(* 0 and 1 require nothing else, that of subsystem 2 also requires 1;      *)
(* subsystem 1 has a hardware test; command 4 is one a mapping adds, it    *)
(* spans subsystems 0 and 1 and may be not ready.                          *)
(***************************************************************************)
EXTENDS CommandScheduler, TLC

MCReqs == (0 :> {0}) @@ (1 :> {1}) @@ (2 :> {1, 2}) @@ (3 :> {1}) @@ (4 :> {0, 1})
MCDefault == (0 :> 0) @@ (1 :> 1) @@ (2 :> 2)
MCTest == (0 :> nullptr) @@ (1 :> 3) @@ (2 :> nullptr)
MCAlwaysReady == {0, 1, 2}
=============================================================================
