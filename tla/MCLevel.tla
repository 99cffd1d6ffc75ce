------------------------------ MODULE MCLevel ------------------------------
(* Two doors, one of them with two buttons, and two platforms, for TLC.    *)
EXTENDS Level, TLC

CONSTANTS gate, hatch, front, back, side, near, far

Wiring  == front :> gate @@ back :> gate @@ side :> hatch
Targets == gate :> 3 @@ hatch :> 2
Reaches == near :> 1 @@ far :> 3
=============================================================================
