----------------------------- MODULE Machinery -----------------------------
(***************************************************************************)
(* The machinery of a level: the doors with their buttons (ButtonDoor) and *)
(* the platforms that move to and fro (MovePlatform).  They share nothing  *)
(* but the world that ticks them, one actor after another in any order.    *)
(***************************************************************************)
EXTENDS ButtonDoor, MovePlatform

vars == <<doorVars, platformVars>>

Init == DoorInit /\ PlatformInit

Next == \/ DoorNext /\ UNCHANGED platformVars
        \/ PlatformNext /\ UNCHANGED doorVars

Spec == Init /\ [][Next]_vars

=============================================================================
