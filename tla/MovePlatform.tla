---------------------------- MODULE MovePlatform ----------------------------
(***************************************************************************)
(* AMovePlatform: platforms that run to and fro about their origin.        *)
(*                                                                         *)
(* A platform is on the line through its origin along its direction:       *)
(* offset is its signed place on it, Direction the sign it moves in.  Its  *)
(* step is MoveSpeed * DeltaTime, which varies from frame to frame.        *)
(***************************************************************************)
EXTENDS Integers

CONSTANTS
  Platforms,   \* AMovePlatform actors
  Distance,    \* Distance[p], in lengths
  MaxMove      \* bound: the longest step in one frame

(* A platform with Distance zero or no direction does not move.  MoveSpeed  *)
(* and DeltaTime are positive.                                             *)
ASSUME PlatformAssumption ==
  /\ Distance \in [Platforms -> Nat \ {0}]
  /\ MaxMove \in Nat \ {0}

VARIABLES
  offset,      \* offset[p]: GetActorLocation() - OriginLocation
  Direction    \* Direction[p]: 1 or -1

platformVars == <<offset, Direction>>

-----------------------------------------------------------------------------
PlatformTypeOK ==
  /\ offset \in [Platforms -> Int]
  /\ Direction \in [Platforms -> {1, -1}]

PlatformInit ==
  /\ offset = [p \in Platforms |-> 0]
  /\ Direction = [p \in Platforms |-> 1]

(* Dist(OriginLocation, x) >= Distance                                     *)
Reached(p, x) == x >= Distance[p] \/ x <= -Distance[p]

(* MUTANT: the platform is turned before its place is taken from its       *)
(* direction.                                                              *)
TickTurnFirst(p) ==
  \E step \in 1 .. MaxMove :
    LET new == offset[p] + Direction[p] * step IN
    IF Reached(p, new)
    THEN /\ offset' = [offset EXCEPT ![p] = -Direction[p] * Distance[p]]
         /\ Direction' = [Direction EXCEPT ![p] = -@]
    ELSE /\ offset' = [offset EXCEPT ![p] = new]
         /\ UNCHANGED Direction

(* Tick and MovePlatform.                                                  *)
Tick(p) ==
  \E step \in 1 .. MaxMove :
    LET new == offset[p] + Direction[p] * step IN
    IF Reached(p, new)
    THEN /\ offset' = [offset EXCEPT ![p] = Direction[p] * Distance[p]]
         /\ Direction' = [Direction EXCEPT ![p] = -@]
    ELSE /\ offset' = [offset EXCEPT ![p] = new]
         /\ UNCHANGED Direction

PlatformNext == \E p \in Platforms : Tick(p)

-----------------------------------------------------------------------------
(* PROPERTIES *)

(* A platform stays within its distance, and at an end of its way it is    *)
(* already turned back, so that whoever stands on it is not carried on.    *)
InRange ==
  \A p \in Platforms :
    /\ -Distance[p] <= offset[p] /\ offset[p] <= Distance[p]
    /\ offset[p] = Distance[p] => Direction[p] = -1
    /\ offset[p] = -Distance[p] => Direction[p] = 1

(* A platform is never torn from under its rider: no frame moves it by     *)
(* more than its step, not even the one in which it is clamped and turns.  *)
ShortMove ==
  \A p \in Platforms : /\ offset'[p] - offset[p] <= MaxMove
                       /\ offset[p] - offset'[p] <= MaxMove
NoJump == [][ShortMove]_platformVars

=============================================================================
