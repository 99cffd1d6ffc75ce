----------------------------- MODULE ButtonDoor -----------------------------
(***************************************************************************)
(* AActionButton and AMoveDoor: buttons that start a door, or spawn an     *)
(* actor, when the player's pawn steps on them.                            *)
(*                                                                         *)
(* A door moves by a step each Tick while it is active and closer to its   *)
(* origin than TargetDistance.  Its step is MoveSpeed * DeltaTime, which is *)
(* never zero but varies from frame to frame.                              *)
(***************************************************************************)
EXTENDS Naturals

CONSTANTS
  Doors,           \* AMoveDoor actors
  MoveButtons,     \* buttons of ButtonType MoveActor
  SpawnButtons,    \* buttons of ButtonType Spawn
  Door,            \* Door[b]: the WorldMoveRef of a button
  SpawnOnce,       \* the spawn buttons with SpawnOnce set
  Presses,         \* actors that can overlap the buttons
  Pawns,           \* those that are of one of the three pawn classes
  TargetDistance,  \* TargetDistance[d] of a door, in lengths
  MaxStep,         \* bound: the longest step of a door in one frame
  MaxSpawned       \* bound: actors spawned by a button

ASSUME DoorAssumption ==
  /\ MoveButtons \cap SpawnButtons = {}
  /\ Door \in [MoveButtons -> Doors]
  /\ SpawnOnce \subseteq SpawnButtons
  /\ Pawns \subseteq Presses
  /\ TargetDistance \in [Doors -> Nat \ {0}]
  /\ MaxStep \in Nat \ {0} /\ MaxSpawned \in Nat \ {0}

VARIABLES
  IsMoved,     \* IsMoved[b] of a move button
  IsSpawned,   \* IsSpawned[b] of a spawn button
  spawned,     \* spawned[b]: how many actors the button has spawned
  bActive,     \* bActive[d] of a door
  distance     \* distance[d]: Dist(OriginLocation, GetActorLocation())

buttonVars == <<IsMoved, IsSpawned, spawned>>
doorVars   == <<buttonVars, bActive, distance>>

-----------------------------------------------------------------------------
DoorTypeOK ==
  /\ IsMoved \in [MoveButtons -> BOOLEAN]
  /\ IsSpawned \in [SpawnButtons -> BOOLEAN]
  /\ spawned \in [SpawnButtons -> Nat]
  /\ bActive \in [Doors -> BOOLEAN]
  /\ distance \in [Doors -> Nat]

ButtonInit ==
  /\ IsMoved = [b \in MoveButtons |-> FALSE]
  /\ IsSpawned = [b \in SpawnButtons |-> FALSE]
  /\ spawned = [b \in SpawnButtons |-> 0]

DoorInit ==
  /\ ButtonInit
  /\ bActive = [d \in Doors |-> FALSE]
  /\ distance = [d \in Doors |-> 0]

(* MUTANT: the button counts as moved whoever steps on it.                 *)
OverlapMoveAnybody(b, who) ==
  /\ ~IsMoved[b]
  /\ IsMoved' = [IsMoved EXCEPT ![b] = TRUE]
  /\ bActive' = [bActive EXCEPT ![Door[b]] = @ \/ who \in Pawns]
  /\ UNCHANGED <<IsSpawned, spawned, distance>>

(* OnComponentBeginOverlap of a move button: the door starts.              *)
OverlapMove(b, who) ==
  /\ ~IsMoved[b] /\ who \in Pawns
  /\ bActive' = [bActive EXCEPT ![Door[b]] = TRUE]
  /\ IsMoved' = [IsMoved EXCEPT ![b] = TRUE]
  /\ UNCHANGED <<IsSpawned, spawned, distance>>

(* ... of a spawn button: SpawnActor may fail, but its result is not looked*)
(* at, so that a SpawnOnce button is used up all the same.                 *)
OverlapSpawn(b, who) ==
  /\ ~IsSpawned[b] /\ who \in Pawns /\ spawned[b] < MaxSpawned
  /\ \/ spawned' = [spawned EXCEPT ![b] = @ + 1]
     \/ UNCHANGED spawned
  /\ IsSpawned' = [IsSpawned EXCEPT ![b] = (b \in SpawnOnce)]
  /\ UNCHANGED <<IsMoved, bActive, distance>>

(* MUTANT: a door jumps back home instead of passing its target.           *)
DoorTickBack(d) ==
  /\ bActive[d] /\ distance[d] < TargetDistance[d]
  /\ \E step \in 1 .. MaxStep :
       distance' = [distance EXCEPT ![d] = IF @ + step > TargetDistance[d] THEN 0 ELSE @ + step]
  /\ UNCHANGED <<buttonVars, bActive>>

(* AMoveDoor::Tick.                                                        *)
DoorTick(d) ==
  /\ bActive[d] /\ distance[d] < TargetDistance[d]
  /\ \E step \in 1 .. MaxStep : distance' = [distance EXCEPT ![d] = @ + step]
  /\ UNCHANGED <<buttonVars, bActive>>

DoorNext ==
  \/ \E who \in Presses : \/ \E b \in MoveButtons : OverlapMove(b, who)
                          \/ \E b \in SpawnButtons : OverlapSpawn(b, who)
  \/ \E d \in Doors : DoorTick(d)

-----------------------------------------------------------------------------
(* PROPERTIES *)

(* A door moves only if one of its buttons was pressed, and a button that  *)
(* can no longer be pressed has started its door.                          *)
PressedMoves ==
  /\ \A d \in Doors : distance[d] > 0 => \E b \in MoveButtons : Door[b] = d /\ IsMoved[b]
  /\ \A b \in MoveButtons : IsMoved[b] => bActive[Door[b]]

(* A pressed button opens its door, and the door stays open.               *)
DoorOpens ==
  \A b \in MoveButtons : IsMoved[b] ~> [](distance[Door[b]] >= TargetDistance[Door[b]])

(* PressedMoves made inductive: a door is active only once it was pressed. *)
PressInv ==
  /\ DoorTypeOK /\ PressedMoves
  /\ \A d \in Doors : bActive[d] => \E b \in MoveButtons : Door[b] = d /\ IsMoved[b]
=============================================================================
