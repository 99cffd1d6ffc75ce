-------------------------- MODULE Machinery_proofs --------------------------
(* Proofs about Machinery, for any doors, buttons and platforms, any        *)
(* distances and any bound on the length of a step.                        *)
EXTENDS Machinery, TLAPS

-----------------------------------------------------------------------------
(* Doors and buttons *)

(* PressInv holds at first.                                               *)
LEMMA PressInit ==
  ASSUME DoorInit
  PROVE  PressInv
BY DoorAssumption DEF DoorInit, ButtonInit, PressInv, DoorTypeOK, PressedMoves

(* Every step of a button or a door keeps PressInv.                        *)
LEMMA PressStep ==
  ASSUME PressInv, [DoorNext]_doorVars
  PROVE  PressInv'
<1> USE DoorAssumption DEF PressInv, DoorTypeOK
<1>1. ASSUME NEW b \in MoveButtons, NEW who \in Presses, OverlapMove(b, who)
      PROVE  PressInv'
  <2>1. /\ bActive' = [bActive EXCEPT ![Door[b]] = TRUE]
        /\ IsMoved' = [IsMoved EXCEPT ![b] = TRUE]
        /\ UNCHANGED <<IsSpawned, spawned, distance>>
    BY <1>1 DEF OverlapMove
  <2>2. DoorTypeOK'
    <3>1. IsMoved' \in [MoveButtons -> BOOLEAN] /\ bActive' \in [Doors -> BOOLEAN]
      BY <2>1, Zenon
    <3> QED BY <2>1, <3>1
  <2>3. \A c \in MoveButtons : IsMoved'[c] <=> (IsMoved[c] \/ c = b)
    BY <2>1
  <2>4. \A d \in Doors : bActive'[d] <=> (bActive[d] \/ d = Door[b])
    BY <2>1
  <2>5. PressedMoves'
    BY <2>1, <2>3, <2>4 DEF PressedMoves
  <2>6. \A d \in Doors : bActive'[d] => \E c \in MoveButtons : Door[c] = d /\ IsMoved'[c]
    BY <2>3, <2>4
  <2> QED BY <2>2, <2>5, <2>6
<1>2. ASSUME NEW b \in SpawnButtons, NEW who \in Presses, OverlapSpawn(b, who)
      PROVE  PressInv'
  <2>1. UNCHANGED <<IsMoved, bActive, distance>>
    BY <1>2 DEF OverlapSpawn
  <2>2. IsSpawned' \in [SpawnButtons -> BOOLEAN]
    <3>1. IsSpawned' = [IsSpawned EXCEPT ![b] = (b \in SpawnOnce)]
      BY <1>2 DEF OverlapSpawn
    <3>2. CASE b \in SpawnOnce
      BY <3>1, <3>2, Zenon
    <3>3. CASE b \notin SpawnOnce
      <4>1. (b \in SpawnOnce) = FALSE
        BY <3>3
      <4> QED BY <3>1, <4>1, Zenon
    <3> QED BY <3>2, <3>3
  <2>3. spawned' \in [SpawnButtons -> Nat]
    BY <1>2 DEF OverlapSpawn
  <2> QED BY <2>1, <2>2, <2>3 DEF PressedMoves
<1>3. ASSUME NEW d \in Doors, DoorTick(d) PROVE PressInv'
  <2>1. PICK step \in 1 .. MaxStep : distance' = [distance EXCEPT ![d] = @ + step]
    BY <1>3 DEF DoorTick
  <2>2. UNCHANGED <<IsMoved, IsSpawned, spawned, bActive>> /\ bActive[d]
    BY <1>3 DEF DoorTick, buttonVars
  <2>3. distance' \in [Doors -> Nat] /\ \A e \in Doors \ {d} : distance'[e] = distance[e]
    BY <2>1
  <2> QED BY <2>2, <2>3 DEF PressedMoves
<1>4. CASE UNCHANGED doorVars
  BY <1>4 DEF doorVars, buttonVars, PressedMoves
<1> QED BY <1>1, <1>2, <1>3, <1>4 DEF DoorNext

(* No door moves that nobody pressed a button for, and no button is used up*)
(* without its door being started (ActionButton.cpp:63-76, MoveDoor.cpp:   *)
(* 21-35).                                                                 *)
THEOREM OnlyPressedDoorsMove == Spec => []PressedMoves
<1>1. Init => PressInv
  BY PressInit DEF Init
<1>2. PressInv /\ [Next]_vars => PressInv'
  BY PressStep DEF Next, vars
<1>3. PressInv => PressedMoves
  BY DEF PressInv
<1> QED BY <1>1, <1>2, <1>3, PTL DEF Spec

-----------------------------------------------------------------------------
(* Platforms *)

RangeInv == PlatformTypeOK /\ InRange

(* Unary minus, in the form the prover needs.                              *)
LEMMA Negated ==
  ASSUME NEW x \in Int, x + 1 = 0
  PROVE  -x = 1
OBVIOUS

(* A Tick keeps a platform in its range and moves it by at most a step.    *)
LEMMA TickKeeps ==
  ASSUME RangeInv, NEW p \in Platforms, Tick(p)
  PROVE  /\ RangeInv'
         /\ ShortMove
<1> USE PlatformAssumption DEF RangeInv, PlatformTypeOK, InRange, ShortMove
<1>1. PICK step \in 1 .. MaxMove :
        LET new == offset[p] + Direction[p] * step IN
        IF Reached(p, new)
        THEN /\ offset' = [offset EXCEPT ![p] = Direction[p] * Distance[p]]
             /\ Direction' = [Direction EXCEPT ![p] = -Direction[p]]
        ELSE /\ offset' = [offset EXCEPT ![p] = new]
             /\ UNCHANGED Direction
  BY DEF Tick
<1> DEFINE new == offset[p] + Direction[p] * step
<1>2. /\ offset[p] \in Int /\ Distance[p] \in Nat \ {0} /\ step \in Nat /\ MaxMove \in Nat
      /\ step > 0 /\ step <= MaxMove
  OBVIOUS
<1>3. CASE Direction[p] = 1
  <2>1. new = offset[p] + step /\ Direction[p] * Distance[p] = Distance[p]
    BY <1>2, <1>3
  <2>2. CASE Reached(p, new)
    <3>1. offset' = [offset EXCEPT ![p] = Distance[p]] /\ Direction' = [Direction EXCEPT ![p] = -1]
      BY <1>1, <1>3, <2>1, <2>2
    <3>2. new >= Distance[p]
      BY <1>2, <2>1, <2>2 DEF Reached
    <3> QED BY <1>2, <2>1, <3>1, <3>2
  <2>3. CASE ~Reached(p, new)
    <3>1. offset' = [offset EXCEPT ![p] = offset[p] + step] /\ UNCHANGED Direction
      BY <1>1, <2>1, <2>3
    <3>2. -Distance[p] < new /\ new < Distance[p]
      BY <1>2, <2>1, <2>3 DEF Reached
    <3> QED BY <1>2, <1>3, <2>1, <3>1, <3>2
  <2> QED BY <2>2, <2>3
<1>4. CASE Direction[p] = -1
  <2>1. new = offset[p] - step /\ Direction[p] * Distance[p] = -Distance[p]
    BY <1>2, <1>4
  <2>2. CASE Reached(p, new)
    <3>1. offset' = [offset EXCEPT ![p] = -Distance[p]] /\ Direction' = [Direction EXCEPT ![p] = 1]
      <4>1. -Direction[p] = 1
        <5>1. Direction[p] \in Int /\ Direction[p] + 1 = 0
          BY <1>4
        <5> QED BY <5>1, Negated
      <4> QED BY <1>1, <2>1, <2>2, <4>1
    <3>2. new <= -Distance[p]
      BY <1>2, <2>1, <2>2 DEF Reached
    <3> QED BY <1>2, <2>1, <3>1, <3>2
  <2>3. CASE ~Reached(p, new)
    <3>1. offset' = [offset EXCEPT ![p] = offset[p] - step] /\ UNCHANGED Direction
      BY <1>1, <2>1, <2>3
    <3>2. -Distance[p] < new /\ new < Distance[p]
      BY <1>2, <2>1, <2>3 DEF Reached
    <3> QED BY <1>2, <1>4, <2>1, <3>1, <3>2
  <2> QED BY <2>2, <2>3
<1> QED BY <1>3, <1>4

(* The same of every step of the platforms.                                *)
LEMMA PlatformStep ==
  ASSUME RangeInv, [PlatformNext]_platformVars
  PROVE  /\ RangeInv'
         /\ ShortMove
<1>1. CASE PlatformNext
  BY <1>1, TickKeeps DEF PlatformNext
<1>2. CASE UNCHANGED platformVars
  BY <1>2, PlatformAssumption DEF platformVars, RangeInv, PlatformTypeOK, InRange, ShortMove
<1> QED BY <1>1, <1>2

(* The platforms start at their origins, within range.                     *)
LEMMA PlatformStart ==
  ASSUME PlatformInit
  PROVE  RangeInv
BY PlatformAssumption DEF PlatformInit, RangeInv, PlatformTypeOK, InRange

(* In every frame a platform moves by at most its step, the frame in which *)
(* it is clamped and turns included (MovePlatform.cpp:32-47).  That rests  *)
(* on InRange: a platform at an end of its way is already turned back.     *)
THEOREM PlatformsDoNotJump == Spec => NoJump
<1>1. Init => RangeInv
  BY PlatformStart DEF Init
<1>2. RangeInv /\ [Next]_vars => RangeInv' /\ [ShortMove]_platformVars
  BY PlatformStep DEF Next, vars
<1> QED BY <1>1, <1>2, PTL DEF Spec, NoJump
=============================================================================
