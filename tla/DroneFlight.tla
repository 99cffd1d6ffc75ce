----------------------------- MODULE DroneFlight -----------------------------
(***************************************************************************)
(* ADronePawn::Tick and its input handlers Move and DroneOff, over a floor. *)
(*                                                                         *)
(* Speeds are in lengths per Tick.  The drone keeps its height over the    *)
(* floor, of which CheckGround sees the part within Reach and which the    *)
(* sweep of Tick does not let come closer than Contact.  Everything        *)
(* horizontal is left out, except that a drone that has speed may come over *)
(* a floor of another height.                                              *)
(***************************************************************************)
EXTENDS Integers, FiniteSetsExt

CONSTANTS
  MaxSpeed,    \* MaxSpeed
  Gravity,     \* Gravity
  Reach,       \* CheckGround: the sweep down by 50 of a sphere of 45
  Contact,     \* Tick: the radius 50 of the swept sphere
  MaxHeight,   \* bound: height over the floor
  MaxFall      \* bound: VerticalVelocity

DroneAssumption ==
  /\ {MaxSpeed, Gravity, Reach, Contact, MaxHeight, MaxFall} \subseteq Nat \ {0}
  /\ Contact < Reach /\ Reach < MaxHeight

VARIABLES
  bDroneOff, bIsGround, VerticalVelocity, CurrentSpeed,
  input,       \* ControlInputVector is not zero
  height       \* of the drone over the floor

droneVars == <<bDroneOff, bIsGround, VerticalVelocity, CurrentSpeed, input, height>>

-----------------------------------------------------------------------------

DroneInit ==
  /\ bDroneOff = FALSE /\ bIsGround = FALSE /\ input = FALSE
  /\ VerticalVelocity = 0 /\ CurrentSpeed = 0
  /\ height \in Contact .. MaxHeight

(* Move: ignored while the drone is off.                                   *)
Move ==
  /\ ~bDroneOff /\ ~input
  /\ input' = TRUE
  /\ UNCHANGED <<bDroneOff, bIsGround, VerticalVelocity, CurrentSpeed, height>>

DroneOff ==
  /\ bDroneOff' = ~bDroneOff
  /\ VerticalVelocity' = 0
  /\ UNCHANGED <<bIsGround, CurrentSpeed, input, height>>

(* The interpolation of CurrentSpeed: towards MaxSpeed with input (a step  *)
(* from rest that stays below 1 is dropped), down to zero without.         *)
NextSpeed ==
  IF input THEN {s \in 0 .. MaxSpeed : s >= CurrentSpeed}
  ELSE {s \in 0 .. MaxSpeed : s < CurrentSpeed \/ s = 0}

(* MUTANT: gravity pulls only while there is input.                        *)
NextFallSteered(ground) ==
  IF ground \/ ~input THEN 0
  ELSE IF ~bDroneOff THEN VerticalVelocity
  ELSE Min({VerticalVelocity + Gravity, MaxFall})

(* What the fall adds: only off, in the air and without input.             *)
NextFall(ground) ==
  IF ground THEN 0
  ELSE IF ~bDroneOff THEN VerticalVelocity
  ELSE IF input THEN 0
  ELSE Min({VerticalVelocity + Gravity, MaxFall})

(* The sweep: a move that would end within Contact of the floor is not made*)
(* at all, one along the floor is.                                         *)
Swept(new) == IF new < Contact THEN height ELSE Min({new, MaxHeight})

CheckGround == height <= Reach

(* Tick: CheckGround, speed, fall, sweep; the input is consumed.  A drone  *)
(* with speed may climb or sink with it (the direction is the player's, or *)
(* that of the last velocity).                                             *)
Tick ==
  LET fall == NextFall(CheckGround) IN
  /\ bIsGround' = CheckGround
  /\ CurrentSpeed' \in NextSpeed
  /\ VerticalVelocity' = fall
  /\ \E climb \in -CurrentSpeed' .. CurrentSpeed' :
       height' = Swept(height + climb - fall)
  /\ input' = FALSE
  /\ UNCHANGED bDroneOff

(* External: the drone comes over a higher or lower floor.                 *)
OverFloor ==
  /\ CurrentSpeed > 0
  /\ \E h \in Contact .. MaxHeight : h # height /\ height' = h
  /\ UNCHANGED <<bDroneOff, bIsGround, VerticalVelocity, CurrentSpeed, input>>

DroneNext == Move \/ DroneOff \/ Tick \/ OverFloor

-----------------------------------------------------------------------------
(* PROPERTIES *)

(* A drone that is switched off and left alone comes to the ground: it     *)
(* ends up where CheckGround sees the floor.  The exception is a fall so   *)
(* fast that one Tick leads from beyond Reach to within Contact, where the *)
(* sweep blocks the whole move and the drone hangs in the air.             *)
OffComesDown ==
  []<>(~bDroneOff \/ bIsGround \/ VerticalVelocity > Reach - Contact)
=============================================================================
