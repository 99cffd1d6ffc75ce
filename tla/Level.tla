------------------------------- MODULE Level -------------------------------
(***************************************************************************)
(* The actors of a level whose modules stand on their own: machinery,      *)
(* platforms that fall, a drone in flight and a pawn in motion.  They share *)
(* nothing but the world that ticks them, so that a behaviour of the level *)
(* is one of each of them.  `part' says which of them a behaviour is about; *)
(* the others stay where they are.                                         *)
(***************************************************************************)
EXTENDS Machinery

CONSTANTS
  FallPlatforms, Walkers, Spartas,
  Gravity, JumpForce, MaxSpeed, Edges,
  DroneReach, DroneContact, DroneTop, DroneFastest,
  PawnReach, PawnContact, PawnLow, PawnTop, PawnFastest

VARIABLES
  part,
  HoldingTime, ResetTime, IsFalling, timer, physics, home, inside,
  bDroneOff, bDroneGround, VerticalVelocity, CurrentSpeed, input, droneHeight,
  bMove, bPrevMove, bPawnGround, bPawnFalling, bPressedJump, bJumpFirst,
  JumpSpeed, pawnHeight

fallVars  == <<HoldingTime, ResetTime, IsFalling, timer, physics, home, inside>>
droneVars == <<bDroneOff, bDroneGround, VerticalVelocity, CurrentSpeed, input, droneHeight>>
pawnVars  == <<bMove, bPrevMove, bPawnGround, bPawnFalling, bPressedJump, bJumpFirst,
               JumpSpeed, pawnHeight>>
levelVars == <<part, vars, fallVars, droneVars, pawnVars>>

Fall == INSTANCE FallPlatform WITH Platforms <- FallPlatforms

Drone == INSTANCE DroneFlight WITH
  Reach <- DroneReach, Contact <- DroneContact, MaxHeight <- DroneTop,
  MaxFall <- DroneFastest, bIsGround <- bDroneGround, height <- droneHeight

Pawn == INSTANCE PawnMotion WITH
  Reach <- PawnReach, Contact <- PawnContact, Low <- PawnLow, MaxHeight <- PawnTop,
  MaxFall <- PawnFastest, bIsGround <- bPawnGround, bIsFalling <- bPawnFalling,
  height <- pawnHeight
ASSUME LevelAssumption ==
  Fall!FallAssumption /\ Drone!DroneAssumption /\ Pawn!PawnAssumption

-----------------------------------------------------------------------------
(* How the parts start that a behaviour is not about: platforms that never *)
(* fall, a drone and a pawn on the ground.                                 *)
QuietFall  == HoldingTime = [p \in FallPlatforms |-> FALSE] /\ ResetTime = HoldingTime
QuietDrone == droneHeight = DroneContact
QuietPawn  == pawnHeight = PawnContact

LevelInit ==
  /\ part \in {"machinery", "fall", "drone", "pawn"}
  /\ Init
  /\ Fall!FallInit   /\ (part = "fall"  \/ QuietFall)
  /\ Drone!DroneInit /\ (part = "drone" \/ QuietDrone)
  /\ Pawn!MotionInit /\ (part = "pawn"  \/ QuietPawn)

LevelNext ==
  /\ UNCHANGED part
  /\ \/ /\ part = "machinery" /\ Next
        /\ UNCHANGED <<fallVars, droneVars, pawnVars>>
     \/ /\ part = "fall" /\ Fall!FallNext
        /\ UNCHANGED <<vars, droneVars, pawnVars>>
     \/ /\ part = "drone" /\ Drone!DroneNext
        /\ UNCHANGED <<vars, fallVars, pawnVars>>
     \/ /\ part = "pawn" /\ Pawn!MotionNext
        /\ UNCHANGED <<vars, fallVars, droneVars>>

(* The fairness of each module: the engine ticks every actor, and the      *)
(* timer manager fires every timer that stays set.                         *)
LevelSpec ==
  /\ LevelInit /\ [][LevelNext]_levelVars
  /\ \A d \in Doors : WF_doorVars(part = "machinery" /\ DoorTick(d))
  /\ \A p \in FallPlatforms : WF_fallVars(part = "fall" /\ Fall!Timers(p))
  /\ WF_droneVars(part = "drone" /\ Drone!Tick)
  /\ WF_pawnVars(part = "pawn" /\ Pawn!Tick)

-----------------------------------------------------------------------------
OnePhase     == Fall!OnePhase
StepFelt     == Fall!StepFelt
ComesBack    == Fall!ComesBack
OffComesDown == part = "drone" => Drone!OffComesDown
Lands        == part = "pawn" => Pawn!Lands
==============================================================================
