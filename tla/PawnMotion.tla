----------------------------- MODULE PawnMotion -----------------------------
(***************************************************************************)
(* The vertical motion of APawnCharacter: the handlers Move, StartJump and *)
(* StopJump, and Tick with CalNewLocation, CheckGround and Landed.          *)
(*                                                                         *)
(* Speeds are in lengths per Tick; height is that of the pawn's centre over *)
(* the floor below.  CheckGround sees a floor within Reach; the sphere that *)
(* Tick sweeps starts in the floor below Contact and ends in it below Low. *)
(* Walls are left out, and so is the distance walked, but a walking pawn   *)
(* may step over an edge onto a deeper floor.                              *)
(***************************************************************************)
EXTENDS Integers, FiniteSetsExt

CONSTANTS
  JumpForce, Gravity,
  Reach, Contact, Low,
  Edges,       \* the depths of the edges the pawn can walk over
  MaxHeight,   \* bound: height over the floor
  MaxFall      \* bound: speed of a fall

PawnAssumption ==
  /\ {JumpForce, Gravity, Reach, Contact, Low, MaxHeight, MaxFall} \subseteq Nat \ {0}
  /\ Gravity < JumpForce
  /\ Low < Contact /\ Contact < Reach /\ Reach < MaxHeight
  /\ Edges \subseteq Nat

VARIABLES
  bMove, bPrevMove, bIsGround, bIsFalling, bPressedJump, bJumpFirst,
  JumpSpeed,
  height

motionVars == <<bMove, bPrevMove, bIsGround, bIsFalling, bPressedJump, bJumpFirst,
                JumpSpeed, height>>

-----------------------------------------------------------------------------

MotionInit ==
  /\ bMove = FALSE /\ bPrevMove = FALSE /\ bIsGround = FALSE
  /\ bIsFalling = FALSE /\ bPressedJump = FALSE /\ bJumpFirst = FALSE
  /\ JumpSpeed = 0
  /\ height \in Low .. MaxHeight

(* Move, once a frame: moving anew in the air costs speed until the landing.*)
Move ==
  /\ ~bMove
  /\ bMove' = TRUE
  /\ bJumpFirst' = (bJumpFirst \/ (~bIsGround /\ ~bPrevMove))
  /\ UNCHANGED <<bPrevMove, bIsGround, bIsFalling, bPressedJump, JumpSpeed, height>>

StartJump ==
  /\ bIsGround
  /\ bPressedJump' = TRUE
  /\ JumpSpeed' = JumpForce
  /\ bIsGround' = FALSE
  /\ bJumpFirst' = ~bMove
  /\ UNCHANGED <<bMove, bPrevMove, bIsFalling, height>>

StopJump ==
  /\ bPressedJump
  /\ bPressedJump' = FALSE
  /\ UNCHANGED <<bMove, bPrevMove, bIsGround, bIsFalling, bJumpFirst, JumpSpeed, height>>

(* MUTANT: gravity pulls only in a jump.                                   *)
CalJumpSpeedHover ==
  IF bIsGround \/ ~bPressedJump THEN JumpSpeed ELSE Max({JumpSpeed - Gravity, -MaxFall})

(* CalNewLocation: the jump speed of this Tick.                            *)
CalJumpSpeed == IF bIsGround THEN JumpSpeed ELSE Max({JumpSpeed - Gravity, -MaxFall})

(* How far the Tick takes the pawn up, given its vertical step.  A sweep    *)
(* that starts in the floor lifts it a little (SmallOffset) unless it falls *)
(* straight down; one that ends in the floor leaves it at its height.      *)
Lift(step) ==
  IF ~bMove /\ bIsGround THEN {0}
  ELSE IF height < Contact THEN (IF step < 0 THEN {0} ELSE {}) \cup (IF step >= 0 \/ bMove THEN {1} ELSE {})
  ELSE IF height + step < Low THEN {0}
  ELSE {step}

(* How much deeper the floor is there: a walking pawn may pass an edge.    *)
Depths == IF bMove /\ height >= Contact THEN Edges \cup {0} ELSE {0}

(* CheckGround, and Landed when it sees the floor.                         *)
CheckGround(speed, up) ==
  /\ bIsGround' = (height' <= Reach)
  /\ JumpSpeed' = IF height' <= Reach THEN 0 ELSE speed
  /\ bIsFalling' = (height' > Reach /\ (bIsFalling \/ up < 0))

(* Tick: the move, then CheckGround.                                       *)
Tick ==
  /\ bPrevMove' = bMove
  /\ bMove' = FALSE
  /\ \E up \in Lift(CalJumpSpeed), deeper \in Depths :
       /\ height' = Min({height + up + deeper, MaxHeight})
       /\ CheckGround(CalJumpSpeed, up)
  /\ UNCHANGED <<bPressedJump, bJumpFirst>>

MotionNext == Move \/ StartJump \/ StopJump \/ Tick

-----------------------------------------------------------------------------
(* PROPERTIES *)

(* A pawn in the air lands, unless a single Tick of its fall is long enough*)
(* to lead from beyond Reach below Low, where the sweep blocks it.         *)
Lands == []<>(bIsGround \/ -JumpSpeed > Reach - Low)
=============================================================================
