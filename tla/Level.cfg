SPECIFICATION LevelSpec
CONSTANTS
  gate = gate
  hatch = hatch
  front = front
  back = back
  side = side
  near = near
  far = far
  Doors = {gate, hatch}
  MoveButtons = {front, back, side}
  SpawnButtons = {once}
  Door <- Wiring
  SpawnOnce = {once}
  Presses = {player, crate}
  Pawns = {player}
  TargetDistance <- Targets
  MaxStep = 2
  MaxSpawned = 1
  Platforms = {near, far}
  Distance <- Reaches
  MaxMove = 2
  FallPlatforms = {p1, p2}
  Walkers = {sparta, drone}
  Spartas = {sparta}
  Gravity = 1
  MaxSpeed = 2
  DroneReach = 5
  DroneContact = 2
  DroneTop = 14
  DroneFastest = 6
  JumpForce = 3
  PawnReach = 7
  PawnContact = 5
  PawnLow = 2
  Edges = {3}
  PawnTop = 22
  PawnFastest = 7
INVARIANTS OnePhase StepFelt PressedMoves
PROPERTIES ComesBack OffComesDown Lands NoJump DoorOpens
CHECK_DEADLOCK FALSE
