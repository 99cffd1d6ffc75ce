------------------------------ MODULE MazeFloor ------------------------------
(***************************************************************************)
(* The floor that ARandomMazeSpawner builds at BeginPlay: GenerateMaze     *)
(* (Maze), then SpawnMaze, which spawns one AFallPlatform for every cell,  *)
(* then players who walk on it (FallPlatform).  A wall is a platform that  *)
(* falls almost at once, a path a platform that never does.                *)
(***************************************************************************)
EXTENDS Maze

CONSTANTS
  Walkers,     \* actors that can step on a platform
  Spartas,     \* those that are ASpartaCharacters
  MaxStepped   \* bound: platforms that are falling at once

VARIABLES
  spawned,     \* SpawnMaze has run
  HoldingTime, ResetTime, IsFalling, timer, physics, home, inside

Floor == INSTANCE FallPlatform WITH Platforms <- Cells

ASSUME FloorAssumption == Floor!FallAssumption

floorVars == <<HoldingTime, ResetTime, IsFalling, timer, physics, home, inside>>
vars == <<mazeVars, spawned, floorVars>>

-----------------------------------------------------------------------------

(* Before SpawnMaze there is no platform: the values are placeholders.     *)
Init ==
  /\ MazeInit
  /\ spawned = FALSE
  /\ HoldingTime = [c \in Cells |-> FALSE]
  /\ ResetTime = [c \in Cells |-> FALSE]
  /\ Floor!AtRest

GenerateMaze == ~spawned /\ MazeNext /\ UNCHANGED <<spawned, floorVars>>

(* MUTANT: walls and paths are exchanged.                                  *)

SpawnMazeSwapped ==
  /\ phase = "done" /\ ~spawned
  /\ spawned' = TRUE
  /\ HoldingTime' = [c \in Cells |-> maze[c] = Open]
  /\ ResetTime' = [c \in Cells |-> FALSE]
  /\ UNCHANGED <<mazeVars, IsFalling, timer, physics, home, inside>>

(* SpawnMaze: ResetTime 0 everywhere, HoldingTime 0.001 for a cell that is *)
(* not open and 0 for one that is.                                         *)
SpawnMaze ==
  /\ phase = "done" /\ ~spawned
  /\ spawned' = TRUE
  /\ HoldingTime' = [c \in Cells |-> maze[c] # Open]
  /\ ResetTime' = [c \in Cells |-> FALSE]
  /\ UNCHANGED <<mazeVars, IsFalling, timer, physics, home, inside>>

(* Whatever the platforms and those who walk on them do.                   *)
Walk ==
  /\ spawned
  /\ Floor!FallNext
  /\ Cardinality({c \in Cells : IsFalling'[c]}) <= MaxStepped
  /\ UNCHANGED <<mazeVars, spawned>>

Next == GenerateMaze \/ SpawnMaze \/ Walk

Spec == Init /\ [][Next]_vars

-----------------------------------------------------------------------------
(* PROPERTIES *)

(* The path through the maze holds for ever, whoever walks where in what   *)
(* order: no open cell's platform leaves its place.                        *)
PathHolds == \A c \in OpenCells : spawned => home[c] /\ ~physics[c]

=============================================================================
