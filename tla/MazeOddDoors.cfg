SPECIFICATION MazeSpec
CONSTANTS
  LevelWidth = 5
  LevelHeight = 3
INVARIANT OddDoors
CHECK_DEADLOCK FALSE
