\* LevelHeight 5; the even LevelWidth 6 is made 7: six rooms.
SPECIFICATION Spec
CONSTANTS
  LevelWidth = 6
  LevelHeight = 5
  Walkers = {sparta}
  Spartas = {sparta}
  MaxStepped = 1
INVARIANTS PathHolds Tree FrontierServed DoorsLeadIn
CHECK_DEADLOCK FALSE
