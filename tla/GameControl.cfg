SPECIFICATION FairSpec
CONSTANTS
  MaxConns = 2
  MaxMoves = 3
  Settings <- SettingsChosen
  Modes = {0, 5}
INVARIANTS ReaderSafe Settled InStep
PROPERTIES ReplacedWhenDead Answered
CHECK_DEADLOCK FALSE
