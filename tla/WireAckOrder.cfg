SPECIFICATION Spec
CONSTANTS
  MaxPuts = 3
  MaxConns = 2
PROPERTIES AcksGrow
CHECK_DEADLOCK FALSE
