SPECIFICATION PlaySpec
CONSTANTS
  Bodies  = {b1}
  Spartas = {s1, s2}
  Drones  = {d1, d2}
  Items   = {i1, i2}
  Mortal  = {i1}
  MayFail = {"Body", "Sparta", "Drone"}
  Chords <- AllChords
  Null = Null
INVARIANTS CarefulNeverCrashes WayBack ContextMatches HolderCanRelease StillPlaying OneDrone
PROPERTY CarefulReturns
CHECK_DEADLOCK FALSE
