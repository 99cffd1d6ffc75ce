\* A splitter of two beams among the mirrors; it can fall out of the world.
SPECIFICATION Spec
CONSTANTS
  Lasers = {l1, l2, l3, l4}
  Spawners = {s1}
  Mirrors = {m1}
  Splits = {d1}
  Targets = {t1}
  Mortal = {d1}
  NameWithin = {}
  NameEnds = {}
  SpawnLaserCount = 2
  MaxBounce = 2
  MaxChildren = 4
  Wall = Wall
  Miss = Miss
  Null = Null
SYMMETRY Beams
INVARIANTS Registered RootKept
CHECK_DEADLOCK FALSE
