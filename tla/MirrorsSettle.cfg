\* Liveness: chains of up to three beams over two mirrors.
SPECIFICATION LowestSpec
CONSTANTS
  Lasers = {1, 2, 3}
  Spawners = {s1}
  Mirrors = {m1, m2}
  Splits = {}
  Targets = {t1}
  Mortal = {}
  NameWithin = {}
  NameEnds = {}
  SpawnLaserCount = 1
  MaxBounce = 3
  MaxChildren = 3
  Wall = Wall
  Miss = Miss
  Null = Null
PROPERTY Settles
CHECK_DEADLOCK FALSE
