\* One spawner, two mirrors, two targets: the puzzle of the level.
SPECIFICATION Spec
CONSTANTS
  Lasers = {l1, l2, l3, l4}
  Spawners = {s1}
  Mirrors = {m1, m2}
  Splits = {}
  Targets = {t1, t2}
  Mortal = {}
  NameWithin = {}
  NameEnds = {}
  SpawnLaserCount = 2
  MaxBounce = 2
  MaxChildren = 4
  Wall = Wall
  Miss = Miss
  Null = Null
SYMMETRY BeamsAndMirrors
INVARIANTS TypeOK NoOrphans MirrorServed UniqueID LitByBeam
