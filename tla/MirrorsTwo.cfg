\* Two spawners that share a mirror and a target.
SPECIFICATION Spec
CONSTANTS
  Lasers = {l1, l2, l3, l4}
  Spawners = {s1, s2}
  Mirrors = {m1}
  Splits = {}
  Targets = {t1}
  Mortal = {}
  NameWithin = {}
  NameEnds = {}
  SpawnLaserCount = 2
  MaxBounce = 1
  MaxChildren = 4
  Wall = Wall
  Miss = Miss
  Null = Null
SYMMETRY Beams
PROPERTY Isolation
