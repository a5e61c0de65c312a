SPECIFICATION Spec
CONSTANTS
  k1 = k1
  k2 = k2
  Keys = {k1, k2}
  Targets = {2, 3}
  NumWorkers = 2
  LaneSize = 3
  Block = 2
  Digests <- DigestsHere
  Backends = {TRUE, FALSE}
INVARIANTS InstalledMeetsTarget CursorsScanned
PROPERTIES WorkKept
