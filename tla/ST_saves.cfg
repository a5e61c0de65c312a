SPECIFICATION FairSpec
CONSTANTS
  Ports = {1}
  Relays = {r1, r2}
  r1 = r1
  r2 = r2
  Limit = 2
  SpinMax = 2
INVARIANTS FormHonest ServesStored 
PROPERTY StartBearsFruit
