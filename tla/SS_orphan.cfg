SPECIFICATION Spec
CONSTANTS
  NoWallet = NoWallet
  Wallets = {w1, w2}
  Configs <- HttpOnly
  MaxRuns = 1
  MaxSpawns = 1
  MaxFailures = 1
  Lockable = {}
  Takers = FALSE
INVARIANTS StoppedMeansClosed
CHECK_DEADLOCK FALSE
