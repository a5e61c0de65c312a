SPECIFICATION Spec
CONSTANTS
  NoWallet = NoWallet
  Wallets = {w1}
  Configs <- HttpOnly
  MaxRuns = 1
  MaxSpawns = 1
  MaxFailures = 1
  Lockable = {}
  Takers = TRUE
INVARIANTS EverySwapRecorded
CHECK_DEADLOCK FALSE
