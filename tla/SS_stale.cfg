SPECIFICATION Spec
CONSTANTS
  NoWallet = NoWallet
  Wallets = {w1}
  Configs <- NostrOnly
  MaxRuns = 2
  MaxSpawns = 2
  MaxFailures = 1
  Lockable = {}
  Takers = FALSE
INVARIANTS NothingFromPreviousRun
CHECK_DEADLOCK FALSE
