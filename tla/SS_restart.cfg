SPECIFICATION MCSpec
CONSTANTS
  NoWallet = NoWallet
  w1 = w1
  w2 = w2
  Wallets <- BothWallets
  Configs <- Either
  MaxRuns = 2
  MaxSpawns = 2
  MaxFailures = 1
  Lockable = {}
  Takers = TRUE
INVARIANTS StatusTruthful OneAnnouncer CancellationTakesHold OfferMeetsTarget RecorderFollowsRun CurrentSwapsRecorded
PROPERTIES ServiceKept
CHECK_DEADLOCK FALSE
