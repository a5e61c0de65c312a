SPECIFICATION MCSpec
CONSTANTS
  NoWallet = NoWallet
  Wallets = {w1}
  Configs <- Either
  MaxRuns = 2
  MaxSpawns = 2
  MaxFailures = 2
  Lockable = {w1}
  Takers = FALSE
INVARIANTS TypeOK TaskTracked RestartFindsPortFree
PROPERTIES StopCompletes DeadTaskRestarted ListenerCloses
CHECK_DEADLOCK FALSE
