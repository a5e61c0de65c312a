SPECIFICATION FairSpec
CONSTANTS
  Republish = 4
  Poll = 2
  Recycle = 18
  MaxFailures = 2
  RetryMin = 1
  RetryMax = 3
  UnlockPoll = 1
  Expiry = 9
  ConnectTime = 1
  PublishTime = 1
  CloseTime = 1
  HasKey = TRUE
INVARIANTS Recovers AnnouncingIsBrief
PROPERTIES LeaseKept RequestHonoured KeepsTrying
