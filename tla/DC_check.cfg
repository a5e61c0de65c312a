SPECIFICATION MCSpec
CONSTANTS
  r1 = r1
  r2 = r2
  Relays = {r1, r2}
  Version = "v6"
  Net = "main"
  Targets = {2, 3}
  DefaultTarget = 3
  Lookback = 1
  Limit = 2
  Offers <- EveryOffer
  Bits = {2}
  MaxOthers = 2
  Start = 2
  End = 3
  MaxTabs = 2
  MaxChecks = 2
INVARIANTS DiscoverableSound StandingOfferFound StockTakersWarned ReportComplete ButtonHonest
PROPERTY ButtonComesBack
CHECK_DEADLOCK FALSE
