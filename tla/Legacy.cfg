CONSTANTS
  Providers <- ProviderSet
  Bands <- Ladders
  ReviewLadder <- Reviewers
  Profiles <- ProfileOf
  TaskProfiles <- TaskProfileOf
  Forbidden <- ForbiddenSet
  CostOf <- Costs
  PremiumAt <- PremiumWindows
  ReserveOf <- Reserves
  SlotLimit <- Slots
  WindowOf <- Windows
  MinSample = 1
  StaleReading = 3
  Full = 20
  Coords = {"c1", "c2"}
  Accounts <- AccountSet
  Briefs = {"t1", "t2", "t3", "t4"}
  Dispatches = {1, 2}
  Worlds <- WorldSet
  ProbesOf <- Changes
  LoginsOf <- Signing
  CacheSeconds = 1
  UnconfirmedTTL = 1
  ConfirmedTTL = 3
  Cooldown = 1
  Repeat = 2
  LogWindow = 2
  KeepDecisions = 3
  MaxWaves = 3
  MaxReceipts = 2
  MaxTime = 1
SPECIFICATION Spec
INVARIANTS PolicyHolds QualityKept
PROPERTIES LastSlotOnce BookedOnce DenialKept RunningKept
CHECK_DEADLOCK FALSE
