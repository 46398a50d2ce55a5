CONSTANTS
  Tasks <- TaskList
  Order <- Orders
  Providers = {"p1", "p2"}
  Cases <- CaseSet
  Limits <- Ceilings
  PointsOf <- Points
  Scopes = {"shared", "per-arm"}
  MaxTokens = 2
  MaxCrashes = 2
SPECIFICATION Spec
INVARIANTS LaunchedOnce CeilingsHold FairComparison
CONSTRAINT FewEntries
CHECK_DEADLOCK FALSE
