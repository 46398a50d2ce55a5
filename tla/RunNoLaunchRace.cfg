CONSTANTS
  AttemptIds = {1}
  RequestKeys = {1}
  Steps = {"claim", "prepared", "no-launch", "unknown", "receipt", "cancel-request", "output", "outcome", "disconnected", "recovered-receipt", "recovered-outcome", "unresolved-recovery", "review"}
  EventIds <- EventSet
  Intents <- OneIntent
  Providers = {"codex", "claude", "opencode"}
  Contexts = {c1}
  QuotaIds = {q1}
  Unattributed = any
  BucketIds = {b1}
  Observations <- Reports
  Costs = {3}
  Loads <- NoLoad
  SlotLimit <- OneSlot
  MaxAttempts = 2
  Reserve = 10
  Full = 100
  Grain = 1
  MaxAge = 1
  Lease = 1
  MaxTime = 1
  Executors = {x1}
  TurnOutcomes = {"completed", "cancelled", "runtime_failed"}
  MaxCrashes = 1
SPECIFICATION RunSpec
INVARIANT NoLaunchReleases
