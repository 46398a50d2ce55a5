CONSTANTS
  AttemptIds = {1, 2}
  RequestKeys = {1, 2}
  EventIds = {1, 2}
  Intents <- IntentSet
  Providers = {p1}
  Contexts = {c1, c2}
  QuotaIds = {q1}
  Unattributed = any
  BucketIds = {b1}
  Observations <- HealthyReports
  Costs = {3}
  Loads <- NoLoad
  SlotLimit <- TwoSlots
  MaxAttempts = 2
  Reserve = 10
  Full = 100
  Grain = 1
  MaxAge = 1
  Lease = 1
  MaxTime = 1
SPECIFICATION LedgerSpec
PROPERTY NoSilentErasure
