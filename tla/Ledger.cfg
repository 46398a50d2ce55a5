CONSTANTS
  AttemptIds = {1, 2, 3}
  RequestKeys = {1, 2, 3}
  EventIds = {1, 2, 3, 4}
  Intents <- IntentSet
  Providers = {p1}
  Contexts = {c1}
  QuotaIds = {q1}
  Unattributed = any
  BucketIds = {b1}
  Observations <- Reports
  Costs = {3}
  Loads <- NoLoad
  SlotLimit <- TwoSlots
  MaxAttempts = 2
  Reserve = 10
  Full = 100
  Grain = 1
  MaxAge = 1
  Lease = 1
  MaxTime = 2
SPECIFICATION LedgerSpec
CONSTRAINT Regions
INVARIANTS SlotBound TaskExclusive TaskIdentity TypeOK ExactCompletion SettledExactly
PROPERTIES ReleasedOnce LeaseContract
