CONSTANTS
  ca = ca
  cb = cb
  A = A
  B = B
  AttemptIds = {1, 2}
  RequestKeys = {1, 2}
  EventIds <- EventSet
  Intents <- IntentSet
  Providers = {p1}
  Contexts = {ca, cb}
  QuotaIds = {A, B}
  Unattributed = any
  BucketIds = {b1}
  Observations = {}
  Costs = {0, 3, 6}
  Loads = {}
  SlotLimit <- Limit
  MaxAttempts = 1
  Reserve = 1
  Full = 6
  Grain = 2
  MaxAge = 2
  Lease = 9
  MaxTime = 2
  Accounts = {A, B}
  AccountOf <- LoginOf
  Confirmed = {}
  MaxRefusals = 1
  Endings = {"quota_failed", "launch_failed", "runtime_failed"}
  MaxProbes = 2
  MaxResets = 1
SPECIFICATION InOrderSpec
CONSTRAINT Regions
INVARIANT NoOverspend
PROPERTY RefusalRespected
SYMMETRY Swap
