CONSTANTS
  Holds = {h1, h2}
  Ids = {m1, m2}
  Absent = Absent
  Dir = Dir
  MaxManaged = 1
  MaxCrashes = 2
SPECIFICATION MigrationSpec
INVARIANT GateWaits
CHECK_DEADLOCK FALSE
