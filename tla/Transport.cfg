CONSTANTS
  Modes = {"codex", "claude", "limits", "document"}
  Lines <- LinesOf
  MaxLines <- MaxLinesOf
  MaxCalls <- MaxCallsOf
  MaxBytes = 5
  MaxLine = 2
  MaxPending = 2
SPECIFICATION FairTransportSpec
INVARIANTS OutputInOrder RefusedOnce WithinBudgets ReadingsEarned
PROPERTY CallsEnd
CHECK_DEADLOCK FALSE
