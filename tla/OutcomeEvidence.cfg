CONSTANTS
  DecisionIds = {k1, k2}
  DispatchIds = {d1}
  EventIds <- EventSet
  Subjects = {"s1", "s2"}
  Selections <- FewSelections
  Reasons = {why}
  ReviewData <- FewReviews
  DecisionInputs <- DecisionSet
  LaunchInputs <- LaunchSet
  None = None
  MaxEvents = 4
  MaxTime = 1
SPECIFICATION OutcomeSpec
SYMMETRY Symmetry
CONSTRAINT NamedInOrder
INVARIANTS OutcomeTypeOK AcceptanceEarned AttributionSound AcceptedLast
PROPERTIES BoundOnce
CHECK_DEADLOCK FALSE
