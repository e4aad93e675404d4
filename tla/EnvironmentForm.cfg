CONSTANTS
  Projects = {p, q}
  Loads = {l1, l2}
  Failing = FALSE
  Patient = TRUE
  None = None
SPECIFICATION Spec
INVARIANT SavedWhereTyped
CHECK_DEADLOCK FALSE
