SPECIFICATION Spec
CONSTANTS
  p1 = p1
  p2 = p2
  p3 = p3
  d1 = d1
  d2 = d2
  None = None
  Processes = {p1, p2, p3}
  Digests = {d1, d2}
  Newer = {d1, d2}
  Capacity = 2
  MaxGeneration = 3
  MaxAttempts = 2
  Role <- MCRole
CHECK_DEADLOCK FALSE
INVARIANTS
  CommitsOnCurrent
  AnswersKept
PROPERTY ImplementsLedger
SYMMETRY MCSymmetry
