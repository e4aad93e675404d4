SPECIFICATION PanelSpec
CONSTANTS
  Runs = {r1, r2}
  Chains = {k1, k2}
  PollsFail = TRUE
  None = None
SYMMETRY Interchangeable
INVARIANTS
  TypeOK
  VerdictIsTrue
  HistoryAgrees
  DraftVerdictIsTrue
PROPERTY VerdictStays
CHECK_DEADLOCK FALSE
