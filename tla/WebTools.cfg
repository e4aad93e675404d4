SPECIFICATION FairSpec
CONSTANTS
  Worlds = {"runner", "server", "panel", "editor", "workbook", "diagram", "mqtt", "stub", "redis"}
  None = None
  Suites <- SmallSuites
  Modes = {"chain", "independent"}
  Names = {"unique", "authToken", "id", "key"}
  MaxParallel = 2
  MaxAttempts = 2
  Runs = {r1, r2}
  Projects = {"p", "q"}
  Files <- TwoProjects
  Loads = {l1, l2}
  Endpoints <- OneSource
  Contracts <- TwoContracts
  Variables = {"a", "authToken"}
  Forbidden = {"authToken"}
  MaxSteps = 3
  Uploads = {u1, u2}
  Cases = {c1}
  Generations = {g1, g2}
  Nodes = {"n1", "n2"}
  Edges = {"request", "retry", "response"}
  Ends <- ThereAndBack
  MaximumRepairs = 3
  MqttSteps = {1, 2}
  Plans <- TwoPlans
  Topics = {"x", "y"}
  Requests = {1, 2, 3}
  Target <- TwoPaths
  MaxActions = 3
  Readers = {1, 2}
  Readings <- TwoReadings
  Entries = {"e", "f", "broken"}
  Broken = "broken"
  MaxLength = 3
  Count = 2
INVARIANTS
  PassIsEarned
  CasesKeepApart
  PicksAreListed
  EditsAreAccepted
  WorkbookIsThere
  DeliveredCovers
  StepsGetTheirOwn
PROPERTIES
  RemovalKeepsLinks
  AllSettles
CHECK_DEADLOCK FALSE
