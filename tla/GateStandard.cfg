SPECIFICATION AllSpec
CONSTANTS
  Worlds = {"gates"}
  None = None
  p1 = p1
  p2 = p2
  u1 = u1
  u2 = u2
  d1 = d1
  d2 = d2
  old = old
  new = new
  Operations <- PairsOfOperations
  MaxSwaps = 1
  Fold <- MCFold
  Html <- MCHtml
  Cwd <- MCCwd
  Input <- MCInput
  Outputs <- MCOutputs
  Systems <- MCSystems
  Alterations <- MCChanges
  Anonymous = {0}
  NewInode = 9
  MaxDepth = 4
  Brands <- FourBrands
  Workers = {1, 2}
  Urls = {u1, u2}
  Digests = {d1, d2}
  MaxRedirects = 1
  MaxIcons = 1
  Deadline = 2
  Patience = 2
  Idle = None
  Versions <- TwoMinors
  Commits = {old, new}
  Tree <- TwoCommits
  Requests <- Claims
  Origins <- SomeOrigins
  Missing = missing
  Directory = directory
  Sequences <- MCSequences
  Diagrams <- MCDiagrams
  Comparisons <- MCComparisons
  Drawings <- StraightDrawings
  Rows = 3
  MaxEvents = 5
INVARIANT HiddenAlwaysFails
CHECK_DEADLOCK FALSE
