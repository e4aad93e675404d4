SPECIFICATION NoReuseSpec
CONSTANTS
  c1 = c1
  c2 = c2
  e1 = e1
  e2 = e2
  Clients <- TwoClients
  Blind <- OneBlind
  Edits <- TwoEdits
  Invalid <- OneInvalid
  Retention = TRUE
  MaxRevision = 3
  Missing = Missing
INVARIANTS
  LockInv
  StoredIsLoadable
PROPERTIES
  NoLostUpdate
  ImplementsDocument
  SaveEnds
CHECK_DEADLOCK FALSE
