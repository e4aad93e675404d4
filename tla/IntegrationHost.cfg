SPECIFICATION WorldSpec
CONSTANTS
  h1 = h1
  h2 = h2
  h3 = h3
  s1 = s1
  q1 = q1
  q2 = q2
  Hosts <- ThreeHosts
  IntegrationOf <- OneOfAnother
  Stops <- OneStop
  Wanted <- ThatOne
  Requests <- TwoRequests
  Responses = 2
  MaxExchanges = 1
  MaxConfigures = 1
  None = None
INVARIANTS
  StopFindsItsHost
  BooksAgree
PROPERTIES
  StopEnds
CHECK_DEADLOCK FALSE
