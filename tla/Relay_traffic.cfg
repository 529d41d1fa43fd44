SPECIFICATION FairSpec
CONSTANTS
  n1 = n1
  h1 = h1
  h2 = h2
  c1 = c1
  c2 = c2
  i1 = i1
  i2 = i2
  Nodes = {n1}
  Conns = {h1, h2}
  Clients = {c1, c2}
  Ids = {i1, i2}
  NoNode = NoNode
  NoConn = NoConn
  NoClient = NoClient
  NoId = NoId
  NoMsg = NoMsg
  FreshIds = {i2}
  MaxPending = 1
  MaxRequests = 1
CHECK_DEADLOCK FALSE
INVARIANTS
  AnswersAreOwn
  EntriesMatchHandlers
  GoneIsForgotten
  ConnectedIsReachable
PROPERTIES
  EveryRequestEnds
