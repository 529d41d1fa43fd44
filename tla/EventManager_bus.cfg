SPECIFICATION FairSpec
CONSTANTS
  r1 = r1
  r2 = r2
  r3 = r3
  c1 = c1
  c2 = c2
  t1 = t1
  p1 = p1
  p2 = p2
  Runs = {r1}
  Conns = {c1, c2}
  ToolIds = {t1}
  Posts = {p1, p2}
  NoRun = NoRun
  NoConn = NoConn
  NoPost = NoPost
  BufferLimit = 2
  RunsLimit = 1
  BufferTTL = 0
  MaxUpdates <- NoUpdates
  MaxTime = 0
CHECK_DEADLOCK FALSE
INVARIANTS
  AtMostOneAccepted
  EndedRunHoldsNothing
  AcceptedResultIsKept
PROPERTIES
  HandsOverOnce
  RegisteredClientSeesEnd
  ListenersReleased
  EveryWaitEnds
