SPECIFICATION Spec
CONSTANTS
  r1 = r1
  r2 = r2
  r3 = r3
  c1 = c1
  c2 = c2
  Runs = {r1}
  Conns = {c1, c2}
  ToolIds = {}
  Posts = {}
  NoRun = NoRun
  NoConn = NoConn
  NoPost = NoPost
  BufferLimit = 2
  RunsLimit = 1
  BufferTTL = 0
  MaxUpdates <- TwoUpdates
  MaxTime = 0
CHECK_DEADLOCK FALSE
INVARIANTS
  NoStreamHangsOnBuffered
