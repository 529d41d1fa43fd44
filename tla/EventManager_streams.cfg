SPECIFICATION Spec
CONSTANTS
  r1 = r1
  r2 = r2
  r3 = r3
  c1 = c1
  c2 = c2
  Runs = {r1, r2, r3}
  Conns = {c1, c2}
  ToolIds = {}
  Posts = {}
  NoRun = NoRun
  NoConn = NoConn
  NoPost = NoPost
  BufferLimit = 2
  RunsLimit = 1
  BufferTTL = 0
  MaxUpdates <- OneLonger
  MaxTime = 1
SYMMETRY OtherRunsSymmetry
CHECK_DEADLOCK FALSE
INVARIANTS
  RegisteredHoldsTerminal
  BufferIsBounded
  StreamsHaveNoGaps
PROPERTIES
  KeepsStream
