SPECIFICATION Spec
CONSTANTS
  i1 = i1
  i2 = i2
  i3 = i3
  k1 = k1
  k2 = k2
  u1 = u1
  u2 = u2
  Invocations = {i1, i2, i3}
  Calls = {k1, k2}
  GpuCalls = {}
  NormalizedCalls = {k2}
  Users = {u1, u2}
  Nobody = Nobody
  Timeout = 2
  Slack = 2
  Lag = 1
  PollLimit = 2
SYMMETRY InvocationSymmetry
CHECK_DEADLOCK FALSE
INVARIANTS
  HandlersDoNotOverlap
PROPERTIES
  CallsAreSerial
