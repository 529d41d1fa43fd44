SPECIFICATION FairSpec
CONSTANTS
  i1 = i1
  i2 = i2
  i3 = i3
  k1 = k1
  k2 = k2
  u1 = u1
  Invocations = {i1, i2, i3}
  Calls = {k1, k2}
  GpuCalls = {k1, k2}
  NormalizedCalls = {k1}
  Users = {u1}
  Nobody = Nobody
  Timeout = 1
  Slack = 0
  Lag = 0
  PollLimit = 1
CHECK_DEADLOCK FALSE
INVARIANTS
  NoExecutionAfterCompletion
PROPERTIES
  EveryInvocationEnds
  LostCallIsClaimable
