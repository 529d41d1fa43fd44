SPECIFICATION Spec
CONSTANTS
  e1 = e1
  e2 = e2
  c1 = c1
  critical = critical
  high = high
  d1 = d1
  d2 = d2
  Execs = {e1, e2}
  CallIds = {c1}
  Requests = {critical, high}
  Critical = {critical}
  RequestsOf <- TwoRequests
  ArgsOf <- OwnArgs
  Decisions = {d1, d2}
  NoRequest = NoRequest
  NoExec = NoExec
  NoCall = NoCall
  MaxFaults = 1
CHECK_DEADLOCK FALSE
INVARIANTS
  ExecutedWereApproved
  VerdictsAgree
  WaitingHasItsCode
PROPERTIES
  KeepsGate
  EveryExecutionEnds
