SPECIFICATION Spec
CONSTANTS
  r1 = r1
  r2 = r2
  u1 = u1
  u2 = u2
  i1 = i1
  i2 = i2
  k1 = k1
  p1 = p1
  p2 = p2
  l1 = l1
  c1 = c1
  Runs = {r1, r2}
  Users = {u1, u2}
  Ids = {i1, i2}
  Keys = {k1}
  Posts = {p1, p2}
  Links = {l1}
  Codes = {c1}
  NoRun = NoRun
  NoUser = NoUser
  NoId = NoId
  NoKey = NoKey
  NoCode = NoCode
  MaxTurns = 2
  MaxFaults = 1
SYMMETRY RunSymmetry
CHECK_DEADLOCK FALSE
INVARIANTS
  OneRunPerKey
  RunsFollowIdentity
  AnswerIsNotAnError
  EndsAgree
PROPERTIES
  KeepsContract
