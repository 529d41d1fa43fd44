SPECIFICATION Spec
CONSTANTS
  a = a
  b = b
  k1 = k1
  k2 = k2
  k3 = k3
  k4 = k4
  p1 = p1
  p2 = p2
  MaxEvents = 6
  ConvOf <- TwoConvs
  KeyOf <- ThreeOfOne
  Bodies <- HaveBodies
  Procs = {p1}
  Kind <- OnlyFirestore
  Repeated = {p1}
  Limit = 2
  Keep = 2
  MaxFaults = 0
CHECK_DEADLOCK FALSE
PROPERTIES
  EveryBodyArrives
