SPECIFICATION Spec
CONSTANTS
  t1 = t1
  t2 = t2
  a = a
  high = high
  Idle = Idle
  NoTask = NoTask
  Task <- MCTask
  Domain <- MCDomain
  FirstDomain <- MCFirstDomain
  InvokePermMap <- MCInvokePermMap
  Valid <- MCValid
  Bound = 2
  Param <- MCParam
  IdSpan = 4
  Address <- MCAddress
  Canonical <- MCCanonical
  Start = a
SYMMETRY MCSymmetry
PROPERTIES
  NonCanonicalIsOther
CHECK_DEADLOCK FALSE
