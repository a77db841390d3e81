SPECIFICATION StartSpec
CONSTANTS
  bsp = bsp
  ap1 = ap1
  ap2 = ap2
  ap3 = ap3
  Sender = bsp
  Other <- MCOther
  Machines <- MCMachines
  MaxCpus = 4
  MaxIoapics = 2
INVARIANTS
  EveryCoreRanOnce
  RightRoutine
  NoTickBeforeHandoff
  CoresStarted
  PlacesDiffer
PROPERTIES
  SpinsEnd
CHECK_DEADLOCK FALSE
