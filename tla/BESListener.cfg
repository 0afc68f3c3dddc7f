SPECIFICATION FairSpec
CONSTANTS
  Conns = {c1, c2, c3}
  Denied = {c3}
  Timeout = 1
  HasTcp = TRUE
  MaxMasters = 2
  MaxStops = 1
INVARIANTS Consistent WaitReturns
PROPERTIES PatientHarmless LifeSpec TokenAnswered
CHECK_DEADLOCK FALSE
