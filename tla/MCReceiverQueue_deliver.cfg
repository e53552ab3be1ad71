SPECIFICATION Spec
CONSTANTS
  a1 = a1
  a2 = a2
  db1 = db1
  db2 = db2
  db3 = db3
  Devs <- TwoDevs
  FCnts = {1, 2}
  DbSeq <- ThreeDbs
  Active <- FirstTwo
  ClockSteps = FALSE
  Restarts = TRUE
  ClearCount = 3
  MaxPerStep = 2
  MaxPush = 3
INVARIANTS
  TypeOK
PROPERTIES
  DeliversToEach
CHECK_DEADLOCK FALSE
