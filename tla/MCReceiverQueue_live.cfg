SPECIFICATION FairSpec
CONSTANTS
  a1 = a1
  a2 = a2
  db1 = db1
  db2 = db2
  db3 = db3
  Devs <- OneDev
  FCnts = {1, 2}
  DbSeq <- TwoDbs
  Active <- AllActive
  ClockSteps = TRUE
  Restarts = TRUE
  ClearCount = 2
  MaxPerStep = 2
  MaxPush = 2
PROPERTIES
  EventuallyConsumed
CHECK_DEADLOCK FALSE
