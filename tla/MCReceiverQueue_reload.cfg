SPECIFICATION Spec
CONSTANTS
  a1 = a1
  a2 = a2
  db1 = db1
  db2 = db2
  db3 = db3
  Devs <- OneDev
  FCnts = {1, 2}
  DbSeq <- OneDb
  Active <- AllActive
  ClockSteps = FALSE
  Restarts = TRUE
  ClearCount = 2048
  MaxPerStep = 2
  MaxPush = 3
PROPERTIES
  SurvivesRestart
CHECK_DEADLOCK FALSE
