SPECIFICATION Spec
CONSTANTS
  d1 = d1
  d2 = d2
  f1 = f1
  zero = zero
  Addrs <- TwoAddrs
  Zero = zero
  Fresh <- OneFresh
  Joiners <- TwoAddrs
  Masters <- NoAddr
  Replies <- MacAndJoin
  UpCnts = {1}
  Crashing = FALSE
  MaxQueue = 2
  MaxCnt = 3
INVARIANTS
  CountersCoverSent
PROPERTIES
  CountersIncrease
