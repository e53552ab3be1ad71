SPECIFICATION Spec
CONSTANTS
  d1 = d1
  d2 = d2
  f1 = f1
  zero = zero
  Addrs <- TwoAddrs
  Zero = zero
  Fresh <- OneFresh
  Joiners <- TwoAddrs
  Masters <- OneAddr
  Replies <- Everything
  UpCnts = {1}
  Crashing = TRUE
  MaxQueue = 2
  MaxCnt = 2
INVARIANTS
  TypeOK
  JoinHasHistory
  NeverBehindFile
