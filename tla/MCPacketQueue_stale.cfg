SPECIFICATION FairSpec
CONSTANTS
  d1 = d1
  d2 = d2
  joins = joins
  g1 = g1
  Devices = {d1, d2, joins}
  FPorts = {0, 1, 2}
  FCnts = {1}
  Gateways = {g1}
  Signals = {1}
  Modes <- MCModes
  Delay <- MCDelay
  JoinDelay2 = 5
  Uplinks <- MCUplinksPorts
  Lead = 2
  DefTimeout = 1
  MaxPush = 3
  LastPush = 1
  MaxTime = 8
PROPERTIES EventuallyServed
CHECK_DEADLOCK FALSE
