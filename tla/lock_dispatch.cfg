SPECIFICATION FairSpec
CONSTANTS
  i1 = i1  i2 = i2  i3 = i3  s1 = s1  s2 = s2
  NoInstance = NoInstance
  Instance <- ThreeInstances
  Schedule <- MCSchedule
  TTL = 3
  RenewEvery = 1
  Period = 4
  Lag = 2
  Happens = {"crash", "io_error"}
INVARIANTS OneDispatch
PROPERTIES FreeLockFires
