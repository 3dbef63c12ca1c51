SPECIFICATION FairSpec
CONSTANTS
  i1 = i1  i2 = i2  i3 = i3  s1 = s1  s2 = s2
  NoInstance = NoInstance
  Instance = {i1}
  Schedule = {s1}
  TTL = 3
  RenewEvery = 1
  Period = 6
  Lag = 2
  Happens = {}
PROPERTIES KeepsFiring
