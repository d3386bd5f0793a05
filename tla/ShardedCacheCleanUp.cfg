CONSTANTS
  k1 = k1
  k2 = k2
  k3 = k3
  Keys = {k1, k2, k3}
  Hash <- MCHash
  NumShards = 2
  TTLs = {0, 1}
  Adders = {a1}
  Deleters = {}
  CleanUpInterval = 1
  MaxTime = 2
  Absent = Absent
  NoKey = NoKey
SPECIFICATION FairSpec
PROPERTY ExpiredAreRemoved
