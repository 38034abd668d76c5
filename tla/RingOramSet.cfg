SPECIFICATION Spec
CONSTANTS
  StartLvl = 0
  WayLvls = 1
  Z = 2
  S = 2
  A = 2
  CacheEnd = 0
  Requests <- MCAll
INVARIANTS
  NothingLost
  BucketsServeReads
  AccessDelivers
PROPERTIES
  ImplementsStore
