SPECIFICATION Spec
CONSTANTS
  StartLvl = 1
  WayLvls = 1
  Z = 1
  S = 2
  A = 1
  CacheEnd = 2
  Requests <- MCTwoAndNone
INVARIANTS
  OnOwnPath
PROPERTIES
  SetsAreIsolated
