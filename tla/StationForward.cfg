SPECIFICATION Spec
CONSTANTS
  StartLvl = 1
  WayLvls = 1
  Z = 1
  S = 2
  A = 2
  NumEntries = 7
  LowestUncached = 2
  CacheEnd = 2
  Paths = {0, 2}
PROPERTIES
  SkippedReadsAreForwarded
