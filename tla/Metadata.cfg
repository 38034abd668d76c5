SPECIFICATION FairSpec
CONSTANTS
  StartLvl = 1
  WayLvls = 2
  Z = 1
  NodesPerLine = 2
  CacheSets = 2
  Assoc = 2
  MaxRewrites = 1
PROPERTIES
  ImplementsAnswerOnce
  ChecksAnswered
