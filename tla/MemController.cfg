SPECIFICATION FairSpec
CONSTANTS
  Table <- Tables
  Std = "DDR3"
  Address <- OneBank
  Columns = {0}
  MaxEvents = 3
  MaxRefreshes = 1
  QueueMax = 2
  WrHigh = 1
  WrLow = 1
  Cap = 1
  Schedulers = {"FRFCFS_Cap", "FRFCFS_PriorHit"}
  Policies = {"Opened", "ClosedAP", "Timeout"}
INVARIANTS
  InOnePlace
  CountsHold
  ReadsSeeWrites
PROPERTIES
  AllServed
