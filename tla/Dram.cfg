SPECIFICATION PartSpec
CONSTANTS
  Table <- Tables
  Configs <- MCConfigs
  Speed <- MCSpeed
  Timing <- MCTiming
  Workload <- MCWorkload
  Types <- MCTypes
  ClosesRows <- MCClosesRows
  Warm <- MCWarm
  MaxIssues <- MCMaxIssues
CHECK_DEADLOCK FALSE
INVARIANTS
  TimingRulesKept
  OpenRowsAgree
  EveryRequestGetsThrough
