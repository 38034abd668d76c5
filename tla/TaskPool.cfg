SPECIFICATION FairSpec
CONSTANTS
  Sets = {0, 1}
  A = 2
  Depth = 3
  MaxReqs = 4
  SetChoices <- MCDataSets
INVARIANTS
  SetsTakeTurns
  PoolMatchesStations
  NoTaskStranded
  PositionsFirst
  OneRetirementPerServe
PROPERTIES
  ImplementsWindow
  RequestsFinish
