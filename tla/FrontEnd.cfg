SPECIFICATION PartSpec
CONSTANTS
  Cores <- MCCores
  Pages = {0, 1}
  Frames = 3
CHECK_DEADLOCK FALSE
INVARIANTS
  SharedOnlyWhenFull
  PlacesDiffer
PROPERTIES
  RunEnds
  ImplementsRetirement
  SimulationEnds
  WritesRecorded
  SlicesRecorded
  DependsOnLastWriters
