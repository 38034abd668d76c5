SPECIFICATION PartSpec
CONSTANTS
  Parts = {"narrow"}
  NarrowAccesses = 5
  WideAccesses = 4
  SharedAccesses = 4
INVARIANTS
  EvictedIsBelow
