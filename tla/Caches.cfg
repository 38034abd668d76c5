SPECIFICATION FairSpec
CONSTANTS
  Parts = {"narrow", "wide", "shared"}
  NarrowAccesses = 5
  WideAccesses = 4
  SharedAccesses = 4
INVARIANTS
  Inclusive
  NoWriteLost
PROPERTIES
  FetchesEnd
