SPECIFICATION Spec
CONSTANTS
  Levels = 5
  CUT_LVL = 2
  CUTDOWN_LVL = 1
  SET_NUM = 2
  EVCT_TIMES = 2
  Z = 2
  S = 2
  A = 2
  STASH_MAITANENCE = 2
  Requests <- MCRequests
  RandLeaves <- MCRandLeaves
  Homes <- MCHomes
INVARIANTS
  EachInItsPlace
PROPERTIES
  ImplementsStore
