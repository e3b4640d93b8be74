\* Most parts are bounded: they stop.
SPECIFICATION MCSpec
CONSTANTS
  Actors = {a1, a2}
  Ids = {i1, i2}
  None = None
  Ttls = {0, 1, 11}
  MaxTime = 1
  MaxCalls = 2
  Milli = 2
  Second = 4
  ThirtyDays = 1
  MaxStamp = 2
  Pairs <- PairSet
  Indexes <- IndexSets
  Attempts = 2
  MaxOps = 3
SYMMETRY Symmetry
CHECK_DEADLOCK FALSE
INVARIANTS
  InvisibleOnlyIfShared
  KeysComplete
  IndexAgrees
PROPERTY
  ImplementsDriver
