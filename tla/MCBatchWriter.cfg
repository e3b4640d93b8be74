\* A writer that was closed stops, and so do the bounded parts.
SPECIFICATION MCSpec
CONSTANTS
  Callers = {c1, c2}
  BatchSize = 2
  Capacity = 2
  MaxInflight = 2
  MaxRecords = 3
  None = None
  Segments = {1, 2}
  Batches <- BatchSet
  Matching = {1}
  Shapes = {1}
  Readers = {c1, c2}
  Queries <- QuerySet
  Limit = 2
  BLOCK_ROWS = 2
  MaxWrites = 2
  MaxAsks = 2
  Points <- PointSet
  Writers = {w1, w2}
  Many <- PointSets
  StoreLimit = 1
  Users = {c1, c2}
  Absent = Absent
  Nothing = Nothing
  MAX_POINTS = 1
  MaxCreates = 2
  MaxFaults = 1
  MaxFailures = 1
  Words = {" ", "AND", "OR", "=", "dq"}
  MaxValue = 3
  W64 = 8
  W32 = 4
  F53 = 4
  MaxRows = 2
  Widths = {3}
SYMMETRY Symmetry
CHECK_DEADLOCK FALSE
INVARIANTS
  BarrierIsDurable
  CloseIsDurable
  FailureIsReported
  RecordsConserved
  Backpressure
  StoresHonest
  RecordsExact
