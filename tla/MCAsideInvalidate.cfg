SPECIFICATION AsideSpec
CONSTANTS
  Procs <- MCProcs
  Callers <- MCCallers
  Home <- MCShared
  Tokens = {k1, k2}
  MaxVersion = 1
  Fenced = {}
  Failures = FALSE
  None = None
  Ttls = {0, 3, 7}
  Defaults = {0, 3}
  MaxTime = 13
  MaxDuration = 9
  MaxInstant = 18
  MaxMillis = 8
  TicksPerMs = 2
  Prefix <- MCPrefix
  Known = {}
  Names <- Namespaces
  Others <- Neighbours
  Indexes = {0, 1}
  Current = 0
  VolKeys <- VolatileKeys
  Handles = {1}
  Batch = 1
  Addresses <- RespAddresses
  ServerLists <- Lists
  Crcs = {0, 4}
  ProbeCrc = 5
  MaxDatabase = 1
INVARIANT
  InvalidateTakesEffect
