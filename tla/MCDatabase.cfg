SPECIFICATION MCSpec
CONSTANTS
  Tasks = {t1, t2}
  Drainers = {CloseTask}
  Limit = 2
  Readers = {r1, r2}
  Ids = {i1, i2}
  Closers = {c1, c2}
  CloseTask = CloseTask
  Callers = {a1, a2}
  Keys = {k1}
  FlightTasks = {f1, f2, f3}
  Tokens = {o1, o2}
  None = None
INVARIANTS
  Ledgers
  NoMissedWakeup
  DrainedStaysQuiet
  OneRemover
  OneRefreshPerId
  CleanCloseIsQuiet
  CallersAgree
PROPERTIES
  WaitsEnd
