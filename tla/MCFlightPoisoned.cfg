SPECIFICATION Spec
CONSTANTS
  Callers = {c1, c2}
  Keys = {k1, k2}
  Tasks = {t1, t2, t3}
  Concurrency = 2
  MayPanic = TRUE
  None = None
INVARIANT
  CallsAreJoinable
