SPECIFICATION MCSpec
CONSTANTS
  Callers = {c1, c2, c3}
  Keys = {k1, k2}
  Tasks = {t1, t2, t3, t4}
  Concurrency = 2
  MayPanic = FALSE
  WildConcurrency = 0
  None = None
SYMMETRY Symmetry
INVARIANTS
  BudgetConserved
  SingleExecution
  CallsAreJoinable
  PanicsContained
PROPERTY
  ImplementsSingleFlight
