\* Most parts are bounded: they stop.
SPECIFICATION MCSpec
CONSTANTS
  Calls = {c1, c2, c3}
  OneReclaimer = TRUE
  None = None
  MaxSegments = 3
  Sites = {siteA, siteB}
  MaxVisits = 2
  HostingSets = 2
  Creations <- AsmCreations
  RpcMethods <- AsmMethods
  Ephemeral <- AsmPorts
  AssemblySets = 3
  MaxRuns = 2
  TaskIds = {t1}
  ReqNames = {r1, r2}
  Codes = {"Cancelled", "PermissionDenied", "Unauthenticated", "Unknown", "NotFound"}
  Scripts <- TaskScripts
  TaskSets = 3
  MaxBuilds = 2
  MaxRetries = 1
  Capacity = 1
  MaxMessages = 3
  Users = {u}
  Listeners = {l}
  MaxConns = 2
  MaxHeard = 1
  Peers = {1, 2, 3}
  MaxFiles = 3
  AgentIds = {"s1", "s2", "s3"}
  Setups <- A2aSetups
CHECK_DEADLOCK FALSE
INVARIANTS
  SingleHandler
  AnswersHonest
  AgentsHonest
  AssemblyHonest
  TasksHonest
  ClientsHonest
PROPERTY
  DoneIsFinal
