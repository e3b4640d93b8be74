\* Most parts are bounded: they stop.
SPECIFICATION MCSpec
CONSTANTS
  Configs <- ServerConfigs
  MaxPort = 5
  MaxStarts = 2
  MaxConns = 1
  Clients = {k1, k2}
  Stoppers = {s1, s2}
  Cleanup = Cleanup
  Callers = {c1, c2}
  Calls = {c1, c2}
  Users = {u}
  Listeners = {l}
  Services = {1, 2, 3}
  Places = {"A", "B"}
  Requires <- Needs
  HostMux = None
  GrpcRoutes = TRUE
  MaxChain = 2
  MaxData = 2
  McpGroups <- TryMcpGroups
  McpHeaders <- TryMcpHeaders
  Openers = {k1}
  MaxRounds = 3
  MaxCalls = 2
  ToolFields <- TryToolFields
  ToolArguments <- TryToolArguments
  ToolStreams <- TryToolStreams
  ToolChains <- TryToolChains
  ChannelSize = 1
  None = None
CHECK_DEADLOCK FALSE
INVARIANTS
  StopsClean
  AgentsServe
  CallsHonest
PROPERTIES
  StopEnds
  OperationsEnd
