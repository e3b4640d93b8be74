--------------------------- MODULE MCIdempotency ----------------------------
(***************************************************************************)
(* The guard of repeated writes, and beside it the parts of a server that  *)
(* a request meets: the errors and the CORS headers of its answer, the     *)
(* agent services and their assembly, their tasks, the clients that call   *)
(* it, and the socket file it may listen on.  The parts share nothing, so a *)
(* behaviour runs one of them: callers that retry one request_id for ever, *)
(* or one of the instances below.                                          *)
(***************************************************************************)
EXTENDS Idempotency, TLC

CONSTANTS
  MaxSegments,                          \* of Errors
  Sites, MaxVisits,                     \* of Cors
  HostingSets,                          \* of Hosting: MaxSets
  Creations, RpcMethods, Ephemeral, AssemblySets, MaxRuns,          \* of Assembly
  TaskIds, ReqNames, Codes, Scripts, TaskSets, MaxBuilds,        \* of Tasks
  MaxRetries, Capacity, MaxMessages,    \* of Network
  Users, Listeners, MaxConns, MaxHeard, \* of WebSocket
  Peers, MaxFiles,                      \* of LocalSocket
  AgentIds, Setups                      \* of A2a

VARIABLES
  part,   \* the part this behaviour runs; the others stand still
  translator, err, request, status, stage,
  policy, accepted, cache, last, visits,
  svc, group, sets, served, req, left,
  b, o, phase, run, loopback, slot, mounted, shown, log,
  decl, handler, builds, store, exec, said, ended, asked,
  client, request_, ran, cancel, wire, ch, got, task, subscription, sent,
  user, known, tokens, sink, half, holder, sending, dialled, inbox, hungup, pings, wsRaced,
  file, socket, made, proc, raced,
  cfg, at, routes, card, grpc, lost, announced, cancelled, drain

TaskScripts == {<<"working", "completed">>, <<"input">>}

Opts == [mcp |-> TRUE, enableA2a |-> TRUE, enableHttp |-> TRUE, health |-> TRUE,
         environment |-> "debug", mcpHost |-> "", mcpPort |-> 0, mcpTransport |-> None,
         a2aHost |-> "h", a2aPort |-> 0, a2a |-> <<>>, http |-> 2, grpcHost |-> "h",
         certOk |-> TRUE]
NoEnv == [mcpHost |-> None, mcpPort |-> None, a2a |-> <<>>]
AsmCreations ==
  {[opts |-> Opts, env |-> NoEnv],
   [opts |-> [Opts EXCEPT !.mcpTransport = "stdio", !.environment = "production"],
    env |-> [NoEnv EXCEPT !.a2a = <<"bad">>]],
   [opts |-> [Opts EXCEPT !.mcpTransport = "sse", !.http = 0, !.certOk = FALSE],
    env |-> [NoEnv EXCEPT !.a2a = <<"grpc", "bad">>]],
   [opts |-> [Opts EXCEPT !.mcp = FALSE, !.a2aHost = "", !.enableHttp = FALSE,
                          !.grpcHost = "local"],
    env |-> [NoEnv EXCEPT !.mcpHost = "h", !.mcpPort = 1]]}
AsmMethods == {[set |-> 0, unary |-> TRUE], [set |-> 1, unary |-> TRUE], [set |-> 1, unary |-> FALSE]}
AsmPorts == [localhost |-> 8, h |-> 9]

Setup(transports, base, generated, mux, serveCard, grpcRoutes) ==
  [transports |-> transports, transport |-> None, base |-> base, generated |-> generated,
   mux |-> mux, serveCard |-> serveCard, grpcRoutes |-> grpcRoutes]
AGENT_CARD == <<".well-known", "agent-card">>
Odd == <<"", "x", "", "..", "a", ".", "b">>
A2aSetups ==
  {"s1" :> x @@ "s2" :> y @@ "s3" :> Setup({"jsonrpc"}, <<"c">>, None, "shared", TRUE, TRUE) :
     x \in {Setup({"jsonrpc", "grpc"}, Odd, None, "shared", TRUE, TRUE),
            Setup({"jsonrpc", "rest"}, <<"", "..", "">>, None, None, FALSE, TRUE)},
     y \in {Setup({}, None, <<"x", "..", "y">>, "shared", TRUE, TRUE),
            Setup({"grpc"}, None, None, "shared", TRUE, FALSE),
            Setup({"rest"}, <<"a", "b">>, None, "shared", TRUE, TRUE),
            Setup({"jsonrpc"}, <<"a", "b">>, None, "shared", TRUE, TRUE),
            Setup({"grpc"}, None, None, "shared", TRUE, TRUE),
            Setup({"jsonrpc"}, AGENT_CARD, None, "shared", TRUE, TRUE),
            Setup({"rest"}, <<"", "">>, None, None, FALSE, TRUE)}}

Er == INSTANCE Errors
Co == INSTANCE Cors
Ho == INSTANCE Hosting WITH MaxSets <- HostingSets
As == INSTANCE Assembly WITH MaxSets <- AssemblySets, served <- mounted
Ta == INSTANCE Tasks WITH MaxSets <- TaskSets, Requests <- ReqNames, req <- asked
Ne == INSTANCE Network WITH req <- request_, handle <- subscription
Ws == INSTANCE WebSocket WITH
  MaxMessages <- MaxHeard, shared <- known, stream <- half, proc <- user, raced <- wsRaced,
  cancelled <- tokens
So == INSTANCE LocalSocket WITH Procs <- Peers
Aa == INSTANCE A2a WITH Services <- AgentIds

ASSUME Instances ==
  /\ Ws!WebSocketAssumption /\ So!LocalSocketAssumption /\ Co!CorsAssumption
  /\ Ta!TasksAssumption /\ Ne!NetworkAssumption /\ Er!ErrorsAssumption
  /\ Ho!HostingAssumption /\ Aa!A2aAssumption /\ As!AssemblyAssumption

erVars == <<translator, err, request, status, stage>>
coVars == <<policy, accepted, cache, last, visits>>
hoVars == <<svc, group, sets, served, req, left>>
asVars == <<b, o, phase, run, loopback, slot, mounted, shown, log>>
taVars == <<decl, handler, builds, store, exec, said, ended, asked>>
neVars == <<client, request_, ran, cancel, wire, ch, got, task, subscription, sent>>
wsVars == <<user, known, tokens, sink, half, holder, sending, dialled, inbox, hungup, pings, wsRaced>>
soVars == <<file, socket, made, proc, raced>>
aaVars == <<cfg, at, routes, card, grpc, lost, announced, cancelled, drain>>

MCInit ==
  /\ part \in {"idempotency", "errors", "cors", "hosting", "assembly", "tasks", "network",
                "websocket", "socket", "a2a"}
  /\ Init
  /\ IF part = "errors" THEN Er!Init
     ELSE /\ translator = None /\ err = None /\ request = None /\ status = None /\ stage = None
  /\ IF part = "cors" THEN Co!Init
     ELSE /\ policy = None /\ accepted = None /\ cache = None /\ last = None /\ visits = None
  /\ IF part = "hosting" THEN Ho!Init
     ELSE /\ svc = None /\ group = None /\ sets = None /\ served = None /\ req = None
          /\ left = None
  /\ IF part = "assembly" THEN As!Init
     ELSE /\ b = None /\ o = None /\ phase = None /\ run = None /\ loopback = None
          /\ slot = None /\ mounted = None /\ shown = None /\ log = None
  /\ IF part = "tasks" THEN Ta!Init
     ELSE /\ decl = None /\ handler = None /\ builds = None /\ store = None /\ exec = None
          /\ said = None /\ ended = None /\ asked = None
  /\ IF part = "network" THEN Ne!Init
     ELSE /\ client = None /\ request_ = None /\ ran = None /\ cancel = None /\ wire = None
          /\ ch = None /\ got = None /\ task = None /\ subscription = None /\ sent = None
  /\ IF part = "websocket" THEN Ws!Init
     ELSE /\ user = None /\ known = None /\ tokens = None /\ sink = None /\ half = None
          /\ holder = None /\ sending = None /\ dialled = None /\ inbox = None
          /\ hungup = None /\ pings = None /\ wsRaced = None
  /\ IF part = "socket" THEN So!Init
     ELSE /\ file = None /\ socket = None /\ made = None /\ proc = None /\ raced = None
  /\ IF part = "a2a" THEN Aa!Init
     ELSE /\ cfg = None /\ at = None /\ routes = None /\ card = None /\ grpc = None
          /\ lost = None /\ announced = None /\ cancelled = None /\ drain = None

\* Every part but p stands still.
Still(p) ==
  /\ UNCHANGED part
  /\ IF p = "idempotency" THEN TRUE ELSE UNCHANGED vars
  /\ IF p = "errors" THEN TRUE ELSE UNCHANGED erVars
  /\ IF p = "cors" THEN TRUE ELSE UNCHANGED coVars
  /\ IF p = "hosting" THEN TRUE ELSE UNCHANGED hoVars
  /\ IF p = "assembly" THEN TRUE ELSE UNCHANGED asVars
  /\ IF p = "tasks" THEN TRUE ELSE UNCHANGED taVars
  /\ IF p = "network" THEN TRUE ELSE UNCHANGED neVars
  /\ IF p = "websocket" THEN TRUE ELSE UNCHANGED wsVars
  /\ IF p = "socket" THEN TRUE ELSE UNCHANGED soVars
  /\ IF p = "a2a" THEN TRUE ELSE UNCHANGED aaVars

\* Nothing is claimed of a WebSocket client once two operations raced: it is not
\* followed further.
MCNext ==
  \/ part = "idempotency" /\ Next /\ Still("idempotency")
  \/ part = "errors" /\ Er!Next /\ Still("errors")
  \/ part = "cors" /\ Co!Next /\ Still("cors")
  \/ part = "hosting" /\ Ho!Next /\ Still("hosting")
  \/ part = "assembly" /\ As!Next /\ Still("assembly")
  \/ part = "tasks" /\ Ta!Next /\ Still("tasks")
  \/ part = "network" /\ Ne!Next /\ Still("network")
  \/ part = "websocket" /\ ~wsRaced /\ Ws!Next /\ Still("websocket")
  \/ part = "socket" /\ So!Next /\ Still("socket")
  \/ part = "a2a" /\ Aa!Next /\ Still("a2a")

mcVars == <<part, vars, erVars, coVars, hoVars, asVars, taVars, neVars, wsVars, soVars, aaVars>>

MCSpec == MCInit /\ [][MCNext]_mcVars

-----------------------------------------------------------------------------
\* The answers of a server: an error reaches its caller with the status its
\* handler meant, on every path (problem, hints), and the CORS headers, the
\* cached ones too, admit exactly the origins of the policy (cors.rs).
AnswersHonest ==
  /\ part = "errors" => Er!ErrorReachesCaller
  /\ part = "cors" => Co!CorsExact

\* Agent services are served as they were declared, to the caller that asked
\* (hosted.rs, service.rs), and what is announced of them is mounted (serve.rs).
AgentsHonest ==
  /\ part = "hosting" => Ho!CallerIsCaller /\ Ho!ServedAsDeclared /\ Ho!EndpointReached
  /\ part = "a2a" => Aa!AnnouncedIsServed

\* An agent's call passes every layer of the server it loops back to, on the
\* routes of this start, and the banner names what is served (server.rs, builder.rs).
AssemblyHonest ==
  part = "assembly" => /\ As!CallPassesAll /\ As!FreshRoutes /\ As!ToolsServed
                       /\ As!BannerTrue /\ As!ClaimedIsServed

\* A task ends once, with the outcome its executor or its canceller gave, and
\* keeps its status code through the protocol (handler.rs, executor.rs).
TasksHonest == part = "tasks" => Ta!TasksHonest

\* The client reports what the server did within its retries and delivers the
\* updates of a subscription in order (network); the halves, the state and the
\* pings of a WebSocket agree between operations (websocket); a server that bound
\* its socket file is reached through it unless two starts raced (unix.rs).
ClientsHonest ==
  /\ part = "network" => Ne!RequestHonest /\ Ne!UpdatesInOrder
  /\ part = "websocket" => Ws!PartsAgree
  /\ part = "socket" => So!ReachableUnlessRaced
=============================================================================
