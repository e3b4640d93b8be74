------------------------------ MODULE Assembly ------------------------------
(***************************************************************************)
(* How a HybridServer is put together: the options and their environment   *)
(* (grpc/src/options, environment.rs), the builder (builder.rs, a2a.rs,    *)
(* mcp_options.rs, hybrid.rs), the routes, layers and loopback of a start  *)
(* (server.rs, layer.rs, loopback.rs, validation.rs), the HTTP surface     *)
(* (lifecycle.rs, rest.rs, http/) and calls that come in over the wire, a  *)
(* REST gateway or MCP.  Server models the sockets and the shutdown.       *)
(***************************************************************************)
EXTENDS Integers, Sequences, FiniteSets, Functions

CONSTANTS
  Creations, \* the options a server is created with, each with its environment
  None,
  RpcMethods,   \* what is called: whether it is unary, and the set that describes it
  Ephemeral, \* the port the system picks for port 0, on each host
  MaxSets,   \* bound: builder calls
  MaxRuns    \* bound: starts

VARIABLES
  b,         \* what the builder calls left
  o,         \* Options, overridden by the environment and defaulted by start
  phase,     \* building, grpc, agents, filled, up, stopped
  run,       \* starts so far
  loopback,  \* Running.loopback: the in-process service of this run, or None
  slot,      \* LoopbackSlot: what the MCP services call through
  served,    \* what this run serves: routes, agent services, HTTP surface
  shown,     \* the ports the banner prints, or None
  log        \* the last call

asmVars == <<b, o, phase, run, loopback, slot, served, shown, log>>

DefaultHost == "localhost"

-----------------------------------------------------------------------------
(* Options and their environment: a variable that is absent, empty or does *)
(* not parse is None.                                                      *)

A2aTransport == {"jsonrpc", "grpc", "rest"}
McpTransport == {"stdio", "streamable-http", "sse"}
listens(t) == t \notin {"stdio", "grpc"}

override_host(host, raw) == IF raw = None THEN host ELSE raw
override_port(port, raw) == IF raw = None THEN port ELSE raw
\* Unknown names are skipped; a list of nothing but unknown names is ignored.
parse_a2a_transports(raw) == SelectSeq(raw, LAMBDA t : t \in A2aTransport)
apply_env_overrides(c, env) ==
  [c EXCEPT !.mcpHost = override_host(@, env.mcpHost),
            !.mcpPort = override_port(@, env.mcpPort),
            !.a2a = IF parse_a2a_transports(env.a2a) = <<>> THEN @ ELSE parse_a2a_transports(env.a2a)]

Local(host) == host = "local"
\* What a listener is asked for; a local socket has no port.
agent_addr(host, port) == IF Local(host) THEN <<host, 0>> ELSE <<host, port>>
exposes_reflection(environment) == environment \in {"development", "debug"}

-----------------------------------------------------------------------------
(* The builder *)

Lists == {"service", "dialing", "gateway", "layer", "unary", "message", "stream",
          "agent", "descriptors", "mcp", "a2a"}
Flags == {"handler", "noListener", "certificates", "noPaths", "stateless", "hook", "last"}

Settings == {"validation", "endpoint", "headers", "limit"}

\* What a call can pass: a registration, by its kind and its place among its kind, or a
\* step of the server's own.
Steps == (Lists \cup {"telemetry", "validation", "routes"}) \X Nat

OptionFields ==
  {"mcp", "enableA2a", "enableHttp", "health", "environment", "mcpHost", "mcpPort", "mcpTransport",
   "a2aHost", "a2aPort", "a2a", "http", "grpcHost", "certOk"}
AssemblyAssumption ==
  /\ RpcMethods \subseteq [set : Nat, unary : BOOLEAN]
  /\ None \notin [run : Nat, stack : [RpcMethods -> Seq(Steps)]]
  /\ \A c \in Creations : DOMAIN c.opts = OptionFields

Empty ==
  [f \in Lists \cup Flags \cup Settings |->
     CASE f \in Lists -> <<>> [] f \in Flags -> FALSE [] f = "validation" -> "off" [] OTHER -> None]
New(c) ==
  /\ o = apply_env_overrides(c.opts, c.env)
  /\ b = Empty

\* The builder calls that took effect.
BuilderCalls ==
  Cardinality(UNION {Range(b[f]) : f \in Lists})
  + Cardinality({f \in Flags : b[f]} \cup {f \in {"endpoint", "headers", "limit"} : b[f] # None})

Changes(x) ==
  /\ phase = "building" /\ BuilderCalls < MaxSets
  /\ b' = x /\ b' # b
  /\ UNCHANGED <<o, phase, run, loopback, slot, served, shown, log>>

Register(f) ==
  Changes([b EXCEPT ![f] = Append(@, <<f, Len(@) + 1>>)])
Switch(f) == Changes([b EXCEPT ![f] = TRUE])
with_validation == Changes([b EXCEPT !["validation"] = IF @ = "off" THEN "default" ELSE @])
with_validator == Changes([b EXCEPT !["validation"] = "custom"])
with_validation_last ==
  Changes([b EXCEPT !["last"] = TRUE, !["validation"] = IF @ = "off" THEN "default" ELSE @])
with_mcp_endpoint(path) == Changes([b EXCEPT !["endpoint"] = IF path = "" THEN "/mcp" ELSE path])
with_mcp_header_mappings == Changes([b EXCEPT !["headers"] = "given"])
\* A limit of no connections is a limit of one.
max_connections(n) == Changes([b EXCEPT !["limit"] = IF n < 1 THEN 1 ELSE n])

Build ==
  \/ \E f \in Lists : Register(f)
  \/ \E f \in Flags \ {"last"} : Switch(f)
  \/ with_validation \/ with_validator \/ with_validation_last
  \/ \E p \in {"", "/one"} : with_mcp_endpoint(p)
  \/ with_mcp_header_mappings
  \/ \E n \in 0..1 : max_connections(n)

-----------------------------------------------------------------------------
(* What a call passes, outermost first *)

validation == IF b["validation"] = "off" THEN <<>> ELSE <<<<"validation", 1>>>>
message_chain == IF b["last"] THEN b["message"] \o validation ELSE validation \o b["message"]
interceptor_chain == b["unary"]
\* GrpcLayers: the first registered layer is the outermost.
Layered(inner) ==
  LET n == Len(b["layer"])
      wrap[k \in 0..n] == IF k = 0 THEN inner ELSE <<b["layer"][n + 1 - k]>> \o wrap[k - 1]
  IN wrap[n]
\* Both chains look the method up in the sets given to with_reflection and the server's
\* own, set 0.  A unary one passes the message chain, and a streaming one, or one no set
\* describes, which might stream, the stream chain.
Described(m) == m.set = 0 \/ <<"descriptors", m.set>> \in Range(b["descriptors"])
messages(m) == IF Described(m) /\ m.unary THEN message_chain ELSE <<>>
\* Mutant: a method no set describes runs no stream interceptors either.
OnlyStreams(m) == IF Described(m) /\ ~m.unary THEN b["stream"] ELSE <<>>
streams(m) == IF Described(m) /\ m.unary THEN <<>> ELSE b["stream"]
\* tonic's builder: the first layer added is the outermost.
Wire(m) ==
  <<<<"telemetry", 1>>>> \o interceptor_chain \o streams(m) \o messages(m) \o Layered(<<<<"routes", 1>>>>)
LoopbackStack(m) ==
  LET routed == Layered(<<<<"routes", 1>>>>)
      unary == messages(m) \o routed
      intercepted == streams(m) \o unary
  IN <<<<"telemetry", 1>>>> \o interceptor_chain \o intercepted

register_health == IF o.health THEN <<"health">> ELSE <<>>
register_reflection ==
  IF exposes_reflection(o.environment) /\ b["descriptors"] # <<>> THEN <<"reflection">> ELSE <<>>
register_grpc_services == b["service"]
Routes == register_health \o register_reflection \o register_grpc_services

-----------------------------------------------------------------------------
(* Agent services *)

mcp_transport == IF o.mcpTransport = None THEN "streamable-http" ELSE o.mcpTransport
mcp_header_mappings == IF b["headers"] = None THEN "default" ELSE b["headers"]
McpAddr == agent_addr(IF o.mcpHost = "" THEN DefaultHost ELSE o.mcpHost, o.mcpPort)
Group(path) ==
  [kind |-> "mcp", members |-> b["mcp"], path |-> path, transports |-> <<mcp_transport>>,
   addr |-> McpAddr, stateless |-> b["stateless"], headers |-> mcp_header_mappings]

\* Mutant: the services keep their own paths beside one endpoint on stdin.
BothOnStdio == ~b["noPaths"]
\* Standard input has one reader: with an endpoint, the endpoint is it.
ServicePaths == ~b["noPaths"] /\ (b["endpoint"] = None \/ mcp_transport # "stdio")
mcp_groups ==
  IF ~o.mcp \/ b["mcp"] = <<>> THEN {}
  ELSE {Group("own") : x \in {y \in {1} : ServicePaths}}
       \cup {Group(b["endpoint"]) : x \in {y \in {1} : b["endpoint"] # None}}

a2a_transports == IF o.a2a = <<>> THEN <<"jsonrpc">> ELSE o.a2a
a2a_services ==
  IF ~o.enableA2a THEN {}
  ELSE {[kind |-> "a2a", members |-> <<m>>, path |-> "/a2a", transports |-> a2a_transports,
         addr |-> agent_addr(o.a2aHost, o.a2aPort), stateless |-> FALSE, headers |-> "default"]
        : m \in Range(b["a2a"])}
Services == mcp_groups \cup a2a_services

\* The listeners the runtime binds: the address asked for, and the port it got.
Asked == {s.addr : s \in {x \in Services : \E i \in DOMAIN x.transports : listens(x.transports[i])}}
Bound(addr) == IF addr[2] = 0 /\ ~Local(addr[1]) THEN Ephemeral[addr[1]] ELSE addr[2]

-----------------------------------------------------------------------------
(* start *)

\* The files are read and must hold a certificate and a key.
from_pem_files == o.certOk
load_certificate == b["certificates"] => from_pem_files
\* An MCP port is chosen only for a transport that is named and listens.
Defaulted ==
  LET mcpOn == o.mcp /\ ~Local(o.mcpHost) /\ o.mcpTransport # None /\ listens(o.mcpTransport)
      mcpPort == IF mcpOn /\ o.mcpPort = 0 /\ o.http # 0 THEN o.http + 1 ELSE o.mcpPort
      a2aOn == o.enableA2a /\ ~Local(o.a2aHost)
      base == IF mcpPort = 0 THEN o.http + 1 ELSE mcpPort
  IN [o EXCEPT !.mcpHost = IF mcpOn /\ @ = "" THEN DefaultHost ELSE @,
               !.mcpPort = mcpPort,
               !.a2aHost = IF a2aOn /\ @ = "" THEN DefaultHost ELSE @,
               !.a2aPort = IF a2aOn /\ @ = 0 /\ (o.http # 0 \/ mcpPort # 0) THEN base + 1 ELSE @]
\* A gateway that dials needs a gRPC port to dial, and A2A over gRPC one to serve.
validate_grpc_listener ==
  /\ ~b["handler"] /\ b["dialing"] # <<>> => ~b["noListener"] /\ ~Local(o.grpcHost)
  /\ b["noListener"] => ~(o.enableA2a /\ "grpc" \in Range(o.a2a))

Nothing == [routes |-> <<>>, services |-> {}, http |-> None]
Start ==
  /\ phase \in {"building", "stopped"} /\ run < MaxRuns
  /\ load_certificate
  /\ o' = Defaulted
  /\ validate_grpc_listener
  /\ phase' = "grpc" /\ run' = run + 1
  /\ UNCHANGED <<b, loopback, slot, served, shown, log>>

\* The routes are registered, then the agents listen: before the loopback exists.
StartAgents ==
  /\ phase = "grpc" /\ phase' = "agents"
  /\ served' = [served EXCEPT !.routes = Routes, !.services = Services]
  /\ UNCHANGED <<b, o, run, loopback, slot, shown, log>>

\* Mutant: the slot is filled once.
SetOnce(x) == slot' = IF slot = None THEN x ELSE slot
set(x) == slot' = x
Fill ==
  /\ phase = "agents" /\ phase' = "filled"
  /\ LET x == [run |-> run, stack |-> [m \in RpcMethods |-> LoopbackStack(m)]] IN loopback' = x /\ set(x)
  /\ UNCHANGED <<b, o, run, served, shown, log>>

\* An application's own handler replaces every gateway; /health is always there.
http_router ==
  IF b["handler"] THEN [health |-> TRUE, own |-> TRUE, dialing |-> <<>>, gateways |-> <<>>]
  ELSE [health |-> TRUE, own |-> FALSE, dialing |-> b["dialing"], gateways |-> b["gateway"]]

\* Mutant: the port is looked up under the host as it is written.
AsWritten(host) == host
ShownHost(host) == IF host = "" THEN DefaultHost ELSE host
bound_options ==
  [mcp |-> LET a == <<ShownHost(o.mcpHost), o.mcpPort>> IN IF a \in Asked THEN Bound(a) ELSE o.mcpPort,
   a2a |-> LET a == <<ShownHost(o.a2aHost), o.a2aPort>> IN IF a \in Asked THEN Bound(a) ELSE o.a2aPort]

StartHttp ==
  /\ phase = "filled" /\ phase' = "up"
  /\ served' = [served EXCEPT !.http = IF o.enableHttp THEN http_router ELSE None]
  /\ shown' = bound_options
  /\ UNCHANGED <<b, o, run, loopback, slot, log>>

\* stop, and the stop that ends a start whose gateway registration failed.
Stop ==
  /\ phase = "up" \/ (phase = "filled" /\ b["dialing"] # <<>>)
  /\ phase' = "stopped"
  /\ loopback' = None /\ served' = Nothing /\ shown' = None
  /\ UNCHANGED <<b, o, run, slot, log>>

-----------------------------------------------------------------------------
(* Calls *)

Paths == {"/a", "/b", "/c"}
\* Which paths a gateway's table resolves.
claims(g, path) == path = "/a" \/ (path = "/b" /\ g[2] = 2)

Called(via, m, by, stack) ==
  /\ log' = [via |-> via[1], path |-> via[2], claimed |-> via[3], method |-> m,
             phase |-> phase, run |-> run, by |-> by, stack |-> stack]
  /\ UNCHANGED <<b, o, phase, run, loopback, slot, served, shown>>

WireCall(m) == phase = "up" /\ ~b["noListener"] /\ Called(<<"wire", None, TRUE>>, m, run, Wire(m))

\* Mutant: the first gateway serves.
FirstGateway(path) == 1
\* The first gateway that claims the path, or else the first.
Chosen(path) ==
  LET gs == served.http.gateways
      claiming == {i \in DOMAIN gs : claims(gs[i], path)}
  IN IF claiming = {} THEN 1 ELSE CHOOSE i \in claiming : \A j \in claiming : i <= j
RestCall(path, m) ==
  /\ phase = "up" /\ served.http # None /\ served.http.gateways # <<>>
  /\ Called(<<"rest", path, claims(served.http.gateways[Chosen(path)], path)>>, m,
            loopback.run, loopback.stack[m])

\* An MCP service's call, unary: what the slot holds, or Unavailable.
McpCall(m) ==
  /\ m.unary /\ phase \in {"agents", "filled", "up"}
  /\ \E s \in served.services : s.kind = "mcp"
  /\ IF slot = None THEN Called(<<"mcp", None, TRUE>>, m, None, <<>>)
     ELSE Called(<<"mcp", None, TRUE>>, m, slot.run, slot.stack[m])

-----------------------------------------------------------------------------
Init ==
  /\ \E c \in Creations : New(c)
  /\ phase = "building" /\ run = 0
  /\ loopback = None /\ slot = None
  /\ served = Nothing /\ shown = None /\ log = None

Next ==
  \/ Build \/ Start \/ StartAgents \/ Fill \/ StartHttp \/ Stop
  \/ \E m \in RpcMethods : WireCall(m) \/ (\E p \in Paths : RestCall(p, m)) \/ McpCall(m)

Spec == Init /\ [][Next]_asmVars

-----------------------------------------------------------------------------
(* Properties *)

Rank == [telemetry |-> 0, unary |-> 1, stream |-> 2, message |-> 3, validation |-> 3,
         layer |-> 4, routes |-> 5]

\* However a call comes in, over the wire, a REST gateway or an MCP service, it
\* passes every metadata interceptor and layer registered, in whatever order the
\* builder was called, exactly once, and exactly one of the two chains between
\* them: the messages of a method known to be unary are intercepted and validated,
\* and every other method passes the stream interceptors, so that none escapes
\* both.  Metadata come before either chain and layers after, the first registered
\* first, validation where it was asked for.
CallPassesAll ==
  log # None /\ log.by # None =>
    LET s == log.stack
        Before(x, y) ==
          \/ Rank[x[1]] < Rank[y[1]]
          \/ x[1] = y[1] /\ x[2] < y[2]
          \/ x[1] = "message" /\ y[1] = "validation" /\ b["last"]
          \/ x[1] = "validation" /\ y[1] = "message" /\ ~b["last"]
        known == Described(log.method) /\ log.method.unary
    IN /\ Range(s) = Range(b["unary"]) \cup Range(b["layer"])
                      \cup {<<"telemetry", 1>>, <<"routes", 1>>}
                      \cup (IF known THEN Range(b["message"]) \cup Range(validation) ELSE Range(b["stream"]))
       /\ \A i, j \in DOMAIN s : i < j => Before(s[i], s[j])

\* A call that arrives once the run's loopback exists is answered by the routes
\* of that run, after any number of restarts.  (In the gap before it, the slot of
\* an earlier run answers.)
FreshRoutes ==
  log # None /\ log.phase \in {"filled", "up"} => log.by = log.run

\* A running server serves every MCP service it was given, unless both kinds of
\* path were turned off, and standard input has at most one reader.
ToolsServed ==
  phase = "up" =>
    LET groups == {s \in served.services : s.kind = "mcp"} IN
    /\ o.mcp /\ (b["noPaths"] => b["endpoint"] # None) =>
         \A m \in Range(b["mcp"]) : \E g \in groups : m \in Range(g.members)
    /\ \A g, h \in groups : g.transports = <<"stdio">> /\ h.transports = <<"stdio">> => g = h

\* The banner prints the port each agent protocol really listens on.
BannerTrue ==
  phase = "up" =>
    \A s \in served.services :
      /\ ~Local(s.addr[1])
      /\ \E i \in DOMAIN s.transports : listens(s.transports[i])
      => shown[s.kind] = Bound(s.addr)

\* A REST request some gateway claims is served by one that claims it.
ClaimedIsServed ==
  log # None /\ log.via = "rest" =>
    log.claimed = (\E i \in DOMAIN b["gateway"] : claims(b["gateway"][i], log.path))

=============================================================================
