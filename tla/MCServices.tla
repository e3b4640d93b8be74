----------------------------- MODULE MCServices -----------------------------
(***************************************************************************)
(* The parts that serve calls and must come to an end: the hybrid server   *)
(* and the agent runtime, MCP sessions and tool calls, the layers of a gRPC *)
(* call, the WebSocket client among silent peers, idempotent calls and the *)
(* batch writer.  Each is checked under the fairness its module states and *)
(* explains.  The parts share nothing, so a behaviour runs one of them, and *)
(* a part that stands still is not asked to be fair.  The server stands    *)
(* still in an initial state, so that StopsClean can be stated of every    *)
(* behaviour.                                                              *)
(***************************************************************************)
EXTENDS Server, Sequences

CONSTANTS
  Callers, Calls, Users, Listeners,
  Services, Places, Requires, HostMux, GrpcRoutes,   \* of AgentRuntime, Places being its Addresses
  MaxChain, MaxData,                                 \* of Calls
  McpGroups, McpHeaders, Openers, MaxRounds, MaxCalls,            \* of Mcp, Openers its Clients
  ToolFields, ToolArguments, ToolStreams, ToolChains, ChannelSize \* of Tools

VARIABLES
  part,   \* the part this behaviour runs; the others stand still
  started, pc, todo, bound, svc, mux, routes, served, runtimeCancelled, told, drain, down,
  errors,
  group, build, found, routing, mcpCancelled, sessions, session, post, mcpCall, mcpCalls,
  inner, ph, layer, outer, pendingSlot, armed, resp, held, client, otel, obs,
  proc, wsState, wsCancelled, sink, half, holder, sending, dialled, inbox, hungup, pings, raced,
  args, asked, answer, at, toolToken, stream, pump, item, chan, got, reader, cancel, notes,
  result, cause, health,
  key, attempt, given,
  queue, admitted, pending, inflight, acked, worker, failure, call, reply, handle

-----------------------------------------------------------------------------
(* Servers: plain, with TLS and HTTP/3, with agents, on clashing ports, on *)
(* the last port, and with more clients than connections *)

InOrder(S) == LET N == 1..Cardinality(S) IN CHOOSE q \in [N -> S] : \A i, j \in N : i # j => q[i] # q[j]
ClientSeq == InOrder(Clients)
StopperSeq == InOrder(Stoppers \cup {Cleanup})
CallerSeq == InOrder(Callers)
CallSeq == InOrder(Calls)
ProcSeq == InOrder(Users \cup Listeners)

Cfg(on, tls, overflow, draining, starting, clients) ==
  [on |-> on, tls |-> tls, overflow |-> overflow, drain |-> draining, idle |-> draining,
   dialsGrpc |-> FALSE, grpc |-> 1, http |-> 2, mcp |-> 0, a2a |-> 0,
   starts |-> starting, clients |-> clients]
One == {ClientSeq[1]}
Secure(on) == [Cfg(on, TRUE, "refuse", TRUE, 1, One) EXCEPT !.grpc = 5]
Plain == Cfg({"grpc", "http"}, FALSE, "queue", FALSE, 2, One)
ServerConfigs ==
  {Plain,
   Secure({"grpc", "http", "http3"}), Secure({"http", "mcp", "a2a"}),
   [Cfg({"grpc", "mcp"}, FALSE, "queue", TRUE, 2, {}) EXCEPT !.grpc = 3],
   [Cfg({"http", "mcp"}, FALSE, "queue", FALSE, 2, {}) EXCEPT !.http = 5]}
  \cup {Cfg({"grpc"}, FALSE, overflow, TRUE, 1, Clients) : overflow \in {"queue", "refuse"}}

\* Two services at one address, one of them on gRPC too, and one that is not mounted over HTTP.
Needs == [s \in 1..3 |-> [addr |-> IF s = 2 THEN "B" ELSE "A", http |-> s # 2, grpc |-> s = 3]]

\* Groups that combine, that clash, that answer in an interceptor, and that allow no host.
Pages(t, p, r) == [tools |-> t, prompts |-> p, resources |-> r, templates |-> <<>>]
Member(caps, pages, reads, h) ==
  [caps |-> caps, pages |-> pages, reads |-> reads, hosts |-> h, origins |-> None]
Alpha == Member({"tools", "resources"}, Pages(<<<<"a1">>, <<"a2">>>>, <<>>, <<<<"u1">>>>), {"u1", "u2"}, None)
Beta == Member({"tools", "prompts", "resources"}, Pages(<<<<"b1">>>>, <<<<"p">>>>, <<<<"u2">>>>), {"u2"},
               {[name |-> "local", port |-> 0]})
Clashing == Member({"tools"}, Pages(<<<<"a2", "a1">>>>, <<>>, <<>>), {}, None)
NoHost == Member({"tools"}, Pages(<<<<"c">>>>, <<>>, <<>>), {}, {})
Group(members, combined, chain) ==
  [members |-> members, combined |-> combined, chain |-> chain, hosts |-> None,
   origins |-> {[scheme |-> "https", name |-> "app", port |-> 443]},
   tools |-> {[name |-> "a1", needs |-> <<"f1", "f2">>], [name |-> "b1", needs |-> <<"f1", "f2", "f3">>],
              [name |-> "gone", needs |-> <<>>]}]
TryMcpGroups ==
  {Group(<<Alpha, Beta>>, TRUE, "pass"), Group(<<Alpha, Beta>>, TRUE, "rewrite"), Group(<<Beta>>, FALSE, "short"),
   Group(<<Alpha, Clashing>>, TRUE, "pass"), Group(<<NoHost>>, FALSE, "pass")}
TryMcpHeaders ==
  {[host |-> [name |-> "local", port |-> 8080], origin |-> None],
   [host |-> [name |-> "local", port |-> 0], origin |-> [scheme |-> "https", name |-> "app", port |-> 0]]}

\* Two fields show the same words; one list of choices does not match.
Field(name, type, required, shown, proto) ==
  [name |-> name, type |-> type, required |-> required, shown |-> shown, proto |-> proto]
TryToolFields ==
  {Field("who", "string", TRUE, <<>>, <<>>),
   Field("kind", "enum", TRUE, <<"a", "b">>, <<"KIND_A", "KIND_B">>),
   Field("size", "enum", FALSE, <<"a", "b">>, <<"SIZE_A">>),
   Field("opts", "object", TRUE, <<>>, <<>>)}
TryToolArguments ==
  {[who |-> who, kind |-> kind, size |-> "", opts |-> None] : who \in {None, "", "x"}, kind \in {None, "KIND_B"}}
TryToolStreams == {<<>>, <<<<"chunk", 7>>, <<"chunk", 0>>>>, <<<<"chunk", 0>>, <<"error", 5>>>>}
TryToolChains == {<<<<"other", 0>>>>, <<<<"other", 0>>, <<"error", 5>>, <<"error", 13>>>>}

-----------------------------------------------------------------------------

Rt == INSTANCE AgentRuntime WITH
  Addresses <- Places, cancelled <- runtimeCancelled
Mc == INSTANCE Mcp WITH
  Groups <- McpGroups, Clients <- Openers, Headers <- McpHeaders,
  cancelled <- mcpCancelled, call <- mcpCall, calls <- mcpCalls
La == INSTANCE Calls WITH
  in <- inner, out <- outer, slot <- pendingSlot, at <- layer
Ws == INSTANCE WebSocket WITH
  MaxConns <- 2, MaxMessages <- 0, stream <- half, cancelled <- wsCancelled, shared <- wsState
To == INSTANCE Tools WITH
  Declared <- ToolFields, Arguments <- ToolArguments, Streams <- ToolStreams,
  Chains <- ToolChains, Capacity <- ChannelSize, token <- toolToken
Id == INSTANCE Idempotency WITH
  OneReclaimer <- TRUE, call <- attempt, reply <- given
Bw == INSTANCE BatchWriter WITH
  BatchSize <- 2, Capacity <- 2, MaxInflight <- 2, MaxRecords <- 2

ASSUME Instances ==
  /\ ServerAssumption /\ La!CallsAssumption /\ Rt!RuntimeAssumption
  /\ Mc!McpAssumption /\ To!ToolsAssumption /\ Ws!WebSocketAssumption

rtVars == <<started, pc, todo, bound, svc, mux, routes, served, runtimeCancelled, told, drain,
              down, errors>>
mcsVars == <<group, build, found, routing, mcpCancelled, sessions, session, post, mcpCall,
              mcpCalls>>
laVars == <<inner, ph, layer, outer, pendingSlot, armed, resp, held, client, otel, obs>>
wsVars == <<proc, wsState, wsCancelled, sink, half, holder, sending, dialled, inbox, hungup,
             pings, raced>>
toVars == <<args, asked, answer, at, toolToken, stream, pump, item, chan, got, reader, cancel,
              notes, result, cause, health>>
idVars == <<key, attempt, given>>
bwVars == <<queue, admitted, pending, inflight, acked, worker, failure, call, reply, handle>>

MCInit ==
  /\ part \in {"server", "runtime", "mcp", "layers", "websocket", "tools", "idempotency",
                "writer"}
  /\ Init
  /\ part = "server" \/ cfg = Plain
  /\ IF part = "runtime" THEN Rt!Init
     ELSE /\ started = None /\ pc = None /\ todo = None /\ bound = None /\ svc = None
          /\ mux = None /\ routes = None /\ served = None /\ runtimeCancelled = None
          /\ told = None /\ drain = None /\ down = None /\ errors = None
  /\ IF part = "mcp" THEN Mc!Init
     ELSE /\ group = None /\ build = None /\ found = None /\ routing = None
          /\ mcpCancelled = None /\ sessions = None /\ session = None /\ post = None
          /\ mcpCall = None /\ mcpCalls = None
  /\ IF part = "layers" THEN La!Init
     ELSE /\ inner = None /\ ph = None /\ layer = None /\ outer = None /\ pendingSlot = None
          /\ armed = None /\ resp = None /\ held = None /\ client = None /\ otel = None
          /\ obs = None
  /\ IF part = "websocket" THEN Ws!Init
     ELSE /\ proc = None /\ wsState = None /\ wsCancelled = None /\ sink = None /\ half = None
          /\ holder = None /\ sending = None /\ dialled = None /\ inbox = None
          /\ hungup = None /\ pings = None /\ raced = None
  /\ IF part = "tools" THEN To!Init
     ELSE /\ args = None /\ asked = None /\ answer = None /\ at = None /\ toolToken = None
          /\ stream = None /\ pump = None /\ item = None /\ chan = None /\ got = None
          /\ reader = None /\ cancel = None /\ notes = None /\ result = None /\ cause = None
          /\ health = None
  /\ IF part = "idempotency" THEN Id!Init
     ELSE /\ key = None /\ attempt = None /\ given = None
  /\ IF part = "writer" THEN Bw!Init
     ELSE /\ queue = None /\ admitted = None /\ pending = None /\ inflight = None
          /\ acked = None /\ worker = None /\ failure = None /\ call = None /\ reply = None
          /\ handle = None

\* Every part but p stands still.
Still(p) ==
  /\ UNCHANGED part
  /\ IF p = "server" THEN TRUE ELSE UNCHANGED serverVars
  /\ IF p = "runtime" THEN TRUE ELSE UNCHANGED rtVars
  /\ IF p = "mcp" THEN TRUE ELSE UNCHANGED mcsVars
  /\ IF p = "layers" THEN TRUE ELSE UNCHANGED laVars
  /\ IF p = "websocket" THEN TRUE ELSE UNCHANGED wsVars
  /\ IF p = "tools" THEN TRUE ELSE UNCHANGED toVars
  /\ IF p = "idempotency" THEN TRUE ELSE UNCHANGED idVars
  /\ IF p = "writer" THEN TRUE ELSE UNCHANGED bwVars

\* Nothing is claimed of a WebSocket client once two operations raced: it is not
\* followed further.
MCNext ==
  \/ part = "server" /\ Next /\ Still("server")
  \/ part = "runtime" /\ Rt!Next /\ Still("runtime")
  \/ part = "mcp" /\ Mc!Next /\ Still("mcp")
  \/ part = "layers" /\ La!Next /\ Still("layers")
  \/ part = "websocket" /\ ~raced /\ Ws!Next /\ Still("websocket")
  \/ part = "tools" /\ To!Next /\ Still("tools")
  \/ part = "idempotency" /\ Id!Next /\ Still("idempotency")
  \/ part = "writer" /\ Bw!Next /\ Still("writer")

mcVars == <<part, serverVars, rtVars, mcsVars, laVars, wsVars, toVars, idVars, bwVars>>

\* Fairness, as the modules state it.  A behaviour has the steps of one part only, so
\* the n-th step of one can share a formula with the n-th of another: Due(n) is taken
\* if it stays enabled, InTurn(n) if it is enabled again and again.  A task, a stop and
\* a connection of the server never go back from the second of their steps to the
\* first, or leave by either: one formula stands for both.
moving ==
  CASE part = "server" -> serverVars [] part = "runtime" -> rtVars [] part = "mcp" -> mcsVars
    [] part = "layers" -> laVars [] part = "websocket" -> wsVars [] part = "tools" -> toVars
    [] part = "idempotency" -> idVars [] part = "writer" -> bwVars
TaskName(n) == <<<<"grpc", "http", "http3", "mcp", "a2a">>[((n - 1) % 5) + 1], ((n - 1) \div 5) + 1>>
Due(n) ==
  \/ /\ part = "server"
     /\ CASE n <= 10 -> Quit(TaskName(n)) \/ End(TaskName(n))
          [] n \in 11..13 -> StopJoin(StopperSeq[n - 10]) \/ StopTimeout(StopperSeq[n - 10])
          [] n \in 14..15 -> Cut(ClientSeq[n - 13]) \/ GoAway(ClientSeq[n - 13])
     /\ UNCHANGED part
  \/ /\ part = "runtime" /\ n <= 13
     /\ CASE n <= 3 -> Rt!Mount(n)
          [] n \in 4..6 -> Rt!MountFails(n - 3)
          [] n = 7 -> Rt!ServeGroups
          [] n \in 8..9 -> Rt!Join(<<"A", "B">>[n - 7])
          [] n \in 10..12 -> Rt!MountDropped(n - 9)
          [] n = 13 -> Rt!StartFails
     /\ UNCHANGED part
  \/ /\ part = "mcp" /\ n <= 2
     /\ \E c \in Openers : IF n = 1 THEN Mc!LoopEnds(c) ELSE Mc!RemoveInbox(c)
     /\ UNCHANGED part
  \/ part = "layers" /\ n = 1 /\ La!Layers /\ UNCHANGED part
  \/ /\ part = "websocket" /\ ~raced
     /\ CASE n <= 2 -> ~Ws!Blocked /\ Ws!PingEnds(n)
          [] n = 3 -> \E l \in Listeners : Ws!Received(l)
          [] OTHER -> FALSE
     /\ UNCHANGED part
  \/ part = "tools" /\ n <= 2 /\ (IF n = 1 THEN To!Push ELSE To!Cancelled) /\ UNCHANGED part
  \/ /\ part = "idempotency" /\ n <= 3
     /\ IF n <= 2 THEN Id!Attempt(CallSeq[n]) ELSE Id!AgeClaim
     /\ UNCHANGED part
  \/ /\ part = "writer" /\ n <= 9
     /\ CASE n = 1 -> Bw!Recv [] n = 2 -> Bw!Serve [] n = 3 -> Bw!Wind [] n = 4 -> Bw!CloseReturns
          [] n = 5 -> \E b \in inflight : \E done \in {"ok", "err"} : Bw!Complete(b, done)
          [] n \in 6..7 -> Bw!Refused(CallerSeq[n - 5])
          [] n \in 8..9 -> Bw!Replied(CallerSeq[n - 7])
     /\ UNCHANGED part
InTurn(n) ==
  \/ part = "websocket" /\ ~raced /\ n <= 2 /\ Ws!Operate(ProcSeq[n]) /\ UNCHANGED part
  \/ /\ part = "idempotency"
     /\ IF n <= 2 THEN Id!Replay(CallSeq[n]) ELSE Id!Reclaim(CallSeq[n - 2])
     /\ UNCHANGED part
  \/ /\ part = "writer"
     /\ IF n <= 2 THEN Bw!Admit(CallerSeq[n]) ELSE Bw!SendBarrier(CallerSeq[n - 2])
     /\ UNCHANGED part
MCFairness ==
  /\ \A n \in 1..15 : WF_moving(Due(n))
  /\ \A n \in 1..4 : SF_moving(InTurn(n))

MCSpec == MCInit /\ [][MCNext]_mcVars /\ MCFairness

-----------------------------------------------------------------------------
\* A runtime that started serves every service in full and one that failed left
\* nothing running (start.rs); a listed tool is reached at its own service and a
\* question is put once (combine.rs, ask.rs); a tool call does what its arguments,
\* its stream and its error say (elicitation.rs, stream.rs, error.rs).
AgentsServe ==
  /\ part = "runtime" => Rt!ServedIsMounted /\ Rt!FailedStartIsClean
  /\ part = "mcp" => Mc!ListedIsReached /\ Mc!AskedOnce
  /\ part = "tools" => To!ToolCallHonest

\* A call is counted once, however it ends, and the caller, the span and the
\* log are told one verdict (intercept.rs, stream_intercept.rs, otel.rs).
CallsHonest == part = "layers" => La!CallsHonest

\* What a stop waits for, and what says that it is over: the gRPC connections of
\* every start that was told to stop; the mounting and the shutdown of the
\* runtime; MCP sessions; the worker of a closed batch writer.
Told == {g \in Gens : <<"grpc", g>> \in token}
StopBegun ==
  \/ part = "server" /\ \E g \in Told : At(<<"grpc", g>>) # {}
  \/ part = "runtime" /\ (pc \in {"mounting", "awaiting"} \/ down \notin {None, {}})
  \/ part = "mcp" /\ mcpCancelled
  \/ part = "writer" /\ handle # "open"
StopOver ==
  CASE part = "server" -> \A g \in Told : At(<<"grpc", g>>) = {}
    [] part = "runtime" -> (pc \notin {"mounting", "awaiting"} \/ \E s \in Services : svc[s] = "dropped")
                           /\ down \in {None, {}}
    [] part = "mcp" -> sessions = {}
    [] part = "writer" -> worker.at = "ended"
    [] OTHER -> TRUE

\* Whatever its clients and handlers do, a stop comes to an end: connections are
\* cut, waits time out, sessions and workers end (lifecycle.rs, start.rs, sse.rs,
\* ingest/worker.rs).
StopEnds == StopBegun ~> StopOver

\* An operation in progress, and its end: of the n-th party of a WebSocket, of a
\* call through the layers, of a cancelled pump, of a claim whose call died, of
\* the n-th caller of the batch writer.
OperationBegun(n) ==
  \/ part = "websocket" /\ (Ws!Busy(ProcSeq[n]) \/ Ws!Sending(ProcSeq[n]))
  \/ part = "layers" /\ n = 1
  \/ part = "tools" /\ n = 1 /\ at = "stream" /\ cancel
  \/ part = "idempotency" /\ n = 1 /\ key.state = "in_flight" /\ attempt[key.by] \notin Id!Owning
  \/ part = "writer" /\ call[CallerSeq[n]].at \in {"write", "flush", "barrier"}
OperationOver(n) ==
  CASE part = "websocket" -> ~(Ws!Busy(ProcSeq[n]) \/ Ws!Sending(ProcSeq[n])) \/ Ws!Stale \/ raced
    [] part = "layers" -> La!Over /\ ph \in {"done", "dead"}
    [] part = "tools" -> pump = "ended" \/ at = "done"
    [] part = "idempotency" -> key.state # "in_flight"
    [] part = "writer" -> call[CallerSeq[n]].at \in {"idle", "gone"}
    [] OTHER -> TRUE

\* It is for others to act: a frame waits for a peer that does not read, an interceptor,
\* a handler or a caller has a call in its hands, a cancelled pump's item waits for room.
Waits ==
  \/ part = "websocket" /\ Ws!Blocked
  \/ part = "layers" /\ La!Awaiting
  \/ part = "tools" /\ To!Full

\* Every operation ends, though a peer, a backend or another call is silent for
\* ever, unless it waits for ever for a peer, a handler or a reader that stands still
\* (websocket/, stream_intercept.rs, mcp/stream.rs, idempotency/, ingest/).
OperationsEnd == <>[]Waits \/ \A n \in 1..2 : OperationBegun(n) ~> OperationOver(n)
=============================================================================
