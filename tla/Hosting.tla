------------------------------ MODULE Hosting -------------------------------
(***************************************************************************)
(* How the agents crate hosts an MCP service: the builder and its Config   *)
(* (mcp/service.rs, config.rs, server.rs), the group that places it        *)
(* (serve.rs), the layers a request passes (hosted.rs, interceptor.rs,     *)
(* extras.rs, cache.rs, handler.rs) and the headers of the HTTP caller on  *)
(* their way to an in-process gRPC call (shared/mod.rs, incoming.rs).      *)
(*                                                                         *)
(* A header value is whose it is; a mapping is a pair of an HTTP header    *)
(* and a metadata key.                                                     *)
(***************************************************************************)
EXTENDS Naturals, Sequences, Functions, FiniteSets

CONSTANTS MaxSets, None

\* Metadata of a request: whose value stands under a mapped key.
Metadata == {"k1", "k2", "grpc-k"} \X {"caller", "empty"}
HostingAssumption == None \notin [incoming : SUBSET Metadata, forwarded : SUBSET Metadata]

VARIABLES
  svc,      \* the Service under construction
  group,    \* the ServiceGroup around it
  sets,     \* setters called so far
  served,   \* once mounted: the mount and the announced endpoint; None before
  req,      \* the request in progress
  left      \* metadata an earlier caller's request left on the same session

hvars == <<svc, group, sets, served, req, left>>

Mappings == {<<"h1", "k1">>, <<"h2", "k2">>, <<"h1", "grpc-k">>}
Owned(key) == key = "grpc-k"      \* the grpc- prefix is the transport's

-----------------------------------------------------------------------------
(* Service, Config, ServiceGroup: the builders *)

NewService == [headers |-> {}, chain |-> <<>>, extras |-> {}, cache |-> None, rcache |-> None,
               handler |-> FALSE, methods |-> FALSE, transports |-> <<"http">>, base |-> "/mcp",
               addr |-> None, stateless |-> FALSE]
NewGroup == [headers |-> None, chain |-> <<>>, transports |-> None, addr |-> None, stateless |-> FALSE]

\* Values a setter is tried with; a base path may lack its slash or end in one.
Values == [headers |-> {{<<"h1", "k1">>}, {<<"h2", "k2">>}, {<<"h1", "grpc-k">>}},
           chain |-> {<<"m">>}, extras |-> {{"e"}}, cache |-> {"list"}, rcache |-> {"read"},
           handler |-> {TRUE}, methods |-> {TRUE}, stateless |-> {TRUE},
           transports |-> {<<"sse">>, <<"stdio">>, <<"stdio", "sse", "http">>},
           base |-> {"", "/", "/mcp/", "/x"}, addr |-> {"port", "hostport", "v6"}]
GroupValues == [headers |-> {{}, {<<"h1", "k1">>}, {<<"h2", "k2">>}}, chain |-> {<<"g">>},
                transports |-> {<<"http">>, <<"sse">>}, addr |-> {"port"}, stateless |-> {TRUE}]

\* Every setter of Service and of ServiceGroup replaces one field.
Set(f) ==
  /\ served = None /\ sets < MaxSets /\ sets' = sets + 1
  /\ \E v \in Values[f] : svc' = [svc EXCEPT ![f] = v]
  /\ UNCHANGED <<group, served, req, left>>
SetGroup(f) ==
  /\ served = None /\ sets < MaxSets /\ sets' = sets + 1
  /\ \E v \in GroupValues[f] : group' = [group EXCEPT ![f] = v]
  /\ UNCHANGED <<svc, served, req, left>>

\* A Config adds to the lists and overrides the rest where it says something.
config ==
  /\ served = None /\ sets < MaxSets /\ sets' = sets + 1
  /\ \E h \in SUBSET Mappings, t \in {None, <<"sse">>} :
       svc' = [svc EXCEPT !.headers = @ \union h, !.chain = @ \o <<"c">>, !.extras = @ \union {"f"},
                          !.handler = TRUE, !.transports = IF t = None THEN @ ELSE t]
  /\ UNCHANGED <<group, served, req, left>>

\* ServerConfig::service: the generated base path before the configured one
\* before the default; a list of transports before a single one.
ServerConfig ==
  /\ served = None /\ svc = NewService
  /\ \E generated \in {"", "/x"}, base \in {"", "/mcp/"}, t \in {<<>>, <<"sse">>} :
       svc' = [svc EXCEPT !.base = IF generated # "" THEN generated ELSE IF base # "" THEN base ELSE "/mcp",
                          !.transports = IF t = <<>> THEN <<"http">> ELSE t,
                          !.addr = "port"]
  /\ UNCHANGED <<group, sets, served, req, left>>

Init ==
  /\ svc = NewService /\ group = NewGroup /\ sets = 0
  /\ served = None /\ req = None
  /\ left \in {{}, {<<"k1", "earlier">>, <<"k2", "earlier">>}}

-----------------------------------------------------------------------------
(* ServiceGroup::serve: mounts and endpoints *)

listens(t) == t # "stdio"
resolved_transports == IF group.transports # None THEN group.transports ELSE svc.transports
\* A trailing slash of the base path is dropped, the root is kept.
MountPath(base) == CASE base \in {"", "/"} -> "/" [] base = "/mcp/" -> "/mcp" [] OTHER -> base
SsePath(path) == IF path = "/" THEN "/" ELSE IF path = "/mcp" THEN "/mcp/" ELSE "/x/"
\* http_router: streamable HTTP at the path, SSE at the path plus a slash.
Routes(base) ==
  {<<t, IF t = "sse" THEN SsePath(MountPath(base)) ELSE MountPath(base)>> :
     t \in {u \in Range(resolved_transports) : listens(u)}}
\* listen_addr and server_endpoint_with read the same address, each in its way:
\* the second splits it at the first colon.
Addr == IF group.addr # None THEN group.addr ELSE svc.addr
\* Mutant: the listener does not ask the group.
MemberAddr == CASE svc.addr = None -> "default" [] OTHER -> "p"
listen_addr == CASE Addr = None -> "default" [] OTHER -> "p"
announced_port == CASE Addr = None -> "default" [] Addr = "v6" -> "garbage" [] OTHER -> "p"
\* endpoint: the first transport that listens, at the base path as written; an
\* empty base path is announced as the default.
Announced(base) ==
  LET http == {i \in DOMAIN resolved_transports : listens(resolved_transports[i])}
      first == CHOOSE i \in http : \A j \in http : i <= j
  IN
  IF http = {} THEN None
  ELSE [transport |-> resolved_transports[first], path |-> IF base = "" THEN "/mcp" ELSE base, port |-> announced_port]

\* Headers are lifted off each request by the group's mappings, else by the member's.
MountHeaders == IF group.headers # None THEN group.headers ELSE svc.headers

Serve ==
  /\ served = None
  /\ served' = [routes |-> Routes(svc.base), endpoint |-> Announced(svc.base), port |-> listen_addr,
                stateless |-> group.stateless \/ svc.stateless, headers |-> MountHeaders]
  /\ UNCHANGED <<svc, group, sets, req, left>>

-----------------------------------------------------------------------------
(* A request through the layers *)

\* boxed: the member's hosting is one layer; a group with interceptors or
\* headers of its own puts a second one around it, with nothing else in it.
MemberLayer == [headers |-> svc.headers, chain |-> svc.chain, extras |-> svc.extras,
                cache |-> svc.cache, rcache |-> svc.rcache, handler |-> svc.handler, methods |-> svc.methods]
BareLayer == [headers |-> {}, chain |-> <<>>, extras |-> {}, cache |-> None, rcache |-> None,
              handler |-> FALSE, methods |-> FALSE]
\* Mutant: the group's layer runs the member's chain as well.
DoubleFactory ==
  IF group.chain = <<>> /\ group.headers = None THEN <<MemberLayer>>
  ELSE <<[BareLayer EXCEPT !.chain = group.chain \o svc.chain,
                           !.headers = IF group.headers = None THEN {} ELSE group.headers], MemberLayer>>
member_factory ==
  IF group.chain = <<>> /\ group.headers = None THEN <<MemberLayer>>
  ELSE <<[BareLayer EXCEPT !.chain = group.chain,
                           !.headers = IF group.headers = None THEN {} ELSE group.headers], MemberLayer>>

\* The values of one request: an HTTP request has its caller's headers, an empty
\* one perhaps among them; a request over stdio has none.
Begin ==
  /\ served # None /\ req = None
  /\ \E h \in {None} \union [h1 : {"absent", "set"}, h2 : {"absent", "empty", "set"}],
        kind \in {"call", "list", "read"}, args \in {{"a"}, {"a", "e", "f"}} :
       req' = [kind |-> kind, http |-> h, layers |-> member_factory, context |-> None, seen |-> <<>>,
               args |-> args, extras |-> {}, stamp |-> None, by |-> "inner", sent |-> None]
  /\ UNCHANGED <<svc, group, sets, served, left>>

\* with_header_forwarding: values that are there and not empty.
Forwarded ==
  IF req.http = None THEN {}
  ELSE {<<m[2], "caller">> : m \in {n \in served.headers : req.http[n[1]] = "set"}}

\* Mutant: what the session holds is the metadata to start from, and stays.
SessionHeaders(mappings) ==
  left \union (IF req.http = None THEN {} ELSE
    {<<m[2], "caller">> : m \in {n \in mappings : ~Owned(n[2]) /\ req.http[n[1]] = "set"}})
\* A mapped key holds this request's values, an empty one too, or nothing; the
\* transport's keys are not mapped.
incoming_headers(mappings) ==
  IF req.http = None THEN {}
  ELSE {<<m[2], IF req.http[m[1]] = "set" THEN "caller" ELSE "empty">> :
          m \in {n \in mappings : ~Owned(n[2]) /\ req.http[n[1]] # "absent"}}

\* Mutant: whatever an outer layer established is kept.
OuterContext(mappings) ==
  IF req.context # None THEN req.context
  ELSE [incoming |-> incoming_headers(mappings), forwarded |-> Forwarded]
\* A layer without mappings keeps the context of the layer around it.
call_context(mappings) ==
  IF mappings = {} /\ req.context # None THEN req.context
  ELSE [incoming |-> incoming_headers(mappings), forwarded |-> Forwarded]

\* A list shows a tool with its extra arguments; a call takes them out again.
prepare_tool_with_extras(args, extras) == args \union extras
extract_extras(args, extras) == [args |-> args \ extras, found |-> args \intersect extras]

\* A hint replaces the stamp a result has; a resource's own goes before the list's.
stamp_list(l, stamp) == IF l.cache # None THEN l.cache ELSE stamp
apply_to_read(l, stamp) == IF l.rcache # None THEN l.rcache ELSE stamp_list(l, stamp)

\* The interceptors in order, the first outermost; a member's are told the RPC's
\* method where one is declared, the group's always the tool's name.
invoke(l) == [i \in DOMAIN l.chain |-> <<l.chain[i], l.methods>>]

LayerOfCall(l) ==
  LET x == extract_extras(req.args, l.extras) IN
  req' = [req EXCEPT !.layers = Tail(@), !.context = call_context(l.headers), !.args = x.args,
                     !.extras = @ \union x.found, !.seen = @ \o invoke(l)]
LayerOfList(l) ==
  req' = [req EXCEPT !.layers = Tail(@), !.args = prepare_tool_with_extras(@, l.extras), !.stamp = stamp_list(l, @)]
LayerOfRead(l) ==
  req' = [req EXCEPT !.layers = Tail(@), !.context = call_context(l.headers), !.stamp = apply_to_read(l, @),
                     !.by = IF l.handler THEN "handler" ELSE @]
Layer ==
  /\ req # None /\ req.layers # <<>> /\ req.sent = None
  /\ LET l == Head(req.layers) IN
     CASE req.kind = "call" -> LayerOfCall(l) [] req.kind = "list" -> LayerOfList(l) [] OTHER -> LayerOfRead(l)
  /\ UNCHANGED <<svc, group, sets, served, left>>

\* ForwardedHeaders::apply writes over what is there, but for the transport's keys.
apply(forwarded, metadata) ==
  LET f == {e \in forwarded : ~Owned(e[1])} IN {e \in metadata : \A g \in f : g[1] # e[1]} \union f
forward_metadata(ctx) == apply(ctx.forwarded, {e \in ctx.incoming : ~Owned(e[1])})
\* What the context carries replaces what the tool set itself.
apply_call_context ==
  /\ req # None /\ req.layers = <<>> /\ req.sent = None
  /\ LET md == IF req.context = None THEN {} ELSE forward_metadata(req.context) IN
     req' = [req EXCEPT !.sent = md \union {<<k, "tool">> : k \in {"k1", "own"} \ {e[1] : e \in md}}]
  /\ UNCHANGED <<svc, group, sets, served, left>>

Next ==
  \/ \E f \in DOMAIN Values : Set(f)
  \/ \E f \in DOMAIN GroupValues : SetGroup(f)
  \/ config \/ ServerConfig \/ Serve
  \/ Begin \/ Layer \/ apply_call_context

Spec == Init /\ [][Next]_hvars

-----------------------------------------------------------------------------
(* Properties *)

\* "An MCP call carries the same credentials and trace ids as the wire RPC":
\* what a tool's in-process call sends under a mapped key is this caller's or
\* nothing, a header set on the request arrives whichever layer mapped it, and
\* no key of the transport is ever written.
CallerIsCaller ==
  (req # None /\ req.sent # None /\ req.kind # "list") =>
    LET mapped == svc.headers \union served.headers IN
    /\ \A e \in req.sent : e[2] \in {"caller", "empty", "tool"} /\ ~Owned(e[1])
    /\ req.http # None =>
         \A m \in mapped : (req.http[m[1]] = "set" /\ ~Owned(m[2])) => <<m[2], "caller">> \in req.sent
    /\ \A e \in req.sent : e[2] = "tool" => e[1] \in {"own", "k1"}

\* A service in a group behaves as it was declared: the group's chain runs once
\* outside the member's own, the extra arguments a list adds to a tool are the
\* ones a call takes out again, and a cache hint of the member reaches the client.
ServedAsDeclared ==
  (req # None /\ req.layers = <<>>) =>
    /\ req.kind = "call" => /\ [i \in DOMAIN req.seen |-> req.seen[i][1]] = group.chain \o svc.chain
                            /\ req.args \intersect svc.extras = {} /\ req.extras \subseteq svc.extras
    /\ req.kind = "list" => svc.extras \subseteq req.args /\ req.stamp = svc.cache
    /\ req.kind = "read" => /\ req.stamp = (IF svc.rcache # None THEN svc.rcache ELSE svc.cache)
                            /\ req.by = (IF svc.handler THEN "handler" ELSE "inner")

\* The announced endpoint is mounted: at that path and port there is a route of
\* the announced transport, but for a base path that is empty or ends in a slash
\* (announced as written, mounted without), an SSE mount (announced without its
\* slash) and an IPv6 address (split at its first colon).
EndpointReached ==
  (served # None /\ served.endpoint # None) =>
    LET e == served.endpoint IN
    /\ (svc.base \in {"/", "/mcp", "/x"} /\ e.transport = "http") => <<e.transport, e.path>> \in served.routes
    /\ Addr # "v6" => e.port = served.port
=============================================================================
