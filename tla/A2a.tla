-------------------------------- MODULE A2a ---------------------------------
(***************************************************************************)
(* A2A services: configuration, endpoints and the agent card               *)
(* (agents/src/a2a/config.rs, endpoint.rs, card.rs), start_server with its *)
(* shared or owned mux (serve.rs), and the gRPC binding (grpc.rs).         *)
(*                                                                         *)
(* A path is the sequence of what stands between its slashes.              *)
(***************************************************************************)
EXTENDS Integers, Sequences, FiniteSets

CONSTANTS
  Services,
  Setups,     \* for each service the configuration it is built with
  None

VARIABLES
  cfg,        \* cfg[s]: the configuration, resolved by start_server
  at,         \* at[s]: where serve is
  routes,     \* protocol routes on the muxes: <<mux, path, transport, service>>
  card,       \* card[m]: the service whose card mux m answers with
  grpc,       \* services registered on the gRPC routes
  lost,       \* muxes, and "grpc", emptied and poisoned by a panic under their lock
  announced,  \* announced[s]: the endpoints its Ready was given, or None
  cancelled,
  drain       \* drain[s]: the owned listener: none, serving, draining, closed

vars == <<cfg, at, routes, card, grpc, lost, announced, cancelled, drain>>

Default == <<"a2a">>
Http == {"jsonrpc", "rest"}

-----------------------------------------------------------------------------
(* Configuration *)

resolved_transports(c) ==
  CASE c.transports # {} -> c.transports
    [] c.transports = {} /\ c.transport # None -> {c.transport}
    [] OTHER -> {"jsonrpc"}

Segment(done, part) ==
  CASE part \in {"", "."} -> done
    [] part = ".." -> IF done = <<>> THEN done ELSE SubSeq(done, 1, Len(done) - 1)
    [] OTHER -> Append(done, part)
clean_rooted(path) ==
  LET upto[n \in 0..Len(path)] == IF n = 0 THEN <<>> ELSE Segment(upto[n - 1], path[n])
  IN upto[Len(path)]
\* The empty path is the default; the root is written "/", two empty parts.
normalize_base_path(path) == IF path = None THEN Default ELSE clean_rooted(path)
resolved_base_path(c) ==
  IF c.generated # None THEN clean_rooted(c.generated) ELSE normalize_base_path(c.base)

\* What a service says of itself; a gRPC interface is an authority without a path.
public_url_for(c, t) == IF t = "grpc" THEN None ELSE resolved_base_path(c)
server_endpoints(c) == {[transport |-> t, path |-> public_url_for(c, t)] : t \in resolved_transports(c)}
build_card(c) == server_endpoints(c)
AGENT_CARD_PATH == <<".well-known", "agent-card">>
card_url(c) == IF ~c.serveCard /\ c.mux # None THEN None ELSE AGENT_CARD_PATH

Parts == STRING \cup {"", ".", "..", "a2a"}
Paths == Seq(Parts)
Configurations ==
  [transports : SUBSET (Http \cup {"grpc"}), transport : Http \cup {"grpc", None},
   base : Paths \cup {None}, generated : Paths \cup {None},
   mux : {"shared", None}, serveCard : BOOLEAN, grpcRoutes : BOOLEAN]
A2aAssumption ==
  /\ Setups \subseteq [Services -> Configurations]
  /\ None \notin Services \cup {"shared", "jsonrpc", "rest", "grpc"} \cup Paths
  /\ {"shared", "grpc"} \cap Services = {}

-----------------------------------------------------------------------------
Init ==
  /\ cfg \in Setups
  /\ at = [s \in Services |-> "resolve"]
  /\ routes = {} /\ grpc = {} /\ lost = {}
  /\ card = [m \in {"shared"} \cup Services |-> None]
  /\ announced = [s \in Services |-> None]
  /\ cancelled = FALSE
  /\ drain = [s \in Services |-> "none"]

Mux(s) == IF cfg[s].mux # None THEN cfg[s].mux ELSE s
Owns(s) == cfg[s].mux = None
Go(s, to) == at' = [at EXCEPT ![s] = to]

\* Mutant: the path is taken as it is written.
Unresolved(c) == IF c.generated # None THEN c.generated ELSE IF c.base = None THEN <<"", "a2a">> ELSE c.base
Resolved(c) == <<"">> \o resolved_base_path(c)

\* The configuration is resolved once; an owned mux always serves the card.
Resolve(s) ==
  /\ at[s] = "resolve"
  /\ cfg' = [cfg EXCEPT ![s] =
       [cfg[s] EXCEPT !.transports = resolved_transports(cfg[s]), !.base = Resolved(cfg[s]),
                      !.generated = None, !.serveCard = @ \/ Owns(s)]]
  /\ Go(s, "register")
  /\ UNCHANGED <<routes, card, grpc, lost, announced, cancelled, drain>>

\* The gRPC registry takes each service name once: tonic panics at the second under the
\* registry's lock, which is poisoned with the registry empty.
RegisterGrpc(s) ==
  /\ at[s] = "register"
  /\ \/ "grpc" \notin cfg[s].transports /\ Go(s, "mount") /\ UNCHANGED <<grpc, lost>>
     \/ /\ "grpc" \in cfg[s].transports /\ ~cfg[s].grpcRoutes
        /\ Go(s, "failed") /\ UNCHANGED <<grpc, lost>>
     \/ /\ "grpc" \in cfg[s].transports /\ cfg[s].grpcRoutes
        /\ IF grpc = {} /\ "grpc" \notin lost
           THEN Go(s, "mount") /\ grpc' = {s} /\ UNCHANGED lost
           ELSE Go(s, "panicked") /\ grpc' = {} /\ lost' = lost \cup {"grpc"}
  /\ UNCHANGED <<cfg, routes, card, announced, cancelled, drain>>

\* JSON-RPC and REST cannot share the root; elsewhere their routes are distinct, and
\* two routes of one transport at one path overlap.
Nested(s) == Tail(cfg[s].base)
Conflict(s) == Http \subseteq cfg[s].transports /\ Nested(s) = <<>>
Own(s) == {<<Mux(s), Nested(s), t, s>> : t \in cfg[s].transports \cap Http}
Overlap(s) == \E r \in routes, q \in Own(s) : r[1] = q[1] /\ r[2] = q[2] /\ r[3] = q[3]
On(m) == {r \in routes : r[1] = m}

\* Whether something answers at the card's path: a card, or a JSON-RPC route there.
card_path_taken(m, router) ==
  card[m] # None \/ \E r \in router : r[1] = m /\ r[2] = AGENT_CARD_PATH /\ r[3] = "jsonrpc"
MountCard(s) ==
  IF cfg[s].serveCard /\ ~card_path_taken(Mux(s), routes') THEN [card EXCEPT ![Mux(s)] = s] ELSE card

\* A mount takes the router out of its mux and puts back what it made of it.  axum panics
\* at an overlap, under the lock: the mux stays empty, and poisoned for every later mount.
mount_http(s) ==
  /\ at[s] = "mount"
  /\ \/ Own(s) = {} /\ Go(s, "ready") /\ UNCHANGED <<routes, card, lost>>
     \/ Conflict(s) /\ Go(s, "failed") /\ UNCHANGED <<routes, card, lost>>
     \/ /\ Own(s) # {} /\ ~Conflict(s)
        /\ IF Mux(s) \notin lost /\ ~Overlap(s)
           THEN /\ routes' = routes \cup Own(s) /\ card' = MountCard(s)
                /\ Go(s, "ready") /\ UNCHANGED lost
           ELSE /\ routes' = routes \ On(Mux(s)) /\ card' = [card EXCEPT ![Mux(s)] = None]
                /\ Go(s, "panicked") /\ lost' = lost \cup {Mux(s)}
  /\ UNCHANGED <<cfg, grpc, announced, cancelled, drain>>

notify_ready(s) ==
  /\ at[s] = "ready"
  /\ announced' = [announced EXCEPT ![s] = server_endpoints(cfg[s])]
  /\ Go(s, IF Owns(s) /\ cfg[s].transports \cap Http # {} THEN "bind" ELSE "waiting")
  /\ UNCHANGED <<cfg, routes, card, grpc, lost, cancelled, drain>>

Bind(s) ==
  /\ at[s] = "bind"
  /\ \/ Go(s, "serving") /\ drain' = [drain EXCEPT ![s] = "serving"]
     \/ Go(s, "failed") /\ UNCHANGED drain
  /\ UNCHANGED <<cfg, routes, card, grpc, lost, announced, cancelled>>

Cancel ==
  /\ ~cancelled /\ cancelled' = TRUE
  /\ UNCHANGED <<cfg, at, routes, card, grpc, lost, announced, drain>>

\* A service on a shared mux returns; an owned listener drains first.
Cancelled(s) ==
  /\ cancelled
  /\ \/ at[s] = "waiting" /\ Go(s, "ended") /\ UNCHANGED drain
     \/ at[s] = "serving" /\ Go(s, "draining") /\ drain' = [drain EXCEPT ![s] = "draining"]
  /\ UNCHANGED <<cfg, routes, card, grpc, lost, announced, cancelled>>

\* The listener fails while it serves, or its last request ends.
ListenerEnds(s) ==
  /\ drain[s] \in {"serving", "draining"}
  /\ drain' = [drain EXCEPT ![s] = "closed"]
  /\ UNCHANGED <<cfg, at, routes, card, grpc, lost, announced, cancelled>>

ServeReturns(s) ==
  /\ at[s] \in {"serving", "draining"} /\ drain[s] = "closed"
  /\ Go(s, "ended")
  /\ UNCHANGED <<cfg, routes, card, grpc, lost, announced, cancelled, drain>>

\* SHUTDOWN_TIMEOUT: the listener is aborted.
DrainTimeout(s) ==
  /\ at[s] = "draining" /\ drain[s] = "draining"
  /\ drain' = [drain EXCEPT ![s] = "closed"]
  /\ Go(s, "ended")
  /\ UNCHANGED <<cfg, routes, card, grpc, lost, announced, cancelled>>

Next ==
  \/ Cancel
  \/ \E s \in Services :
       \/ Resolve(s) \/ RegisterGrpc(s) \/ mount_http(s) \/ notify_ready(s) \/ Bind(s)
       \/ Cancelled(s) \/ ListenerEnds(s) \/ ServeReturns(s) \/ DrainTimeout(s)

Spec == Init /\ [][Next]_vars

-----------------------------------------------------------------------------
(* Properties *)

\* The registry of one transport of s, and whether two services want one place in it.
Registry(s, t) == IF t = "grpc" THEN "grpc" ELSE Mux(s)
Clash(s, u) ==
  {Registry(s, t) : t \in {x \in cfg[s].transports \cap cfg[u].transports :
     Registry(s, x) = Registry(u, x) /\ (x = "grpc" \/ Nested(s) = Nested(u))}}

\* What a service announces is where it is mounted, for every spelling of its path: the
\* path is resolved for the router, for the endpoints and for the card in different places
\* and more than once.  A card names only interfaces that are served, and once a service
\* with a card URL is ready its mux answers there, with the card mounted first.  All this
\* until a mount panics under the lock of a shared mux, which takes down every service
\* announced there; only two services with the same transport at the same place do that.
AnnouncedIsServed ==
  /\ \A s \in Services : announced[s] # None =>
       /\ \A e \in announced[s] \cup build_card(cfg[s]) :
            \/ Registry(s, e.transport) \in lost
            \/ IF e.transport = "grpc" THEN s \in grpc
               ELSE <<Mux(s), e.path, e.transport, s>> \in routes
       /\ (card_url(cfg[s]) # None /\ Own(s) # {}) =>
            Mux(s) \in lost \/ card_path_taken(Mux(s), routes)
  /\ \A m \in lost : \E s, u \in Services : s # u /\ m \in Clash(s, u)
=============================================================================
