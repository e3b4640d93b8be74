---------------------------- MODULE AgentRuntime -----------------------------
(***************************************************************************)
(* The agent runtime: agents/src/start.rs, placement.rs, lifecycle.rs and  *)
(* mux.rs.  Services are grouped by the address they ask for; every        *)
(* listener is bound first, then the services mount one after the other,   *)
(* and only then are the finished routers served.                          *)
(***************************************************************************)
EXTENDS Naturals, FiniteSets, Sequences

CONSTANTS
  Services, Addresses, None,
  Requires,    \* Requires[s]: [addr, http, grpc] of a service
  HostMux,     \* the address of a mux the host serves itself, or None
  GrpcRoutes   \* the host handed over a route registry

VARIABLES
  started,     \* State::started
  pc,          \* start: idle, mounting, awaiting (the task of a service that will not report), failed, up
  todo,        \* the services still to mount, in the order of their groups
  bound,       \* addresses with an open listener
  svc,         \* svc[s]: none, mounting, dropped (runs on, but will never report), ready, gone (its task has ended)
  mux,         \* mux[a]: the services whose routes are mounted at a
  routes,      \* the services registered on the gRPC routes
  served,      \* served[a]: the routes of the router being served at a, or None
  cancelled,   \* the caller's token
  told,        \* service_cancel is cancelled
  drain,       \* the drain token is cancelled
  down,        \* shutdown: idle, or the listeners it still waits for
  errors       \* listeners that did not drain in time

\* A service asks for one of the addresses.
RuntimeAssumption ==
  /\ IsFiniteSet(Services)
  /\ Requires \in [Services -> [addr : Addresses, http : BOOLEAN, grpc : BOOLEAN]]

vars == <<started, pc, todo, bound, svc, mux, routes, served, cancelled, told, drain, down, errors>>

Group(a) == {s \in Services : Requires[s].addr = a}
\* group: an owned group with an HTTP service gets a listener of its own.
Owned(a) == a # HostMux
Listens(a) == Owned(a) /\ \E s \in Group(a) : Requires[s].http

\* Groups are mounted in the order of their addresses, a group's services in theirs.
Orders ==
  {q \in [1..Cardinality(Services) -> Services] :
     /\ \A m, n \in DOMAIN q : m # n => q[m] # q[n]
     /\ \A l, m, n \in DOMAIN q :
          l < m /\ m < n /\ Requires[q[l]].addr = Requires[q[n]].addr
          => Requires[q[m]].addr = Requires[q[l]].addr}

Init ==
  /\ started = FALSE /\ pc = "idle" /\ todo = <<>>
  /\ bound = {} /\ svc = [s \in Services |-> "none"]
  /\ mux = [a \in Addresses |-> {}] /\ routes = {}
  /\ served = [a \in Addresses |-> None]
  /\ cancelled = FALSE /\ told = FALSE /\ drain = FALSE
  /\ down = None /\ errors = {}

\* start: refused a second time; a failed start stays started.
Start ==
  /\ ~started /\ Services # {}
  /\ started' = TRUE
  /\ IF \E s \in Services : Requires[s].grpc /\ ~GrpcRoutes
     THEN pc' = "failed" /\ UNCHANGED <<todo, bound>>
     ELSE \/ /\ bound' = {a \in Addresses : Listens(a)}
             /\ pc' = "mounting" /\ todo' \in Orders
          \/ pc' = "failed" /\ UNCHANGED <<todo, bound>>      \* an address in use
  /\ UNCHANGED <<svc, mux, routes, served, cancelled, told, drain, down, errors>>

Mounting(s) == pc = "mounting" /\ todo # <<>> /\ Head(todo) = s

\* The next service is spawned.
Mount(s) ==
  /\ Mounting(s) /\ svc[s] = "none"
  /\ svc' = [svc EXCEPT ![s] = "mounting"]
  /\ UNCHANGED <<started, pc, todo, bound, mux, routes, served, cancelled, told, drain, down, errors>>

\* The service mounts its routes on the mux and the registry, and reports ready.
Ready(s) ==
  /\ svc[s] = "mounting" /\ Mounting(s)
  /\ svc' = [svc EXCEPT ![s] = "ready"]
  /\ mux' = [mux EXCEPT ![Requires[s].addr] = IF Requires[s].http THEN @ \cup {s} ELSE @]
  /\ routes' = IF Requires[s].grpc THEN routes \cup {s} ELSE routes
  /\ todo' = Tail(todo)
  /\ UNCHANGED <<started, pc, bound, served, cancelled, told, drain, down, errors>>

\* Its task drops the sender without a report, and may run on.
DropReady(s) ==
  /\ svc[s] = "mounting" /\ svc' = [svc EXCEPT ![s] = "dropped"]
  /\ UNCHANGED <<started, pc, todo, bound, mux, routes, served, cancelled, told, drain, down, errors>>

\* Mutant: the services already mounted are neither told nor aborted.
GiveUpPlain(s) == UNCHANGED <<told, svc>>
\* The services are told, and the tasks of those mounted before s are aborted.
GiveUp(s) ==
  /\ told' = TRUE
  /\ svc' = [t \in Services |-> IF svc[t] = "ready" THEN "gone" ELSE svc[t]]

\* wait_ready: the timeout passed, or the caller cancelled; the task of s is aborted too.
MountFails(s) ==
  /\ Mounting(s) /\ svc[s] = "mounting"
  /\ pc' = "failed" /\ bound' = {} /\ told' = TRUE
  /\ svc' = [t \in Services |-> IF t = s \/ svc[t] = "ready" THEN "gone" ELSE svc[t]]
  /\ UNCHANGED <<started, todo, mux, routes, served, cancelled, drain, down, errors>>

\* wait_ready: the sender was dropped.  The start gives up, but not before the task has ended.
MountDropped(s) ==
  /\ Mounting(s) /\ svc[s] \in {"dropped", "gone"}
  /\ GiveUp(s) /\ pc' = "awaiting"
  /\ UNCHANGED <<started, todo, bound, mux, routes, served, cancelled, drain, down, errors>>
StartFails ==
  /\ pc = "awaiting" /\ \A s \in Services : svc[s] # "dropped"
  /\ pc' = "failed" /\ bound' = {}
  /\ UNCHANGED <<started, todo, svc, mux, routes, served, cancelled, told, drain, down, errors>>

\* Mutant: the routers are the ones of the bound groups, whatever has been mounted.
ServeGroupsEarly == pc = "mounting" /\ \A s \in Services : svc[s] # "none"
\* serve_groups: every service is mounted.
AllMounted == pc = "mounting" /\ todo = <<>>

ServeGroups ==
  /\ AllMounted
  /\ served' = [a \in Addresses |-> IF a \in bound THEN mux[a] ELSE None]
  /\ pc' = "up"
  /\ UNCHANGED <<started, todo, bound, svc, mux, routes, cancelled, told, drain, down, errors>>

Cancel ==
  /\ ~cancelled /\ cancelled' = TRUE
  /\ told' = (told \/ pc \in {"mounting", "awaiting", "up"})          \* service_cancel is its child
  /\ UNCHANGED <<started, pc, todo, bound, svc, mux, routes, served, drain, down, errors>>

\* A service may end when it is told, on its own, or never.
ServiceEnds(s) ==
  /\ svc[s] \in {"mounting", "dropped", "ready"}
  /\ svc' = [svc EXCEPT ![s] = "gone"]
  /\ UNCHANGED <<started, pc, todo, bound, mux, routes, served, cancelled, told, drain, down, errors>>

\* shutdown, of a runtime that has started (serve) or whose start has failed.
Shutdown ==
  /\ pc \in {"up", "failed"} /\ down = None
  /\ down' = IF pc = "up" THEN bound ELSE {}
  /\ told' = (told \/ pc = "up") /\ drain' = (pc = "up")
  /\ UNCHANGED <<started, pc, todo, bound, svc, mux, routes, served, cancelled, errors>>

\* A listener's task ends once its connections have.
ListenerEnds(a) ==
  /\ a \in bound /\ drain
  /\ bound' = bound \ {a} /\ served' = [served EXCEPT ![a] = None]
  /\ UNCHANGED <<started, pc, todo, svc, mux, routes, cancelled, told, drain, down, errors>>

\* Mutant: a listener is waited for until it has drained.
JoinPatient(a) ==
  /\ down # None /\ a \in down \ bound
  /\ down' = down \ {a}
  /\ UNCHANGED <<started, pc, todo, bound, svc, mux, routes, served, cancelled, told, drain, errors>>
\* Each listener in turn is waited for; past the timeout it is an error and left alone.
Join(a) ==
  /\ down # None /\ a \in down
  /\ down' = down \ {a}
  /\ errors' = IF a \in bound THEN errors \cup {a} ELSE errors
  /\ UNCHANGED <<started, pc, todo, bound, svc, mux, routes, served, cancelled, told, drain>>

Next ==
  \/ Start \/ StartFails \/ ServeGroups \/ Cancel \/ Shutdown
  \/ \E s \in Services : Mount(s) \/ Ready(s) \/ DropReady(s) \/ MountFails(s) \/ MountDropped(s) \/ ServiceEnds(s)
  \/ \E a \in Addresses : ListenerEnds(a) \/ Join(a)

\* The runtime takes its own steps, and its timers fire; no service is asked to move.
Fairness ==
  /\ WF_vars(ServeGroups) /\ WF_vars(StartFails)
  /\ \A s \in Services : WF_vars(Mount(s)) /\ WF_vars(MountFails(s)) /\ WF_vars(MountDropped(s))
  /\ \A a \in Addresses : WF_vars(Join(a))

Spec == Init /\ [][Next]_vars /\ Fairness

-----------------------------------------------------------------------------
(* Properties *)

\* What is served is complete: a listener answers for every HTTP service of its group and
\* the registry holds every gRPC service, whatever order they mounted in.
ServedIsMounted ==
  pc = "up" =>
    /\ \A a \in Addresses : served[a] # None => served[a] = {s \in Group(a) : Requires[s].http}
    /\ \A s \in Services : Requires[s].grpc => s \in routes

\* A start that failed left no listener and no service that still runs, and the runtime
\* refuses to be started again.
FailedStartIsClean ==
  pc = "failed" => started /\ bound = {} /\ \A s \in Services : svc[s] \in {"none", "gone"}

\* A start ends, unless a service dropped its sender and its task runs on for ever: that wait
\* has no timeout.  A shutdown ends whatever a service or a client does.
RuntimeWaitsEnd ==
  /\ pc \in {"mounting", "awaiting"} ~> pc \in {"up", "failed"} \/ \E s \in Services : svc[s] = "dropped"
  /\ down # None ~> down = {}
=============================================================================
