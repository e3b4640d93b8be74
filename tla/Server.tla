------------------------------- MODULE Server -------------------------------
(***************************************************************************)
(* The hybrid server's life: grpc/src/lifecycle.rs, server.rs, validate.rs,*)
(* listener/ and http/, with the agent runtime of agent_runtime.rs as two  *)
(* more listeners.                                                         *)
(*                                                                         *)
(* A start binds and spawns one task per enabled component; each task owns *)
(* a listening socket and serves connections.  A stop takes the handles    *)
(* out of the shared state, cancels, drains, and gives up at a timeout.    *)
(* Tasks of an earlier start may still be draining when the next begins,   *)
(* so a task is a component and the number of the start that spawned it.   *)
(***************************************************************************)
EXTENDS Integers, FiniteSets

CONSTANTS
  Configs,    \* the options a server is built with; bounds: its starts and its clients
  Clients, Stoppers, Cleanup, None,
  MaxPort,    \* the largest port: 65535
  MaxStarts,  \* bound: the largest bound on starts
  MaxConns    \* GrpcLimits::max_connections

VARIABLES
  cfg,        \* the validated options
  socket,     \* socket[a]: the task that listens on address a, or None
  gen,        \* starts attempted
  task,       \* task[t]: none, bound, serving, draining, done
  token,      \* tasks whose shutdown token is cancelled
  abort,      \* starts whose gRPC connections are told to fail
  state,      \* Running: the tasks a stop would find
  start,      \* the step of the start in progress, or idle, or failed
  stop,       \* stop[s]: the stop called by s
  conn,       \* conn[k]: the connection of client k, or None
  slots,      \* slots[g]: free permits of the connection limit
  permit      \* permit[g]: the acceptor holds a permit and waits for a client

serverVars == <<cfg, socket, gen, task, token, abort, state, start, stop, conn, slots, permit>>

Agents == {"mcp", "a2a"}
Components == {"grpc", "http", "http3"} \cup Agents
Gens == 1..MaxStarts
Tasks == Components \X Gens

Ports == 0..MaxPort
Config ==
  [on : SUBSET Components, tls : BOOLEAN, overflow : {"queue", "refuse"}, drain : BOOLEAN,
   idle : BOOLEAN, dialsGrpc : BOOLEAN, grpc : Ports, http : Ports, mcp : Ports, a2a : Ports,
   starts : 0..MaxStarts, clients : SUBSET Clients]
Connection == [at : Tasks, phase : {"queued", "open"}, call : {"none", "busy", "stuck"}]

\* What the constants are meant to be.
ServerAssumption ==
  /\ MaxPort \in Nat /\ MaxStarts \in Nat /\ MaxConns \in Nat
  /\ IsFiniteSet(Clients)
  /\ Configs \subseteq Config
  /\ None \notin Tasks \cup Connection

-----------------------------------------------------------------------------
(* Options *)

\* 0: InvalidPort, which ends the derivation of the ports after it too.
next_port(p) == IF p \in {0, MaxPort} THEN 0 ELSE p + 1

\* Default MCP and A2A ports follow the HTTP port.
Defaulted(c) ==
  LET mcp == IF "mcp" \in c.on /\ c.mcp = 0 /\ c.http # 0 THEN next_port(c.http) ELSE c.mcp
      base == IF mcp = 0 THEN next_port(c.http) ELSE mcp
      a2a == IF "a2a" \in c.on /\ c.a2a = 0 /\ (c.http # 0 \/ mcp # 0) THEN next_port(base) ELSE c.a2a
  IN [c EXCEPT !.mcp = mcp, !.a2a = a2a]

\* validate_options and validate_grpc_listener.
Valid(c) ==
  LET d == Defaulted(c) IN
  /\ "mcp" \in c.on => d.mcp # 0
  /\ "a2a" \in c.on => d.a2a # 0
  /\ "http3" \in c.on => c.tls /\ c.http # 0 /\ next_port(c.http) # 0
  /\ c.dialsGrpc => "grpc" \in c.on

Addr(c) ==
  CASE c = "http3" -> <<"udp", next_port(cfg.http)>>
    [] c = "grpc"  -> <<"tcp", cfg.grpc>>
    [] c = "http"  -> <<"tcp", cfg.http>>
    [] c = "mcp"   -> <<"tcp", cfg.mcp>>
    [] c = "a2a"   -> <<"tcp", cfg.a2a>>

-----------------------------------------------------------------------------
(* Sockets and connections *)

At(t) == {k \in Clients : conn[k] # None /\ conn[k].at = t}
Open(t) == {k \in At(t) : conn[k].phase = "open"}
Queued(t) == At(t) \ Open(t)

\* The tasks of T stop listening: their sockets are free, their backlogs are reset.
Unlisten(T) == socket' = [a \in DOMAIN socket |-> IF socket[a] \in T THEN None ELSE socket[a]]
Hangs(K) == conn' = [k \in Clients |-> IF k \in K THEN None ELSE conn[k]]
Backlog(T) == UNION {Queued(t) : t \in T}
Phase(T, p) == task' = [t \in Tasks |-> IF t \in T THEN p ELSE task[t]]

Idle == [pc |-> "idle", held |-> {}, late |-> {}]

Init ==
  /\ cfg \in Configs
  /\ socket = [a \in {"tcp", "udp"} \X (1..MaxPort) |-> None]
  /\ gen = 0 /\ start = "idle"
  /\ task = [t \in Tasks |-> "none"]
  /\ token = {} /\ abort = {} /\ state = {}
  /\ stop = [s \in Stoppers \cup {Cleanup} |-> Idle]
  /\ conn = [k \in Clients |-> None]
  /\ slots = [g \in Gens |-> MaxConns]
  /\ permit = [g \in Gens |-> FALSE]

-----------------------------------------------------------------------------
(* HybridServer::start *)

AtRest == start \in {"idle", "failed"}
Calling == {s \in Stoppers \cup {Cleanup} : stop[s].pc = "draining"}

\* The borrow of start is exclusive: no stop runs beside it.
Start ==
  /\ AtRest /\ Calling = {} /\ gen < cfg.starts
  /\ gen' = gen + 1
  /\ IF Valid(cfg)
     THEN start' = "grpc" /\ cfg' = Defaulted(cfg)
     ELSE UNCHANGED <<start, cfg>>
  /\ stop' = [s \in DOMAIN stop |-> Idle]
  /\ UNCHANGED <<socket, task, token, abort, state, conn, slots, permit>>

\* Mutant: what came up before the failure is left running.
FailPlain ==
  /\ start' = "failed"
  /\ UNCHANGED <<stop, token, state>>
\* A failed step: the stop that cleans up begins.
Fail ==
  /\ start' = "cleanup"
  /\ stop' = [stop EXCEPT ![Cleanup] = [pc |-> "draining", held |-> state, late |-> {}]]
  /\ token' = token \cup state
  /\ state' = {}

\* Listeners this start has bound and not handed to a task yet are dropped.
Unspawned == {t \in Tasks : task[t] = "bound"}
FailStart ==
  /\ Fail
  /\ Unlisten(Unspawned) /\ Phase(Unspawned, "none") /\ Hangs(Backlog(Unspawned))
  /\ UNCHANGED <<cfg, gen, abort, slots, permit>>

\* Every component of C that is on listens; FailStart when an address is taken.
Bind(C, next) ==
  LET T == {<<c, gen>> : c \in C \cap cfg.on} IN
  /\ \A t \in T : socket[Addr(t[1])] = None
  /\ \A t, u \in T : t # u => Addr(t[1]) # Addr(u[1])
  /\ socket' = [a \in DOMAIN socket |->
                  IF \E t \in T : Addr(t[1]) = a THEN CHOOSE t \in T : Addr(t[1]) = a ELSE socket[a]]
  /\ Phase(T, "bound")
  /\ start' = next
  /\ UNCHANGED <<cfg, gen, token, abort, state, stop, conn, slots, permit>>

\* The bound listeners of C are spawned and their handles stored.
Spawn(C, next) ==
  LET T == {t \in Unspawned : t[1] \in C} IN
  /\ Phase(T, "serving")
  /\ state' = state \cup T
  /\ start' = next
  /\ UNCHANGED <<cfg, socket, gen, token, abort, stop, conn, slots, permit>>

\* start_grpc_server: the gRPC listener first, then the agent runtime, which registers on
\* the routes, then the gRPC task; start_http3 and start_http after it.
StartGrpc    == start = "grpc"    /\ Bind({"grpc"}, "agents")
StartAgents  == start = "agents"  /\ Bind(Agents, "mount")
MountAgents  == start = "mount"   /\ Spawn(Agents, "serve")
ServeGrpc    == start = "serve"   /\ Spawn({"grpc"}, "http3")
BindHttp3    == start = "http3"   /\ Bind({"http3"}, "serve3")
StartHttp3   == start = "serve3"  /\ Spawn({"http3"}, "http")
BindHttp     == start = "http"    /\ Bind({"http"}, "serve1")
StartHttp    == start = "serve1"  /\ Spawn({"http"}, "idle")

Starting == ~AtRest /\ start # "cleanup"
\* An address in use, an agent that does not mount, credentials or a gateway refused.
StartError == Starting /\ FailStart

StartReturnsErr ==
  /\ start = "cleanup" /\ stop[Cleanup].pc # "draining"
  /\ start' = "failed"
  /\ UNCHANGED <<cfg, socket, gen, task, token, abort, state, stop, conn, slots, permit>>

-----------------------------------------------------------------------------
(* HybridServer::stop *)

StopBegin(s) ==
  /\ AtRest /\ stop[s] = Idle
  /\ stop' = [stop EXCEPT ![s] = [pc |-> "draining", held |-> state, late |-> {}]]
  /\ token' = token \cup state
  /\ state' = {}
  /\ UNCHANGED <<cfg, socket, gen, task, abort, start, conn, slots, permit>>

\* Runtime::shutdown gives up on a listener that does not drain in time.
AgentLate(s, t) ==
  /\ stop[s].pc = "draining" /\ t \in stop[s].held /\ t[1] \in Agents
  /\ task[t] = "draining"
  /\ stop' = [stop EXCEPT ![s].late = @ \cup {t}]
  /\ UNCHANGED <<cfg, socket, gen, task, token, abort, state, start, conn, slots, permit>>

\* Mutant: the agents and the gRPC task are joined, the HTTP tasks are not.
JoinSome(s) == \A t \in stop[s].held \ stop[s].late : t[1] \in {"http", "http3"} \/ task[t] = "done"
Joined(s) == \A t \in stop[s].held \ stop[s].late : task[t] = "done"

StopJoin(s) ==
  /\ stop[s].pc = "draining" /\ Joined(s)
  /\ stop' = [stop EXCEPT ![s].pc = IF @ = "draining" /\ stop[s].late = {} THEN "ok" ELSE "drain"]
  /\ UNCHANGED <<cfg, socket, gen, task, token, abort, state, start, conn, slots, permit>>

\* Mutant: the connections tonic spawned are not told.
NoAbort(T) == UNCHANGED abort
CutGrpc(T) == abort' = abort \cup {t[2] : t \in {u \in T : u[1] = "grpc"}}

\* Aborting h1_tls drops its connection set; plaintext connections are tasks of their own.
DiesWith(T) == UNION {IF t[1] = "http" /\ cfg.tls THEN At(t) ELSE Queued(t) : t \in T}

StopTimeout(s) ==
  /\ stop[s].pc = "draining"
  /\ LET T == {t \in stop[s].held : t[1] \notin Agents /\ task[t] # "done"} IN
     Phase(T, "done") /\ Unlisten(T) /\ Hangs(DiesWith(T)) /\ CutGrpc(stop[s].held)
  /\ stop' = [stop EXCEPT ![s].pc = "timeout"]
  /\ UNCHANGED <<cfg, gen, token, state, start, slots, permit>>

-----------------------------------------------------------------------------
(* The serving tasks *)

\* The token reaches the task: it stops accepting.  HTTP/3 closes its connections at once.
Quit(t) ==
  /\ task[t] = "serving" /\ t \in token
  /\ Phase({t}, "draining") /\ Unlisten({t})
  /\ Hangs(IF t[1] = "http3" THEN At(t) ELSE Queued(t))
  /\ slots' = [slots EXCEPT ![t[2]] = IF t[1] = "grpc" /\ permit[t[2]] THEN @ + 1 ELSE @]
  /\ permit' = [permit EXCEPT ![t[2]] = IF t[1] = "grpc" THEN FALSE ELSE @]
  /\ UNCHANGED <<cfg, gen, token, abort, state, start, stop>>

End(t) ==
  /\ task[t] = "draining" /\ Open(t) = {}
  /\ Phase({t}, "done")
  /\ UNCHANGED <<cfg, socket, gen, token, abort, state, start, stop, conn, slots, permit>>

\* drain_bounded: the drain timeout of the limits has passed.
DrainDeadline(g) ==
  /\ cfg.drain /\ task[<<"grpc", g>>] = "draining" /\ g \notin abort
  /\ CutGrpc({<<"grpc", g>>})
  /\ UNCHANGED <<cfg, socket, gen, task, token, state, start, stop, conn, slots, permit>>

-----------------------------------------------------------------------------
(* Connections *)

Others == <<cfg, socket, gen, task, token, abort, state, start, stop>>

\* A client connects; the operating system queues it.
Connect(k, c) ==
  /\ conn[k] = None /\ k \in cfg.clients
  /\ c \in cfg.on /\ Addr(c) \in DOMAIN socket /\ socket[Addr(c)] # None /\ socket[Addr(c)][1] = c
  /\ conn' = [conn EXCEPT ![k] = [at |-> socket[Addr(c)], phase |-> "queued", call |-> "none"]]
  /\ UNCHANGED <<Others, slots, permit>>

Limited(t) == t[1] = "grpc"

\* Accepting::next with Overflow::Queue: a permit before the accept.
TakePermit(g) ==
  /\ cfg.overflow = "queue" /\ task[<<"grpc", g>>] = "serving"
  /\ ~permit[g] /\ slots[g] > 0
  /\ permit' = [permit EXCEPT ![g] = TRUE]
  /\ slots' = [slots EXCEPT ![g] = @ - 1]
  /\ UNCHANGED <<Others, conn>>

\* Mutant: the permit of a failed accept is forgotten.
ForgetPermit(g) ==
  /\ permit[g] /\ task[<<"grpc", g>>] = "serving"
  /\ permit' = [permit EXCEPT ![g] = FALSE]
  /\ UNCHANGED <<Others, conn, slots>>
\* A failed accept starts over after a pause, the permit returned.
AcceptFail(g) ==
  /\ permit[g] /\ task[<<"grpc", g>>] = "serving"
  /\ permit' = [permit EXCEPT ![g] = FALSE]
  /\ slots' = [slots EXCEPT ![g] = @ + 1]
  /\ UNCHANGED <<Others, conn>>

Accept(k) ==
  /\ conn[k] # None /\ conn[k].phase = "queued" /\ task[conn[k].at] = "serving"
  /\ LET t == conn[k].at
         g == t[2] IN
     IF ~Limited(t) THEN UNCHANGED <<slots, permit>>
     ELSE \/ permit[g] /\ permit' = [permit EXCEPT ![g] = FALSE] /\ UNCHANGED slots
          \/ /\ cfg.overflow = "refuse" /\ slots[g] > 0
             /\ slots' = [slots EXCEPT ![g] = @ - 1] /\ UNCHANGED permit
  /\ conn' = [conn EXCEPT ![k].phase = "open"]
  /\ UNCHANGED Others

\* Overflow::Refuse at the limit: the connection is dropped.
Refuse(k) ==
  /\ conn[k] # None /\ conn[k].phase = "queued" /\ Limited(conn[k].at)
  /\ task[conn[k].at] = "serving" /\ cfg.overflow = "refuse" /\ slots[conn[k].at[2]] = 0
  /\ Hangs({k})
  /\ UNCHANGED <<Others, slots, permit>>

\* A call; one that is stuck never ends by itself.
CallBegin(k, how) ==
  /\ conn[k] # None /\ conn[k].phase = "open" /\ conn[k].call = "none"
  /\ conn[k].at \notin token
  /\ conn' = [conn EXCEPT ![k].call = how]
  /\ UNCHANGED <<Others, slots, permit>>

CallEnd(k) ==
  /\ conn[k] # None /\ conn[k].call = "busy"
  /\ conn' = [conn EXCEPT ![k].call = "none"]
  /\ UNCHANGED <<Others, slots, permit>>

\* The connection ends and its permit is free again.
CloseConn(k) ==
  /\ Hangs({k})
  /\ slots' = [slots EXCEPT ![conn[k].at[2]] = IF Limited(conn[k].at) THEN @ + 1 ELSE @]
  /\ UNCHANGED <<Others, permit>>

OpenConn(k) == conn[k] # None /\ conn[k].phase = "open"
Hangup(k) == OpenConn(k) /\ CloseConn(k)
\* Graceful shutdown closes a connection with no call.
GoAway(k) == OpenConn(k) /\ conn[k].call = "none" /\ conn[k].at \in token /\ CloseConn(k)
\* settle: a silent connection, a call in flight or not.
IdleTimeout(k) == OpenConn(k) /\ Limited(conn[k].at) /\ cfg.idle /\ CloseConn(k)
\* check_abort: the next read or write fails.
Cut(k) == OpenConn(k) /\ Limited(conn[k].at) /\ conn[k].at[2] \in abort /\ CloseConn(k)

-----------------------------------------------------------------------------
StartStep ==
  \/ StartGrpc \/ StartAgents \/ MountAgents \/ ServeGrpc
  \/ BindHttp3 \/ StartHttp3 \/ BindHttp \/ StartHttp
  \/ StartError \/ StartReturnsErr

TaskStep ==
  \/ \E t \in Tasks : Quit(t) \/ End(t)
  \/ \E g \in Gens : DrainDeadline(g) \/ TakePermit(g) \/ AcceptFail(g)

ConnStep ==
  \E k \in Clients :
    \/ \E c \in Components : Connect(k, c)
    \/ Accept(k) \/ Refuse(k)
    \/ \E how \in {"busy", "stuck"} : CallBegin(k, how)
    \/ CallEnd(k) \/ Hangup(k) \/ GoAway(k) \/ IdleTimeout(k) \/ Cut(k)

StopStep ==
  \E s \in Stoppers \cup {Cleanup} :
    \/ s # Cleanup /\ StopBegin(s)
    \/ StopJoin(s) \/ StopTimeout(s)
    \/ \E t \in Tasks : AgentLate(s, t)

Next == Start \/ StartStep \/ StopStep \/ TaskStep \/ ConnStep

\* Spawned tasks and timers run; nothing is assumed of callers, clients and handlers.
Fairness ==
  /\ \A s \in Stoppers \cup {Cleanup} : WF_serverVars(StopJoin(s)) /\ WF_serverVars(StopTimeout(s))
  /\ \A t \in Tasks : WF_serverVars(Quit(t)) /\ WF_serverVars(End(t))
  /\ \A k \in Clients : WF_serverVars(Cut(k)) /\ WF_serverVars(GoAway(k))

Spec == Init /\ [][Next]_serverVars /\ Fairness

-----------------------------------------------------------------------------
(* Properties *)

\* A stop that returned Ok left nothing of what it found: no task, no listening socket and
\* no connection, so a start after it finds its ports free.
StopOkIsQuiet ==
  \A s \in DOMAIN stop : stop[s].pc = "ok" =>
    \A t \in stop[s].held :
      /\ task[t] = "done" /\ At(t) = {}
      /\ \A a \in DOMAIN socket : socket[a] # t

\* Every task that still serves is one a stop would find, or has been told to stop, or is
\* being started: a start that fails at any step leaves nothing running.
NoOrphan ==
  /\ \A t \in Tasks :
       /\ task[t] = "bound" => Starting /\ t[2] = gen
       /\ task[t] = "serving" => t \in state \cup token
  /\ start = "failed" => \A t \in Tasks : task[t] = "serving" => t \in token

\* The permits of the connection limit are all accounted for, through refusals, failed
\* accepts, idle timeouts and cut connections.
SlotsConserved ==
  \A g \in Gens :
    slots[g] + Cardinality(Open(<<"grpc", g>>)) + (IF permit[g] THEN 1 ELSE 0) = MaxConns

\* What a stop, a start and the connections in between leave behind.
StopsClean == StopOkIsQuiet /\ NoOrphan /\ SlotsConserved

\* Once a stop has told the gRPC task, every gRPC connection ends, also one whose handler
\* never returns: the drain bound or the shutdown timeout cuts it.
StoppedGrpcEnds ==
  \A g \in Gens : <<"grpc", g>> \in token ~> At(<<"grpc", g>>) = {}

\* What the documentation of stop says: anything still running when the timeout expires is
\* cut off, the connections of every component included.
CutOff ==
  \A s \in Stoppers :
    stop[s].pc = "timeout" ~> (stop[s].pc # "timeout" \/ \A t \in stop[s].held : At(t) = {})
=============================================================================
