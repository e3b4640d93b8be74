---------------------------- MODULE ServerProofs ----------------------------
(***************************************************************************)
(* Proofs about the server, the agent runtime with its MCP side, and the   *)
(* layers of a gRPC call, each for any instance: first Server, for any     *)
(* clients, stoppers, options, number of starts and connection limit; then *)
(* AgentRuntime, for any services and addresses; Calls, for any chain,     *)
(* observers and response; Mcp, for any groups, pages and tools; Tools,    *)
(* for any fields, streams and chains of errors; and last the properties   *)
(* of the run that are about them.                                         *)
(***************************************************************************)
EXTENDS MCServices, FiniteSetTheorems, SequenceTheorems, WellFoundedInduction, TLAPS

StopCallers == Stoppers \cup {Cleanup}
Addresses == {"tcp", "udp"} \X (1..MaxPort)
StopCall == [pc : {"idle", "draining", "drain", "ok", "timeout"}, held : SUBSET Tasks, late : SUBSET Tasks]

\* The variables keep their types.
TypeOK ==
  /\ cfg \in Config
  /\ socket \in [Addresses -> Tasks \cup {None}]
  /\ gen \in 0..MaxStarts
  /\ task \in [Tasks -> {"none", "bound", "serving", "draining", "done"}]
  /\ token \subseteq Tasks /\ abort \subseteq Gens /\ state \subseteq Tasks
  /\ start \in {"idle", "failed", "grpc", "agents", "mount", "serve", "http3", "serve3", "http",
                "serve1", "cleanup"}
  /\ stop \in [StopCallers -> StopCall]
  /\ conn \in [Clients -> Connection \cup {None}]
  /\ slots \in [Gens -> Int] /\ permit \in [Gens -> BOOLEAN]

-----------------------------------------------------------------------------
(* The inductive invariant *)

\* The components the start in progress has not bound yet, and those it has bound
\* and not handed to a task.
NotYet(c) ==
  \/ start = "grpc"
  \/ start = "agents" /\ c # "grpc"
  \/ start \in {"mount", "serve", "http3"} /\ c \in {"http3", "http"}
  \/ start \in {"serve3", "http"} /\ c = "http"
InHand(c) ==
  \/ start \in {"agents", "mount", "serve"} /\ c = "grpc"
  \/ start = "mount" /\ c \in Agents
  \/ start = "serve3" /\ c = "http3"
  \/ start = "serve1" /\ c = "http"

\* A start goes through its components in order, each once.
Progress ==
  /\ start \notin {"idle", "failed"} => gen # 0
  /\ \A t \in Tasks :
       /\ t[2] > gen => task[t] = "none"
       /\ t[2] = gen /\ NotYet(t[1]) => task[t] = "none"
       /\ task[t] = "bound" => t[2] = gen /\ InHand(t[1])

\* Running holds the tasks that serve and were not told; a failure empties it.
Found ==
  /\ \A t \in state : task[t] = "serving" /\ t \notin token
  /\ \A t \in token : task[t] \in {"serving", "draining", "done"}
  /\ \A t \in Tasks : task[t] \in {"serving", "draining", "done"} => t \in state \cup token
  /\ start \in {"cleanup", "failed"} => state = {}

\* Two stops never hold the same task, and each has told what it holds.
Held ==
  \A s \in StopCallers :
    /\ stop[s].held \subseteq token
    /\ \A r \in StopCallers : s # r => stop[s].held \cap stop[r].held = {}

\* A listening socket and a queued connection belong to a task that listens.
Listening ==
  /\ \A a \in Addresses : socket[a] # None => task[socket[a]] \in {"bound", "serving"}
  /\ \A k \in Clients : conn[k] # None /\ conn[k].phase = "queued" =>
       task[conn[k].at] \in {"bound", "serving"}

\* A task that a stop found and did not cut ends without a connection.
Drained ==
  \A s \in StopCallers :
    /\ stop[s].pc # "timeout" => \A k \in Clients :
         conn[k] # None /\ conn[k].at \in stop[s].held => task[conn[k].at] # "done"
    /\ stop[s].pc = "ok" => \A t \in stop[s].held : task[t] = "done"

IInv == TypeOK /\ Progress /\ Found /\ Held /\ Listening /\ Drained /\ SlotsConserved

-----------------------------------------------------------------------------
(* Tasks, sockets and connections *)

Phases == {"none", "bound", "serving", "draining", "done"}

LEMMA TaskShape ==
  /\ \A t \in Tasks : t[1] \in Components /\ t[2] \in Gens /\ t = <<t[1], t[2]>>
  /\ \A c \in Components, g \in Gens :
       <<c, g>> \in Tasks /\ <<c, g>>[1] = c /\ <<c, g>>[2] = g
BY DEF Tasks

LEMMA GenRange ==
  ASSUME ServerAssumption
  PROVE  Gens \subseteq Int /\ \A n \in Int : n \in Gens <=> 1 <= n /\ n <= MaxStarts
BY DEF ServerAssumption, Gens

LEMMA ConnectionShape ==
  ASSUME ServerAssumption, TypeOK
  PROVE  /\ None \notin Connection
         /\ \A k \in Clients : conn[k] # None =>
              /\ conn[k] \in Connection /\ conn[k].at \in Tasks
              /\ conn[k].phase \in {"queued", "open"}
              /\ conn[k].call \in {"none", "busy", "stuck"}
<1>1. None \notin Connection
  BY DEF ServerAssumption
<1>2. \A k \in Clients : conn[k] # None => conn[k] \in Connection
  BY DEF TypeOK
<1>3. \A x \in Connection : /\ x.at \in Tasks /\ x.phase \in {"queued", "open"}
                            /\ x.call \in {"none", "busy", "stuck"}
  BY DEF Connection
<1> QED
  BY <1>1, <1>2, <1>3

LEMMA StopShape ==
  ASSUME TypeOK
  PROVE  \A s \in StopCallers :
           /\ stop[s] \in StopCall
           /\ stop[s].pc \in {"idle", "draining", "drain", "ok", "timeout"}
           /\ stop[s].held \subseteq Tasks /\ stop[s].late \subseteq Tasks
<1>1. \A s \in StopCallers : stop[s] \in StopCall
  BY DEF TypeOK
<1>2. \A x \in StopCall : /\ x.pc \in {"idle", "draining", "drain", "ok", "timeout"}
                          /\ x.held \subseteq Tasks /\ x.late \subseteq Tasks
  BY DEF StopCall
<1> QED
  BY <1>1, <1>2

LEMMA Phased ==
  ASSUME TypeOK, NEW T, NEW p \in Phases, Phase(T, p)
  PROVE  /\ task' \in [Tasks -> Phases]
         /\ \A t \in Tasks : task'[t] = IF t \in T THEN p ELSE task[t]
BY DEF TypeOK, Phase, Phases

LEMMA Unlistened ==
  ASSUME TypeOK, NEW T, Unlisten(T)
  PROVE  /\ socket' \in [Addresses -> Tasks \cup {None}]
         /\ \A a \in Addresses : socket'[a] # None => socket'[a] = socket[a] /\ socket[a] \notin T
<1>1. DOMAIN socket = Addresses
  BY DEF TypeOK
<1>2. socket' = [a \in Addresses |-> IF socket[a] \in T THEN None ELSE socket[a]]
  BY <1>1 DEF Unlisten
<1> QED
  BY <1>2 DEF TypeOK

LEMMA Hung ==
  ASSUME TypeOK, NEW K, Hangs(K)
  PROVE  /\ conn' \in [Clients -> Connection \cup {None}]
         /\ \A k \in Clients : conn'[k] = IF k \in K THEN None ELSE conn[k]
BY DEF TypeOK, Hangs

\* Who is connected to t, now and after the step.
LEMMA Members ==
  ASSUME NEW t
  PROVE  /\ \A k : k \in At(t) <=> k \in Clients /\ conn[k] # None /\ conn[k].at = t
         /\ \A k : k \in Open(t) <=> k \in At(t) /\ conn[k].phase = "open"
         /\ \A k : k \in Queued(t) <=> k \in At(t) /\ conn[k].phase # "open"
         /\ \A k : k \in At(t)' <=> k \in Clients /\ conn'[k] # None /\ conn'[k].at = t
         /\ \A k : k \in Open(t)' <=> k \in At(t)' /\ conn'[k].phase = "open"
         /\ \A k : k \in Queued(t)' <=> k \in At(t)' /\ conn'[k].phase # "open"
BY DEF At, Open, Queued

-----------------------------------------------------------------------------
(* Initially *)

LEMMA InitIInv == ASSUME ServerAssumption, Init PROVE IInv
<1> USE DEF Init
<1>1. DOMAIN socket = Addresses /\ \A a \in Addresses : socket[a] = None
  BY DEF Addresses
<1>2. TypeOK
  <2>1. cfg \in Config /\ gen \in 0..MaxStarts
    BY DEF ServerAssumption
  <2>2. socket \in [Addresses -> Tasks \cup {None}]
    BY DEF Addresses
  <2>3. stop \in [StopCallers -> StopCall]
    BY DEF Idle, StopCall, StopCallers
  <2>4. slots \in [Gens -> Int]
    BY DEF ServerAssumption
  <2> QED
    BY <2>1, <2>2, <2>3, <2>4 DEF TypeOK
<1>3. \A t : Open(t) = {}
  BY Members
<1>4. Progress
  BY TaskShape DEF Progress
<1>5. Found /\ Held
  BY DEF Found, Held, Idle, StopCallers
<1>6. Listening
  BY <1>1 DEF Listening
<1>7. Drained
  BY DEF Drained, Idle, StopCallers
<1>8. SlotsConserved
  <2>1. ASSUME NEW g \in Gens
        PROVE  slots[g] + Cardinality(Open(<<"grpc", g>>)) + (IF permit[g] THEN 1 ELSE 0) = MaxConns
    <3>1. slots[g] = MaxConns /\ permit[g] = FALSE
      OBVIOUS
    <3>2. Cardinality(Open(<<"grpc", g>>)) = 0
      BY <1>3, FS_EmptySet
    <3>3. MaxConns \in Nat
      BY DEF ServerAssumption
    <3> HIDE DEF Init
    <3> QED
      BY <3>1, <3>2, <3>3
  <2> QED
    BY <2>1 DEF SlotsConserved
<1> QED
  BY <1>2, <1>4, <1>5, <1>6, <1>7, <1>8 DEF IInv

-----------------------------------------------------------------------------
(* What the steps do *)

\* Binding: who listens on an address afterwards.
LEMMA Bound ==
  ASSUME ServerAssumption, TypeOK, NEW C \in SUBSET Components, NEW next, Bind(C, next), gen \in Gens
  PROVE  LET T == {<<c, gen>> : c \in C \cap cfg.on} IN
         /\ T \subseteq Tasks /\ \A t \in T : t[1] \in C /\ t[2] = gen
         /\ Phase(T, "bound")
         /\ socket' \in [Addresses -> Tasks \cup {None}]
         /\ \A a \in Addresses : socket'[a] = socket[a] \/ socket'[a] \in T
<1> DEFINE T == {<<c, gen>> : c \in C \cap cfg.on}
           W(a) == CHOOSE t \in T : Addr(t[1]) = a
<1>1. T \subseteq Tasks /\ \A t \in T : t[1] \in C /\ t[2] = gen
  BY TaskShape
<1>2. Phase(T, "bound")
  BY DEF Bind
<1>3. socket' = [a \in Addresses |-> IF \E t \in T : Addr(t[1]) = a THEN W(a) ELSE socket[a]]
  BY DEF Bind, TypeOK
<1>4. \A a : (\E t \in T : Addr(t[1]) = a) => W(a) \in T
  OBVIOUS
<1> HIDE DEF T, W
<1>5. \A a \in Addresses : socket'[a] = socket[a] \/ socket'[a] \in T
  BY <1>3, <1>4
<1>6. socket' \in [Addresses -> Tasks \cup {None}]
  BY <1>1, <1>3, <1>5 DEF TypeOK
<1> USE DEF T
<1> QED
  BY <1>1, <1>2, <1>5, <1>6

LEMMA Spawned ==
  ASSUME TypeOK, NEW C, NEW next, Spawn(C, next)
  PROVE  LET T == {t \in Unspawned : t[1] \in C} IN
         /\ T \subseteq Tasks /\ (\A t \in T : task[t] = "bound" /\ t[1] \in C)
         /\ (\A t \in Tasks : task[t] = "bound" /\ t[1] \in C => t \in T)
         /\ Phase(T, "serving") /\ state' = state \cup T
BY DEF Spawn, Unspawned

\* The steps that bind and those that spawn.
Binds(C, next) ==
  /\ Bind(C, next)
  /\ \/ start = "grpc" /\ C = {"grpc"} /\ next = "agents"
     \/ start = "agents" /\ C = Agents /\ next = "mount"
     \/ start = "http3" /\ C = {"http3"} /\ next = "serve3"
     \/ start = "http" /\ C = {"http"} /\ next = "serve1"
Spawns(C, next) ==
  /\ Spawn(C, next)
  /\ \/ start = "mount" /\ C = Agents /\ next = "serve"
     \/ start = "serve" /\ C = {"grpc"} /\ next = "http3"
     \/ start = "serve3" /\ C = {"http3"} /\ next = "http"
     \/ start = "serve1" /\ C = {"http"} /\ next = "idle"

\* A connection of t is closed, whatever closes it.
Closes(k) == OpenConn(k) /\ CloseConn(k)

LEMMA Steps ==
  ASSUME Next
  PROVE  \/ Start \/ StartError \/ StartReturnsErr
         \/ \E C \in SUBSET Components, next \in {"agents", "mount", "serve3", "serve1"} : Binds(C, next)
         \/ \E C \in SUBSET Components, next \in {"serve", "http3", "http", "idle"} : Spawns(C, next)
         \/ \E s \in StopCallers : \/ StopBegin(s) \/ StopJoin(s) \/ StopTimeout(s)
                               \/ \E t \in Tasks : AgentLate(s, t)
         \/ \E t \in Tasks : Quit(t) \/ End(t)
         \/ \E g \in Gens : DrainDeadline(g) \/ TakePermit(g) \/ AcceptFail(g)
         \/ \E k \in Clients :
              \/ \E c \in Components : Connect(k, c)
              \/ Accept(k) \/ Refuse(k) \/ CallEnd(k) \/ Closes(k)
              \/ \E how \in {"busy", "stuck"} : CallBegin(k, how)
<1>1. ASSUME StartStep PROVE
         \/ StartError \/ StartReturnsErr
         \/ \E C \in SUBSET Components, next \in {"agents", "mount", "serve3", "serve1"} : Binds(C, next)
         \/ \E C \in SUBSET Components, next \in {"serve", "http3", "http", "idle"} : Spawns(C, next)
  <2>1. {"grpc"} \in SUBSET Components /\ Agents \in SUBSET Components
        /\ {"http3"} \in SUBSET Components /\ {"http"} \in SUBSET Components
    BY DEF Components
  <2>2. StartGrpc => Binds({"grpc"}, "agents")
    BY DEF StartGrpc, Binds
  <2>3. StartAgents => Binds(Agents, "mount")
    BY DEF StartAgents, Binds
  <2>4. BindHttp3 => Binds({"http3"}, "serve3")
    BY DEF BindHttp3, Binds
  <2>5. BindHttp => Binds({"http"}, "serve1")
    BY DEF BindHttp, Binds
  <2>6. MountAgents => Spawns(Agents, "serve")
    BY DEF MountAgents, Spawns
  <2>7. ServeGrpc => Spawns({"grpc"}, "http3")
    BY DEF ServeGrpc, Spawns
  <2>8. StartHttp3 => Spawns({"http3"}, "http")
    BY DEF StartHttp3, Spawns
  <2>9. StartHttp => Spawns({"http"}, "idle")
    BY DEF StartHttp, Spawns
  <2> HIDE DEF Components
  <2> QED
    BY <1>1, <2>1, <2>2, <2>3, <2>4, <2>5, <2>6, <2>7, <2>8, <2>9 DEF StartStep
<1>2. ASSUME NEW k \in Clients, Hangup(k) \/ GoAway(k) \/ IdleTimeout(k) \/ Cut(k) PROVE Closes(k)
  BY <1>2 DEF Hangup, GoAway, IdleTimeout, Cut, Closes
<1> QED
  BY <1>1, <1>2 DEF Next, StopStep, TaskStep, ConnStep, StopCallers

LEMMA GenNow ==
  ASSUME ServerAssumption, TypeOK, Progress, start \notin {"idle", "failed"}
  PROVE  gen \in Gens
<1>1. gen \in Int /\ 1 <= gen /\ gen <= MaxStarts
  BY DEF TypeOK, Progress, ServerAssumption
<1> QED
  BY <1>1, GenRange

-----------------------------------------------------------------------------
(* Types *)

LEMMA DefaultedType ==
  ASSUME ServerAssumption, NEW c \in Config
  PROVE  Defaulted(c) \in Config
<1> DEFINE mcp == IF "mcp" \in c.on /\ c.mcp = 0 /\ c.http # 0 THEN next_port(c.http) ELSE c.mcp
           base == IF mcp = 0 THEN next_port(c.http) ELSE mcp
           a2a == IF "a2a" \in c.on /\ c.a2a = 0 /\ (c.http # 0 \/ mcp # 0)
                  THEN next_port(base) ELSE c.a2a
<1>1. MaxPort \in Nat /\ c.http \in 0..MaxPort /\ c.mcp \in 0..MaxPort /\ c.a2a \in 0..MaxPort
  BY DEF ServerAssumption, Config, Ports
<1>2. \A p \in 0..MaxPort : next_port(p) \in 0..MaxPort
  BY <1>1 DEF next_port
<1>3. mcp \in 0..MaxPort
  BY <1>1, <1>2
<1>4. base \in 0..MaxPort
  BY <1>1, <1>2, <1>3
<1>5. a2a \in 0..MaxPort
  BY <1>1, <1>2, <1>4
<1>6. Defaulted(c) = [c EXCEPT !.mcp = mcp, !.a2a = a2a]
  BY DEF Defaulted
<1> HIDE DEF mcp, base, a2a
<1>7. [c EXCEPT !.mcp = mcp] \in Config
  BY <1>3 DEF Config, Ports
<1>8. \A d \in Config : [d EXCEPT !.a2a = a2a] \in Config
  BY <1>5 DEF Config, Ports
<1>9. [[c EXCEPT !.mcp = mcp] EXCEPT !.a2a = a2a] \in Config
  BY <1>7, <1>8
<1> QED
  BY <1>6, <1>9

LEMMA StopTypes ==
  /\ Idle \in StopCall
  /\ \A H \in SUBSET Tasks : [pc |-> "draining", held |-> H, late |-> {}] \in StopCall
  /\ \A x \in StopCall, p \in {"ok", "drain", "timeout"} :
       /\ [x EXCEPT !.pc = p] \in StopCall /\ [x EXCEPT !.pc = p].pc = p
       /\ [x EXCEPT !.pc = p].held = x.held
  /\ \A x \in StopCall, L \in SUBSET Tasks :
       /\ [x EXCEPT !.late = L] \in StopCall /\ [x EXCEPT !.late = L].pc = x.pc
       /\ [x EXCEPT !.late = L].held = x.held
BY DEF Idle, StopCall

LEMMA ConnectionTypes ==
  /\ \A t \in Tasks : [at |-> t, phase |-> "queued", call |-> "none"] \in Connection
  /\ \A x \in Connection :
       /\ [x EXCEPT !.phase = "open"] \in Connection /\ [x EXCEPT !.phase = "open"].phase = "open"
       /\ [x EXCEPT !.phase = "open"].at = x.at
  /\ \A x \in Connection, how \in {"none", "busy", "stuck"} :
       /\ [x EXCEPT !.call = how] \in Connection /\ [x EXCEPT !.call = how].phase = x.phase
       /\ [x EXCEPT !.call = how].at = x.at
BY DEF Connection

LEMMA StartType == ASSUME ServerAssumption, TypeOK, Start PROVE TypeOK'
<1> USE DEF Start
<1>1. cfg.starts \in 0..MaxStarts /\ MaxStarts \in Nat
  BY DEF TypeOK, Config, ServerAssumption
<1>2. gen' \in 0..MaxStarts
  BY <1>1 DEF TypeOK
<1>3. cfg' \in Config /\ (start' = start \/ start' = "grpc")
  BY DefaultedType DEF TypeOK
<1>4. stop' \in [StopCallers -> StopCall]
  BY StopTypes DEF TypeOK
<1> QED
  BY <1>2, <1>3, <1>4 DEF TypeOK

LEMMA BindsType ==
  ASSUME ServerAssumption, TypeOK, Progress, NEW C \in SUBSET Components,
         NEW next \in {"agents", "mount", "serve3", "serve1"}, Binds(C, next)
  PROVE  TypeOK'
<1> DEFINE T == {<<c, gen>> : c \in C \cap cfg.on}
<1>1. gen \in Gens /\ Bind(C, next)
  BY GenNow DEF Binds
<1>2. Phase(T, "bound") /\ socket' \in [Addresses -> Tasks \cup {None}]
  BY <1>1, Bound
<1>3. task' \in [Tasks -> Phases]
  BY <1>2, Phased DEF Phases
<1> QED
  BY <1>1, <1>2, <1>3 DEF TypeOK, Bind, Phases

LEMMA SpawnsType ==
  ASSUME TypeOK, NEW C, NEW next \in {"serve", "http3", "http", "idle"}, Spawns(C, next)
  PROVE  TypeOK'
<1> DEFINE T == {t \in Unspawned : t[1] \in C}
<1>1. Spawn(C, next)
  BY DEF Spawns
<1>2. T \subseteq Tasks /\ Phase(T, "serving") /\ state' = state \cup T
  BY <1>1, Spawned
<1>3. task' \in [Tasks -> Phases]
  BY <1>2, Phased DEF Phases
<1> QED
  BY <1>1, <1>2, <1>3 DEF TypeOK, Spawn, Phases

LEMMA StartEndsType == ASSUME TypeOK, StartError \/ StartReturnsErr PROVE TypeOK'
<1>1. CASE StartError
  <2> USE <1>1 DEF StartError, FailStart, Fail
  <2>1. task' \in [Tasks -> Phases]
    BY Phased DEF Phases
  <2>2. socket' \in [Addresses -> Tasks \cup {None}]
    BY Unlistened
  <2>3. conn' \in [Clients -> Connection \cup {None}]
    BY Hung
  <2>4. stop' \in [StopCallers -> StopCall]
    BY StopTypes DEF TypeOK
  <2> QED
    BY <2>1, <2>2, <2>3, <2>4 DEF TypeOK, Phases
<1>2. CASE StartReturnsErr
  BY <1>2 DEF StartReturnsErr, TypeOK
<1> QED
  BY <1>1, <1>2

LEMMA StopType ==
  ASSUME TypeOK, NEW s \in StopCallers,
         StopBegin(s) \/ StopJoin(s) \/ StopTimeout(s) \/ \E t \in Tasks : AgentLate(s, t)
  PROVE  TypeOK'
<1>0. stop[s] \in StopCall
  BY StopShape
<1>1. CASE StopBegin(s)
  <2>1. stop' \in [StopCallers -> StopCall]
    BY <1>1, StopTypes DEF StopBegin, TypeOK
  <2> QED
    BY <1>1, <2>1 DEF StopBegin, TypeOK
<1>2. CASE StopJoin(s)
  <2>1. PICK p \in {"ok", "drain"} : stop' = [stop EXCEPT ![s].pc = p]
    BY <1>2 DEF StopJoin
  <2>2. stop' = [stop EXCEPT ![s] = [stop[s] EXCEPT !.pc = p]]
    BY <2>1
  <2>3. stop' \in [StopCallers -> StopCall]
    BY <1>0, <2>2, StopTypes DEF TypeOK
  <2> QED
    BY <1>2, <2>3 DEF StopJoin, TypeOK
<1>3. CASE StopTimeout(s)
  <2>1. stop' = [stop EXCEPT ![s] = [stop[s] EXCEPT !.pc = "timeout"]]
    BY <1>3 DEF StopTimeout
  <2>2. stop' \in [StopCallers -> StopCall]
    BY <1>0, <2>1, StopTypes DEF TypeOK
  <2>3. PICK T : Phase(T, "done") /\ Unlisten(T) /\ Hangs(DiesWith(T))
    BY <1>3 DEF StopTimeout
  <2>4. task' \in [Tasks -> Phases]
    BY <2>3, Phased DEF Phases
  <2>5. socket' \in [Addresses -> Tasks \cup {None}] /\ conn' \in [Clients -> Connection \cup {None}]
    BY <2>3, Unlistened, Hung
  <2>6. abort' \subseteq Gens
    BY <1>3, StopShape, TaskShape DEF StopTimeout, CutGrpc, TypeOK
  <2> QED
    BY <1>3, <2>2, <2>4, <2>5, <2>6 DEF StopTimeout, TypeOK, Phases
<1>4. ASSUME NEW t \in Tasks, AgentLate(s, t) PROVE TypeOK'
  <2>1. stop' = [stop EXCEPT ![s] = [stop[s] EXCEPT !.late = stop[s].late \cup {t}]]
    BY <1>4 DEF AgentLate
  <2>2. stop[s].late \cup {t} \in SUBSET Tasks
    BY StopShape
  <2>3. stop' \in [StopCallers -> StopCall]
    BY <1>0, <2>1, <2>2, StopTypes DEF TypeOK
  <2> QED
    BY <1>4, <2>3 DEF AgentLate, TypeOK
<1> QED
  BY <1>1, <1>2, <1>3, <1>4

LEMMA TaskType ==
  ASSUME TypeOK, NEW t \in Tasks, Quit(t) \/ End(t)
  PROVE  TypeOK'
<1>0. t[2] \in Gens
  BY TaskShape
<1>1. CASE Quit(t)
  <2> USE <1>1 DEF Quit
  <2>1. task' \in [Tasks -> Phases]
    BY Phased DEF Phases
  <2>2. socket' \in [Addresses -> Tasks \cup {None}]
    BY Unlistened
  <2>3. conn' \in [Clients -> Connection \cup {None}]
    BY Hung
  <2>4. slots' \in [Gens -> Int]
    BY <1>0 DEF TypeOK
  <2>5. permit' \in [Gens -> BOOLEAN]
    BY <1>0 DEF TypeOK
  <2> QED
    BY <2>1, <2>2, <2>3, <2>4, <2>5 DEF TypeOK, Phases
<1>2. CASE End(t)
  <2>1. task' \in [Tasks -> Phases]
    BY <1>2, Phased DEF End, Phases
  <2> QED
    BY <1>2, <2>1 DEF End, TypeOK, Phases
<1> QED
  BY <1>1, <1>2

LEMMA GrpcType ==
  ASSUME TypeOK, NEW g \in Gens, DrainDeadline(g) \/ TakePermit(g) \/ AcceptFail(g)
  PROVE  TypeOK'
<1>1. CASE DrainDeadline(g)
  BY <1>1, TaskShape DEF DrainDeadline, CutGrpc, TypeOK
<1>2. CASE TakePermit(g)
  BY <1>2 DEF TakePermit, Others, TypeOK
<1>3. CASE AcceptFail(g)
  BY <1>3 DEF AcceptFail, Others, TypeOK
<1> QED
  BY <1>1, <1>2, <1>3

LEMMA ConnType ==
  ASSUME ServerAssumption, TypeOK, NEW k \in Clients,
         \/ \E c \in Components : Connect(k, c)
         \/ Accept(k) \/ Refuse(k) \/ CallEnd(k) \/ Closes(k)
         \/ \E how \in {"busy", "stuck"} : CallBegin(k, how)
  PROVE  TypeOK'
<1> USE DEF Others
<1>1. ASSUME NEW c \in Components, Connect(k, c) PROVE TypeOK'
  <2>1. Addr(c) \in Addresses /\ socket[Addr(c)] \in Tasks
    BY <1>1 DEF Connect, TypeOK
  <2>2. conn' \in [Clients -> Connection \cup {None}]
    BY <1>1, <2>1, ConnectionTypes DEF Connect, TypeOK
  <2> QED
    BY <1>1, <2>2 DEF Connect, TypeOK
<1>2. CASE Accept(k)
  <2>1. conn[k] \in Connection /\ conn[k].at \in Tasks
    BY <1>2, ConnectionShape DEF Accept
  <2>2. conn' = [conn EXCEPT ![k] = [conn[k] EXCEPT !.phase = "open"]]
    BY <1>2 DEF Accept
  <2>3. conn' \in [Clients -> Connection \cup {None}]
    BY <2>1, <2>2, ConnectionTypes DEF TypeOK
  <2>4. conn[k].at[2] \in Gens
    BY <2>1, TaskShape
  <2>5. slots' \in [Gens -> Int]
    BY <1>2, <2>4 DEF Accept, TypeOK
  <2>6. permit' \in [Gens -> BOOLEAN]
    BY <1>2, <2>4 DEF Accept, TypeOK
  <2> QED
    BY <1>2, <2>3, <2>5, <2>6 DEF Accept, TypeOK
<1>3. CASE Refuse(k)
  BY <1>3, Hung DEF Refuse, TypeOK
<1>4. CASE CallEnd(k)
  <2>1. conn[k] \in Connection
    BY <1>4, ConnectionShape DEF CallEnd
  <2>2. conn' = [conn EXCEPT ![k] = [conn[k] EXCEPT !.call = "none"]]
    BY <1>4 DEF CallEnd
  <2>3. conn' \in [Clients -> Connection \cup {None}]
    BY <2>1, <2>2, ConnectionTypes DEF TypeOK
  <2> QED
    BY <1>4, <2>3 DEF CallEnd, TypeOK
<1>5. CASE Closes(k)
  <2>1. conn[k].at[2] \in Gens
    BY <1>5, ConnectionShape, TaskShape DEF Closes, OpenConn
  <2>2. slots' \in [Gens -> Int]
    BY <1>5, <2>1 DEF Closes, CloseConn, TypeOK
  <2>3. conn' \in [Clients -> Connection \cup {None}]
    BY <1>5, Hung DEF Closes, CloseConn
  <2> QED
    BY <1>5, <2>2, <2>3 DEF Closes, CloseConn, TypeOK
<1>6. ASSUME NEW how \in {"busy", "stuck"}, CallBegin(k, how) PROVE TypeOK'
  <2>1. conn[k] \in Connection
    BY <1>6, ConnectionShape DEF CallBegin
  <2>2. conn' = [conn EXCEPT ![k] = [conn[k] EXCEPT !.call = how]]
    BY <1>6 DEF CallBegin
  <2>3. conn' \in [Clients -> Connection \cup {None}]
    BY <2>1, <2>2, ConnectionTypes DEF TypeOK
  <2> QED
    BY <1>6, <2>3 DEF CallBegin, TypeOK
<1> QED
  BY <1>1, <1>2, <1>3, <1>4, <1>5, <1>6

LEMMA TypeStep ==
  ASSUME ServerAssumption, TypeOK, Progress, [Next]_serverVars
  PROVE  TypeOK'
<1>1. CASE UNCHANGED serverVars
  BY <1>1 DEF serverVars, TypeOK
<1>2. CASE Next
  BY <1>2, Steps, StartType, BindsType, SpawnsType, StartEndsType, StopType, TaskType, GrpcType,
     ConnType
<1> QED
  BY <1>1, <1>2

-----------------------------------------------------------------------------
(* The order of a start *)

\* Tasks that were told wind down; nobody is started, found or told.
Winds ==
  /\ UNCHANGED <<start, gen, state, token>>
  /\ task' \in [Tasks -> Phases]
  /\ \A t \in Tasks :
       task'[t] = task[t] \/ (task[t] \in {"serving", "draining"} /\ task'[t] \in {"draining", "done"}
                              /\ t \in token)

LEMMA CutTasks ==
  ASSUME TypeOK, Found, Held, NEW s \in StopCallers, StopTimeout(s)
  PROVE  \E T \in SUBSET stop[s].held :
           /\ Phase(T, "done") /\ Unlisten(T) /\ Hangs(DiesWith(T)) /\ Winds
           /\ \A t \in T : t \in Tasks /\ t[1] \notin Agents
           /\ \A t \in Tasks : task'[t] = IF t \in T THEN "done" ELSE task[t]
<1> DEFINE T == {t \in stop[s].held : t[1] \notin Agents /\ task[t] # "done"}
<1>1. Phase(T, "done") /\ Unlisten(T) /\ Hangs(DiesWith(T)) /\ UNCHANGED <<start, gen, state, token>>
  BY DEF StopTimeout
<1>2. T \subseteq Tasks /\ T \subseteq token
  BY StopShape DEF Held
<1>3. \A t \in T : task[t] \in {"serving", "draining"}
  BY <1>2 DEF Found
<1>4. task' \in [Tasks -> Phases] /\ \A t \in Tasks : task'[t] = IF t \in T THEN "done" ELSE task[t]
  BY <1>1, Phased DEF Phases
<1>5. T \in SUBSET stop[s].held /\ \A t \in T : t[1] \notin Agents
  OBVIOUS
<1> HIDE DEF T
<1>6. Winds
  BY <1>1, <1>2, <1>3, <1>4 DEF Winds
<1> QED
  BY <1>1, <1>2, <1>4, <1>5, <1>6

LEMMA Wound ==
  ASSUME TypeOK, Found, NEW t \in Tasks, Quit(t) \/ End(t)
  PROVE  Winds
<1>1. CASE Quit(t)
  <2>1. task' \in [Tasks -> Phases] /\ \A u \in Tasks : task'[u] = IF u \in {t} THEN "draining" ELSE task[u]
    BY <1>1, Phased DEF Quit, Phases
  <2> QED
    BY <1>1, <2>1 DEF Quit, Winds
<1>2. CASE End(t)
  <2>1. task' \in [Tasks -> Phases] /\ \A u \in Tasks : task'[u] = IF u \in {t} THEN "done" ELSE task[u]
    BY <1>2, Phased DEF End, Phases
  <2>2. t \in token
    BY <1>2 DEF End, Found
  <2> QED
    BY <1>2, <2>1, <2>2 DEF End, Winds
<1> QED
  BY <1>1, <1>2

LEMMA ProgressStep ==
  ASSUME ServerAssumption, TypeOK, Progress, Found, Held, [Next]_serverVars
  PROVE  Progress'
<1> USE DEF Progress, NotYet, InHand
<1>0. gen \in Int /\ gen >= 0 /\ \A t \in Tasks : t[2] \in Int
  BY TaskShape, GenRange DEF TypeOK, ServerAssumption
<1>1. ASSUME UNCHANGED <<start, gen, task>> PROVE Progress'
  BY <1>1
<1>2. ASSUME Winds PROVE Progress'
  BY <1>2 DEF Winds
<1>3. ASSUME Start PROVE Progress'
  <2>1. gen' = gen + 1 /\ task' = task /\ start \in {"idle", "failed"} /\ start' \in {"idle", "failed", "grpc"}
    BY <1>3 DEF Start, AtRest
  <2>2. gen' # 0 /\ \A t \in Tasks : (t[2] > gen' => t[2] > gen) /\ (t[2] = gen' => t[2] > gen)
    BY <1>0, <2>1
  <2> QED
    BY <2>1, <2>2
<1>4. ASSUME NEW C \in SUBSET Components, NEW next \in {"agents", "mount", "serve3", "serve1"}, Binds(C, next)
      PROVE  Progress'
  <2> DEFINE T == {<<c, gen>> : c \in C \cap cfg.on}
  <2>1. gen \in Gens /\ Bind(C, next)
    BY <1>4, GenNow DEF Binds
  <2>2. T \subseteq Tasks /\ (\A t \in T : t[1] \in C /\ t[2] = gen) /\ Phase(T, "bound")
    BY <2>1, Bound
  <2>3. \A t \in Tasks : task'[t] = IF t \in T THEN "bound" ELSE task[t]
    BY <2>2, Phased DEF Phases
  <2>4. gen' = gen /\ start' = next
    BY <2>1 DEF Bind
  <2> HIDE DEF T
  <2> QED
    BY <1>0, <1>4, <2>2, <2>3, <2>4 DEF Binds, Agents
<1>5. ASSUME NEW C \in SUBSET Components, NEW next \in {"serve", "http3", "http", "idle"}, Spawns(C, next)
      PROVE  Progress'
  <2> DEFINE T == {t \in Unspawned : t[1] \in C}
  <2>1. /\ T \subseteq Tasks /\ (\A t \in T : task[t] = "bound" /\ t[1] \in C)
        /\ (\A t \in Tasks : task[t] = "bound" /\ t[1] \in C => t \in T) /\ Phase(T, "serving")
    BY <1>5, Spawned DEF Spawns
  <2>2. \A t \in Tasks : task'[t] = IF t \in T THEN "serving" ELSE task[t]
    BY <2>1, Phased DEF Phases
  <2>3. gen' = gen /\ start' = next
    BY <1>5 DEF Spawns, Spawn
  <2> HIDE DEF T
  <2> QED
    BY <1>0, <1>5, <2>1, <2>2, <2>3 DEF Spawns, Agents
<1>6. ASSUME StartError PROVE Progress'
  <2>1. \A t \in Tasks : task'[t] = IF t \in Unspawned THEN "none" ELSE task[t]
    BY <1>6, Phased DEF StartError, FailStart, Phases
  <2>2. gen' = gen /\ start' = "cleanup" /\ start \notin {"idle", "failed"}
    BY <1>6 DEF StartError, FailStart, Fail, Starting, AtRest
  <2> QED
    BY <2>1, <2>2 DEF Unspawned
<1>7. ASSUME StartReturnsErr PROVE Progress'
  BY <1>7 DEF StartReturnsErr
<1>8. CASE UNCHANGED serverVars
  BY <1>1, <1>8 DEF serverVars
<1>9. ASSUME NEW s \in StopCallers, StopBegin(s) \/ StopJoin(s) \/ \E t \in Tasks : AgentLate(s, t)
      PROVE  Progress'
  BY <1>1, <1>9 DEF StopBegin, StopJoin, AgentLate
<1>10. ASSUME NEW g \in Gens, DrainDeadline(g) \/ TakePermit(g) \/ AcceptFail(g) PROVE Progress'
  BY <1>1, <1>10 DEF DrainDeadline, TakePermit, AcceptFail, Others
<1>11. ASSUME NEW k \in Clients,
              \/ \E c \in Components : Connect(k, c)
              \/ Accept(k) \/ Refuse(k) \/ CallEnd(k) \/ Closes(k)
              \/ \E how \in {"busy", "stuck"} : CallBegin(k, how)
      PROVE  Progress'
  BY <1>1, <1>11 DEF Connect, Accept, Refuse, CallEnd, CallBegin, Closes, CloseConn, Others
<1>12. ASSUME NEW s \in StopCallers, StopTimeout(s) PROVE Progress'
  BY <1>2, <1>12, CutTasks
<1>13. ASSUME NEW t \in Tasks, Quit(t) \/ End(t) PROVE Progress'
  BY <1>2, <1>13, Wound
<1> HIDE DEF Progress, NotYet, InHand
<1> QED
  BY <1>3, <1>4, <1>5, <1>6, <1>7, <1>8, <1>9, <1>10, <1>11, <1>12, <1>13, Steps

\* The steps of connections, and of permits.
LEMMA ConnFrame ==
  ASSUME NEW k \in Clients,
         \/ \E c \in Components : Connect(k, c)
         \/ Accept(k) \/ Refuse(k) \/ CallEnd(k) \/ Closes(k)
         \/ \E how \in {"busy", "stuck"} : CallBegin(k, how)
  PROVE  UNCHANGED Others
BY DEF Connect, Accept, Refuse, CallEnd, CallBegin, Closes, CloseConn

LEMMA GrpcFrame ==
  ASSUME NEW g \in Gens, DrainDeadline(g) \/ TakePermit(g) \/ AcceptFail(g)
  PROVE  UNCHANGED <<cfg, socket, gen, task, token, state, start, stop, conn>>
BY DEF DrainDeadline, TakePermit, AcceptFail, Others

\* The tasks a step of a start touches, and what they were.
LEMMA BindsTasks ==
  ASSUME ServerAssumption, TypeOK, Progress, NEW C \in SUBSET Components,
         NEW next \in {"agents", "mount", "serve3", "serve1"}, Binds(C, next)
  PROVE  \E T \in SUBSET Tasks :
           /\ \A t \in T : task[t] = "none"
           /\ \A t \in Tasks : task'[t] = IF t \in T THEN "bound" ELSE task[t]
           /\ \A a \in Addresses : socket'[a] = socket[a] \/ socket'[a] \in T
           /\ start' \in {"agents", "mount", "serve3", "serve1"}
           /\ UNCHANGED <<cfg, gen, token, abort, state, stop, conn, slots, permit>>
<1> DEFINE T == {<<c, gen>> : c \in C \cap cfg.on}
<1>1. gen \in Gens /\ Bind(C, next)
  BY GenNow DEF Binds
<1>2. /\ T \subseteq Tasks /\ (\A t \in T : t[1] \in C /\ t[2] = gen) /\ Phase(T, "bound")
      /\ \A a \in Addresses : socket'[a] = socket[a] \/ socket'[a] \in T
  BY <1>1, Bound
<1>3. \A t \in Tasks : task'[t] = IF t \in T THEN "bound" ELSE task[t]
  BY <1>2, Phased DEF Phases
<1>4. start' = next /\ UNCHANGED <<cfg, gen, token, abort, state, stop, conn, slots, permit>>
  BY <1>1 DEF Bind
<1> HIDE DEF T
<1>5. \A t \in T : task[t] = "none"
  BY <1>2 DEF Binds, Agents, Progress, NotYet
<1> QED
  BY <1>2, <1>3, <1>4, <1>5

LEMMA SpawnsTasks ==
  ASSUME TypeOK, NEW C, NEW next \in {"serve", "http3", "http", "idle"}, Spawns(C, next)
  PROVE  \E T \in SUBSET Tasks :
           /\ \A t \in T : task[t] = "bound"
           /\ \A t \in Tasks : task'[t] = IF t \in T THEN "serving" ELSE task[t]
           /\ state' = state \cup T /\ start' \in {"serve", "http3", "http", "idle"}
           /\ UNCHANGED <<cfg, socket, gen, token, abort, stop, conn, slots, permit>>
<1> DEFINE T == {t \in Unspawned : t[1] \in C}
<1>1. /\ T \subseteq Tasks /\ (\A t \in T : task[t] = "bound") /\ Phase(T, "serving")
      /\ state' = state \cup T
  <2>1. Spawn(C, next)
    BY DEF Spawns
  <2> QED
    BY <2>1, Spawned
<1>2. \A t \in Tasks : task'[t] = IF t \in T THEN "serving" ELSE task[t]
  BY <1>1, Phased DEF Phases
<1>3. start' = next /\ UNCHANGED <<cfg, socket, gen, token, abort, stop, conn, slots, permit>>
  BY DEF Spawns, Spawn
<1> HIDE DEF T
<1> QED
  BY <1>1, <1>2, <1>3

LEMMA FailTasks ==
  ASSUME TypeOK, StartError
  PROVE  /\ \A t \in Tasks : task'[t] = IF task[t] = "bound" THEN "none" ELSE task[t]
         /\ Unlisten(Unspawned) /\ Hangs(Backlog(Unspawned)) /\ start' = "cleanup"
         /\ stop' = [stop EXCEPT ![Cleanup] = [pc |-> "draining", held |-> state, late |-> {}]]
         /\ token' = token \cup state /\ state' = {}
         /\ UNCHANGED <<cfg, gen, abort, slots, permit>>
<1>1. \A t \in Tasks : task'[t] = IF t \in Unspawned THEN "none" ELSE task[t]
  BY Phased DEF StartError, FailStart, Phases
<1>2. \A t \in Tasks : task'[t] = IF task[t] = "bound" THEN "none" ELSE task[t]
  BY <1>1 DEF Unspawned
<1>3. Unlisten(Unspawned) /\ Hangs(Backlog(Unspawned))
  BY DEF StartError, FailStart
<1>4. /\ start' = "cleanup"
      /\ stop' = [stop EXCEPT ![Cleanup] = [pc |-> "draining", held |-> state, late |-> {}]]
      /\ token' = token \cup state /\ state' = {}
      /\ UNCHANGED <<cfg, gen, abort, slots, permit>>
  BY DEF StartError, FailStart, Fail
<1> QED
  BY <1>2, <1>3, <1>4

LEMMA FoundStep ==
  ASSUME ServerAssumption, TypeOK, Progress, Found, Held, [Next]_serverVars
  PROVE  Found'
<1> USE DEF Found
<1>1. ASSUME UNCHANGED <<start, task, state, token>> PROVE Found'
  BY <1>1
<1>2. ASSUME Winds PROVE Found'
  BY <1>2 DEF Winds, TypeOK
<1>3. ASSUME Start PROVE Found'
  BY <1>3 DEF Start, AtRest
<1>4. ASSUME NEW C \in SUBSET Components, NEW next \in {"agents", "mount", "serve3", "serve1"}, Binds(C, next)
      PROVE  Found'
  BY <1>4, BindsTasks DEF TypeOK
<1>5. ASSUME NEW C \in SUBSET Components, NEW next \in {"serve", "http3", "http", "idle"}, Spawns(C, next)
      PROVE  Found'
  BY <1>5, SpawnsTasks DEF TypeOK
<1>6. ASSUME StartError PROVE Found'
  BY <1>6, FailTasks DEF TypeOK
<1>7. ASSUME StartReturnsErr PROVE Found'
  BY <1>7 DEF StartReturnsErr
<1>8. ASSUME NEW s \in StopCallers, StopBegin(s) PROVE Found'
  BY <1>8 DEF StopBegin, TypeOK
<1>9. ASSUME NEW s \in StopCallers, StopJoin(s) \/ \E t \in Tasks : AgentLate(s, t) PROVE Found'
  BY <1>1, <1>9 DEF StopJoin, AgentLate
<1>10. CASE UNCHANGED serverVars
  BY <1>1, <1>10 DEF serverVars
<1> HIDE DEF Found
<1>11. ASSUME NEW s \in StopCallers, StopTimeout(s) PROVE Found'
  BY <1>2, <1>11, CutTasks
<1>12. ASSUME NEW t \in Tasks, Quit(t) \/ End(t) PROVE Found'
  BY <1>2, <1>12, Wound
<1>13. ASSUME UNCHANGED Others PROVE Found'
  BY <1>1, <1>13 DEF Others
<1> QED
  BY <1>1, <1>3, <1>4, <1>5, <1>6, <1>7, <1>8, <1>9, <1>10, <1>11, <1>12, <1>13, Steps, ConnFrame,
     GrpcFrame

LEMMA HeldStep ==
  ASSUME ServerAssumption, TypeOK, Progress, Found, Held, [Next]_serverVars
  PROVE  Held'
<1> USE DEF Held
<1>0. DOMAIN stop = StopCallers
  BY DEF TypeOK
<1>1. ASSUME UNCHANGED <<stop, token>> PROVE Held'
  BY <1>1
<1>2. ASSUME token' = token, \A s \in StopCallers : stop'[s].held = stop[s].held PROVE Held'
  BY <1>2
<1>3. ASSUME NEW s \in StopCallers, token' = token \cup state,
             stop' = [stop EXCEPT ![s] = [pc |-> "draining", held |-> state, late |-> {}]]
      PROVE  Held'
  <2>1. \A r \in StopCallers : stop'[r].held = IF r = s THEN state ELSE stop[r].held
    BY <1>0, <1>3
  <2>2. \A t \in state : t \notin token
    BY DEF Found
  <2> QED
    BY <1>3, <2>1, <2>2
<1>4. ASSUME Start PROVE Held'
  <2>1. \A s \in StopCallers : stop'[s].held = {}
    BY <1>0, <1>4 DEF Start, Idle
  <2> QED
    BY <2>1
<1>5. ASSUME StartError PROVE Held'
  BY <1>3, <1>5, FailTasks DEF StopCallers
<1>6. ASSUME NEW s \in StopCallers, StopBegin(s) PROVE Held'
  BY <1>3, <1>6 DEF StopBegin
<1>7. ASSUME NEW s \in StopCallers, StopJoin(s) \/ StopTimeout(s) \/ \E t \in Tasks : AgentLate(s, t)
      PROVE  Held'
  <2>1. stop[s] \in StopCall /\ stop[s].held \subseteq Tasks /\ stop[s].late \subseteq Tasks
    BY StopShape
  <2>2. \E x : stop' = [stop EXCEPT ![s] = x] /\ x.held = stop[s].held
    <3>1. CASE StopJoin(s)
      <4>1. PICK p \in {"ok", "drain"} : stop' = [stop EXCEPT ![s].pc = p]
        BY <3>1 DEF StopJoin
      <4> QED
        BY <2>1, <4>1, StopTypes
    <3>2. CASE StopTimeout(s)
      BY <2>1, <3>2, StopTypes DEF StopTimeout
    <3>3. ASSUME NEW t \in Tasks, AgentLate(s, t)
          PROVE  \E x : stop' = [stop EXCEPT ![s] = x] /\ x.held = stop[s].held
      <4>1. stop' = [stop EXCEPT ![s] = [stop[s] EXCEPT !.late = stop[s].late \cup {t}]]
        BY <3>3 DEF AgentLate
      <4>2. stop[s].late \cup {t} \in SUBSET Tasks
        BY <2>1
      <4>3. [stop[s] EXCEPT !.late = stop[s].late \cup {t}].held = stop[s].held
        BY <2>1, <4>2, StopTypes
      <4> QED
        BY <4>1, <4>3
    <3> QED
      BY <1>7, <3>1, <3>2, <3>3
  <2>3. token' = token
    BY <1>7 DEF StopJoin, StopTimeout, AgentLate
  <2> QED
    BY <1>0, <1>2, <2>2, <2>3
<1> HIDE DEF Held
<1>8. ASSUME NEW t \in Tasks, Quit(t) \/ End(t) PROVE Held'
  BY <1>1, <1>8 DEF Quit, End
<1>9. CASE UNCHANGED serverVars
  BY <1>1, <1>9 DEF serverVars
<1>10. ASSUME UNCHANGED Others PROVE Held'
  BY <1>1, <1>10 DEF Others
<1>11. ASSUME StartReturnsErr PROVE Held'
  BY <1>1, <1>11 DEF StartReturnsErr
<1> QED
  BY <1>1, <1>4, <1>5, <1>6, <1>7, <1>8, <1>9, <1>10, <1>11, BindsTasks, SpawnsTasks, Steps,
     ConnFrame, GrpcFrame

-----------------------------------------------------------------------------
(* Sockets and connections *)

\* A step of a connection opens it, keeps it, or drops it; a new one is queued
\* at a listening task.
Moved ==
  \A j \in Clients : conn'[j] # None =>
    \/ /\ conn[j] # None /\ conn'[j].at = conn[j].at
       /\ conn'[j].phase = conn[j].phase \/ conn'[j].phase = "open"
    \/ /\ conn'[j].phase = "queued"
       /\ \E a \in Addresses : socket[a] # None /\ conn'[j].at = socket[a]

LEMMA ConnMoves ==
  ASSUME ServerAssumption, TypeOK, NEW k \in Clients,
         \/ \E c \in Components : Connect(k, c)
         \/ Accept(k) \/ Refuse(k) \/ CallEnd(k) \/ Closes(k)
         \/ \E how \in {"busy", "stuck"} : CallBegin(k, how)
  PROVE  Moved
<1>0. DOMAIN conn = Clients /\ DOMAIN socket = Addresses
  BY DEF TypeOK
<1>1. ASSUME NEW x \in Connection, conn[k] # None, x.at = conn[k].at,
             x.phase = conn[k].phase \/ x.phase = "open", conn' = [conn EXCEPT ![k] = x]
      PROVE  Moved
  BY <1>0, <1>1 DEF Moved
<1>2. ASSUME Hangs({k}) PROVE Moved
  BY <1>2, Hung DEF Moved
<1>3. ASSUME NEW c \in Components, Connect(k, c) PROVE Moved
  <2> DEFINE x == [at |-> socket[Addr(c)], phase |-> "queued", call |-> "none"]
  <2>1. Addr(c) \in Addresses /\ socket[Addr(c)] # None /\ conn' = [conn EXCEPT ![k] = x]
    BY <1>0, <1>3 DEF Connect
  <2>2. x.at = socket[Addr(c)] /\ x.phase = "queued"
    OBVIOUS
  <2> HIDE DEF x
  <2> QED
    BY <1>0, <2>1, <2>2 DEF Moved
<1>4. CASE Accept(k)
  <2>1. conn' = [conn EXCEPT ![k] = [conn[k] EXCEPT !.phase = "open"]] /\ conn[k] # None
    BY <1>4 DEF Accept
  <2> QED
    BY <1>1, <2>1, ConnectionShape, ConnectionTypes
<1>5. CASE CallEnd(k)
  <2>1. conn' = [conn EXCEPT ![k] = [conn[k] EXCEPT !.call = "none"]] /\ conn[k] # None
    BY <1>5 DEF CallEnd
  <2> QED
    BY <1>1, <2>1, ConnectionShape, ConnectionTypes
<1>6. ASSUME NEW how \in {"busy", "stuck"}, CallBegin(k, how) PROVE Moved
  <2>1. conn' = [conn EXCEPT ![k] = [conn[k] EXCEPT !.call = how]] /\ conn[k] # None
    BY <1>6 DEF CallBegin
  <2> QED
    BY <1>1, <2>1, ConnectionShape, ConnectionTypes
<1> QED
  BY <1>2, <1>3, <1>4, <1>5, <1>6 DEF Refuse, Closes, CloseConn

\* The connections that go with the tasks T: of each task those that were not
\* accepted, or more.
LEMMA Backlogged ==
  ASSUME NEW T
  PROVE  /\ \A k \in Clients : conn[k] # None /\ conn[k].at \in T /\ conn[k].phase # "open" =>
              k \in Backlog(T) /\ k \in DiesWith(T)
         /\ \A k \in Backlog(T) : conn[k].phase # "open"
         /\ \A k \in DiesWith(T) : conn[k].at \in T /\ (conn[k].phase = "open" => conn[k].at[1] = "http")
<1>1. \A k \in Clients : \A t : conn[k] # None /\ conn[k].at = t /\ conn[k].phase # "open" =>
        k \in Queued(t) /\ k \in At(t)
  BY Members
<1>2. \A t : \A k \in Queued(t) : conn[k].phase # "open" /\ conn[k].at = t
  BY Members
<1>3. \A t : \A k \in At(t) : conn[k].at = t
  BY Members
<1> QED
  BY <1>1, <1>2, <1>3 DEF Backlog, DiesWith

LEMMA ListeningStep ==
  ASSUME ServerAssumption, TypeOK, Progress, Found, Held, Listening, [Next]_serverVars
  PROVE  Listening'
<1> USE DEF Listening
<1>0. /\ \A a \in Addresses : socket[a] # None => socket[a] \in Tasks
      /\ \A k \in Clients : conn[k] # None => conn[k].at \in Tasks /\ conn[k].phase \in {"queued", "open"}
  BY ConnectionShape DEF TypeOK
<1>1. ASSUME UNCHANGED <<socket, conn, task>> PROVE Listening'
  BY <1>1
<1>2. ASSUME NEW T, NEW K, Unlisten(T), Hangs(K),
             \A t \in Tasks : t \notin T => task'[t] = task[t],
             \A k \in Clients : conn[k] # None /\ conn[k].at \in T /\ conn[k].phase # "open" => k \in K
      PROVE  Listening'
  BY <1>0, <1>2, Unlistened, Hung
<1>3. ASSUME NEW C \in SUBSET Components, NEW next \in {"agents", "mount", "serve3", "serve1"}, Binds(C, next)
      PROVE  Listening'
  <2>1. PICK T \in SUBSET Tasks :
           /\ \A t \in T : task[t] = "none"
           /\ \A t \in Tasks : task'[t] = IF t \in T THEN "bound" ELSE task[t]
           /\ \A a \in Addresses : socket'[a] = socket[a] \/ socket'[a] \in T
           /\ conn' = conn
    BY <1>3, BindsTasks
  <2> QED
    BY <1>0, <2>1
<1>4. ASSUME NEW C \in SUBSET Components, NEW next \in {"serve", "http3", "http", "idle"}, Spawns(C, next)
      PROVE  Listening'
  <2>1. PICK T \in SUBSET Tasks :
           /\ \A t \in Tasks : task'[t] = IF t \in T THEN "serving" ELSE task[t]
           /\ UNCHANGED <<socket, conn>>
    BY <1>4, SpawnsTasks
  <2> QED
    BY <1>0, <2>1
<1>5. ASSUME StartError PROVE Listening'
  <2>1. /\ \A t \in Tasks : t \notin Unspawned => task'[t] = task[t]
        /\ Unlisten(Unspawned) /\ Hangs(Backlog(Unspawned))
    BY <1>5, FailTasks DEF Unspawned
  <2> QED
    BY <1>2, <2>1, Backlogged
<1>6. ASSUME NEW s \in StopCallers, StopTimeout(s) PROVE Listening'
  <2>1. PICK T \in SUBSET stop[s].held :
          /\ Unlisten(T) /\ Hangs(DiesWith(T))
          /\ \A t \in Tasks : task'[t] = IF t \in T THEN "done" ELSE task[t]
    BY <1>6, CutTasks
  <2> QED
    BY <1>2, <2>1, Backlogged
<1>7. ASSUME NEW t \in Tasks, Quit(t) PROVE Listening'
  <2>1. \A u \in Tasks : u \notin {t} => task'[u] = task[u]
    BY <1>7, Phased DEF Quit, Phases
  <2>2. PICK K \in {At(t), Queued(t)} : Hangs(K)
    BY <1>7 DEF Quit
  <2>3. \A k \in Clients : conn[k] # None /\ conn[k].at \in {t} /\ conn[k].phase # "open" => k \in K
    BY <2>2, Members
  <2>4. Unlisten({t})
    BY <1>7 DEF Quit
  <2> QED
    BY <1>2, <2>1, <2>2, <2>3, <2>4
<1>8. ASSUME NEW t \in Tasks, End(t) PROVE Listening'
  <2>1. task[t] = "draining" /\ UNCHANGED <<socket, conn>>
    BY <1>8 DEF End
  <2>2. \A u \in Tasks : u # t => task'[u] = task[u]
    BY <1>8, Phased DEF End, Phases
  <2> QED
    BY <1>0, <2>1, <2>2
<1>9. ASSUME Moved, UNCHANGED <<socket, task>>, conn' \in [Clients -> Connection \cup {None}] PROVE Listening'
  BY <1>0, <1>9 DEF Moved
<1>10. CASE UNCHANGED serverVars
  BY <1>1, <1>10 DEF serverVars
<1>11. ASSUME Start \/ StartReturnsErr PROVE Listening'
  BY <1>1, <1>11 DEF Start, StartReturnsErr
<1>12. ASSUME NEW s \in StopCallers, StopBegin(s) \/ StopJoin(s) \/ \E t \in Tasks : AgentLate(s, t)
       PROVE  Listening'
  BY <1>1, <1>12 DEF StopBegin, StopJoin, AgentLate
<1>13. ASSUME NEW g \in Gens, DrainDeadline(g) \/ TakePermit(g) \/ AcceptFail(g) PROVE Listening'
  BY <1>1, <1>13, GrpcFrame
<1> HIDE DEF Listening
<1>14. ASSUME NEW k \in Clients,
              \/ \E c \in Components : Connect(k, c)
              \/ Accept(k) \/ Refuse(k) \/ CallEnd(k) \/ Closes(k)
              \/ \E how \in {"busy", "stuck"} : CallBegin(k, how)
       PROVE  Listening'
  <2>1. UNCHANGED Others /\ Moved /\ TypeOK'
    BY <1>14, ConnFrame, ConnMoves, ConnType
  <2> QED
    BY <1>9, <2>1 DEF Others, TypeOK
<1> QED
  BY <1>3, <1>4, <1>5, <1>6, <1>7, <1>8, <1>10, <1>11, <1>12, <1>13, <1>14, Steps

LEMMA DrainedStep ==
  ASSUME ServerAssumption, TypeOK, Progress, Found, Held, Listening, Drained, [Next]_serverVars
  PROVE  Drained'
<1> USE DEF Drained
<1>0. /\ DOMAIN stop = StopCallers
      /\ \A a \in Addresses : socket[a] # None => socket[a] \in Tasks
      /\ \A k \in Clients : conn[k] # None => conn[k].at \in Tasks /\ conn[k].phase \in {"queued", "open"}
      /\ \A s \in StopCallers : stop[s].held \subseteq Tasks
  BY ConnectionShape, StopShape DEF TypeOK
\* The connections stay or go, and no task of a stop ends.
<1>1. ASSUME \A s \in StopCallers : stop'[s].held = stop[s].held /\ stop'[s].pc = stop[s].pc,
             \A k \in Clients : conn'[k] # None => conn'[k] = conn[k],
             \A t \in Tasks : task'[t] = "done" <=> task[t] = "done"
      PROVE  Drained'
  BY <1>0, <1>1
<1>2. ASSUME UNCHANGED <<stop, conn, task>> PROVE Drained'
  BY <1>2
<1>3. ASSUME NEW s \in StopCallers,
             stop' = [stop EXCEPT ![s] = [pc |-> "draining", held |-> state, late |-> {}]],
             \A k \in Clients : conn'[k] # None => conn'[k] = conn[k],
             \A t \in Tasks : task'[t] = "done" <=> task[t] = "done"
      PROVE  Drained'
  <2>1. \A r \in StopCallers : r # s => stop'[r] = stop[r]
    BY <1>0, <1>3
  <2>2. stop'[s].held = state /\ stop'[s].pc = "draining"
    BY <1>0, <1>3
  <2>3. \A t \in state : task'[t] # "done"
    BY <1>3 DEF Found, TypeOK
  <2> QED
    BY <1>0, <1>3, <2>1, <2>2, <2>3
<1>4. ASSUME Start PROVE Drained'
  <2>1. \A s \in StopCallers : stop'[s].held = {}
    BY <1>0, <1>4 DEF Start, Idle
  <2> QED
    BY <2>1
<1>5. ASSUME StartError PROVE Drained'
  <2>1. \A t \in Tasks : task'[t] = "done" <=> task[t] = "done"
    BY <1>5, FailTasks
  <2>2. \A k \in Clients : conn'[k] # None => conn'[k] = conn[k]
    BY <1>5, FailTasks, Hung
  <2> QED
    BY <1>3, <1>5, <2>1, <2>2, FailTasks DEF StopCallers
<1>6. ASSUME NEW s \in StopCallers, StopBegin(s) PROVE Drained'
  BY <1>3, <1>6 DEF StopBegin
<1>7. ASSUME NEW s \in StopCallers, StopJoin(s) PROVE Drained'
  <2>1. stop[s].pc = "draining" /\ UNCHANGED <<conn, task>>
    BY <1>7 DEF StopJoin
  <2>2. PICK p \in {"ok", "drain"} :
          stop' = [stop EXCEPT ![s].pc = p] /\ (p = "ok" => stop[s].late = {})
    BY <1>7 DEF StopJoin
  <2>3. stop[s] \in StopCall
    BY StopShape
  <2>4. stop'[s].pc = p /\ stop'[s].held = stop[s].held /\ \A r \in StopCallers : r # s => stop'[r] = stop[r]
    BY <1>0, <2>2, <2>3, StopTypes
  <2>5. p = "ok" => \A t \in stop[s].held : task[t] = "done"
    BY <1>7, <2>2 DEF StopJoin, Joined
  <2> QED
    BY <2>1, <2>4, <2>5
<1>8. ASSUME NEW s \in StopCallers, NEW t \in Tasks, AgentLate(s, t) PROVE Drained'
  <2>1. stop' = [stop EXCEPT ![s] = [stop[s] EXCEPT !.late = stop[s].late \cup {t}]]
    BY <1>8 DEF AgentLate
  <2>2. stop[s] \in StopCall /\ stop[s].late \cup {t} \in SUBSET Tasks
    BY StopShape
  <2>3. \A r \in StopCallers : stop'[r].held = stop[r].held /\ stop'[r].pc = stop[r].pc
    BY <1>0, <2>1, <2>2, StopTypes
  <2> QED
    BY <1>1, <1>8, <2>3 DEF AgentLate
<1>9. ASSUME NEW s \in StopCallers, StopTimeout(s) PROVE Drained'
  <2>1. PICK T \in SUBSET stop[s].held :
          /\ Hangs(DiesWith(T))
          /\ \A t \in Tasks : task'[t] = IF t \in T THEN "done" ELSE task[t]
    BY <1>9, CutTasks
  <2>2. stop'[s].pc = "timeout" /\ \A r \in StopCallers : r # s => stop'[r] = stop[r]
    BY <1>0, <1>9, StopShape, StopTypes DEF StopTimeout
  <2>3. \A r \in StopCallers : r # s => stop[r].held \cap T = {}
    BY <2>1 DEF Held
  <2>4. \A k \in Clients : conn'[k] # None => conn'[k] = conn[k]
    BY <2>1, Hung
  <2> QED
    BY <1>0, <2>1, <2>2, <2>3, <2>4
<1>10. ASSUME NEW t \in Tasks, Quit(t) PROVE Drained'
  <2>1. \A u \in Tasks : task'[u] = "done" <=> task[u] = "done"
    BY <1>10, Phased DEF Quit, Phases
  <2>2. \A k \in Clients : conn'[k] # None => conn'[k] = conn[k]
    BY <1>10, Hung DEF Quit
  <2> QED
    BY <1>1, <1>10, <2>1, <2>2 DEF Quit
<1>11. ASSUME NEW t \in Tasks, End(t) PROVE Drained'
  <2>1. task[t] = "draining" /\ Open(t) = {} /\ UNCHANGED <<stop, conn>>
    BY <1>11 DEF End
  <2>2. \A u \in Tasks : task'[u] = IF u \in {t} THEN "done" ELSE task[u]
    BY <1>11, Phased DEF End, Phases
  <2>3. \A k \in Clients : conn[k] # None => conn[k].at # t
    BY <1>0, <2>1, Members DEF Listening
  <2> QED
    BY <1>0, <2>1, <2>2, <2>3
<1>12. ASSUME NEW C \in SUBSET Components, NEW next \in {"agents", "mount", "serve3", "serve1"}, Binds(C, next)
      PROVE  Drained'
  <2>1. /\ \A t \in Tasks : task'[t] = "done" <=> task[t] = "done"
        /\ UNCHANGED <<stop, conn>>
    BY <1>12, BindsTasks
  <2> QED
    BY <1>1, <2>1
<1>13. ASSUME NEW C \in SUBSET Components, NEW next \in {"serve", "http3", "http", "idle"}, Spawns(C, next)
      PROVE  Drained'
  <2>1. /\ \A t \in Tasks : task'[t] = "done" <=> task[t] = "done"
        /\ UNCHANGED <<stop, conn>>
    BY <1>13, SpawnsTasks
  <2> QED
    BY <1>1, <2>1
<1>14. ASSUME Moved, UNCHANGED <<stop, task>> PROVE Drained'
  BY <1>0, <1>14 DEF Moved, Listening
<1>15. CASE UNCHANGED serverVars
  BY <1>2, <1>15 DEF serverVars
<1>16. ASSUME StartReturnsErr PROVE Drained'
  BY <1>2, <1>16 DEF StartReturnsErr
<1> HIDE DEF Drained
<1>17. ASSUME NEW g \in Gens, DrainDeadline(g) \/ TakePermit(g) \/ AcceptFail(g) PROVE Drained'
  BY <1>2, <1>17, GrpcFrame
<1>18. ASSUME NEW k \in Clients,
              \/ \E c \in Components : Connect(k, c)
              \/ Accept(k) \/ Refuse(k) \/ CallEnd(k) \/ Closes(k)
              \/ \E how \in {"busy", "stuck"} : CallBegin(k, how)
       PROVE  Drained'
  BY <1>14, <1>18, ConnFrame, ConnMoves DEF Others
<1> QED
  BY <1>4, <1>5, <1>6, <1>7, <1>8, <1>9, <1>10, <1>11, <1>12, <1>13, <1>15, <1>16, <1>17, <1>18, Steps

-----------------------------------------------------------------------------
(* The connection limit *)

Grpc(g) == Open(<<"grpc", g>>)

LEMMA GrpcCount ==
  ASSUME ServerAssumption, NEW g
  PROVE  /\ IsFiniteSet(Grpc(g)) /\ Cardinality(Grpc(g)) \in Nat
         /\ \A k \in Clients : k \notin Grpc(g) => Cardinality(Grpc(g) \cup {k}) = Cardinality(Grpc(g)) + 1
         /\ \A k \in Grpc(g) : Cardinality(Grpc(g) \ {k}) = Cardinality(Grpc(g)) - 1
<1>1. Grpc(g) \subseteq Clients
  BY DEF Grpc, Open, At
<1>2. IsFiniteSet(Grpc(g)) /\ Cardinality(Grpc(g)) \in Nat
  BY <1>1, FS_Subset, FS_CardinalityType DEF ServerAssumption
<1> QED
  BY <1>2, FS_AddElement, FS_RemoveElement

\* The balance of one start's permits.
Balanced(n, c, p) == n + c + (IF p THEN 1 ELSE 0) = MaxConns

LEMMA Balances ==
  /\ SlotsConserved <=> \A g \in Gens : Balanced(slots[g], Cardinality(Grpc(g)), permit[g])
  /\ SlotsConserved' <=> \A g \in Gens : Balanced(slots'[g], Cardinality(Grpc(g)'), permit'[g])
BY DEF SlotsConserved, Balanced, Grpc

LEMMA Rebalance ==
  ASSUME NEW n \in Int, NEW c \in Int, ServerAssumption
  PROVE  /\ Balanced(n, c, TRUE) => Balanced(n + 1, c, FALSE) /\ Balanced(n, c + 1, FALSE)
         /\ Balanced(n, c, FALSE) => Balanced(n - 1, c, TRUE)
         /\ \A p \in BOOLEAN : Balanced(n, c, p) => Balanced(n - 1, c + 1, p) /\ Balanced(n + 1, c - 1, p)
BY DEF Balanced, ServerAssumption

\* A step that moves the permits of one start only.
LEMMA OneStart ==
  ASSUME SlotsConserved, NEW g \in Gens,
         \A h \in Gens : h # g =>
           slots'[h] = slots[h] /\ permit'[h] = permit[h] /\ Grpc(h)' = Grpc(h),
         Balanced(slots'[g], Cardinality(Grpc(g)'), permit'[g])
  PROVE  SlotsConserved'
<1>1. ASSUME NEW h \in Gens, h # g
      PROVE  Balanced(slots'[h], Cardinality(Grpc(h)'), permit'[h])
  BY <1>1, Balances
<1> QED
  BY <1>1, Balances

LEMMA BalancedNow ==
  ASSUME ServerAssumption, TypeOK, SlotsConserved, NEW g \in Gens
  PROVE  /\ slots[g] \in Int /\ Cardinality(Grpc(g)) \in Int /\ permit[g] \in BOOLEAN
         /\ Balanced(slots[g], Cardinality(Grpc(g)), permit[g])
<1>1. slots[g] \in Int /\ permit[g] \in BOOLEAN
  BY DEF TypeOK
<1> QED
  BY <1>1, GrpcCount, Balances

\* Connection k of g's gRPC task becomes open, or stops being so.
LEMMA OneOpens ==
  ASSUME ServerAssumption, TypeOK, SlotsConserved, NEW g \in Gens, NEW k \in Clients, k \notin Grpc(g),
         Grpc(g)' = Grpc(g) \cup {k}, \A h \in Gens : h # g => Grpc(h)' = Grpc(h),
         \/ permit[g] = TRUE /\ permit' = [permit EXCEPT ![g] = FALSE] /\ slots' = slots
         \/ permit' = permit /\ slots' = [slots EXCEPT ![g] = slots[g] - 1]
  PROVE  SlotsConserved'
<1>1. DOMAIN slots = Gens /\ DOMAIN permit = Gens
  BY DEF TypeOK
<1>2. Cardinality(Grpc(g)') = Cardinality(Grpc(g)) + 1
  BY GrpcCount
<1>3. \A h \in Gens : h # g => slots'[h] = slots[h] /\ permit'[h] = permit[h]
  BY <1>1
<1>4. Balanced(slots'[g], Cardinality(Grpc(g)'), permit'[g])
  <2> DEFINE c == Cardinality(Grpc(g))
  <2>1. slots[g] \in Int /\ c \in Int /\ permit[g] \in BOOLEAN /\ Balanced(slots[g], c, permit[g])
    BY BalancedNow
  <2>2. Cardinality(Grpc(g)') = c + 1
    BY <1>2
  <2> HIDE DEF c
  <2>3. CASE permit[g] = TRUE /\ permit' = [permit EXCEPT ![g] = FALSE] /\ slots' = slots
    <3>1. Balanced(slots[g], c, TRUE)
      BY <2>1, <2>3
    <3>2. permit'[g] = FALSE /\ slots'[g] = slots[g]
      BY <1>1, <2>3
    <3> QED
      BY <2>1, <2>2, <3>1, <3>2, Rebalance
  <2>4. CASE permit' = permit /\ slots' = [slots EXCEPT ![g] = slots[g] - 1]
    <3>1. permit'[g] = permit[g] /\ slots'[g] = slots[g] - 1
      BY <1>1, <2>4
    <3> QED
      BY <2>1, <2>2, <3>1, Rebalance
  <2> QED
    BY <2>3, <2>4
<1> QED
  BY <1>3, <1>4, OneStart

LEMMA OneCloses ==
  ASSUME ServerAssumption, TypeOK, SlotsConserved, NEW g \in Gens, NEW k \in Grpc(g),
         Grpc(g)' = Grpc(g) \ {k}, \A h \in Gens : h # g => Grpc(h)' = Grpc(h),
         permit' = permit /\ slots' = [slots EXCEPT ![g] = slots[g] + 1]
  PROVE  SlotsConserved'
<1>1. DOMAIN slots = Gens /\ DOMAIN permit = Gens
  BY DEF TypeOK
<1>2. Cardinality(Grpc(g)') = Cardinality(Grpc(g)) - 1
  BY GrpcCount
<1>3. \A h \in Gens : h # g => slots'[h] = slots[h] /\ permit'[h] = permit[h]
  BY <1>1
<1>4. slots'[g] = slots[g] + 1 /\ permit'[g] = permit[g]
  BY <1>1
<1>5. Balanced(slots'[g], Cardinality(Grpc(g)'), permit'[g])
  BY <1>2, <1>4, BalancedNow, Rebalance
<1> QED
  BY <1>3, <1>5, OneStart

\* The permit of g is taken, or given back: no connection moves.
LEMMA OnePermit ==
  ASSUME ServerAssumption, TypeOK, SlotsConserved, NEW g \in Gens, \A h \in Gens : Grpc(h)' = Grpc(h),
         \/ /\ permit[g] = FALSE /\ permit' = [permit EXCEPT ![g] = TRUE]
            /\ slots' = [slots EXCEPT ![g] = slots[g] - 1]
         \/ /\ permit[g] = TRUE /\ permit' = [permit EXCEPT ![g] = FALSE]
            /\ slots' = [slots EXCEPT ![g] = slots[g] + 1]
  PROVE  SlotsConserved'
<1>1. DOMAIN slots = Gens /\ DOMAIN permit = Gens
  BY DEF TypeOK
<1>2. \A h \in Gens : h # g => slots'[h] = slots[h] /\ permit'[h] = permit[h]
  BY <1>1
<1>3. Balanced(slots'[g], Cardinality(Grpc(g)'), permit'[g])
  <2> DEFINE c == Cardinality(Grpc(g))
  <2>1. slots[g] \in Int /\ c \in Int /\ Balanced(slots[g], c, permit[g])
    BY BalancedNow
  <2>2. Cardinality(Grpc(g)') = c
    OBVIOUS
  <2> HIDE DEF c
  <2>3. CASE permit[g] = FALSE /\ permit' = [permit EXCEPT ![g] = TRUE] /\ slots' = [slots EXCEPT ![g] = slots[g] - 1]
    <3>1. Balanced(slots[g], c, FALSE)
      BY <2>1, <2>3
    <3>2. permit'[g] = TRUE /\ slots'[g] = slots[g] - 1
      BY <1>1, <2>3
    <3> QED
      BY <2>1, <2>2, <3>1, <3>2, Rebalance
  <2>4. CASE permit[g] = TRUE /\ permit' = [permit EXCEPT ![g] = FALSE] /\ slots' = [slots EXCEPT ![g] = slots[g] + 1]
    <3>1. Balanced(slots[g], c, TRUE)
      BY <2>1, <2>4
    <3>2. permit'[g] = FALSE /\ slots'[g] = slots[g] + 1
      BY <1>1, <2>4
    <3> QED
      BY <2>1, <2>2, <3>1, <3>2, Rebalance
  <2> QED
    BY <2>3, <2>4
<1> QED
  BY <1>2, <1>3, OneStart

\* Steps that leave a start's permits and open connections alone.
LEMMA SameOpen ==
  ASSUME NEW g,
         \A k \in Clients : (conn'[k] # None /\ conn'[k].phase = "open" /\ conn'[k].at = <<"grpc", g>>)
                        <=> (conn[k] # None /\ conn[k].phase = "open" /\ conn[k].at = <<"grpc", g>>)
  PROVE  Grpc(g)' = Grpc(g)
<1> DEFINE t == <<"grpc", g>>
<1>1. \A k : k \in Open(t)' <=> k \in Open(t)
  BY Members
<1>2. Open(t)' = Open(t)
  BY <1>1 DEF Open
<1> QED
  BY <1>2 DEF Grpc

LEMMA SlotsStep ==
  ASSUME ServerAssumption, TypeOK, Progress, Found, Held, SlotsConserved, [Next]_serverVars
  PROVE  SlotsConserved'
<1>0. /\ DOMAIN slots = Gens /\ DOMAIN permit = Gens /\ DOMAIN conn = Clients
      /\ \A g \in Gens : slots[g] \in Int /\ permit[g] \in BOOLEAN
      /\ \A g : Cardinality(Grpc(g)) \in Int
      /\ \A k \in Clients : conn[k] # None =>
           conn[k] \in Connection /\ conn[k].at \in Tasks /\ conn[k].phase \in {"queued", "open"}
  BY ConnectionShape, GrpcCount DEF TypeOK
<1>1. ASSUME UNCHANGED <<slots, permit>>, \A g \in Gens : Grpc(g)' = Grpc(g) PROVE SlotsConserved'
  BY <1>1, Balances
<1>2. ASSUME UNCHANGED <<slots, permit, conn>> PROVE SlotsConserved'
  BY <1>1, <1>2, SameOpen
\* Hanging up connections that are queued or not gRPC's.
<1>3. ASSUME NEW K, Hangs(K), \A k \in K : conn[k].phase = "open" => conn[k].at[1] # "grpc"
      PROVE  \A g \in Gens : Grpc(g)' = Grpc(g)
  <2>1. ASSUME NEW g \in Gens, NEW k \in Clients
        PROVE  (conn'[k] # None /\ conn'[k].phase = "open" /\ conn'[k].at = <<"grpc", g>>)
           <=> (conn[k] # None /\ conn[k].phase = "open" /\ conn[k].at = <<"grpc", g>>)
    BY <1>3, Hung
  <2> QED
    BY <2>1, SameOpen
<1>4. ASSUME StartError PROVE SlotsConserved'
  <2>1. Hangs(Backlog(Unspawned)) /\ UNCHANGED <<slots, permit>>
    BY <1>4, FailTasks
  <2> QED
    BY <1>1, <1>3, <2>1, Backlogged
<1>5. ASSUME NEW s \in StopCallers, StopTimeout(s) PROVE SlotsConserved'
  <2>1. PICK T \in SUBSET stop[s].held : Hangs(DiesWith(T))
    BY <1>5, CutTasks
  <2>2. \A k \in DiesWith(T) : conn[k].phase = "open" => conn[k].at[1] # "grpc"
    BY Backlogged
  <2> QED
    BY <1>1, <1>3, <1>5, <2>1, <2>2 DEF StopTimeout
<1>6. ASSUME NEW g \in Gens, TakePermit(g) PROVE SlotsConserved'
  <2>1. /\ permit[g] = FALSE /\ permit' = [permit EXCEPT ![g] = TRUE]
        /\ slots' = [slots EXCEPT ![g] = slots[g] - 1] /\ conn' = conn
    BY <1>0, <1>6 DEF TakePermit
  <2>2. \A h \in Gens : Grpc(h)' = Grpc(h)
    BY <2>1, SameOpen
  <2> QED
    BY <2>1, <2>2, OnePermit
<1>7. ASSUME NEW g \in Gens, AcceptFail(g) PROVE SlotsConserved'
  <2>1. /\ permit[g] = TRUE /\ permit' = [permit EXCEPT ![g] = FALSE]
        /\ slots' = [slots EXCEPT ![g] = slots[g] + 1] /\ conn' = conn
    BY <1>0, <1>7 DEF AcceptFail
  <2>2. \A h \in Gens : Grpc(h)' = Grpc(h)
    BY <2>1, SameOpen
  <2> QED
    BY <2>1, <2>2, OnePermit
<1>8. ASSUME NEW t \in Tasks, Quit(t) PROVE SlotsConserved'
  <2>1. \A g \in Gens : Grpc(g)' = Grpc(g)
    <3>1. PICK K \in {At(t), Queued(t)} : Hangs(K) /\ (K = At(t) => t[1] = "http3" \/ At(t) = Queued(t))
      BY <1>8 DEF Quit
    <3>2. \A k \in K : conn[k].phase = "open" => conn[k].at[1] # "grpc"
      BY <3>1, Members
    <3> QED
      BY <1>3, <3>1, <3>2
  <2>2. t[2] \in Gens
    BY TaskShape
  <2>3. CASE t[1] = "grpc" /\ permit[t[2]]
    <3>1. slots' = [slots EXCEPT ![t[2]] = slots[t[2]] + 1] /\ permit' = [permit EXCEPT ![t[2]] = FALSE]
      BY <1>8, <2>3 DEF Quit
    <3>2. permit[t[2]] = TRUE
      BY <1>0, <2>2, <2>3
    <3> QED
      BY <2>1, <2>2, <3>1, <3>2, OnePermit
  <2>4. CASE ~(t[1] = "grpc" /\ permit[t[2]])
    <3>1. slots' = [slots EXCEPT ![t[2]] = slots[t[2]]]
      BY <1>8, <2>4 DEF Quit
    <3>2. permit' = [permit EXCEPT ![t[2]] = permit[t[2]]]
      BY <1>0, <1>8, <2>2, <2>4 DEF Quit
    <3>3. slots' = slots
      <4>1. slots \in [Gens -> Int]
        BY DEF TypeOK
      <4> QED
        BY <3>1, <4>1
    <3>4. permit' = permit
      <4>1. permit \in [Gens -> BOOLEAN]
        BY DEF TypeOK
      <4> QED
        BY <2>2, <3>2, <4>1, Zenon
    <3> QED
      BY <1>1, <2>1, <3>3, <3>4
  <2> QED
    BY <2>3, <2>4
<1>9. ASSUME NEW k \in Clients, Accept(k) PROVE SlotsConserved'
  <2>0. PICK g \in Gens : conn[k] # None => g = conn[k].at[2]
    BY <1>0, <1>9, TaskShape DEF Accept
  <2>1. /\ conn[k] # None /\ conn[k].phase = "queued"
        /\ conn' = [conn EXCEPT ![k] = [conn[k] EXCEPT !.phase = "open"]]
    BY <1>9 DEF Accept
  <2>2. /\ g = conn[k].at[2] /\ conn[k].at = <<conn[k].at[1], g>>
        /\ conn'[k] \in Connection /\ conn'[k].phase = "open" /\ conn'[k].at = conn[k].at
    BY <1>0, <2>0, <2>1, TaskShape, ConnectionTypes
  <2>3. conn'[k] # None /\ \A j \in Clients : j # k => conn'[j] = conn[j]
    BY <2>1, <2>2, ConnectionShape
  <2>4. CASE ~Limited(conn[k].at)
    <3>1. \A h \in Gens : Grpc(h)' = Grpc(h)
      <4>1. conn[k].at[1] # "grpc"
        BY <2>4 DEF Limited
      <4>2. \A h \in Gens : conn[k].at # <<"grpc", h>>
        BY <4>1
      <4> QED
        BY <2>1, <2>2, <2>3, <4>2, SameOpen
    <3> QED
      BY <1>1, <1>9, <2>4, <3>1 DEF Accept
  <2>5. CASE Limited(conn[k].at)
    <3>1. conn[k].at = <<"grpc", g>>
      BY <2>2, <2>5 DEF Limited
    <3>2. \A h \in Gens : h # g => Grpc(h)' = Grpc(h)
      <4>1. \A h \in Gens : h # g => conn[k].at # <<"grpc", h>>
        BY <2>2, <3>1
      <4> QED
        BY <2>1, <2>2, <2>3, <4>1, SameOpen
    <3>3. k \notin Grpc(g) /\ Grpc(g)' = Grpc(g) \cup {k}
      <4> DEFINE u == <<"grpc", g>>
      <4>1. k \notin Open(u)
        BY <2>1, Members
      <4>2. \A j : j \in Open(u)' <=> j \in Open(u) \cup {k}
        BY <2>2, <2>3, <3>1, Members
      <4> QED
        BY <4>1, <4>2 DEF Grpc, Open, At
    <3>4. \/ permit[g] = TRUE /\ permit' = [permit EXCEPT ![g] = FALSE] /\ slots' = slots
          \/ permit' = permit /\ slots' = [slots EXCEPT ![g] = slots[g] - 1]
      BY <1>0, <1>9, <2>2, <2>5 DEF Accept
    <3> QED
      BY <3>2, <3>3, <3>4, OneOpens
  <2> QED
    BY <2>4, <2>5
<1>10. ASSUME NEW k \in Clients, Closes(k) PROVE SlotsConserved'
  <2>0. PICK g \in Gens : conn[k] # None => g = conn[k].at[2]
    BY <1>0, <1>10, TaskShape DEF Closes, OpenConn
  <2>1. conn[k] # None /\ conn[k].phase = "open" /\ Hangs({k}) /\ permit' = permit
    BY <1>10 DEF Closes, OpenConn, CloseConn
  <2>2. g = conn[k].at[2] /\ conn[k].at = <<conn[k].at[1], g>>
    BY <1>0, <2>0, <2>1, TaskShape
  <2>3. conn'[k] = None /\ \A j \in Clients : j # k => conn'[j] = conn[j]
    BY <2>1, Hung
  <2>4. CASE ~Limited(conn[k].at)
    <3>1. \A h \in Gens : Grpc(h)' = Grpc(h)
      <4>1. \A j \in {k} : conn[j].phase = "open" => conn[j].at[1] # "grpc"
        BY <2>4 DEF Limited
      <4> QED
        BY <1>3, <2>1, <4>1
    <3>2. slots' = slots
      <4>1. slots \in [Gens -> Int]
        BY DEF TypeOK
      <4>2. slots' = [slots EXCEPT ![g] = slots[g]]
        BY <1>10, <2>2, <2>4 DEF Closes, CloseConn
      <4> QED
        BY <4>1, <4>2
    <3> QED
      BY <1>1, <2>1, <3>1, <3>2
  <2>5. CASE Limited(conn[k].at)
    <3>1. conn[k].at = <<"grpc", g>>
      BY <2>2, <2>5 DEF Limited
    <3>2. \A h \in Gens : h # g => Grpc(h)' = Grpc(h)
      <4>1. \A h \in Gens : h # g => conn[k].at # <<"grpc", h>>
        BY <2>2, <3>1
      <4> QED
        BY <2>1, <2>3, <4>1, SameOpen
    <3>3. k \in Grpc(g) /\ Grpc(g)' = Grpc(g) \ {k}
      <4> DEFINE u == <<"grpc", g>>
      <4>1. k \in Open(u)
        BY <2>1, <3>1, Members
      <4>2. \A j : j \in Open(u)' <=> j \in Open(u) \ {k}
        BY <2>3, Members
      <4> QED
        BY <4>1, <4>2 DEF Grpc, Open, At
    <3>4. slots' = [slots EXCEPT ![g] = slots[g] + 1]
      BY <1>10, <2>2, <2>5 DEF Closes, CloseConn
    <3> QED
      BY <2>1, <3>2, <3>3, <3>4, OneCloses
  <2> QED
    BY <2>4, <2>5
<1>11. ASSUME NEW k \in Clients,
              \/ \E c \in Components : Connect(k, c)
              \/ Refuse(k) \/ CallEnd(k)
              \/ \E how \in {"busy", "stuck"} : CallBegin(k, how)
       PROVE  SlotsConserved'
  <2>1. UNCHANGED <<slots, permit>>
    BY <1>11 DEF Connect, Refuse, CallEnd, CallBegin
  <2>2. CASE \E c \in Components : Connect(k, c)
    <3>1. PICK c \in Components : Connect(k, c)
      BY <2>2
    <3>2. /\ conn[k] = None /\ conn'[k] = [at |-> socket[Addr(c)], phase |-> "queued", call |-> "none"]
          /\ \A j \in Clients : j # k => conn'[j] = conn[j]
      BY <1>0, <3>1 DEF Connect
    <3>3. conn'[k].phase = "queued"
      BY <3>2
    <3> QED
      BY <1>1, <2>1, <3>2, <3>3, SameOpen
  <2>3. CASE Refuse(k)
    <3>1. Hangs({k}) /\ conn[k].phase = "queued"
      BY <2>3 DEF Refuse
    <3> QED
      BY <1>1, <1>3, <2>1, <3>1
  <2>4. CASE CallEnd(k) \/ \E how \in {"busy", "stuck"} : CallBegin(k, how)
    <3>1. PICK how \in {"none", "busy", "stuck"} :
            conn[k] # None /\ conn' = [conn EXCEPT ![k] = [conn[k] EXCEPT !.call = how]]
      BY <2>4 DEF CallEnd, CallBegin
    <3>2. /\ conn'[k] \in Connection /\ conn'[k].phase = conn[k].phase /\ conn'[k].at = conn[k].at
          /\ \A j \in Clients : j # k => conn'[j] = conn[j]
      BY <1>0, <3>1, ConnectionTypes
    <3>3. conn'[k] # None
      BY <3>2, ConnectionShape
    <3> QED
      BY <1>1, <2>1, <3>1, <3>2, <3>3, SameOpen
  <2> QED
    BY <1>11, <2>2, <2>3, <2>4
<1>12. ASSUME Start \/ StartReturnsErr PROVE SlotsConserved'
  BY <1>2, <1>12 DEF Start, StartReturnsErr
<1>13. ASSUME NEW s \in StopCallers, StopBegin(s) \/ StopJoin(s) \/ \E t \in Tasks : AgentLate(s, t)
       PROVE  SlotsConserved'
  BY <1>2, <1>13 DEF StopBegin, StopJoin, AgentLate
<1>14. ASSUME NEW C, NEW next, Binds(C, next) \/ Spawns(C, next) PROVE SlotsConserved'
  BY <1>2, <1>14 DEF Binds, Bind, Spawns, Spawn
<1>15. ASSUME NEW t \in Tasks, End(t) PROVE SlotsConserved'
  BY <1>2, <1>15 DEF End
<1>16. ASSUME NEW g \in Gens, DrainDeadline(g) PROVE SlotsConserved'
  BY <1>2, <1>16 DEF DrainDeadline
<1>17. CASE UNCHANGED serverVars
  BY <1>2, <1>17 DEF serverVars
<1> QED
  BY <1>4, <1>5, <1>6, <1>7, <1>8, <1>9, <1>10, <1>11, <1>12, <1>13, <1>14, <1>15, <1>16, <1>17, Steps

-----------------------------------------------------------------------------
(* The theorems *)

LEMMA IInvStep == ASSUME ServerAssumption, IInv, [Next]_serverVars PROVE IInv'
<1> USE DEF IInv
<1>1. TypeOK' /\ Progress' /\ Found' /\ Held'
  BY TypeStep, ProgressStep, FoundStep, HeldStep
<1>2. Listening' /\ Drained' /\ SlotsConserved'
  BY ListeningStep, DrainedStep, SlotsStep
<1> QED
  BY <1>1, <1>2

LEMMA Invariance == ASSUME ServerAssumption PROVE Spec => []IInv
<1>1. Init => IInv
  BY InitIInv
<1>2. IInv /\ [Next]_serverVars => IInv'
  BY IInvStep
<1> QED
  BY <1>1, <1>2, PTL DEF Spec

\* The variables keep their types, for any options and any number of starts, stops and
\* clients (lifecycle.rs, server.rs, listener/).
THEOREM TypeCorrect == ASSUME ServerAssumption PROVE Spec => []TypeOK
<1>1. IInv => TypeOK
  BY DEF IInv
<1> QED
  BY <1>1, Invariance, PTL

LEMMA QuietWhenOk == ASSUME ServerAssumption, IInv PROVE StopOkIsQuiet
<1> SUFFICES ASSUME NEW s \in DOMAIN stop, stop[s].pc = "ok", NEW t \in stop[s].held
             PROVE  /\ task[t] = "done" /\ At(t) = {}
                    /\ \A a \in DOMAIN socket : socket[a] # t
  BY DEF StopOkIsQuiet
<1>1. TypeOK /\ Listening /\ Drained
  BY DEF IInv
<1>2. s \in StopCallers /\ DOMAIN socket = Addresses /\ t \in Tasks /\ t \in stop[s].held
  BY <1>1, StopShape DEF TypeOK
<1>3. task[t] = "done"
  BY <1>1, <1>2 DEF Drained
<1>4. \A k \in Clients : conn[k] # None => conn[k].at # t
  BY <1>1, <1>2, <1>3 DEF Drained
<1>5. At(t) = {}
  BY <1>4, Members
<1>6. \A a \in Addresses : socket[a] # t
  BY <1>1, <1>2, <1>3 DEF Listening, ServerAssumption
<1> QED
  BY <1>2, <1>3, <1>5, <1>6

\* A stop that returned Ok left no task, no listening socket and no connection of what it
\* found (lifecycle.rs stop and drain).
THEOREM StopOkIsQuietHolds == ASSUME ServerAssumption PROVE Spec => []StopOkIsQuiet
<1>1. IInv => StopOkIsQuiet
  BY QuietWhenOk
<1> QED
  BY <1>1, Invariance, PTL

LEMMA NoneOrphaned == ASSUME IInv PROVE NoOrphan
<1> USE DEF IInv
<1>1. ASSUME NEW t \in Tasks, task[t] = "bound" PROVE Starting /\ t[2] = gen
  <2>1. t[2] = gen /\ InHand(t[1])
    BY <1>1 DEF Progress
  <2> QED
    BY <2>1 DEF InHand, Starting, AtRest
<1>2. ASSUME NEW t \in Tasks, task[t] = "serving" PROVE t \in state \cup token
  BY <1>2 DEF Found
<1>3. start = "failed" => state = {}
  BY DEF Found
<1> QED
  BY <1>1, <1>2, <1>3 DEF NoOrphan

\* A task that serves is one a stop would find, or was told; one that is bound is the
\* present start's; a start that failed left nothing that was not told (lifecycle.rs start).
THEOREM NoOrphanHolds == ASSUME ServerAssumption PROVE Spec => []NoOrphan
<1>1. IInv => NoOrphan
  BY NoneOrphaned
<1> QED
  BY <1>1, Invariance, PTL

\* The permits of the connection limit are all accounted for, for any limit (listener/).
THEOREM SlotsConservedHolds == ASSUME ServerAssumption PROVE Spec => []SlotsConserved
<1>1. IInv => SlotsConserved
  BY DEF IInv
<1> QED
  BY <1>1, Invariance, PTL

\* What a stop, a start and the connections between them leave behind: the server's part of
\* what the services run checks.
THEOREM StopsCleanHolds == ASSUME ServerAssumption PROVE Spec => []StopsClean
<1>1. IInv => StopsClean
  BY QuietWhenOk, NoneOrphaned DEF IInv, StopsClean
<1> QED
  BY <1>1, Invariance, PTL

-----------------------------------------------------------------------------
(* The agent runtime (module AgentRuntime), which a server hosts or which  *)
(* serves alone: any services, addresses and order of mounting.            *)

AgentTypes ==
  /\ started \in BOOLEAN
  /\ pc \in {"idle", "mounting", "awaiting", "failed", "up"}
  /\ todo \in Seq(Services)
  /\ bound \subseteq Places
  /\ svc \in [Services -> {"none", "mounting", "dropped", "ready", "gone"}]
  /\ mux \in [Places -> SUBSET Services]
  /\ routes \subseteq Services
  /\ served \in [Places -> (SUBSET Services) \cup {None}]

\* Where a call for the service arrives.
Mounted(s) ==
  /\ Requires[s].http => s \in mux[Requires[s].addr]
  /\ Requires[s].grpc => s \in routes

\* Nothing runs before a start, and nothing is left of one that failed.  A service that has
\* not reported is the one the start waits for; what gives up leaves that one alone running.
Clean ==
  /\ pc = "idle" <=> ~started
  /\ pc = "idle" => \A s \in Services : svc[s] = "none"
  /\ pc \in {"idle", "failed"} => bound = {}
  /\ pc = "failed" => \A s \in Services : svc[s] \in {"none", "gone"}
  /\ pc = "awaiting" => \A s \in Services : svc[s] \in {"none", "dropped", "gone"}
  /\ pc = "mounting" => \A s \in Services : svc[s] \in {"mounting", "dropped"} => todo # <<>> /\ s = Head(todo)
  /\ pc = "up" => \A s \in Services : svc[s] \notin {"mounting", "dropped"}

\* Routers hold services of their own address, a service that is not to do any more is
\* mounted, and what is served is the router of its address.
Complete ==
  /\ \A a \in Places : \A s \in mux[a] : Requires[s].addr = a /\ Requires[s].http
  /\ pc = "mounting" => \A s \in Services : Mounted(s) \/ \E n \in 1..Len(todo) : todo[n] = s
  /\ pc = "up" => \A s \in Services : Mounted(s)
  /\ pc = "up" => \A a \in Places : served[a] \in {None, mux[a]}

AgentInv == AgentTypes /\ Clean /\ Complete

\* An order of as many services as there are names each of them.
LEMMA OrdersNameAll ==
  ASSUME Rt!RuntimeAssumption, NEW q \in Rt!Orders, NEW s \in Services
  PROVE  q \in Seq(Services) /\ \E n \in 1..Len(q) : q[n] = s
<1> DEFINE N == Cardinality(Services)
<1>1. IsFiniteSet(Services)
  BY DEF Rt!RuntimeAssumption, Rt!IsFiniteSet, IsFiniteSet
<1>2. N \in Nat
  BY <1>1, FS_CardinalityType
<1>3. Rt!Cardinality(Services) = N
  BY DEF Rt!Cardinality, Cardinality
<1> HIDE DEF N
<1>4. q \in [1..N -> Services] /\ \A m, n \in 1..N : m # n => q[m] # q[n]
  BY <1>2, <1>3 DEF Rt!Orders
<1>5. q \in Seq(Services) /\ Len(q) = N
  BY <1>2, <1>4
<1>6. q \in Injection(1..N, Services)
  BY <1>4 DEF Injection, IsInjective
<1>7. Cardinality(1..N) = Cardinality(Services)
  BY <1>2, FS_Interval DEF N
<1>8. q \in Surjection(1..N, Services)
  BY <1>1, <1>6, <1>7, FS_Injection
<1>9. \E n \in 1..N : q[n] = s
  BY <1>8 DEF Surjection
<1> QED
  BY <1>5, <1>9

LEMMA AgentInit == Rt!Init => AgentInv
<1> SUFFICES ASSUME Rt!Init PROVE AgentInv
  OBVIOUS
<1>1. AgentTypes
  <2>1. todo = <<>> /\ todo \in Seq(Services)
    BY DEF Rt!Init
  <2>2. mux = [a \in Places |-> {}] /\ {} \subseteq Services
    BY DEF Rt!Init
  <2>3. mux \in [Places -> SUBSET Services]
    BY <2>2
  <2>4. served \in [Places -> (SUBSET Services) \cup {None}]
    BY DEF Rt!Init
  <2> QED
    BY <2>1, <2>3, <2>4 DEF AgentTypes, Rt!Init
<1>2. Clean /\ Complete
  BY DEF Clean, Complete, Rt!Init
<1> QED
  BY <1>1, <1>2 DEF AgentInv

\* A start names every service in the order it mounts them, or fails with nothing done.
LEMMA StartKeeps ==
  ASSUME Rt!RuntimeAssumption, AgentInv, Rt!Start
  PROVE  AgentInv'
<1> USE DEF AgentInv
<1>1. /\ started' = TRUE /\ ~started /\ pc = "idle"
      /\ UNCHANGED <<svc, mux, routes, served>>
  BY DEF Rt!Start, Clean
<1>2. \/ pc' = "failed" /\ UNCHANGED <<todo, bound>>
      \/ /\ pc' = "mounting" /\ todo' \in Rt!Orders
         /\ bound' = {a \in Places : Rt!Listens(a)}
  BY DEF Rt!Start
<1>3. CASE pc' = "failed" /\ UNCHANGED <<todo, bound>>
  BY <1>1, <1>3 DEF AgentTypes, Clean, Complete
<1>4. CASE /\ pc' = "mounting" /\ todo' \in Rt!Orders
           /\ bound' = {a \in Places : Rt!Listens(a)}
  <2>1. AgentTypes'
    <3>1. CASE Services = {}
      BY <3>1 DEF Rt!Start
    <3>2. CASE Services # {}
      BY <1>1, <1>4, <3>2, OrdersNameAll DEF AgentTypes
    <3> QED
      BY <3>1, <3>2
  <2>2. \A s \in Services : \E n \in 1..Len(todo') : todo'[n] = s
    BY <1>4, OrdersNameAll
  <2>3. Complete'
    BY <1>1, <1>4, <2>2 DEF Complete
  <2> QED
    BY <1>1, <1>4, <2>1, <2>3 DEF Clean
<1> QED
  BY <1>2, <1>3, <1>4

\* Every other step of a service or of the caller of the runtime.
LEMMA ReadyKeeps ==
  ASSUME Rt!RuntimeAssumption, AgentInv, NEW s \in Services, Rt!Ready(s)
  PROVE  AgentInv'
<1> USE DEF AgentInv
<1>1. /\ pc = "mounting" /\ todo # <<>> /\ Head(todo) = s
      /\ svc' = [svc EXCEPT ![s] = "ready"]
      /\ mux' = [mux EXCEPT ![Requires[s].addr] = IF Requires[s].http THEN @ \cup {s} ELSE @]
      /\ routes' = IF Requires[s].grpc THEN routes \cup {s} ELSE routes
      /\ todo' = Tail(todo)
      /\ UNCHANGED <<started, pc, bound, served>>
  BY DEF Rt!Ready, Rt!Mounting
<1>2. Requires[s].addr \in Places
  BY DEF Rt!RuntimeAssumption
<1>3. /\ todo' \in Seq(Services) /\ Len(todo') = Len(todo) - 1
      /\ \A n \in 1..Len(todo') : todo'[n] = todo[n + 1]
      /\ Len(todo) \in Nat \ {0} /\ todo[1] = s
  BY <1>1 DEF AgentTypes
<1>4. AgentTypes'
  BY <1>1, <1>2, <1>3 DEF AgentTypes
<1>5. Clean'
  <2>1. \A t \in Services : svc'[t] = IF t = s THEN "ready" ELSE svc[t]
    BY <1>1 DEF AgentTypes
  <2> QED
    BY <1>1, <2>1 DEF Clean
<1>6. \A a \in Places : mux[a] \subseteq mux'[a]
  BY <1>1, <1>2 DEF AgentTypes
<1>7. \A t \in Services : Mounted(t) => Mounted(t)'
  BY <1>1, <1>6 DEF Mounted, Rt!RuntimeAssumption
<1>8. Mounted(s)'
  BY <1>1, <1>2 DEF Mounted, AgentTypes
<1>9. ASSUME NEW t \in Services PROVE Mounted(t)' \/ \E n \in 1..Len(todo') : todo'[n] = t
  <2>1. CASE Mounted(t) \/ t = s
    BY <1>7, <1>8, <2>1
  <2>2. CASE ~Mounted(t) /\ t # s
    <3>1. PICK n \in 1..Len(todo) : todo[n] = t
      BY <1>1, <2>2 DEF Complete
    <3>2. n # 1
      BY <1>3, <2>2, <3>1
    <3>3. n - 1 \in 1..Len(todo')
      BY <1>3, <3>1, <3>2
    <3>4. todo'[n - 1] = todo[(n - 1) + 1]
      BY <1>3, <3>3
    <3>5. (n - 1) + 1 = n
      BY <1>3, <3>1
    <3> QED
      BY <3>1, <3>3, <3>4, <3>5
  <2> QED
    BY <2>1, <2>2
<1>10. \A a \in Places : \A t \in mux'[a] : Requires[t].addr = a /\ Requires[t].http
  BY <1>1, <1>2 DEF AgentTypes, Complete
<1>11. Complete'
  BY <1>1, <1>9, <1>10 DEF Complete
<1> QED
  BY <1>4, <1>5, <1>11

LEMMA ServeKeeps ==
  ASSUME AgentInv, Rt!ServeGroups
  PROVE  AgentInv'
<1> USE DEF AgentInv
<1>1. /\ pc = "mounting" /\ todo = <<>> /\ pc' = "up"
      /\ served' = [a \in Places |-> IF a \in bound THEN mux[a] ELSE None]
      /\ UNCHANGED <<started, todo, bound, svc, mux, routes>>
  BY DEF Rt!ServeGroups, Rt!AllMounted
<1>2. AgentTypes'
  BY <1>1 DEF AgentTypes
<1>3. Len(todo) = 0
  BY <1>1
<1>4. \A s \in Services : Mounted(s)'
  BY <1>1, <1>3 DEF Complete, Mounted
<1>5. Complete'
  BY <1>1, <1>4 DEF Complete
<1>6. Clean'
  BY <1>1 DEF Clean
<1> QED
  BY <1>2, <1>5, <1>6

\* Services that are spawned or end, a mount that fails, the caller's cancellation, the
\* shutdown and the ends of the listeners: nothing is mounted and nothing more is served.
LEMMA OtherStepsKeep ==
  ASSUME AgentInv,
         \/ Rt!Cancel \/ Rt!Shutdown \/ Rt!StartFails
         \/ \E s \in Services :
              Rt!Mount(s) \/ Rt!MountFails(s) \/ Rt!ServiceEnds(s) \/ Rt!DropReady(s) \/ Rt!MountDropped(s)
         \/ \E a \in Places : Rt!ListenerEnds(a) \/ Rt!Join(a)
  PROVE  AgentInv'
<1> USE DEF AgentInv
<1>1. UNCHANGED <<started, todo, mux, routes>>
  BY DEF Rt!Cancel, Rt!Shutdown, Rt!StartFails, Rt!Mount, Rt!MountFails, Rt!ServiceEnds,
         Rt!DropReady, Rt!MountDropped, Rt!ListenerEnds, Rt!Join
<1>2. CASE Rt!Cancel \/ Rt!Shutdown \/ \E a \in Places : Rt!Join(a)
  <2>1. UNCHANGED <<pc, bound, svc, served>>
    BY <1>2 DEF Rt!Cancel, Rt!Shutdown, Rt!Join
  <2> QED
    BY <1>1, <2>1 DEF AgentTypes, Clean, Complete, Mounted
<1>3. ASSUME NEW s \in Services, Rt!Mount(s) PROVE AgentInv'
  <2>1. /\ pc = "mounting" /\ todo # <<>> /\ Head(todo) = s /\ UNCHANGED <<pc, bound, served>>
        /\ svc' = [svc EXCEPT ![s] = "mounting"]
    BY <1>3 DEF Rt!Mount, Rt!Mounting
  <2>2. \A t \in Services : svc'[t] = IF t = s THEN "mounting" ELSE svc[t]
    BY <2>1 DEF AgentTypes
  <2>3. AgentTypes' /\ Complete'
    BY <1>1, <2>1 DEF AgentTypes, Complete, Mounted
  <2> QED
    BY <1>1, <2>1, <2>2, <2>3 DEF Clean
<1>4. ASSUME NEW s \in Services, Rt!ServiceEnds(s) \/ Rt!DropReady(s) PROVE AgentInv'
  <2>1. /\ svc[s] \in {"mounting", "dropped", "ready"} /\ UNCHANGED <<pc, bound, served>>
        /\ \/ svc' = [svc EXCEPT ![s] = "gone"]
           \/ svc' = [svc EXCEPT ![s] = "dropped"] /\ svc[s] = "mounting"
    BY <1>4 DEF Rt!ServiceEnds, Rt!DropReady
  <2>2. \A t \in Services :
          \/ svc'[t] = svc[t]
          \/ t = s /\ svc'[t] = "gone"
          \/ t = s /\ svc'[t] = "dropped" /\ svc[t] = "mounting"
    BY <2>1 DEF AgentTypes
  <2>3. AgentTypes' /\ Complete'
    BY <1>1, <2>1 DEF AgentTypes, Complete, Mounted
  <2>4. Clean'
    BY <1>1, <2>1, <2>2 DEF Clean
  <2> QED
    BY <2>3, <2>4
<1>5. ASSUME NEW s \in Services, Rt!MountFails(s) PROVE AgentInv'
  <2>1. /\ pc = "mounting" /\ pc' = "failed" /\ bound' = {} /\ UNCHANGED served
        /\ todo # <<>> /\ Head(todo) = s
        /\ svc' = [t \in Services |-> IF t = s \/ svc[t] = "ready" THEN "gone" ELSE svc[t]]
    BY <1>5 DEF Rt!MountFails, Rt!Mounting
  <2>2. AgentTypes' /\ Complete'
    BY <1>1, <2>1 DEF AgentTypes, Complete
  <2>3. \A t \in Services : svc'[t] \in {"none", "gone"}
    BY <2>1 DEF AgentTypes, Clean
  <2> QED
    BY <1>1, <2>1, <2>2, <2>3 DEF Clean
<1>7. ASSUME NEW s \in Services, Rt!MountDropped(s) PROVE AgentInv'
  <2>1. /\ pc = "mounting" /\ pc' = "awaiting" /\ UNCHANGED <<bound, served>>
        /\ todo # <<>> /\ Head(todo) = s /\ svc[s] \in {"dropped", "gone"}
        /\ svc' = [t \in Services |-> IF svc[t] = "ready" THEN "gone" ELSE svc[t]]
    BY <1>7 DEF Rt!MountDropped, Rt!Mounting, Rt!GiveUp
  <2>2. AgentTypes' /\ Complete'
    BY <1>1, <2>1 DEF AgentTypes, Complete
  <2>3. \A t \in Services : svc'[t] \in {"none", "dropped", "gone"}
    BY <2>1 DEF AgentTypes, Clean
  <2> QED
    BY <1>1, <2>1, <2>2, <2>3 DEF Clean
<1>8. CASE Rt!StartFails
  <2>1. /\ pc = "awaiting" /\ pc' = "failed" /\ bound' = {} /\ UNCHANGED <<svc, served>>
        /\ \A s \in Services : svc[s] # "dropped"
    BY <1>8 DEF Rt!StartFails
  <2> QED
    BY <1>1, <2>1 DEF AgentTypes, Clean, Complete
<1>6. ASSUME NEW a \in Places, Rt!ListenerEnds(a) PROVE AgentInv'
  <2>1. /\ a \in bound /\ bound' = bound \ {a} /\ served' = [served EXCEPT ![a] = None]
        /\ UNCHANGED <<pc, svc>>
    BY <1>6 DEF Rt!ListenerEnds
  <2>2. AgentTypes' /\ Clean'
    BY <1>1, <2>1 DEF AgentTypes, Clean
  <2>3. Complete'
    BY <1>1, <2>1 DEF AgentTypes, Complete, Mounted
  <2> QED
    BY <2>2, <2>3
<1> QED
  BY <1>2, <1>3, <1>4, <1>5, <1>6, <1>7, <1>8

LEMMA AgentStep ==
  ASSUME Rt!RuntimeAssumption, AgentInv, [Rt!Next]_(Rt!vars)
  PROVE  AgentInv'
<1>1. CASE UNCHANGED Rt!vars
  BY <1>1 DEF Rt!vars, AgentInv, AgentTypes, Clean, Complete, Mounted
<1>2. CASE Rt!Next
  BY <1>2, StartKeeps, ReadyKeeps, ServeKeeps, OtherStepsKeep DEF Rt!Next
<1> QED
  BY <1>1, <1>2

LEMMA AgentShows == AgentInv => Rt!ServedIsMounted /\ Rt!FailedStartIsClean
<1> SUFFICES ASSUME AgentInv PROVE Rt!ServedIsMounted /\ Rt!FailedStartIsClean
  OBVIOUS
<1> USE DEF AgentInv
<1>1. ASSUME pc = "up", NEW a \in Places, served[a] # None
      PROVE  served[a] = {s \in Rt!Group(a) : Requires[s].http}
  <2>1. served[a] = mux[a] /\ mux[a] \subseteq Services
    BY <1>1 DEF Complete, AgentTypes
  <2> QED
    BY <1>1, <2>1 DEF Complete, Mounted, Rt!Group
<1>2. Rt!ServedIsMounted
  BY <1>1 DEF Rt!ServedIsMounted, Complete, Mounted
<1>3. Rt!FailedStartIsClean
  BY DEF Clean, Rt!FailedStartIsClean, AgentTypes
<1> QED
  BY <1>2, <1>3

\* What is served is complete: a listener answers for every HTTP service of its group and
\* for no other, and the registry holds every gRPC service; and a start that failed leaves
\* no listener and no service that still runs, for any services and order (start.rs,
\* lifecycle.rs).
THEOREM AgentsAreServed ==
  ASSUME Rt!RuntimeAssumption
  PROVE  Rt!Spec => [](Rt!ServedIsMounted /\ Rt!FailedStartIsClean)
<1>1. Rt!Init => AgentInv
  BY AgentInit
<1>2. AgentInv /\ [Rt!Next]_(Rt!vars) => AgentInv'
  BY AgentStep
<1>3. AgentInv => Rt!ServedIsMounted /\ Rt!FailedStartIsClean
  BY AgentShows
<1> QED
  BY <1>1, <1>2, <1>3, PTL DEF Rt!Spec

-----------------------------------------------------------------------------
(* The layers of a gRPC call (module Calls), for chains and responses of   *)
(* any length.                                                             *)

\* A request, whose chain is of any length.
Kinds == {"observer", "user", "validation"}
Request ==
  [method : {"unary", "stream", "none"}, msg : {"ok", "invalid", "compressed", "unframed"},
   chain : Seq(Kinds), via : {"wire", "loopback", "stopped"}]
Depth == Len(inner.chain)

\* The variables of a call keep their types.
CallTypeOK ==
  /\ inner \in Request
  /\ La!Stream => inner.msg = "ok"
  /\ ph \in {"headers", "bare", "down", "service", "streaming", "up", "done", "dead"}
  /\ layer \in Int /\ outer \in La!Codes
  /\ pendingSlot \in BOOLEAN
  /\ resp \in La!Reply \cup {None}
  /\ held \in La!Codes \cup {"-", None}
  /\ client \in [st : {"waiting", "reading", "over", "gone"},
                 saw : La!Codes \cup {"-", "Unknown"}]
  /\ obs \in [requests : Int, errors : Int, entered : Int]

\* The observers that were entered and not left are those above where the chain stands.
Above ==
  CASE ph \in {"service", "streaming"} -> Depth
    [] ph = "down" -> layer - 1
    [] ph = "up" -> layer
    [] OTHER -> 0

\* What the position of the chain may be.
Position ==
  /\ armed = {i \in DOMAIN inner.chain : inner.chain[i] = "observer" /\ i <= Above}
  /\ ph = "headers" => layer = 1
  /\ ph = "down" => layer \in 1..(Depth + 1)
  /\ ph = "up" => layer \in 0..Depth

\* An observer that was entered has counted its request or is armed.
Counted == obs.requests + Cardinality(armed) = obs.entered

\* The telemetry has nothing before the end and one code after it.
Metered ==
  /\ client.st \in {"waiting", "reading"} => otel = <<>>
  /\ client.st = "over" /\ inner.via # "stopped" => otel = <<client.saw>>
  /\ client.st = "gone" => otel = <<"Cancelled">>

\* A unary caller waits while its chain runs; a stream's response may precede the end of its
\* chain, without a status then.
Responded ==
  /\ ~La!Stream /\ ph \notin {"done", "dead"} => client.st = "waiting" /\ resp = None
  /\ ~La!Stream => ph # "streaming"
  /\ ph \notin {"done", "dead"} /\ resp # None => resp.head = "-"
  /\ pendingSlot /\ ph \notin {"done", "dead"} => resp = None
  /\ client.st = "reading" => resp # None /\ resp.head = "-"
  /\ held # None => resp # None /\ held = resp.end /\ resp.head = "-" /\ ~resp.error
  /\ client.st = "over" /\ ph \notin {"done", "dead"} => resp # None /\ resp.error
  /\ ph \in {"headers", "bare"} => client.st = "waiting" /\ resp = None
  /\ La!Stream /\ ph \in {"down", "service"} => pendingSlot

\* What the response is once the chain has returned.
Chained == ph = "done" /\ inner.chain # <<>> /\ inner.msg # "unframed" /\ layer = 0

\* The response of a chain that returned carries its outcome.
Verdicts ==
  /\ Chained /\ resp # None /\ resp.head # "-" => resp.head = outer
  /\ Chained /\ resp # None /\ resp.head = "-" /\ ~La!Stream =>
       resp.end = "OK" /\ outer = "OK" /\ ~resp.error
  /\ La!VerdictShown
  /\ ph = "bare" => inner.chain = <<>> \/ inner.msg = "unframed"
  /\ ph \in {"down", "service", "streaming", "up"} => inner.chain # <<>> /\ inner.msg # "unframed"

CallInv == CallTypeOK /\ Position /\ Counted /\ Metered /\ Responded /\ Verdicts

-----------------------------------------------------------------------------
\* A chain is a sequence of interceptors.
LEMMA Chain ==
  ASSUME inner \in Request
  PROVE  /\ Depth \in Nat /\ DOMAIN inner.chain = 1..Depth
         /\ \A i \in 1..Depth : inner.chain[i] \in Kinds
         /\ (inner.chain = <<>>) <=> (Depth = 0)
<1>1. inner.chain \in Seq(Kinds)
  BY DEF Request
<1> QED
  BY <1>1, LenProperties, EmptySeq, ElementOfSeq DEF Depth

\* A call begins with the invariant.
LEMMA CallInit == ASSUME La!CallsAssumption, La!Init PROVE CallInv
<1>1. inner \in Request /\ (La!Stream => inner.msg = "ok")
  <2>1. inner \in La!Inputs
    BY DEF La!Init
  <2>2. \A n \in 0..MaxChain : \A f \in [1..n -> {"observer", "user"}] : f \in Seq(Kinds)
    BY DEF La!CallsAssumption, Kinds
  <2>3. UNION {[1..n -> {"observer", "user"}] : n \in 0..MaxChain} \subseteq Seq(Kinds)
    BY <2>2
  <2>4. \A s \in Seq(Kinds) : /\ <<"validation">> \o s \in Seq(Kinds)
                             /\ Append(s, "validation") \in Seq(Kinds)
    BY DEF Kinds
  <2>5. La!Chains \subseteq Seq(Kinds)
    BY <2>3, <2>4 DEF La!Chains
  <2> QED
    BY <2>1, <2>5 DEF La!Inputs, Request, La!Stream
<1>2. armed = {} /\ Cardinality({}) = 0
  BY FS_EmptySet DEF La!Init
<1>3. CallTypeOK
  <2>1. client \in [st : {"waiting", "reading", "over", "gone"},
                    saw : La!Codes \cup {"-", "Unknown"}]
    BY DEF La!Init
  <2>2. obs \in [requests : Int, errors : Int, entered : Int]
    BY DEF La!Init
  <2>3. /\ ph \in {"headers", "bare", "down", "service", "streaming", "up", "done", "dead"}
        /\ layer \in Int /\ outer \in La!Codes
    BY DEF La!Init, La!Codes
  <2>4. pendingSlot \in BOOLEAN /\ resp = None /\ held = None
    BY DEF La!Init
  <2> QED
    BY <1>1, <2>1, <2>2, <2>3, <2>4 DEF CallTypeOK
<1>4. Position
  <2>1. \A i \in DOMAIN inner.chain : i \in Int /\ i > 0
    BY <1>1, Chain
  <2>2. Above = 0
    BY DEF Above, La!Init
  <2> QED
    BY <1>2, <2>1, <2>2 DEF Position, La!Init
<1>5. Counted /\ Metered /\ Responded /\ Verdicts
  BY <1>2 DEF La!Init, Counted, Metered, Responded, Verdicts, Chained, La!VerdictShown
<1> QED
  BY <1>3, <1>4, <1>5 DEF CallInv

\* The request stays what it is.
LEMMA Kept == ASSUME [La!Next]_(La!cvars) PROVE inner' = inner
BY DEF La!Next, La!Running, La!Reading, La!cvars, La!Stopped, La!Headers,
       La!Bare, La!Enter, La!ForwardUnary, La!ForwardStream, La!Leave,
       La!Answer, La!TakeHead, La!TakeData, La!EndBody, La!TakeTrailers,
       La!GiveUp, La!Panic, La!UserTurn, La!Gone

\* What the service and the layers may answer.
LEMMA Replies ==
  ASSUME La!CallsAssumption
  PROVE  /\ La!Responses \subseteq La!Reply
         /\ \A r \in La!Responses : /\ r.head # "-" => r.head \in La!Codes
                                    /\ La!Forwarded(r) \in La!Codes
         /\ \A r \in La!Responses : r.error => r.end \in La!Codes
         /\ \A code \in La!Codes : La!IntoHttp(code) \in La!Reply
         /\ La!Render \in La!Reply
         /\ None \notin La!Reply
<1>1. 0..MaxData \subseteq Nat
  BY DEF La!CallsAssumption
<1>2. ASSUME NEW r \in La!Responses
      PROVE  /\ r \in La!Reply
             /\ r.head # "-" => r.head \in La!Codes
             /\ La!Forwarded(r) \in La!Codes
             /\ r.error => r.end \in La!Codes
  <2>1. /\ r.head \in La!Errors \cup {"-"} /\ r.data \in Nat
        /\ r.end \in La!Errors \cup {"OK", "-"}
        /\ r.error \in BOOLEAN /\ (r.error => r.end \in La!Errors)
        /\ r = [head |-> r.head, data |-> r.data, end |-> r.end, error |-> r.error]
    <3>1. CASE r \in [head : La!Errors, data : {0}, end : {"-"}, error : {FALSE}]
      <4>1. r.head \in La!Errors /\ r.data = 0 /\ r.end = "-" /\ r.error = FALSE
        BY <3>1
      <4>2. r = [head |-> r.head, data |-> r.data, end |-> r.end, error |-> r.error]
        BY <3>1
      <4>3. r.error \in BOOLEAN /\ ~r.error
        BY <4>1
      <4> QED
        BY <4>1, <4>2, <4>3
    <3>2. CASE r \in [head : {"-"}, data : 0..MaxData, end : La!Errors \cup {"OK", "-"},
                      error : {FALSE}]
      BY <3>2, <1>1
    <3>3. CASE r \in [head : {"-"}, data : 0..MaxData, end : La!Errors, error : {TRUE}]
      BY <3>3, <1>1
    <3> QED
      BY <3>1, <3>2, <3>3 DEF La!Responses
  <2>2. La!Errors \subseteq La!Codes /\ {"OK", "Internal"} \subseteq La!Codes
    BY DEF La!Errors, La!Codes
  <2>3. r \in La!Reply
    BY <2>1, <2>2 DEF La!Reply
  <2>4. La!Forwarded(r) \in La!Codes
    BY <2>1, <2>2 DEF La!Forwarded
  <2> QED
    BY <2>1, <2>2, <2>3, <2>4
<1>5. /\ \A code \in La!Codes : La!IntoHttp(code) \in La!Reply
      /\ La!Render \in La!Reply
  BY DEF La!IntoHttp, La!Render, La!Reply, La!Codes
<1>6. None \notin La!Reply
  BY DEF La!CallsAssumption, La!Reply, La!Codes
<1> QED
  BY <1>2, <1>5, <1>6

\* How a step moves the chain and the observers with it.
Moves ==
  \/ UNCHANGED <<ph, layer, armed, obs>>
  \/ /\ ph \in {"headers", "bare"} /\ ph' \in {"bare", "down", "done", "dead"}
     /\ ph' = "down" => ph = "headers"
     /\ UNCHANGED <<layer, armed, obs>>
  \/ La!Enter
  \/ /\ ph \in {"service", "streaming"}
     /\ (ph' = "up" /\ layer' = Depth) \/ (ph' = "streaming" /\ layer' = layer)
     /\ UNCHANGED <<armed, obs>>
  \/ La!Leave \/ La!GiveUp \/ La!Answer
  \/ ph' \in {"done", "dead"} /\ layer' = layer /\ La!DropPending(armed)

\* There are no other moves.
LEMMA EveryMove == ASSUME CallTypeOK, [La!Next]_(La!cvars) PROVE Moves
<1> USE DEF Moves
<1>1. CASE La!Stopped \/ La!Headers \/ La!Bare
  BY <1>1 DEF La!Stopped, La!Headers, La!Bare
<1>2. CASE La!ForwardUnary \/ La!ForwardStream
  BY <1>2 DEF La!ForwardUnary, La!ForwardStream, Depth
<1>3. CASE La!TakeHead \/ La!TakeData \/ La!TakeTrailers
  BY <1>3 DEF La!TakeHead, La!TakeData, La!TakeTrailers
<1>4. CASE La!EndBody
  BY <1>4 DEF La!EndBody, La!Signal, Depth
<1>5. CASE La!Panic
  BY <1>5 DEF La!Panic, La!UserTurn
<1>6. CASE La!Gone
  <2>1. CASE La!Stream
    BY <1>6, <2>1 DEF La!Gone, La!Signal, Depth
  <2>2. CASE ~La!Stream
    BY <1>6, <2>2 DEF La!Gone
  <2> QED
    BY <2>1, <2>2
<1>7. CASE UNCHANGED La!cvars
  BY <1>7 DEF La!cvars
<1> QED
  BY <1>1, <1>2, <1>3, <1>4, <1>5, <1>6, <1>7 DEF La!Next, La!Running, La!Reading

\* The chain stands where the armed observers say.
LEMMA PositionStep ==
  ASSUME CallTypeOK, Position, [La!Next]_(La!cvars)
  PROVE  Position'
<1>0. inner' = inner /\ Depth' = Depth
  BY Kept DEF Depth
<1>1. /\ Depth \in Nat /\ DOMAIN inner.chain = 1..Depth
      /\ \A i \in 1..Depth : inner.chain[i] \in Kinds
  BY Chain DEF CallTypeOK
<1> DEFINE Watching(n) == {i \in 1..Depth : inner.chain[i] = "observer" /\ i <= n}
<1>2. /\ armed = Watching(Above)
      /\ ph = "headers" => layer = 1
      /\ ph = "down" => layer \in 1..(Depth + 1)
      /\ ph = "up" => layer \in 0..Depth
  BY <1>1 DEF Position
<1>3. layer \in Int
  BY DEF CallTypeOK
<1>4. /\ Above = (CASE ph \in {"service", "streaming"} -> Depth [] ph = "down" -> layer - 1
                    [] ph = "up" -> layer [] OTHER -> 0)
      /\ Above' = (CASE ph' \in {"service", "streaming"} -> Depth [] ph' = "down" -> layer' - 1
                     [] ph' = "up" -> layer' [] OTHER -> 0)
  BY <1>0 DEF Above
<1>5. SUFFICES /\ armed' = Watching(Above')
               /\ ph' = "headers" => layer' = 1
               /\ ph' = "down" => layer' \in 1..(Depth + 1)
               /\ ph' = "up" => layer' \in 0..Depth
  BY <1>0, <1>1 DEF Position
<1>6. CASE UNCHANGED <<ph, layer, armed, obs>>
  BY <1>2, <1>4, <1>6
<1>7. CASE /\ ph \in {"headers", "bare"} /\ ph' \in {"bare", "down", "done", "dead"}
           /\ ph' = "down" => ph = "headers"
           /\ UNCHANGED <<layer, armed, obs>>
  BY <1>1, <1>2, <1>4, <1>7
<1>8. CASE La!Enter
  <2> USE <1>0, <1>1, <1>2, <1>3, <1>4, <1>8
  <2>1. CASE layer > Len(inner.chain)
    BY <2>1 DEF La!Enter, Depth
  <2>2. CASE /\ ~(layer > Len(inner.chain)) /\ inner.chain[layer] = "observer"
             /\ armed' = armed \cup {layer} /\ layer' = layer + 1 /\ ph' = ph
    BY <2>2 DEF La!Enter, Depth
  <2>3. CASE /\ ~(layer > Len(inner.chain)) /\ inner.chain[layer] # "observer" /\ armed' = armed
             /\ (layer' = layer + 1 /\ ph' = ph) \/ (ph' = "up" /\ layer' = layer - 1)
    BY <2>3 DEF La!Enter, Depth
  <2> QED
    BY <2>1, <2>2, <2>3 DEF La!Enter
<1>9. CASE /\ ph \in {"service", "streaming"}
           /\ (ph' = "up" /\ layer' = Depth) \/ (ph' = "streaming" /\ layer' = layer)
           /\ UNCHANGED <<armed, obs>>
  BY <1>1, <1>2, <1>4, <1>9
<1>10. CASE La!Leave
  <2>1. /\ ph = "up" /\ layer > 0 /\ layer' = layer - 1 /\ ph' = ph
        /\ IF inner.chain[layer] = "observer" THEN armed' = armed \ {layer} ELSE armed' = armed
    BY <1>10 DEF La!Leave
  <2> QED
    BY <2>1, <1>1, <1>2, <1>3, <1>4
<1>11. CASE La!GiveUp
  <2>1. PICK i \in 1..Depth : /\ inner.chain[i] = "user" /\ layer' = i - 1
                              /\ armed' = armed \ ((i + 1)..Depth)
    BY <1>11, <1>1 DEF La!GiveUp, La!DropPending, Depth
  <2>2. ph \in {"service", "streaming"} /\ ph' = "up"
    BY <1>11 DEF La!GiveUp
  <2> QED
    BY <2>1, <2>2, <1>1, <1>2, <1>4
<1>12. CASE La!Answer
  <2>1. ph = "up" /\ layer = 0 /\ ph' = "done" /\ armed' = armed
    BY <1>12 DEF La!Answer
  <2> QED
    BY <2>1, <1>1, <1>2, <1>4
<1>13. CASE ph' \in {"done", "dead"} /\ layer' = layer /\ La!DropPending(armed)
  <2>1. armed' = {}
    BY <1>13 DEF La!DropPending
  <2> QED
    BY <2>1, <1>13, <1>1, <1>4
<1> QED
  BY EveryMove, <1>6, <1>7, <1>8, <1>9, <1>10, <1>11, <1>12, <1>13 DEF Moves

\* The instance counts as this module does.
LEMMA Counts == \A S : La!Cardinality(S) = Cardinality(S)
BY DEF La!Cardinality, Cardinality

\* Whoever is entered is counted or still armed.
LEMMA CountedStep ==
  ASSUME CallTypeOK, Position, Counted, [La!Next]_(La!cvars)
  PROVE  Counted'
<1>1. /\ Depth \in Nat /\ DOMAIN inner.chain = 1..Depth /\ layer \in Int
      /\ obs \in [requests : Int, errors : Int, entered : Int]
      /\ armed = {i \in 1..Depth : inner.chain[i] = "observer" /\ i <= Above}
      /\ ph = "down" => layer \in 1..(Depth + 1)
      /\ ph = "up" => layer \in 0..Depth
  BY Chain DEF CallTypeOK, Position
<1>2. IsFiniteSet(armed) /\ Cardinality(armed) \in Nat
  <2>1. armed \in SUBSET (1..Depth)
    BY <1>1
  <2>2. IsFiniteSet(1..Depth)
    BY <1>1, FS_Interval
  <2> QED
    BY <2>1, <2>2, FS_Subset, FS_CardinalityType
<1>3. ASSUME NEW S, La!DropPending(S) PROVE Counted'
  <2>1. /\ obs'.requests = obs.requests + Cardinality(armed \cap S)
        /\ obs'.entered = obs.entered /\ armed' = armed \ S
    BY <1>1, <1>3, Counts DEF La!DropPending
  <2>2. IsFiniteSet(armed \cap S) /\ Cardinality(armed \cap S) \in Nat
    <3>1. armed \cap S \in SUBSET armed
      OBVIOUS
    <3> QED
      BY <3>1, <1>2, FS_Subset, FS_CardinalityType
  <2>3. Cardinality(armed \ S) = Cardinality(armed) - Cardinality(armed \cap S)
    BY <1>2, FS_Difference
  <2> QED
    BY <1>1, <1>2, <2>1, <2>2, <2>3 DEF Counted
<1>4. CASE armed' = armed /\ obs' = obs
  BY <1>4 DEF Counted
<1>5. CASE La!Enter
  <2>1. CASE /\ armed' = armed \cup {layer} /\ obs' = [obs EXCEPT !.entered = @ + 1]
             /\ layer <= Len(inner.chain)
    <3>1. layer \notin armed
      BY <1>1, <1>5 DEF La!Enter, Above
    <3>2. Cardinality(armed') = Cardinality(armed) + 1
      BY <1>2, <2>1, <3>1, FS_AddElement
    <3>3. obs'.requests = obs.requests /\ obs'.entered = obs.entered + 1
      BY <1>1, <2>1
    <3> QED
      BY <1>1, <1>2, <3>2, <3>3 DEF Counted
  <2> QED
    BY <1>5, <2>1, <1>4, <1>1 DEF La!Enter, Depth
<1>6. CASE La!Leave
  <2>1. CASE inner.chain[layer] = "observer"
    <3>1. layer \in armed
      BY <1>1, <1>6, <2>1 DEF La!Leave, Above
    <3>2. armed' = armed \ {layer} /\ obs'.requests = obs.requests + 1 /\ obs'.entered = obs.entered
      BY <1>1, <1>6, <2>1 DEF La!Leave, La!Record
    <3>3. Cardinality(armed') = Cardinality(armed) - 1
      BY <1>2, <3>1, <3>2, FS_RemoveElement
    <3> QED
      BY <1>1, <1>2, <3>2, <3>3 DEF Counted
  <2>2. CASE inner.chain[layer] # "observer"
    BY <1>6, <2>2, <1>4 DEF La!Leave
  <2> QED
    BY <2>1, <2>2
<1>7. CASE La!GiveUp
  BY <1>7, <1>3 DEF La!GiveUp
<1>8. CASE La!Answer
  BY <1>8, <1>4 DEF La!Answer
<1> QED
  BY EveryMove, <1>3, <1>4, <1>5, <1>6, <1>7, <1>8 DEF Moves

\* What a step does to the outcome on its way up.
LEMMA OutStep ==
  ASSUME La!CallsAssumption, CallTypeOK, Responded, [La!Next]_(La!cvars)
  PROVE  outer' \in La!Codes
<1>0. outer \in La!Codes /\ resp \in La!Reply \cup {None} /\ La!Verdict \in La!Codes
      /\ {"Cancelled", "OK", "Denied", "Deadline"} \subseteq La!Codes
  BY DEF CallTypeOK, La!Verdict, La!Codes
<1>1. CASE outer' = outer
  BY <1>0, <1>1
<1>2. CASE La!Enter \/ La!Leave \/ La!GiveUp
  BY <1>0, <1>2 DEF La!Enter, La!Leave, La!GiveUp
<1>3. CASE La!ForwardUnary \/ La!ForwardStream
  <2>1. CASE La!ForwardUnary
    BY <1>0, <2>1, Replies DEF La!ForwardUnary
  <2>2. CASE La!ForwardStream
    <3>1. outer' = outer \/ outer' = "Cancelled" \/ \E r \in La!Responses : r.head # "-" /\ outer' = r.head
      BY <2>2 DEF La!ForwardStream
    <3> QED
      BY <1>0, <3>1, Replies
  <2> QED
    BY <1>3, <2>1, <2>2
<1>4. ASSUME NEW code \in La!Codes \cup {"-"}, La!Signal(code) PROVE outer' \in La!Codes
  BY <1>0, <1>4 DEF La!Signal
<1>5. CASE La!EndBody
  <2>1. resp.end \in La!Codes \cup {"-"}
    BY <1>0, <1>5 DEF La!EndBody, Responded, La!Reply
  <2> QED
    BY <1>4, <1>5, <2>1 DEF La!EndBody
<1>6. CASE La!Gone
  BY <1>0, <1>1, <1>4, <1>6 DEF La!Gone
<1>7. CASE La!Stopped \/ La!Headers \/ La!Bare \/ La!Answer
  BY <1>1, <1>7 DEF La!Stopped, La!Headers, La!Bare, La!Answer
<1>8. CASE La!TakeHead \/ La!TakeData \/ La!TakeTrailers \/ La!Panic
  BY <1>1, <1>8 DEF La!TakeHead, La!TakeData, La!TakeTrailers, La!Panic, La!UserTurn
<1> QED
  BY <1>1, <1>2, <1>3, <1>5, <1>6, <1>7, <1>8
  DEF La!Next, La!Running, La!Reading, La!cvars

\* How a step moves the caller and the telemetry with it.
ClientMoves ==
  \/ UNCHANGED <<client, otel>>
  \/ La!Stopped
  \/ client.st = "waiting" /\ client' = [client EXCEPT !.st = "reading"] /\ otel' = otel
  \/ \E code \in La!Codes \cup {"-", "Unknown"} :
       /\ client.st \in {"waiting", "reading"}
       /\ client' = [st |-> "over", saw |-> code] /\ La!Finish(code)
  \/ /\ client.st \in {"waiting", "reading"}
     /\ client' = [client EXCEPT !.st = "gone"] /\ La!Finish("Cancelled")

\* There are no others.
LEMMA EveryClientMove ==
  ASSUME CallTypeOK, Responded, Position, [La!Next]_(La!cvars)
  PROVE  ClientMoves
<1>0. /\ outer \in La!Codes /\ held \in La!Codes \cup {"-", None}
      /\ resp \in La!Reply \cup {None}
      /\ client.st = "reading" => resp # None
  BY DEF CallTypeOK, Responded
<1>1. CASE La!TakeHead
  <2>1. resp.head \in La!Codes \cup {"-"}
    BY <1>0, <1>1 DEF La!TakeHead, La!Reply
  <2> QED
    BY <1>1, <2>1 DEF La!TakeHead, ClientMoves
<1>2. CASE La!EndBody
  <2>1. resp.end \in La!Codes \cup {"-"}
    BY <1>0, <1>2 DEF La!EndBody, La!Reply
  <2> QED
    BY <1>2, <2>1 DEF La!EndBody, ClientMoves
<1>3. CASE La!TakeTrailers
  <2> DEFINE last == IF La!Stream /\ ph = "done" /\ inner.chain # <<>>
                       THEN La!settle(held, outer) ELSE held
  <2>1. held \in La!Codes \cup {"-"}
    BY <1>0, <1>3 DEF La!TakeTrailers
  <2>2. last \in La!Codes \cup {"-"}
    BY <1>0, <2>1 DEF La!settle
  <2>3. PICK code \in La!Codes \cup {"Unknown"} :
          client' = [st |-> "over", saw |-> code] /\ La!Finish(code)
    BY <1>3, <2>2 DEF La!TakeTrailers
  <2> QED
    BY <1>3, <2>3 DEF La!TakeTrailers, ClientMoves
<1>4. CASE La!Panic
  <2>1. ~La!Stream => client.st = "waiting"
    BY <1>4 DEF La!Panic, La!UserTurn, Responded
  <2> QED
    BY <1>4, <2>1 DEF La!Panic, La!UserTurn, ClientMoves
<1>5. CASE La!Gone
  BY <1>5 DEF La!Gone, ClientMoves
<1> QED
  BY <1>1, <1>2, <1>3, <1>4, <1>5 DEF La!Next, La!Running, La!Reading, La!cvars,
     La!Headers, La!Bare, La!Enter, La!ForwardUnary, La!ForwardStream,
     La!Leave, La!Answer, La!TakeData, La!GiveUp, ClientMoves

\* The telemetry is finished once.
LEMMA MeteredStep ==
  ASSUME CallTypeOK, Metered, Responded, Position, [La!Next]_(La!cvars)
  PROVE  Metered'
<1>0. inner' = inner
      /\ client \in [st : {"waiting", "reading", "over", "gone"},
                     saw : La!Codes \cup {"-", "Unknown"}]
  BY Kept DEF CallTypeOK
<1>1. CASE UNCHANGED <<client, otel>>
  BY <1>0, <1>1 DEF Metered
<1>2. CASE La!Stopped
  BY <1>0, <1>2 DEF Metered, La!Stopped
<1>3. CASE client.st = "waiting" /\ client' = [client EXCEPT !.st = "reading"] /\ otel' = otel
  BY <1>0, <1>3 DEF Metered
<1>4. ASSUME NEW code, client.st \in {"waiting", "reading"},
             client' = [st |-> "over", saw |-> code], La!Finish(code)
      PROVE  Metered'
  BY <1>0, <1>4 DEF Metered, La!Finish
<1>5. CASE /\ client.st \in {"waiting", "reading"}
           /\ client' = [client EXCEPT !.st = "gone"] /\ La!Finish("Cancelled")
  BY <1>0, <1>5 DEF Metered, La!Finish
<1> QED
  BY EveryClientMove, <1>1, <1>2, <1>3, <1>4, <1>5 DEF ClientMoves

\* Every step keeps the types.
LEMMA CallTypeStep ==
  ASSUME La!CallsAssumption, CallTypeOK, Position, Responded, [La!Next]_(La!cvars)
  PROVE  CallTypeOK'
<1>0. /\ inner' = inner /\ La!Stream' = La!Stream
      /\ Depth \in Nat /\ Depth = Len(inner.chain) /\ layer \in Int
      /\ inner \in Request /\ (La!Stream => inner.msg = "ok")
  BY Kept, Chain DEF CallTypeOK, La!Stream, Depth
<1>1. ph' \in {"headers", "bare", "down", "service", "streaming", "up", "done", "dead"}
  BY EveryMove DEF CallTypeOK, Moves, La!Enter, La!Leave, La!GiveUp, La!Answer
<1>2. layer' \in Int
  <2>1. CASE La!GiveUp
    <3>1. PICK i \in DOMAIN inner.chain : layer' = i - 1
      BY <2>1 DEF La!GiveUp
    <3> QED
      BY <1>0, <3>1, Chain
  <2>2. CASE La!Enter
    BY <1>0, <2>2 DEF La!Enter
  <2>3. CASE La!Leave \/ La!Answer
    BY <1>0, <2>3 DEF La!Leave, La!Answer
  <2> QED
    BY <2>1, <2>2, <2>3, <1>0, EveryMove DEF Moves
<1>3. pendingSlot' \in BOOLEAN
  <2>0. pendingSlot \in BOOLEAN /\ La!Stream \in BOOLEAN
    BY DEF CallTypeOK, La!Stream
  <2> QED
    BY <2>0 DEF La!Next, La!Running, La!Reading, La!cvars, La!Stopped,
       La!Headers, La!Bare, La!Enter, La!ForwardUnary, La!ForwardStream,
       La!Leave, La!Answer, La!TakeHead, La!TakeData, La!EndBody,
       La!TakeTrailers, La!GiveUp, La!Panic, La!UserTurn, La!Gone
<1>4. resp' \in La!Reply \cup {None}
  <2>0. /\ resp \in La!Reply \cup {None} /\ outer \in La!Codes
        /\ {"Denied", "Internal"} \subseteq La!Codes
    BY DEF CallTypeOK, La!Codes
  <2>1. CASE La!TakeData
    <3>1. resp \in La!Reply /\ resp.data > 0 /\ resp' = [resp EXCEPT !.data = @ - 1]
      BY <2>0, <2>1 DEF La!TakeData, Responded
    <3> QED
      BY <3>1 DEF La!Reply
  <2>2. CASE La!Headers \/ La!Answer \/ La!Panic
    BY <2>0, <2>2, Replies DEF La!Headers, La!Answer, La!Panic, La!UserTurn
  <2>3. CASE La!Bare \/ La!ForwardStream
    BY <2>0, <2>3, Replies DEF La!Bare, La!ForwardStream
  <2> QED
    BY <2>0, <2>1, <2>2, <2>3 DEF La!Next, La!Running, La!Reading, La!cvars,
       La!Stopped, La!Enter, La!ForwardUnary, La!Leave, La!TakeHead,
       La!EndBody, La!TakeTrailers, La!GiveUp, La!Gone
<1>5. held' \in La!Codes \cup {"-", None}
  <2>0. held \in La!Codes \cup {"-", None} /\ resp \in La!Reply \cup {None}
    BY DEF CallTypeOK
  <2>1. CASE La!EndBody
    <3>1. resp.end \in La!Codes \cup {"-"}
      BY <2>0, <2>1 DEF La!EndBody, Responded, La!Reply
    <3> QED
      BY <2>0, <2>1, <3>1 DEF La!EndBody
  <2> QED
    BY <2>0, <2>1 DEF La!Next, La!Running, La!Reading, La!cvars, La!Stopped,
       La!Headers, La!Bare, La!Enter, La!ForwardUnary, La!ForwardStream,
       La!Leave, La!Answer, La!TakeHead, La!TakeData,
       La!TakeTrailers, La!GiveUp, La!Panic, La!UserTurn, La!Gone
<1>6. client' \in [st : {"waiting", "reading", "over", "gone"},
                   saw : La!Codes \cup {"-", "Unknown"}]
  <2>0. client \in [st : {"waiting", "reading", "over", "gone"},
                    saw : La!Codes \cup {"-", "Unknown"}]
    BY DEF CallTypeOK
  <2>1. CASE La!Stopped
    BY <2>1 DEF La!Stopped, La!Codes
  <2> QED
    BY <2>0, <2>1, EveryClientMove DEF ClientMoves
<1>7. obs' \in [requests : Int, errors : Int, entered : Int]
  <2>0. obs \in [requests : Int, errors : Int, entered : Int]
    BY DEF CallTypeOK
  <2>1. CASE obs' = obs
    BY <2>0, <2>1
  <2>2. ASSUME NEW n \in Int, obs' = [obs EXCEPT !.requests = @ + n]
        PROVE  obs' \in [requests : Int, errors : Int, entered : Int]
    BY <2>0, <2>2
  <2>3. ASSUME NEW S, La!DropPending(S)
        PROVE  obs' \in [requests : Int, errors : Int, entered : Int]
    <3>1. armed \cap S \in SUBSET (1..Depth)
      BY <1>0, Chain DEF Position
    <3>2. IsFiniteSet(1..Depth)
      BY <1>0, FS_Interval
    <3>3. Cardinality(armed \cap S) \in Nat
      BY <3>1, <3>2, FS_Subset, FS_CardinalityType
    <3> QED
      BY <2>2, <2>3, <3>3, Counts DEF La!DropPending
  <2>4. CASE La!Enter
    BY <2>0, <2>1, <2>4 DEF La!Enter
  <2>5. CASE La!Leave
    <3>1. ASSUME La!Record(outer) PROVE obs' \in [requests : Int, errors : Int, entered : Int]
      <4> DEFINE n == IF La!is_server_error(outer) THEN obs.errors + 1 ELSE obs.errors
      <4>1. n \in Int /\ obs.requests + 1 \in Int /\ obs.entered \in Int
        BY <2>0
      <4>2. obs' = [obs EXCEPT !.requests = @ + 1, !.errors = n]
        BY <3>1 DEF La!Record
      <4> HIDE DEF n
      <4>3. obs' = [requests |-> obs.requests + 1, errors |-> n, entered |-> obs.entered]
        BY <2>0, <4>2
      <4> QED
        BY <4>1, <4>3
    <3> QED
      BY <2>1, <2>5, <3>1 DEF La!Leave
  <2>6. CASE La!GiveUp
    BY <2>3, <2>6 DEF La!GiveUp
  <2>7. CASE La!Answer
    BY <2>1, <2>7 DEF La!Answer
  <2> QED
    BY <2>1, <2>3, <2>4, <2>5, <2>6, <2>7, EveryMove DEF Moves
<1> QED
  BY <1>0, <1>1, <1>2, <1>3, <1>4, <1>5, <1>6, <1>7, OutStep DEF CallTypeOK

\* Taking data leaves the rest of the response.
LEMMA Lasts ==
  ASSUME La!CallsAssumption, resp \in La!Reply, La!TakeData
  PROVE  /\ resp' \in La!Reply /\ resp' # None
         /\ resp'.head = resp.head /\ resp'.end = resp.end /\ resp'.error = resp.error
<1>1. resp' = [resp EXCEPT !.data = resp.data - 1] /\ resp.data - 1 \in Nat
  BY DEF La!TakeData, La!Reply
<1>2. resp' \in La!Reply
  BY <1>1 DEF La!Reply
<1>3. resp'.head = resp.head /\ resp'.end = resp.end /\ resp'.error = resp.error
  BY <1>1 DEF La!Reply
<1> QED
  BY <1>2, <1>3, Replies

\* What the caller has been given fits where the chain stands.
LEMMA RespondedStep ==
  ASSUME La!CallsAssumption, CallTypeOK, Position, Responded, [La!Next]_(La!cvars)
  PROVE  Responded'
<1>0. /\ inner' = inner /\ La!Stream' = La!Stream
      /\ resp \in La!Reply \cup {None} /\ None \notin La!Reply
      /\ client = [st |-> client.st, saw |-> client.saw]
      /\ \A c : [client EXCEPT !.st = c].st = c
      /\ \A c \in La!Codes : La!IntoHttp(c) # None /\ La!IntoHttp(c).head = c
      /\ outer \in La!Codes /\ {"Denied", "Internal"} \subseteq La!Codes
      /\ "-" \notin La!Codes
  <2>1. \A c : La!IntoHttp(c).head = c
    BY DEF La!IntoHttp
  <2>2. client = [st |-> client.st, saw |-> client.saw] /\ \A c : [client EXCEPT !.st = c].st = c
    BY DEF CallTypeOK
  <2>3. /\ resp \in La!Reply \cup {None} /\ outer \in La!Codes
        /\ {"Denied", "Internal"} \subseteq La!Codes /\ "-" \notin La!Codes
    BY DEF CallTypeOK, La!Codes
  <2>4. inner' = inner /\ La!Stream' = La!Stream
    BY Kept DEF La!Stream
  <2> QED
    BY <2>1, <2>2, <2>3, <2>4, Replies
<1> USE DEF Responded
<1>1. CASE La!Stopped
  BY <1>0, <1>1 DEF La!Stopped
<1>2. CASE La!Headers
  BY <1>0, <1>2 DEF La!Headers
<1>3. CASE La!Bare
  BY <1>0, <1>3, Replies DEF La!Bare
<1>4. CASE La!Enter
  BY <1>0, <1>4 DEF La!Enter
<1>5. CASE La!ForwardUnary
  BY <1>0, <1>5 DEF La!ForwardUnary
<1>6. CASE La!ForwardStream
  BY <1>0, <1>6, Replies DEF La!ForwardStream
<1>7. CASE La!Leave
  BY <1>0, <1>7 DEF La!Leave
<1>8. CASE La!GiveUp
  BY <1>0, <1>8 DEF La!GiveUp
<1>9. CASE La!Answer
  BY <1>0, <1>9 DEF La!Answer
<1>10. CASE La!Panic
  BY <1>0, <1>10 DEF La!Panic, La!UserTurn
<1>11. CASE La!TakeHead
  BY <1>0, <1>11 DEF La!TakeHead
<1>12. CASE La!TakeData
  <2>1. resp \in La!Reply
    BY <1>0, <1>12 DEF La!TakeData
  <2> QED
    BY <1>0, <1>12, <2>1, Lasts DEF La!TakeData
<1>13. CASE La!EndBody
  BY <1>0, <1>13 DEF La!EndBody, La!Signal
<1>14. CASE La!TakeTrailers
  BY <1>0, <1>14 DEF La!TakeTrailers
<1>15. CASE La!Gone
  BY <1>0, <1>15 DEF La!Gone, La!Signal
<1>16. CASE UNCHANGED La!cvars
  BY <1>0, <1>16 DEF La!cvars
<1> QED
  BY <1>1, <1>2, <1>3, <1>4, <1>5, <1>6, <1>7, <1>8, <1>9, <1>10, <1>11, <1>12,
     <1>13, <1>14, <1>15, <1>16
  DEF La!Next, La!Running, La!Reading

\* The response of a chain that has returned carries its outcome, and so does what the
\* caller saw.
LEMMA VerdictsStep ==
  ASSUME La!CallsAssumption, CallTypeOK, Position, Responded, Verdicts,
         [La!Next]_(La!cvars)
  PROVE  Verdicts'
<1>0. /\ inner' = inner /\ La!Stream' = La!Stream
      /\ resp \in La!Reply \cup {None} /\ None \notin La!Reply
      /\ client = [st |-> client.st, saw |-> client.saw]
      /\ \A c : [client EXCEPT !.st = c].st = c
      /\ \A c \in La!Codes : La!IntoHttp(c) # None /\ La!IntoHttp(c).head = c
      /\ La!Render # None /\ La!Render.head = "-" /\ La!Render.end = "OK"
      /\ ~La!Render.error
      /\ outer \in La!Codes /\ held \in La!Codes \cup {"-", None} /\ "-" \notin La!Codes
  <2>1. \A c : La!IntoHttp(c).head = c
    BY DEF La!IntoHttp
  <2>2. client = [st |-> client.st, saw |-> client.saw] /\ \A c : [client EXCEPT !.st = c].st = c
    BY DEF CallTypeOK
  <2>3. /\ resp \in La!Reply \cup {None} /\ outer \in La!Codes
        /\ held \in La!Codes \cup {"-", None} /\ "-" \notin La!Codes
    BY DEF CallTypeOK, La!Codes
  <2>4. inner' = inner /\ La!Stream' = La!Stream
    BY Kept DEF La!Stream
  <2>5. La!Render.head = "-" /\ La!Render.end = "OK" /\ ~La!Render.error
    BY DEF La!Render
  <2> QED
    BY <2>1, <2>2, <2>3, <2>4, <2>5, Replies
<1> USE DEF Verdicts, Chained, La!VerdictShown
<1>1. CASE La!Stopped
  BY <1>0, <1>1 DEF La!Stopped, Position
<1>2. CASE La!Headers
  BY <1>0, <1>2 DEF La!Headers, Position
<1>3. CASE La!Bare
  BY <1>0, <1>3 DEF La!Bare
<1>4. CASE La!Enter
  BY <1>0, <1>4 DEF La!Enter
<1>5. CASE La!ForwardUnary
  BY <1>0, <1>5 DEF La!ForwardUnary
<1>6. CASE La!ForwardStream
  BY <1>0, <1>6 DEF La!ForwardStream
<1>7. CASE La!Leave
  BY <1>0, <1>7 DEF La!Leave
<1>8. CASE La!GiveUp
  BY <1>0, <1>8 DEF La!GiveUp
<1>9. CASE La!Answer
  BY <1>0, <1>9 DEF La!Answer, Responded
<1>10. CASE La!Panic
  BY <1>0, <1>10 DEF La!Panic, La!UserTurn
<1>11. CASE La!TakeHead
  BY <1>0, <1>11 DEF La!TakeHead
<1>12. CASE La!TakeData
  <2>1. resp \in La!Reply
    BY <1>0, <1>12 DEF La!TakeData, Responded
  <2> QED
    BY <1>0, <1>12, <2>1, Lasts DEF La!TakeData
<1>13. CASE La!EndBody
  BY <1>0, <1>13 DEF La!EndBody, La!Signal, Responded
<1>14. CASE La!TakeTrailers
  BY <1>0, <1>14 DEF La!TakeTrailers, La!settle, Responded
<1>15. CASE La!Gone
  BY <1>0, <1>15 DEF La!Gone, La!Signal
<1>16. CASE UNCHANGED La!cvars
  BY <1>0, <1>16 DEF La!cvars
<1> QED
  BY <1>1, <1>2, <1>3, <1>4, <1>5, <1>6, <1>7, <1>8, <1>9, <1>10, <1>11, <1>12,
     <1>13, <1>14, <1>15, <1>16
  DEF La!Next, La!Running, La!Reading

LEMMA CallStays ==
  ASSUME La!CallsAssumption
  PROVE  CallInv /\ [La!Next]_(La!cvars) => CallInv'
BY CallTypeStep, PositionStep, CountedStep, MeteredStep, RespondedStep, VerdictsStep DEF CallInv

LEMMA CallShows == CallInv => La!CallsHonest
<1>1. ASSUME CallInv, ph \in {"done", "dead"} PROVE armed = {} /\ obs.requests = obs.entered
  <2>1. \A i \in DOMAIN inner.chain : i \in Int /\ i > 0
    BY <1>1, Chain DEF CallInv, CallTypeOK
  <2>2. armed = {}
    BY <1>1, <2>1 DEF CallInv, Position, Above
  <2>3. Cardinality(armed) = 0 /\ obs.requests \in Int
    BY <1>1, <2>2, FS_EmptySet DEF CallInv, CallTypeOK
  <2> QED
    BY <1>1, <2>2, <2>3 DEF CallInv, Counted
<1> QED
  BY <1>1 DEF CallInv, Metered, Verdicts, La!CallsHonest, La!CallAccounted

-----------------------------------------------------------------------------
(* A group of MCP services, its sessions and its calls *)

LEMMA LeastOf ==
  ASSUME NEW S \in SUBSET Nat, S # {}
  PROVE  \E x \in S : \A j \in S : x <= j
<1>1. PICK x \in S : \A y \in S : ~(<<y, x>> \in OpToRel(<, Nat))
  BY NatLessThanWellFounded, WFMin
<1>2. \A j \in S : ~(j < x)
  BY <1>1 DEF OpToRel
<1> QED
  BY <1>2

Inventories == UNION {{Mc!inventory(g.members[i]) : i \in DOMAIN g.members} : g \in McpGroups}

\* The inventories so far are those of the first members, and what is served is routed
\* by inventories that do not collide.
Inventoried ==
  /\ group \in McpGroups
  /\ found \in Seq(Inventories)
  /\ Len(found) <= Len(group.members)
  /\ \A i \in 1..Len(found) : found[i] = Mc!inventory(group.members[i])
  /\ build = "serving" /\ group.combined =>
       /\ Len(found) = Len(group.members) /\ Mc!check_collisions(found)
       /\ routing = [k \in Mc!Kinds |-> Mc!Routes(found, k)]

Sessions ==
  session \in [Openers -> [loop : {"none", "running", "ended"}, stream : {"none", "open", "closed"},
                           inbox : Seq(Mc!Messages)]]

CallFields == {"at", "tool", "legacy", "elicits", "round", "responses", "asked", "pending"}
Wanted(tool) == {tool[j] : j \in DOMAIN tool}
\* A call that still asks: its questions are fields of its tool, no two the same, and each
\* of them has been answered.
Asks(k) ==
  /\ \E t \in group.tools : k.tool = t.needs
  /\ k.asked \in Seq(Wanted(k.tool))
  /\ DOMAIN k.responses = {k.asked[i] : i \in DOMAIN k.asked}
  /\ \A f \in DOMAIN k.responses : k.responses[f] \in {"accept", "decline"}
  /\ k.round \in 0..Len(k.asked)
CallIs(k) ==
  /\ DOMAIN k = CallFields
  /\ Mc!IsInjective(k.asked)
  /\ k.at \in {"none", "dispatch", "fulfil", "input required", "too many", "returned"}
  /\ k.at \in {"dispatch", "fulfil", "input required", "too many"} => Asks(k)
  /\ k.at \in {"fulfil", "input required"} =>
       ~Mc!Declined(k.responses) /\ Mc!Missing(k.tool, k.responses) # {}
  /\ k.at = "fulfil" => k.pending = Mc!Question(k.tool, k.responses)
  /\ k.at = "too many" => k.round = MaxRounds
CallsAre == DOMAIN mcpCall = Openers /\ \A c \in Openers : CallIs(mcpCall[c])

McpInv == Inventoried /\ Sessions /\ CallsAre

LEMMA NoCallIs == CallIs(Mc!NoCall) /\ DOMAIN Mc!NoCall = CallFields
  BY DEF CallIs, CallFields, Mc!NoCall, Mc!IsInjective

LEMMA McpStarts == ASSUME Mc!McpAssumption, Mc!Init PROVE McpInv
<1>1. Inventoried
  BY EmptySeq, LenProperties DEF Inventoried, Mc!Init, Mc!McpAssumption
<1>2. Mc!NoSession \in [loop : {"none", "running", "ended"}, stream : {"none", "open", "closed"},
                        inbox : Seq(Mc!Messages)]
  BY EmptySeq DEF Mc!NoSession
<1>3. Sessions
  BY <1>2 DEF Sessions, Mc!Init
<1>4. CallsAre
  BY NoCallIs DEF CallsAre, Mc!Init
<1> QED
  BY <1>1, <1>3, <1>4 DEF McpInv

-----------------------------------------------------------------------------
(* What is listed is reached *)

LEMMA ListedKeeps ==
  ASSUME Mc!McpAssumption, Inventoried, build = "serving", group.combined,
         NEW i \in DOMAIN group.members, NEW k \in Mc!Kinds, NEW n \in Mc!Listed(k)[i]
  PROVE  /\ n \in DOMAIN routing[k] /\ routing[k][n] = i
         /\ i \in Nat /\ i # 0
<1> DEFINE m == group.members[i]
           pages == m.pages[k]
<1>1. /\ DOMAIN group.members = 1..Len(group.members) /\ Len(group.members) \in Nat
      /\ m.pages \in [Mc!Kinds -> Seq(Seq(STRING))]
  BY DEF Mc!McpAssumption, Inventoried
<1>2. i \in 1..Len(found) /\ Len(found) \in Nat /\ DOMAIN found = 1..Len(found)
  BY <1>1, LenProperties DEF Inventoried
<1>3. /\ found[i] = Mc!inventory(m) /\ Mc!check_collisions(found)
      /\ routing = [kind \in Mc!Kinds |-> Mc!Routes(found, kind)]
  BY <1>2 DEF Inventoried
<1>4. /\ Mc!Capability(k) \in m.caps /\ pages # <<>>
      /\ n \in Mc!Range(Head(pages))
  <2>1. Mc!Listed(k)[i] = Mc!Range(IF Mc!Capability(k) \in m.caps /\ pages # <<>> THEN Head(pages) ELSE <<>>)
    BY DEF Mc!Listed
  <2>2. Mc!Range(<<>>) = {}
    BY DEF Mc!Range
  <2> QED
    BY <2>1, <2>2
<1>5. PICK p \in DOMAIN Head(pages) : n = Head(pages)[p]
  BY <1>4 DEF Mc!Range
<1>6. pages \in Seq(Seq(STRING))
  BY <1>1
<1>7. 1 \in DOMAIN pages /\ Head(pages) = pages[1]
  BY <1>4, <1>6
<1> DEFINE x == <<1, p>>
<1>8. x \in Mc!Positions(pages) /\ pages[x[1]][x[2]] = n
  <2>1. x \in {1} \X DOMAIN pages[1]
    BY <1>5, <1>7
  <2> QED
    BY <1>5, <1>7, <2>1 DEF Mc!Positions
<1> HIDE DEF x
<1>9. x \in DOMAIN found[i][k] /\ found[i][k][x] = n
  <2>1. found[i][k] = [y \in IF Mc!Capability(k) \in m.caps THEN Mc!Positions(m.pages[k]) ELSE {} |->
                         m.pages[k][y[1]][y[2]]]
    BY <1>3 DEF Mc!inventory
  <2> QED
    BY <1>4, <1>8, <2>1
<1>10. n \in Mc!Range(found[i][k])
  BY <1>9 DEF Mc!Range
<1>11. ASSUME NEW j \in DOMAIN found, n \in Mc!Range(found[j][k]) PROVE j = i
  <2>1. PICK y \in DOMAIN found[j][k] : n = found[j][k][y]
    BY <1>11 DEF Mc!Range
  <2> QED
    BY <1>2, <1>3, <1>9, <2>1 DEF Mc!check_collisions
<1> DEFINE Last(j) == /\ n \in Mc!Range(found[j][k])
                      /\ \A l \in DOMAIN found : n \in Mc!Range(found[l][k]) => l <= j
<1>12. Last(i) /\ \A j \in DOMAIN found : Last(j) => j = i
  BY <1>2, <1>10, <1>11
<1>13. (CHOOSE j \in DOMAIN found : Last(j)) = i
  <2> HIDE DEF Last
  <2> QED
    BY <1>2, <1>12
<1>14. n \in UNION {Mc!Range(found[j][k]) : j \in DOMAIN found}
  BY <1>2, <1>10
<1>15. routing[k] = Mc!Routes(found, k)
  BY <1>3
<1> QED
  BY <1>2, <1>13, <1>14, <1>15 DEF Mc!Routes

LEMMA ListedReached == ASSUME Mc!McpAssumption, Inventoried PROVE Mc!ListedIsReached
<1> SUFFICES ASSUME build = "serving", group.combined, NEW i \in DOMAIN group.members
             PROVE  /\ group.members[i].caps \subseteq Mc!merge_capabilities
                    /\ \A k \in {"tools", "prompts"} : \A n \in Mc!Listed(k)[i] : Mc!member(k, n) = i
                    /\ \A uri \in Mc!Listed("resources")[i] : Mc!read_resource(uri) = i
  BY DEF Mc!ListedIsReached
<1>1. group.members[i].caps \subseteq Mc!merge_capabilities
  BY DEF Mc!merge_capabilities
<1>2. ASSUME NEW k \in Mc!Kinds, NEW n \in Mc!Listed(k)[i] PROVE Mc!member(k, n) = i /\ i # 0
  BY <1>2, ListedKeeps DEF Mc!member
<1>3. {"tools", "prompts", "resources"} \subseteq Mc!Kinds
  BY DEF Mc!Kinds
<1>4. ASSUME NEW uri \in Mc!Listed("resources")[i] PROVE Mc!read_resource(uri) = i
  BY <1>2, <1>3 DEF Mc!read_resource
<1> QED
  BY <1>1, <1>2, <1>3, <1>4

-----------------------------------------------------------------------------
(* A user is asked once *)

\* A question is a field that has not been answered.
LEMMA QuestionIsNew ==
  ASSUME Mc!McpAssumption, Inventoried, NEW k, Asks(k), ~Mc!Declined(k.responses),
         Mc!Missing(k.tool, k.responses) # {}
  PROVE  /\ Mc!Question(k.tool, k.responses) \in Wanted(k.tool)
         /\ Mc!Question(k.tool, k.responses) \notin DOMAIN k.responses
<1> DEFINE M == Mc!Missing(k.tool, k.responses)
           i == CHOOSE x \in M : \A y \in M : x <= y
<1>1. k.tool \in Seq(STRING)
  BY DEF Mc!McpAssumption, Inventoried, Asks
<1>2. DOMAIN k.tool \subseteq Nat
  BY <1>1, LenProperties
<1>3. M \in SUBSET Nat /\ M \subseteq DOMAIN k.tool
  BY <1>2 DEF Mc!Missing
<1>4. i \in M
  <2>0. M # {}
    OBVIOUS
  <2>1. \E x \in M : \A y \in M : x <= y
    <3> HIDE DEF M
    <3> QED
      BY <1>3, <2>0, LeastOf
  <2> HIDE DEF M
  <2> QED
    BY <2>1
<1>5. Mc!Question(k.tool, k.responses) = k.tool[i]
  BY DEF Mc!Question
<1>6. k.tool[i] \notin Mc!merge_answers(k.responses)
  BY <1>4 DEF Mc!Missing
<1>7. k.tool[i] \notin DOMAIN k.responses
  BY <1>6 DEF Mc!merge_answers, Mc!Declined, Asks
<1> QED
  BY <1>3, <1>4, <1>5, <1>7 DEF Wanted

LEMMA AnswerKeeps ==
  ASSUME NEW k, Asks(k), DOMAIN k = CallFields, Mc!IsInjective(k.asked),
         NEW q, q \in Wanted(k.tool), q \notin DOMAIN k.responses, NEW word,
         NEW k1, DOMAIN k1 = CallFields, k1.tool = k.tool, k1.asked = Append(k.asked, q),
         k1.responses = Mc!Accumulated(k.responses, q, word),
         k1.round \in {0, k.round + 1}
  PROVE  /\ Mc!IsInjective(k1.asked)
         /\ word \in {"accept", "decline"} => Asks(k1)
<1>1. /\ k.asked \in Seq(Wanted(k.tool)) /\ Len(k.asked) \in Nat
      /\ DOMAIN k.asked = 1..Len(k.asked)
  BY LenProperties DEF Asks
<1>2. /\ k1.asked \in Seq(Wanted(k.tool)) /\ Len(k1.asked) = Len(k.asked) + 1
      /\ \A i \in 1..Len(k.asked) : k1.asked[i] = k.asked[i]
      /\ k1.asked[Len(k.asked) + 1] = q
  BY <1>1, AppendProperties
<1>3. DOMAIN k1.asked = 1..(Len(k.asked) + 1)
  BY <1>2, LenProperties
<1>4. \A i \in 1..Len(k.asked) : k.asked[i] # q
  BY <1>1 DEF Asks
<1>5. Mc!IsInjective(k1.asked)
  BY <1>1, <1>2, <1>3, <1>4 DEF Mc!IsInjective
<1>6. DOMAIN k1.responses = DOMAIN k.responses \cup {q}
  BY DEF Mc!Accumulated
<1>7. {k1.asked[i] : i \in DOMAIN k1.asked} = {k.asked[i] : i \in DOMAIN k.asked} \cup {q}
  <2>1. 1..(Len(k.asked) + 1) = (1..Len(k.asked)) \cup {Len(k.asked) + 1}
    BY <1>1
  <2> QED
    BY <1>1, <1>2, <1>3, <2>1
<1>8. \A f \in DOMAIN k1.responses : k1.responses[f] = IF f = q THEN word ELSE k.responses[f]
  BY DEF Mc!Accumulated
<1>9. ASSUME word \in {"accept", "decline"} PROVE Asks(k1)
  <2>1. \E t \in group.tools : k1.tool = t.needs
    BY DEF Asks
  <2>2. DOMAIN k1.responses = {k1.asked[i] : i \in DOMAIN k1.asked}
    BY <1>6, <1>7 DEF Asks
  <2>3. \A f \in DOMAIN k1.responses : k1.responses[f] \in {"accept", "decline"}
    BY <1>6, <1>8, <1>9 DEF Asks
  <2>4. k1.round \in 0..Len(k1.asked)
    BY <1>1, <1>2 DEF Asks
  <2> QED
    BY <1>2, <2>1, <2>2, <2>3, <2>4 DEF Asks
<1> QED
  BY <1>5, <1>9

LEMMA CallSame == ASSUME UNCHANGED group, NEW k, CallIs(k) PROVE CallIs(k)'
  BY DEF CallIs, Asks, Mc!IsInjective, Mc!Declined, Mc!Missing, Mc!merge_answers, Mc!Question

\* One call changes.
LEMMA OneCall ==
  ASSUME CallsAre, UNCHANGED group, NEW c \in Openers, NEW k, CallIs(k),
         mcpCall' = [mcpCall EXCEPT ![c] = k]
  PROVE  CallsAre'
<1>1. DOMAIN mcpCall' = Openers /\ \A d \in Openers : mcpCall'[d] = IF d = c THEN k ELSE mcpCall[d]
  BY DEF CallsAre
<1>2. ASSUME NEW d \in Openers PROVE CallIs(mcpCall'[d])
  BY <1>1 DEF CallsAre
<1>3. ASSUME NEW d \in Openers PROVE CallIs(mcpCall[d])'
  BY <1>2, CallSame
<1> QED
  BY <1>1, <1>3 DEF CallsAre

\* One session changes.
LEMMA OneSession ==
  ASSUME Sessions, UNCHANGED group, NEW c \in Openers,
         NEW s \in [loop : {"none", "running", "ended"}, stream : {"none", "open", "closed"},
                    inbox : Seq(Mc!Messages)],
         session' = [session EXCEPT ![c] = s]
  PROVE  Sessions'
<1>1. Mc!Messages' = Mc!Messages
  BY DEF Mc!Messages
<1> QED
  BY <1>1 DEF Sessions

LEMMA ToolAnswer ==
  ASSUME NEW e, NEW t, NEW r,
         Mc!dispatch(Mc!ask_pending(e, Mc!Tool(t, r))) = "ask"
  PROVE  ~Mc!Declined(r) /\ Mc!Missing(t, r) # {}
  BY DEF Mc!dispatch, Mc!ask_pending, Mc!Tool

LEMMA DispatchKeeps ==
  ASSUME CallsAre, NEW c \in Openers, Mc!Dispatch(c)
  PROVE  CallsAre'
<1> DEFINE k == mcpCall[c]
           response == Mc!dispatch(Mc!ask_pending(k.elicits, Mc!Tool(k.tool, k.responses)))
           k1 == IF k.round = MaxRounds THEN [k EXCEPT !.at = "too many"]
                 ELSE IF response = "ask" /\ k.legacy
                 THEN [k EXCEPT !.at = "fulfil", !.pending = Mc!Question(k.tool, k.responses)]
                 ELSE [k EXCEPT !.at = IF response = "ask" THEN "input required" ELSE "returned"]
<1>1. k.at = "dispatch" /\ mcpCall' = [mcpCall EXCEPT ![c] = k1] /\ UNCHANGED group
  BY DEF Mc!Dispatch
<1>2. CallIs(k)
  BY DEF CallsAre
<1>3. response = "ask" => ~Mc!Declined(k.responses) /\ Mc!Missing(k.tool, k.responses) # {}
  BY ToolAnswer
<1> HIDE DEF k, response
<1>4. /\ DOMAIN k1 = CallFields
      /\ k1.tool = k.tool /\ k1.asked = k.asked /\ k1.responses = k.responses /\ k1.round = k.round
      /\ k1.at \in {"fulfil", "input required", "too many", "returned"}
      /\ k1.at \in {"fulfil", "input required"} => response = "ask"
      /\ k1.at = "fulfil" => k1.pending = Mc!Question(k.tool, k.responses)
      /\ k1.at = "too many" => k.round = MaxRounds
  BY <1>2 DEF CallIs, CallFields
<1> HIDE DEF k1
<1>5. Asks(k1)
  BY <1>1, <1>2, <1>4 DEF CallIs, Asks
<1>6. CallIs(k1)
  BY <1>2, <1>3, <1>4, <1>5 DEF CallIs
<1> QED
  BY <1>1, <1>6, OneCall

LEMMA FulfilKeeps ==
  ASSUME Mc!McpAssumption, Inventoried, CallsAre, NEW c \in Openers,
         NEW word \in {"accept", "decline", "fails"}, Mc!Fulfil(c, word)
  PROVE  CallsAre'
<1> DEFINE k == mcpCall[c]
           k1 == [k EXCEPT !.asked = Append(k.asked, k.pending), !.round = k.round + 1, !.pending = None,
                           !.responses = Mc!Accumulated(k.responses, k.pending, word),
                           !.at = IF word = "fails" THEN "returned" ELSE "dispatch"]
<1>1. k.at = "fulfil" /\ mcpCall' = [mcpCall EXCEPT ![c] = k1] /\ UNCHANGED group
  BY DEF Mc!Fulfil, Mc!ask_id
<1>2. CallIs(k)
  BY DEF CallsAre
<1> HIDE DEF k
<1>3. Asks(k) /\ ~Mc!Declined(k.responses) /\ Mc!Missing(k.tool, k.responses) # {}
      /\ k.pending = Mc!Question(k.tool, k.responses) /\ DOMAIN k = CallFields /\ Mc!IsInjective(k.asked)
  BY <1>1, <1>2 DEF CallIs
<1>4. k.pending \in Wanted(k.tool) /\ k.pending \notin DOMAIN k.responses
  BY <1>3, QuestionIsNew
<1>5. /\ DOMAIN k1 = CallFields
      /\ k1.tool = k.tool /\ k1.asked = Append(k.asked, k.pending) /\ k1.round = k.round + 1
      /\ k1.responses = Mc!Accumulated(k.responses, k.pending, word)
      /\ k1.at = IF word = "fails" THEN "returned" ELSE "dispatch"
  BY <1>3 DEF CallFields
<1> HIDE DEF k1
<1>6. Mc!IsInjective(k1.asked) /\ (word \in {"accept", "decline"} => Asks(k1))
  BY <1>3, <1>4, <1>5, AnswerKeeps
<1>7. CallIs(k1)
  BY <1>5, <1>6 DEF CallIs
<1> QED
  BY <1>1, <1>7, OneCall

LEMMA RetryKeeps ==
  ASSUME Mc!McpAssumption, Inventoried, CallsAre, NEW c \in Openers,
         NEW word \in {"accept", "decline"}, Mc!Retry(c, word)
  PROVE  CallsAre'
<1> DEFINE k == mcpCall[c]
           q == Mc!Question(k.tool, k.responses)
           k1 == [k EXCEPT !.asked = Append(k.asked, q), !.round = 0, !.at = "dispatch",
                           !.responses = Mc!Accumulated(k.responses, q, word)]
<1>1. k.at = "input required" /\ mcpCall' = [mcpCall EXCEPT ![c] = k1] /\ UNCHANGED group
  BY DEF Mc!Retry, Mc!ask_id
<1>2. CallIs(k)
  BY DEF CallsAre
<1> HIDE DEF k
<1>3. Asks(k) /\ ~Mc!Declined(k.responses) /\ Mc!Missing(k.tool, k.responses) # {}
      /\ DOMAIN k = CallFields /\ Mc!IsInjective(k.asked)
  BY <1>1, <1>2 DEF CallIs
<1>4. q \in Wanted(k.tool) /\ q \notin DOMAIN k.responses
  BY <1>3, QuestionIsNew
<1> HIDE DEF q
<1>5. /\ DOMAIN k1 = CallFields
      /\ k1.tool = k.tool /\ k1.asked = Append(k.asked, q) /\ k1.round = 0
      /\ k1.responses = Mc!Accumulated(k.responses, q, word)
      /\ k1.at = "dispatch"
  BY <1>3 DEF CallFields
<1> HIDE DEF k1
<1>6. Mc!IsInjective(k1.asked) /\ Asks(k1)
  BY <1>3, <1>4, <1>5, AnswerKeeps
<1>7. CallIs(k1)
  BY <1>5, <1>6 DEF CallIs
<1> QED
  BY <1>1, <1>7, OneCall

LEMMA CallToolKeeps ==
  ASSUME Sessions, CallsAre, NEW c \in Openers, Mc!CallTool(c)
  PROVE  Sessions' /\ CallsAre'
<1> DEFINE message == Head(session[c].inbox)
           new == [Mc!NoCall EXCEPT !.at = "dispatch", !.tool = message.tool.needs,
                                    !.legacy = message.legacy, !.elicits = message.elicits]
           gone == [Mc!NoCall EXCEPT !.at = "returned"]
           k1 == IF message.kind = "call" /\ (~group.combined \/ Mc!member("tools", message.tool.name) # 0)
                 THEN new ELSE gone
           s1 == [session[c] EXCEPT !.inbox = Tail(session[c].inbox)]
<1>1. /\ session[c].inbox # <<>> /\ UNCHANGED group
      /\ mcpCall' = [mcpCall EXCEPT ![c] = k1] /\ session' = [session EXCEPT ![c] = s1]
  BY DEF Mc!CallTool
<1>2. session[c] \in [loop : {"none", "running", "ended"}, stream : {"none", "open", "closed"},
                      inbox : Seq(Mc!Messages)]
  BY DEF Sessions
<1>3. message \in Mc!Messages /\ Tail(session[c].inbox) \in Seq(Mc!Messages)
  BY <1>1, <1>2, HeadTailProperties
<1>4. s1 \in [loop : {"none", "running", "ended"}, stream : {"none", "open", "closed"},
              inbox : Seq(Mc!Messages)]
  BY <1>2, <1>3
<1>5. Sessions'
  <2> HIDE DEF s1
  <2> QED
    BY <1>1, <1>4, OneSession
<1>6. ASSUME message.kind = "call" PROVE CallIs(new)
  <2>1. message.tool \in group.tools
    BY <1>3, <1>6 DEF Mc!Messages
  <2>2. /\ DOMAIN new = CallFields /\ new.at = "dispatch" /\ new.tool = message.tool.needs
        /\ new.asked = <<>> /\ new.responses = <<>> /\ new.round = 0
    BY DEF Mc!NoCall, CallFields
  <2> HIDE DEF new, message
  <2>3. DOMAIN new.responses = {new.asked[i] : i \in DOMAIN new.asked}
    BY <2>2
  <2>4. new.asked \in Seq(Wanted(new.tool)) /\ new.round \in 0..Len(new.asked)
    BY <2>2, EmptySeq
  <2>5. Asks(new)
    BY <2>1, <2>2, <2>3, <2>4 DEF Asks
  <2>6. Mc!IsInjective(new.asked)
    BY <2>2 DEF Mc!IsInjective
  <2> QED
    BY <2>2, <2>5, <2>6 DEF CallIs
<1>7. CallIs(gone)
  <2>1. DOMAIN gone = CallFields /\ gone.at = "returned" /\ gone.asked = <<>>
    BY DEF Mc!NoCall, CallFields
  <2> HIDE DEF gone
  <2> QED
    BY <2>1 DEF CallIs, Mc!IsInjective
<1>8. CallIs(k1)
  BY <1>6, <1>7
<1>9. CallsAre'
  <2> HIDE DEF k1
  <2> QED
    BY <1>1, <1>8, OneCall
<1> QED
  BY <1>5, <1>9

LEMMA McpStays == ASSUME Mc!McpAssumption, McpInv, [Mc!Next]_(Mc!vars) PROVE McpInv'
<1> USE DEF McpInv
<1>1. CASE UNCHANGED Mc!vars
  <2>1. UNCHANGED <<group, build, found, routing, session, mcpCall>>
    BY <1>1 DEF Mc!vars
  <2>2. Inventoried'
    BY <2>1 DEF Inventoried
  <2>3. Sessions'
    BY <2>1 DEF Sessions, Mc!Messages
  <2>4. \A c \in Openers : CallIs(mcpCall[c])'
    BY <2>1, CallSame DEF CallsAre
  <2> QED
    BY <2>1, <2>2, <2>3, <2>4 DEF CallsAre
<1>2. ASSUME UNCHANGED <<group, build, found, routing>> PROVE Inventoried'
  BY <1>2 DEF Inventoried
<1>3. ASSUME UNCHANGED <<group, session>> PROVE Sessions'
  BY <1>3 DEF Sessions, Mc!Messages
<1>4. ASSUME UNCHANGED <<group, mcpCall>> PROVE CallsAre'
  <2>1. \A c \in Openers : CallIs(mcpCall[c])'
    BY <1>4, CallSame DEF CallsAre
  <2> QED
    BY <1>4, <2>1 DEF CallsAre
<1>5. CASE Mc!InventoryMember
  <2>1. UNCHANGED <<group, routing, session, mcpCall>>
    BY <1>5 DEF Mc!InventoryMember
  <2> DEFINE T == Inventories
             n == Len(found)
  <2>2. /\ found \in Seq(T) /\ n \in Nat /\ n < Len(group.members)
        /\ DOMAIN group.members = 1..Len(group.members) /\ Len(group.members) \in Nat
    BY <1>5, LenProperties DEF Mc!InventoryMember, Inventoried, Mc!McpAssumption
  <2>3. ASSUME found' = found /\ build' = "failed" PROVE Inventoried'
    BY <2>1, <2>3 DEF Inventoried
  <2>4. ASSUME found' = Append(found, Mc!inventory(group.members[n + 1])) /\ UNCHANGED build
        PROVE  Inventoried'
    <3>1. Mc!inventory(group.members[n + 1]) \in T
      BY <2>2 DEF Inventories, Inventoried
    <3>2. /\ found' \in Seq(T) /\ Len(found') = n + 1
          /\ \A i \in 1..n : found'[i] = found[i]
          /\ found'[n + 1] = Mc!inventory(group.members[n + 1])
      BY <2>2, <2>4, <3>1, AppendProperties
    <3>3. \A i \in 1..Len(found') : found'[i] = Mc!inventory(group.members[i])
      BY <2>2, <3>2 DEF Inventoried
    <3>4. build = "combining"
      BY <1>5 DEF Mc!InventoryMember
    <3> QED
      BY <2>1, <2>2, <2>4, <3>2, <3>3, <3>4 DEF Inventoried
  <2>5. Inventoried'
    BY <1>5, <2>3, <2>4 DEF Mc!InventoryMember
  <2> QED
    BY <1>3, <1>4, <2>1, <2>5
<1>6. CASE Mc!Mount
  <2>1. UNCHANGED <<group, found, session, mcpCall>>
    BY <1>6 DEF Mc!Mount
  <2>2. Inventoried'
    BY <1>6, <2>1 DEF Mc!Mount, Inventoried
  <2> QED
    BY <1>3, <1>4, <2>1, <2>2
<1>7. CASE Mc!Cancel
  BY <1>2, <1>3, <1>4, <1>7 DEF Mc!Cancel
<1> DEFINE S == [loop : {"none", "running", "ended"}, stream : {"none", "open", "closed"},
                 inbox : Seq(Mc!Messages)]
<1>8. ASSUME NEW c \in Openers, Mc!open(c) PROVE McpInv'
  <2> DEFINE s == [loop |-> "running", stream |-> "open", inbox |-> <<>>]
  <2>1. /\ UNCHANGED <<group, build, found, routing, mcpCall>>
        /\ session' = [session EXCEPT ![c] = s]
    BY <1>8 DEF Mc!open
  <2>2. s \in S
    BY EmptySeq
  <2>3. Sessions'
    <3> HIDE DEF s
    <3> QED
      BY <2>1, <2>2, OneSession
  <2> QED
    BY <1>2, <1>4, <2>1, <2>3
<1>9. ASSUME NEW c \in Openers, Mc!PostLookup(c) PROVE McpInv'
  BY <1>2, <1>3, <1>4, <1>9 DEF Mc!PostLookup
<1>10. ASSUME NEW c \in Openers, Mc!StreamEnds(c) PROVE McpInv'
  <2> DEFINE s == [session[c] EXCEPT !.stream = "closed"]
  <2>1. /\ UNCHANGED <<group, build, found, routing, mcpCall>>
        /\ session' = [session EXCEPT ![c] = s]
    BY <1>10 DEF Mc!StreamEnds
  <2>2. s \in S
    BY DEF Sessions
  <2>3. Sessions'
    <3> HIDE DEF s
    <3> QED
      BY <2>1, <2>2, OneSession
  <2> QED
    BY <1>2, <1>4, <2>1, <2>3
<1>11. ASSUME NEW c \in Openers, Mc!LoopEnds(c) PROVE McpInv'
  <2> DEFINE s == [session[c] EXCEPT !.loop = "ended", !.inbox = <<>>]
             k == Mc!NoCall
  <2>1. /\ UNCHANGED <<group, build, found, routing>>
        /\ session' = [session EXCEPT ![c] = s] /\ mcpCall' = [mcpCall EXCEPT ![c] = k]
    BY <1>11 DEF Mc!LoopEnds
  <2>2. s \in S
    BY EmptySeq DEF Sessions
  <2>3. Sessions'
    <3> HIDE DEF s
    <3> QED
      BY <2>1, <2>2, OneSession
  <2>4. CallsAre'
    <3> HIDE DEF k
    <3>1. CallIs(k)
      BY NoCallIs DEF k
    <3> QED
      BY <2>1, <3>1, OneCall
  <2> QED
    BY <1>2, <2>1, <2>3, <2>4
<1>12. ASSUME NEW c \in Openers, Mc!RemoveInbox(c) PROVE McpInv'
  BY <1>2, <1>3, <1>4, <1>12 DEF Mc!RemoveInbox
<1>13. ASSUME NEW c \in Openers, NEW m \in Mc!Messages, Mc!PostSend(c, m) PROVE McpInv'
  <2> DEFINE s == [session[c] EXCEPT !.inbox = Append(session[c].inbox, m)]
  <2>1. /\ UNCHANGED <<group, build, found, routing, mcpCall>>
        /\ session' = [session EXCEPT ![c] = s] \/ UNCHANGED session
    BY <1>13 DEF Mc!PostSend
  <2>2. s \in S
    <3>1. session[c] \in S
      BY DEF Sessions
    <3>2. Append(session[c].inbox, m) \in Seq(Mc!Messages)
      BY <3>1, AppendProperties
    <3> QED
      BY <3>1, <3>2
  <2>3. Sessions'
    <3> HIDE DEF s
    <3> QED
      BY <1>3, <2>1, <2>2, OneSession
  <2> QED
    BY <1>2, <1>4, <2>1, <2>3
<1>14. ASSUME NEW c \in Openers, Mc!CallTool(c) PROVE McpInv'
  <2>1. UNCHANGED <<group, build, found, routing>>
    BY <1>14 DEF Mc!CallTool
  <2> QED
    BY <1>2, <1>14, <2>1, CallToolKeeps
<1>15. ASSUME NEW c \in Openers, Mc!Dispatch(c) PROVE McpInv'
  <2>1. UNCHANGED <<group, build, found, routing, session>>
    BY <1>15 DEF Mc!Dispatch
  <2> QED
    BY <1>2, <1>3, <1>15, <2>1, DispatchKeeps
<1>16. ASSUME NEW c \in Openers, Mc!CallReturns(c) PROVE McpInv'
  <2> DEFINE k == [mcpCall[c] EXCEPT !.at = "returned"]
  <2>1. /\ UNCHANGED <<group, build, found, routing, session>>
        /\ mcpCall' = [mcpCall EXCEPT ![c] = k]
    BY <1>16 DEF Mc!CallReturns
  <2>2. CallIs(mcpCall[c])
    BY DEF CallsAre
  <2>3. DOMAIN k = CallFields /\ k.at = "returned" /\ k.asked = mcpCall[c].asked
    BY <2>2 DEF CallIs, CallFields
  <2> HIDE DEF k
  <2>4. CallIs(k)
    BY <2>2, <2>3 DEF CallIs
  <2>5. CallsAre'
    BY <2>1, <2>4, OneCall
  <2> QED
    BY <1>2, <1>3, <2>1, <2>5
<1>17. ASSUME NEW c \in Openers, NEW word \in {"accept", "decline", "fails"}, Mc!Fulfil(c, word)
       PROVE  McpInv'
  <2>1. UNCHANGED <<group, build, found, routing, session>>
    BY <1>17 DEF Mc!Fulfil
  <2> QED
    BY <1>2, <1>3, <1>17, <2>1, FulfilKeeps
<1>18. ASSUME NEW c \in Openers, NEW word \in {"accept", "decline"}, Mc!Retry(c, word)
       PROVE  McpInv'
  <2>1. UNCHANGED <<group, build, found, routing, session>>
    BY <1>18 DEF Mc!Retry
  <2> QED
    BY <1>2, <1>3, <1>18, <2>1, RetryKeeps
<1> HIDE DEF McpInv
<1> QED
  BY <1>1, <1>5, <1>6, <1>7, <1>8, <1>9, <1>10, <1>11, <1>12, <1>13, <1>14, <1>15, <1>16, <1>17, <1>18
  DEF Mc!Next

\* As many different questions as a tool has fields.
LEMMA EnoughFields ==
  ASSUME NEW tool, tool \in Seq(STRING), NEW q, q \in Seq(Wanted(tool)), Mc!IsInjective(q)
  PROVE  Len(q) <= Len(tool)
<1> DEFINE n == Len(q)
           m == Len(tool)
           f == [i \in 1..n |-> CHOOSE j \in 1..m : tool[j] = q[i]]
<1>1. /\ n \in Nat /\ m \in Nat /\ DOMAIN q = 1..n /\ DOMAIN tool = 1..m
      /\ \A i \in 1..n : q[i] \in Wanted(tool)
  BY LenProperties
<1>2. \A i \in 1..n : f[i] \in 1..m /\ tool[f[i]] = q[i]
  BY <1>1 DEF Wanted
<1> HIDE DEF f
<1>3. f \in [1..n -> 1..m]
  BY <1>2 DEF f
<1>4. /\ IsFiniteSet(1..n) /\ Cardinality(1..n) = n
      /\ IsFiniteSet(1..m) /\ Cardinality(1..m) = m
  <2>1. ASSUME NEW a \in Nat PROVE IsFiniteSet(1..a) /\ Cardinality(1..a) = a
    <3>1. /\ IsFiniteSet(1..a)
          /\ Cardinality(1..a) = IF 1 > a THEN 0 ELSE a - 1 + 1
      BY FS_Interval
    <3> QED
      BY <3>1
  <2> QED
    BY <1>1, <2>1
<1>5. ASSUME m < n PROVE FALSE
  <2>1. \E x, y \in 1..n : x # y /\ f[x] = f[y]
    BY <1>3, <1>4, <1>5, FS_PigeonHole
  <2> QED
    BY <1>1, <1>2, <2>1 DEF Mc!IsInjective
<1> QED
  BY <1>1, <1>5

LEMMA McpShows == ASSUME Mc!McpAssumption, McpInv PROVE Mc!ListedIsReached /\ Mc!AskedOnce
<1>1. Mc!ListedIsReached
  BY ListedReached DEF McpInv
<1>2. ASSUME NEW c \in Openers, mcpCall[c].at = "too many" PROVE Len(mcpCall[c].tool) >= MaxRounds
  <2> DEFINE k == mcpCall[c]
  <2>1. CallIs(k)
    BY DEF McpInv, CallsAre
  <2> HIDE DEF k
  <2>2. Asks(k) /\ k.round = MaxRounds /\ Mc!IsInjective(k.asked)
    BY <1>2, <2>1 DEF CallIs, k
  <2>3. k.tool \in Seq(STRING)
    BY <2>2 DEF Asks, McpInv, Inventoried, Mc!McpAssumption
  <2>4. k.asked \in Seq(Wanted(k.tool)) /\ k.round \in 0..Len(k.asked)
    BY <2>2 DEF Asks
  <2>5. Len(k.asked) <= Len(k.tool) /\ Len(k.asked) \in Nat /\ Len(k.tool) \in Nat
    BY <2>2, <2>3, <2>4, EnoughFields, LenProperties
  <2> QED
    BY <2>2, <2>4, <2>5 DEF k
<1>3. Mc!AskedOnce
  BY <1>2 DEF Mc!AskedOnce, McpInv, CallsAre, CallIs
<1> QED
  BY <1>1, <1>3

-----------------------------------------------------------------------------
(* A tool call: its arguments, its stream, its progress and its error *)

\* Before the backend is called: what is shown is what is missing.
Elicited ==
  /\ at \in {"check", "pending", "stream", "done"}
  /\ at \in {"check", "pending"} => answer = None
  /\ at = "pending" => asked = To!elicit_schema(To!missing_elicit_fields(args))
  /\ To!MergedExact /\ To!NothingMissing

\* A stream that is read is where it was, on its way or taken; it is whole or it ended in an
\* error, unless it was cancelled; an error is the last thing on its way.
Out == got \o chan
Flow == Out \o (IF pump = "send" THEN <<item>> ELSE <<>>) \o stream
EndsInError(q) == q # <<>> /\ To!IsError(q[Len(q)])
Pumped ==
  /\ pump \in {"pull", "send", "ended"} /\ reader \in {"reading", "gone"}
  /\ got \in Seq(To!Items) /\ chan \in Seq(To!Items) /\ stream \in Seq(To!Items)
  /\ pump = "send" => item \in To!Items
  /\ at \in {"check", "pending"} => pump = "pull" /\ got = <<>> /\ chan = <<>>
  /\ pump = "send" => at = "stream"
  /\ reader = "reading" => Flow \in ToolStreams
  /\ \A i \in 1..Len(Out) : To!IsError(Out[i]) => i = Len(Out) /\ pump = "ended"
  /\ pump = "ended" /\ reader = "reading" /\ ~cancel => stream = <<>> \/ EndsInError(Out)

\* How many of what was taken are items.
Items == IF EndsInError(got) THEN Len(got) - 1 ELSE Len(got)
\* A notification for each item, and one more when the call is done.
Notified ==
  /\ notes \in Seq([token : Nat \cup {"call"}, message : To!Items \cup {<<"done", 0>>}])
  /\ ~toolToken => notes = <<>>
  /\ toolToken =>
       \/ Len(notes) = Items
       \/ at = "done" /\ Len(notes) = Items + 1 /\ notes[Items + 1].message = <<"done", 0>>
  /\ toolToken => \A i \in 1..Items : notes[i].message = got[i]

\* The answer of a call that is done.
Answered ==
  /\ at = "done" /\ result # <<>> /\ result[1] = "ok" /\ ~cancel => stream = <<>>
  /\ at # "done" => cause = None
  /\ To!StatusFound

ToolInv == Elicited /\ Pumped /\ Notified /\ Answered

-----------------------------------------------------------------------------
(* Sequences *)

LEMMA HeadAndTail ==
  ASSUME NEW T, NEW t \in Seq(T), t # <<>>
  PROVE  /\ Head(t) \in T /\ Tail(t) \in Seq(T) /\ <<Head(t)>> \in Seq(T)
         /\ <<Head(t)>> \o Tail(t) = t
<1>1. /\ Head(t) \in T /\ Tail(t) \in Seq(T) /\ Len(Tail(t)) = Len(t) - 1
      /\ \A i \in 1..Len(Tail(t)) : Tail(t)[i] = t[i + 1]
  BY HeadTailProperties
<1>2. Len(t) \in Nat /\ Len(t) > 0 /\ Head(t) = t[1]
  BY LenProperties
<1>3. <<Head(t)>> \in Seq(T) /\ Len(<<Head(t)>>) = 1 /\ <<Head(t)>>[1] = Head(t)
  BY <1>1
<1> DEFINE h == <<Head(t)>>
           u == Tail(t)
<1> HIDE DEF h, u
<1>4. /\ h \o u \in Seq(T) /\ Len(h \o u) = Len(h) + Len(u)
      /\ \A i \in 1..(Len(h) + Len(u)) : (h \o u)[i] = IF i <= Len(h) THEN h[i] ELSE u[i - Len(h)]
  BY <1>1, <1>3, ConcatProperties DEF h, u
<1>5. Len(h) = 1 /\ h[1] = t[1] /\ Len(u) = Len(t) - 1 /\ \A i \in 1..Len(u) : u[i] = t[i + 1]
  BY <1>1, <1>2, <1>3 DEF h, u
<1>6. Len(h \o u) = Len(t)
  BY <1>2, <1>4, <1>5
<1>7. ASSUME NEW i \in 1..Len(t) PROVE (h \o u)[i] = t[i]
  <2>1. (h \o u)[i] = IF i <= 1 THEN h[i] ELSE u[i - 1]
    BY <1>2, <1>4, <1>5
  <2>2. CASE i = 1
    BY <1>5, <2>1, <2>2
  <2>3. CASE i # 1
    <3>1. i - 1 \in 1..Len(u) /\ i - 1 + 1 = i /\ ~(i <= 1)
      BY <1>2, <1>5, <2>3
    <3> QED
      BY <1>5, <2>1, <3>1
  <2> QED
    BY <2>2, <2>3
<1>8. h \o u = t
  BY <1>4, <1>6, <1>7, SeqEqual
<1> QED
  BY <1>1, <1>3, <1>8 DEF h, u

\* What is taken from the front of one is put at the end of another.
LEMMA HandedOn ==
  ASSUME NEW T, NEW s \in Seq(T), NEW t \in Seq(T), t # <<>>
  PROVE  /\ Append(s, Head(t)) \in Seq(T) /\ Append(s, Head(t)) \o Tail(t) = s \o t
         /\ (s \o <<Head(t)>>) \o Tail(t) = (s \o <<>>) \o t
<1>1. /\ Head(t) \in T /\ Tail(t) \in Seq(T) /\ <<Head(t)>> \in Seq(T) /\ <<Head(t)>> \o Tail(t) = t
  BY HeadAndTail
<1>2. Append(s, Head(t)) = s \o <<Head(t)>> /\ Append(s, Head(t)) \in Seq(T)
  BY <1>1, AppendIsConcat, AppendProperties
<1>3. (s \o <<Head(t)>>) \o Tail(t) = s \o (<<Head(t)>> \o Tail(t))
  BY <1>1, ConcatAssociative
<1>4. s \o <<>> = s
  BY ConcatEmptySeq
<1> QED
  BY <1>1, <1>2, <1>3, <1>4

LEMMA PutLast ==
  ASSUME NEW T, NEW s \in Seq(T), NEW t \in Seq(T), NEW e \in T
  PROVE  /\ s \o Append(t, e) = Append(s \o t, e) /\ s \o t \in Seq(T) /\ Append(t, e) \in Seq(T)
         /\ \A u \in Seq(T) : (Append(s \o t, e) \o <<>>) \o u = ((s \o t) \o <<e>>) \o u
<1>1. s \o t \in Seq(T) /\ Append(t, e) \in Seq(T) /\ <<e>> \in Seq(T) /\ Append(s \o t, e) \in Seq(T)
  BY ConcatProperties, AppendProperties
<1>2. Append(t, e) = t \o <<e>> /\ Append(s \o t, e) = (s \o t) \o <<e>>
  BY <1>1, AppendIsConcat
<1>3. s \o (t \o <<e>>) = (s \o t) \o <<e>>
  BY <1>1, ConcatAssociative
<1>4. Append(s \o t, e) \o <<>> = Append(s \o t, e)
  BY <1>1, ConcatEmptySeq
<1> QED
  BY <1>1, <1>2, <1>3, <1>4

-----------------------------------------------------------------------------
(* Elicitation *)

\* What an answer may be.
Spoken == To!Words \cup {"free"}

LEMMA SpokenIsFilled ==
  ASSUME To!ToolsAssumption
  PROVE  \A x \in Spoken : x \notin {None, ""}
<1>1. None \notin To!Words \cup {"free"}
  BY DEF To!ToolsAssumption
<1>2. "free" # ""
  BY Zenon
<1> QED
  BY <1>1, <1>2, Zenon DEF To!Words, Spoken

\* What a choice becomes.
LEMMA MappedIs ==
  ASSUME To!ToolsAssumption, NEW f \in ToolFields, NEW v, v \in To!Offered(f)
  PROVE  /\ To!Mapped(f.name, v) \in Spoken
         /\ IF f.type = "enum" /\ Len(f.shown) = Len(f.proto)
            THEN \E k \in DOMAIN f.shown : f.shown[k] = v /\ f.proto[k] = To!Mapped(f.name, v)
            ELSE To!Mapped(f.name, v) = v
<1>1. /\ f.type = "enum" \/ f.shown = <<>>
      /\ f.shown \in Seq(To!Words) /\ f.proto \in Seq(To!Words)
  BY DEF To!ToolsAssumption
<1>2. To!Field(f.name) = f
  <2>1. \A g \in ToolFields : g.name = f.name => g = f
    BY DEF To!ToolsAssumption
  <2> QED
    BY <2>1 DEF To!Field
<1> DEFINE I == {k \in DOMAIN f.shown : f.shown[k] = v}
           first == CHOOSE k \in I : \A j \in I : k <= j
<1>3. To!Mapped(f.name, v) = IF Len(f.proto) = Len(f.shown) /\ I # {} THEN f.proto[first] ELSE v
  BY <1>2 DEF To!Mapped
<1>4. /\ DOMAIN f.shown = 1..Len(f.shown) /\ DOMAIN f.proto = 1..Len(f.proto)
      /\ Len(f.shown) \in Nat /\ Len(f.proto) \in Nat
      /\ \A k \in DOMAIN f.shown : f.shown[k] \in To!Words
      /\ \A k \in DOMAIN f.proto : f.proto[k] \in To!Words
  BY <1>1, LenProperties, ElementOfSeq
<1>5. I # {} => first \in I
  <2>1. I \in SUBSET Nat
    BY <1>4
  <2> HIDE DEF I
  <2>2. I # {} => \E k \in I : \A j \in I : k <= j
    BY <2>1, LeastOf
  <2> QED
    BY <2>2
<1> HIDE DEF first
<1>6. CASE f.type = "enum"
  <2>1. \E k \in DOMAIN f.shown : f.shown[k] = v
    BY <1>6 DEF To!Offered, To!Range
  <2>2. first \in DOMAIN f.shown /\ f.shown[first] = v /\ I # {} /\ v \in To!Words
    BY <1>4, <1>5, <2>1
  <2> HIDE DEF I
  <2>3. CASE Len(f.shown) = Len(f.proto)
    <3>1. f.proto[first] \in To!Words /\ To!Mapped(f.name, v) = f.proto[first]
      BY <1>3, <1>4, <2>2, <2>3
    <3>2. f.shown[first] = v /\ f.proto[first] = To!Mapped(f.name, v) /\ first \in DOMAIN f.shown
      BY <2>2, <3>1
    <3> QED
      BY <1>6, <2>3, <3>1, <3>2 DEF Spoken
  <2>4. CASE Len(f.shown) # Len(f.proto)
    BY <1>3, <2>2, <2>4 DEF Spoken
  <2> QED
    BY <2>3, <2>4
<1>7. CASE f.type # "enum"
  <2>1. f.shown = <<>>
    BY <1>1, <1>7
  <2>2. I = {}
    BY <2>1
  <2>3. v = "free"
    BY <1>7 DEF To!Offered
  <2> HIDE DEF I
  <2> QED
    BY <1>3, <1>7, <2>2, <2>3 DEF Spoken
<1> QED
  BY <1>6, <1>7

LEMMA AcceptKeeps ==
  ASSUME To!ToolsAssumption, Elicited, at = "pending", NEW content \in To!Replies, To!Accept(content)
  PROVE  Elicited'
<1>1. /\ answer' = content /\ args' = To!merge_elicit_result(args, content) /\ at' = "stream"
  BY DEF To!Accept
<1>2. /\ asked = To!elicit_schema(To!missing_elicit_fields(args))
      /\ asked.required \subseteq DOMAIN content
      /\ \A n \in DOMAIN content : content[n] \in To!Offered(To!Field(n))
  BY DEF Elicited, To!Replies
<1>3. ASSUME NEW f \in ToolFields PROVE f.name \in To!Names /\ To!Field(f.name) = f
  <2>1. \A g \in ToolFields : g.name = f.name => g = f
    BY DEF To!ToolsAssumption
  <2> QED
    BY <2>1 DEF To!Field, To!Names
<1>4. ASSUME NEW f \in ToolFields
      PROVE  args'[f.name] = IF f.name \in DOMAIN content THEN To!Mapped(f.name, content[f.name])
                             ELSE args[f.name]
  BY <1>1, <1>3 DEF To!merge_elicit_result
<1>5. ASSUME NEW f \in ToolFields, f.name \in DOMAIN content
      PROVE  /\ args'[f.name] \in Spoken
             /\ IF f.type = "enum" /\ Len(f.shown) = Len(f.proto)
                THEN \E k \in DOMAIN f.shown : f.shown[k] = content[f.name] /\ f.proto[k] = args'[f.name]
                ELSE args'[f.name] = content[f.name]
  <2>1. content[f.name] \in To!Offered(f)
    BY <1>2, <1>3, <1>5
  <2> DEFINE v == content[f.name]
  <2> HIDE DEF v
  <2>2. args'[f.name] = To!Mapped(f.name, v) /\ v \in To!Offered(f)
    BY <1>4, <1>5, <2>1 DEF v
  <2> QED
    BY <2>2, MappedIs DEF v
<1>6. To!MergedExact'
  BY <1>1, <1>5 DEF To!MergedExact
<1>7. To!NothingMissing'
  <2> SUFFICES ASSUME NEW f \in ToolFields, f.required, f.type \in To!Primitive
               PROVE  ~To!Missing(args', f)
    BY DEF To!NothingMissing, To!Missing
  <2>1. CASE f.name \in DOMAIN content
    <3>1. args'[f.name] \in Spoken
      BY <1>5, <2>1
    <3> QED
      BY <3>1, SpokenIsFilled, Zenon DEF To!Missing
  <2>2. CASE f.name \notin DOMAIN content
    <3>1. f.name \notin asked.required
      BY <1>2, <2>2
    <3>2. ~To!Missing(args, f)
      BY <1>2, <3>1 DEF To!elicit_schema, To!missing_elicit_fields
    <3>3. args'[f.name] = args[f.name]
      BY <1>4, <2>2
    <3> QED
      BY <3>2, <3>3, Zenon DEF To!Missing
  <2> QED
    BY <2>1, <2>2
<1> QED
  BY <1>1, <1>6, <1>7 DEF Elicited

LEMMA CheckKeeps == ASSUME Elicited, To!Check PROVE Elicited'
<1> DEFINE fields == To!missing_elicit_fields(args)
<1>1. /\ at = "check" /\ UNCHANGED <<args, answer>>
      /\ IF fields = {} THEN at' = "stream" /\ UNCHANGED asked
         ELSE at' = "pending" /\ asked' = To!elicit_schema(fields)
  BY DEF To!Check
<1>2. answer = None
  BY <1>1 DEF Elicited
<1>3. CASE fields = {}
  <2>1. \A f \in ToolFields : ~To!Missing(args, f)
    BY <1>3, Zenon DEF To!missing_elicit_fields
  <2>2. To!NothingMissing'
    <3>1. \A f \in ToolFields : ~To!Missing(args', f)
      BY <1>1, <2>1
    <3> QED
      BY <3>1, Zenon DEF To!NothingMissing, To!Missing
  <2>3. at' = "stream" /\ To!MergedExact'
    BY <1>1, <1>2, <1>3 DEF To!MergedExact
  <2> QED
    BY <2>2, <2>3 DEF Elicited
<1>4. CASE fields # {}
  <2>1. at' = "pending" /\ answer' = None /\ asked' = To!elicit_schema(To!missing_elicit_fields(args'))
    BY <1>1, <1>2, <1>4
  <2>2. To!MergedExact' /\ To!NothingMissing'
    BY <2>1 DEF To!MergedExact, To!NothingMissing
  <2> QED
    BY <2>1, <2>2 DEF Elicited
<1> QED
  BY <1>3, <1>4

\* Nothing that was sent or shown changes; the call goes on, or is done.
LEMMA ElicitedStays ==
  ASSUME Elicited, UNCHANGED <<args, asked, answer>>, at' = at \/ at' = "done"
  PROVE  Elicited'
<1>1. To!MergedExact'
  BY DEF To!MergedExact, Elicited
<1>2. To!NothingMissing'
  <2> SUFFICES ASSUME at = "stream" PROVE To!NothingMissing'
    BY DEF To!NothingMissing
  <2>1. \A f \in ToolFields : f.required /\ f.type \in To!Primitive => ~To!Missing(args, f)
    BY DEF Elicited, To!NothingMissing
  <2>2. \A f \in ToolFields : f.required /\ f.type \in To!Primitive => ~To!Missing(args', f)
    BY <2>1
  <2> QED
    BY <2>2 DEF To!NothingMissing, To!Missing
<1> QED
  BY <1>1, <1>2 DEF Elicited

-----------------------------------------------------------------------------
(* The stream *)

LEMMA PumpRests ==
  ASSUME Pumped, UNCHANGED <<stream, pump, item, chan, got, reader, cancel>>,
         at' \in {"check", "pending"} => at \in {"check", "pending"}, pump = "send" => at' = "stream"
  PROVE  Pumped'
  BY DEF Pumped, Flow, Out, EndsInError, To!IsError

LEMMA PullKeeps == ASSUME Pumped, To!Pull PROVE Pumped'
<1>1. /\ at = "stream" /\ pump = "pull" /\ stream # <<>>
      /\ item' = Head(stream) /\ stream' = Tail(stream) /\ pump' = "send"
      /\ UNCHANGED <<at, chan, got, reader, cancel>>
  BY DEF To!Pull, To!Pulled, To!Others
<1>2. stream \in Seq(To!Items) /\ got \in Seq(To!Items) /\ chan \in Seq(To!Items)
  BY DEF Pumped
<1>3. Out \in Seq(To!Items)
  BY <1>2, ConcatProperties DEF Out
<1>4. /\ Head(stream) \in To!Items /\ Tail(stream) \in Seq(To!Items)
      /\ (Out \o <<Head(stream)>>) \o Tail(stream) = (Out \o <<>>) \o stream
  BY <1>1, <1>2, <1>3, HeadAndTail, HandedOn
<1>5. Out' = Out
  BY <1>1 DEF Out
<1>6. Flow = (Out \o <<>>) \o stream
  BY <1>1 DEF Flow
<1>7. Flow' = (Out \o <<Head(stream)>>) \o Tail(stream)
  BY <1>1, <1>5 DEF Flow
<1>8. reader' = "reading" => Flow' \in ToolStreams
  BY <1>1, <1>4, <1>6, <1>7 DEF Pumped
<1>9. \A i \in 1..Len(Out') : To!IsError(Out'[i]) => i = Len(Out') /\ pump' = "ended"
  BY <1>1, <1>5 DEF Pumped, To!IsError
<1> QED
  BY <1>1, <1>2, <1>4, <1>8, <1>9 DEF Pumped, To!IsError

LEMMA PushKeeps == ASSUME Pumped, To!Push PROVE Pumped'
<1>1. /\ pump = "send" /\ UNCHANGED <<at, stream, item, got, reader, cancel>>
      /\ \/ reader = "gone" /\ pump' = "ended" /\ UNCHANGED chan
         \/ /\ reader # "gone" /\ chan' = Append(chan, item)
            /\ pump' = IF To!IsError(item) THEN "ended" ELSE "pull"
  BY DEF To!Push, To!Others
<1>2. /\ at = "stream" /\ item \in To!Items
      /\ stream \in Seq(To!Items) /\ got \in Seq(To!Items) /\ chan \in Seq(To!Items)
  BY <1>1 DEF Pumped
<1>3. /\ Out \in Seq(To!Items) /\ Len(Out) \in Nat
      /\ \A i \in 1..Len(Out) : ~To!IsError(Out[i])
  <2>1. Out \in Seq(To!Items)
    BY <1>2, ConcatProperties DEF Out
  <2> QED
    BY <1>1, <2>1, LenProperties DEF Pumped
<1>4. CASE reader = "gone" /\ pump' = "ended" /\ UNCHANGED chan
  <2>1. Out' = Out
    BY <1>1, <1>4 DEF Out
  <2>2. \A i \in 1..Len(Out') : ~To!IsError(Out'[i])
    BY <1>3, <2>1
  <2> QED
    BY <1>1, <1>2, <1>4, <2>2 DEF Pumped, To!IsError
<1>5. CASE /\ reader # "gone" /\ chan' = Append(chan, item)
           /\ pump' = IF To!IsError(item) THEN "ended" ELSE "pull"
  <2>1. /\ got \o Append(chan, item) = Append(got \o chan, item) /\ Append(chan, item) \in Seq(To!Items)
        /\ (Append(got \o chan, item) \o <<>>) \o stream = ((got \o chan) \o <<item>>) \o stream
    BY <1>2, PutLast
  <2>2. Out' = Append(Out, item) /\ chan' \in Seq(To!Items)
    BY <1>1, <1>5, <2>1 DEF Out
  <2>3. Flow = (Out \o <<item>>) \o stream
    BY <1>1 DEF Flow
  <2>4. pump' # "send"
    BY <1>5
  <2>5. Flow' = (Out' \o <<>>) \o stream
    BY <1>1, <2>4 DEF Flow
  <2>6. Flow' = Flow
    BY <2>1, <2>2, <2>3, <2>5 DEF Out
  <2>7. reader' = "reading" => Flow' \in ToolStreams
    BY <1>1, <2>6 DEF Pumped
  <2>8. /\ Len(Out') = Len(Out) + 1 /\ Out'[Len(Out) + 1] = item
        /\ \A i \in 1..Len(Out) : Out'[i] = Out[i]
    BY <1>2, <1>3, <2>2, AppendProperties
  <2>9. \A i \in 1..Len(Out') : To!IsError(Out'[i]) => i = Len(Out') /\ To!IsError(item)
    BY <1>3, <2>8
  <2>10. To!IsError(item) => EndsInError(Out)'
    <3>1. Out' # <<>>
      BY <1>2, <1>3, <2>2, AppendProperties
    <3> QED
      BY <1>3, <2>8, <3>1 DEF EndsInError, To!IsError
  <2>11. \A i \in 1..Len(Out') : To!IsError(Out'[i]) => i = Len(Out') /\ pump' = "ended"
    BY <1>5, <2>9
  <2> QED
    BY <1>1, <1>2, <1>5, <2>2, <2>4, <2>7, <2>10, <2>11 DEF Pumped, To!IsError
<1> QED
  BY <1>1, <1>4, <1>5

LEMMA ReceiveKeeps == ASSUME Pumped, To!Receive PROVE Pumped'
<1>1. /\ chan # <<>> /\ at = "stream" /\ chan' = Tail(chan) /\ got' = Append(got, Head(chan))
      /\ UNCHANGED <<at, stream, pump, item, reader, cancel>>
  BY DEF To!Receive
<1>2. got \in Seq(To!Items) /\ chan \in Seq(To!Items)
  BY DEF Pumped
<1>3. /\ Append(got, Head(chan)) \in Seq(To!Items) /\ Tail(chan) \in Seq(To!Items)
      /\ Append(got, Head(chan)) \o Tail(chan) = got \o chan
  BY <1>1, <1>2, HeadAndTail, HandedOn
<1>4. Out' = Out
  BY <1>1, <1>3 DEF Out
<1>5. Flow' = Flow
  BY <1>1, <1>4 DEF Flow
<1>6. \A i \in 1..Len(Out') : To!IsError(Out'[i]) => i = Len(Out') /\ pump' = "ended"
  BY <1>1, <1>4 DEF Pumped, To!IsError
<1>7. EndsInError(Out)' <=> EndsInError(Out)
  BY <1>4 DEF EndsInError, To!IsError
<1> QED
  BY <1>1, <1>3, <1>5, <1>6, <1>7 DEF Pumped

\* The pump ends without sending, or somebody stops waiting for it.
LEMMA PumpStops ==
  ASSUME Pumped, To!SourceEnds \/ To!Cancelled \/ To!Cancel \/ To!Leave
  PROVE  Pumped'
<1> DEFINE Stops == /\ at = "stream" /\ UNCHANGED <<at, stream, item, chan, got>>
                    /\ reader' = reader \/ reader' = "gone"
                    /\ (cancel => cancel')
                    /\ \/ pump' = pump
                       \/ pump = "pull" /\ pump' = "ended" /\ (stream = <<>> \/ cancel)
<1>1. Stops
  <2>1. CASE To!SourceEnds
    BY <2>1 DEF To!SourceEnds, To!Others
  <2>2. CASE To!Cancelled
    BY <2>2 DEF To!Cancelled, To!SeesCancel, To!Others
  <2>3. CASE To!Cancel
    BY <2>3 DEF To!Cancel, To!Others
  <2>4. CASE To!Leave
    BY <2>4 DEF To!Leave, To!Others
  <2> QED
    BY <2>1, <2>2, <2>3, <2>4
<1>2. Out' = Out
  BY <1>1 DEF Out
<1>3. (pump = "send" <=> pump' = "send") /\ (pump = "ended" => pump' = "ended")
  BY <1>1
<1>4. Flow' = Flow
  BY <1>1, <1>2, <1>3 DEF Flow
<1>5. \A i \in 1..Len(Out') : To!IsError(Out'[i]) => i = Len(Out') /\ pump' = "ended"
  BY <1>2, <1>3 DEF Pumped, To!IsError
<1>6. EndsInError(Out)' <=> EndsInError(Out)
  BY <1>2 DEF EndsInError, To!IsError
<1>7. pump' = "ended" /\ reader' = "reading" /\ ~cancel' => stream' = <<>> \/ EndsInError(Out)'
  <2> SUFFICES ASSUME pump' = "ended", reader' = "reading", ~cancel' PROVE stream = <<>> \/ EndsInError(Out)
    BY <1>1, <1>6
  <2>1. reader = "reading" /\ ~cancel
    BY <1>1
  <2> QED
    BY <1>1, <2>1 DEF Pumped
<1>8. reader' = "reading" => Flow' \in ToolStreams
  BY <1>1, <1>4 DEF Pumped
<1> QED
  BY <1>1, <1>3, <1>5, <1>7, <1>8 DEF Pumped

-----------------------------------------------------------------------------
(* Progress *)

Notes == [token : Nat \cup {"call"}, message : To!Items \cup {<<"done", 0>>}]

LEMMA NoteIs ==
  ASSUME NEW x \in To!Items \cup {<<"done", 0>>}
  PROVE  To!progress_params(x) \in Notes /\ To!progress_params(x).message = x
<1>1. x[2] \in Nat
  BY DEF To!Items
<1> QED
  BY <1>1 DEF To!progress_params, Notes

\* Only the last item taken may be an error, and then nothing follows it.
LEMMA TakenInOrder ==
  ASSUME Pumped
  PROVE  /\ got \in Seq(To!Items) /\ chan \in Seq(To!Items) /\ Len(got) \in Nat
         /\ \A i \in 1..Len(got) : To!IsError(got[i]) => i = Len(got) /\ chan = <<>>
         /\ EndsInError(got) => chan = <<>> /\ Len(got) > 0
         /\ Items \in Nat /\ Items <= Len(got)
         /\ \A i \in 1..Items : ~To!IsError(got[i])
<1>1. got \in Seq(To!Items) /\ chan \in Seq(To!Items)
  BY DEF Pumped
<1>2. /\ Len(got) \in Nat /\ Len(chan) \in Nat /\ (chan = <<>> <=> Len(chan) = 0)
      /\ (got = <<>> <=> Len(got) = 0)
  BY <1>1, LenProperties, EmptySeq
<1>3. /\ Len(Out) = Len(got) + Len(chan)
      /\ \A i \in 1..Len(got) : Out[i] = got[i]
  BY <1>1, <1>2, ConcatProperties DEF Out
<1>4. ASSUME NEW i \in 1..Len(got), To!IsError(got[i]) PROVE i = Len(got) /\ chan = <<>>
  <2>1. i \in 1..Len(Out) /\ Out[i] = got[i]
    BY <1>2, <1>3
  <2>2. i = Len(Out)
    BY <1>4, <2>1 DEF Pumped, To!IsError
  <2> QED
    BY <1>2, <1>3, <2>2
<1>5. EndsInError(got) => Len(got) > 0 /\ To!IsError(got[Len(got)])
  BY <1>2 DEF EndsInError
<1>6. EndsInError(got) => chan = <<>> /\ Len(got) > 0
  <2> SUFFICES ASSUME EndsInError(got) PROVE chan = <<>> /\ Len(got) > 0
    OBVIOUS
  <2>1. Len(got) \in 1..Len(got)
    BY <1>2, <1>5
  <2> QED
    BY <1>4, <1>5, <2>1
<1>7. Items \in Nat /\ Items <= Len(got)
  BY <1>2, <1>5 DEF Items
<1>8. ASSUME NEW i \in 1..Items PROVE ~To!IsError(got[i])
  <2> SUFFICES ASSUME To!IsError(got[i]) PROVE FALSE
    OBVIOUS
  <2>1. i \in 1..Len(got)
    BY <1>2, <1>7
  <2>2. i = Len(got)
    BY <1>4, <2>1
  <2>3. Items = Len(got)
    BY <1>2, <1>7, <2>2
  <2>4. ~EndsInError(got)
    BY <1>2, <2>3 DEF Items
  <2>5. got # <<>>
    BY <1>2, <2>1
  <2> QED
    BY <2>2, <2>4, <2>5 DEF EndsInError
<1> QED
  BY <1>1, <1>2, <1>4, <1>6, <1>7, <1>8

LEMMA NotesRest ==
  ASSUME Notified, UNCHANGED <<notes, got, toolToken>>, at = "done" => at' = "done"
  PROVE  Notified'
  BY DEF Notified, Items, EndsInError, To!IsError

\* What is taken is told, unless it is an error.
LEMMA ReceiveTells == ASSUME Pumped, Notified, To!Receive PROVE Notified'
<1>1. /\ chan # <<>> /\ at = "stream" /\ got' = Append(got, Head(chan)) /\ UNCHANGED <<at, toolToken>>
      /\ IF To!IsError(Head(chan)) THEN UNCHANGED notes ELSE To!Notify(Head(chan))
  BY DEF To!Receive, To!callVars
<1>2. /\ got \in Seq(To!Items) /\ chan \in Seq(To!Items) /\ Len(got) \in Nat
      /\ Items = Len(got)
  BY <1>1, TakenInOrder DEF Items
<1> DEFINE x == Head(chan)
<1>3. x \in To!Items
  BY <1>1, <1>2, HeadAndTail
<1> HIDE DEF x
<1>4. /\ got' \in Seq(To!Items) /\ Len(got') = Len(got) + 1 /\ got' # <<>>
      /\ got'[Len(got) + 1] = x /\ \A i \in 1..Len(got) : got'[i] = got[i]
  BY <1>1, <1>2, <1>3, AppendProperties DEF x
<1>5. EndsInError(got)' <=> To!IsError(x)
  BY <1>2, <1>4 DEF EndsInError, To!IsError
<1>6. notes \in Seq(Notes) /\ Len(notes) \in Nat
  BY LenProperties DEF Notified, Notes
<1>7. CASE ~toolToken
  <2>1. notes' = notes /\ notes = <<>>
    BY <1>1, <1>7 DEF To!Notify, Notified
  <2> QED
    BY <1>1, <1>6, <1>7, <2>1 DEF Notified, Notes
<1>8. CASE toolToken
  <2>1. Len(notes) = Len(got) /\ \A i \in 1..Len(got) : notes[i].message = got[i]
    BY <1>1, <1>2, <1>8 DEF Notified
  <2>2. CASE To!IsError(x)
    <3>1. Items' = Len(got) /\ notes' = notes
      BY <1>1, <1>2, <1>4, <1>5, <2>2 DEF Items, x
    <3>2. \A i \in 1..Items' : notes'[i].message = got'[i]
      BY <1>2, <1>4, <2>1, <3>1
    <3> QED
      BY <1>1, <1>6, <1>8, <2>1, <3>1, <3>2 DEF Notified, Notes
  <2>3. CASE ~To!IsError(x)
    <3> DEFINE m == To!progress_params(x)
    <3>1. m \in Notes /\ m.message = x
      BY <1>3, NoteIs
    <3> HIDE DEF m
    <3>2. notes' = Append(notes, m)
      BY <1>1, <1>8, <2>3 DEF To!Notify, x, m
    <3>3. /\ notes' \in Seq(Notes) /\ Len(notes') = Len(notes) + 1
          /\ notes'[Len(notes) + 1] = m /\ \A i \in 1..Len(notes) : notes'[i] = notes[i]
      BY <1>6, <3>1, <3>2, AppendProperties
    <3>4. Items' = Len(got) + 1
      BY <1>2, <1>4, <1>5, <2>3 DEF Items
    <3>5. ASSUME NEW i \in 1..Items' PROVE notes'[i].message = got'[i]
      <4>1. CASE i = Len(got) + 1
        BY <1>4, <2>1, <3>1, <3>3, <4>1
      <4>2. CASE i # Len(got) + 1
        <5>1. i \in 1..Len(got)
          BY <1>2, <3>4, <4>2
        <5> QED
          BY <1>4, <2>1, <3>3, <5>1
      <4> QED
        BY <4>1, <4>2
    <3> QED
      BY <1>1, <1>8, <2>1, <3>3, <3>4, <3>5 DEF Notified, Notes
  <2> QED
    BY <2>2, <2>3
<1> QED
  BY <1>7, <1>8

\* A last notification for a call that was answered.
LEMMA FinishTells == ASSUME Pumped, Notified, To!Finish PROVE Notified'
<1>1. /\ at = "stream" /\ at' = "done" /\ UNCHANGED <<got, toolToken>>
      /\ notes' = notes \/ To!Notify(<<"done", 0>>)
      /\ ~EndsInError(got) \/ notes' = notes
  BY DEF To!Finish, To!callVars, To!pumpVars, EndsInError
<1>2. CASE notes' = notes
  BY <1>1, <1>2, NotesRest
<1>3. CASE To!Notify(<<"done", 0>>) /\ ~EndsInError(got)
  <2>1. CASE ~toolToken
    BY <1>1, <1>3, <2>1, NotesRest DEF To!Notify
  <2>2. CASE toolToken
    <3> DEFINE m == To!progress_params(<<"done", 0>>)
    <3>1. m \in Notes /\ m.message = <<"done", 0>>
      BY NoteIs
    <3> HIDE DEF m
    <3>2. notes' = Append(notes, m)
      BY <1>3, <2>2 DEF To!Notify, m
    <3>3. notes \in Seq(Notes) /\ Len(notes) \in Nat
      BY LenProperties DEF Notified, Notes
    <3>4. /\ notes' \in Seq(Notes) /\ Len(notes') = Len(notes) + 1
          /\ notes'[Len(notes) + 1] = m /\ \A i \in 1..Len(notes) : notes'[i] = notes[i]
      BY <3>1, <3>2, <3>3, AppendProperties
    <3>5. Items' = Items
      BY <1>1 DEF Items, EndsInError, To!IsError
    <3>6. Len(notes) = Items /\ \A i \in 1..Items : notes[i].message = got[i]
      BY <1>1, <2>2 DEF Notified
    <3>7. \A i \in 1..Items' : notes'[i].message = got'[i]
      BY <1>1, <3>4, <3>5, <3>6
    <3>8. Len(notes') = Items' + 1 /\ notes'[Items' + 1].message = <<"done", 0>>
      BY <3>1, <3>4, <3>5, <3>6
    <3> QED
      BY <1>1, <2>2, <3>4, <3>7, <3>8 DEF Notified, Notes
  <2> QED
    BY <2>1, <2>2
<1> QED
  BY <1>1, <1>2, <1>3

-----------------------------------------------------------------------------
(* The answer of the call *)

LEMMA AnswerRests ==
  ASSUME Answered, UNCHANGED cause, at # "done", at' # "done"
  PROVE  Answered'
  BY DEF Answered, To!StatusFound

LEMMA RefuseAnswers == ASSUME Answered, To!Refuse PROVE Answered'
<1>1. cause' = None /\ at' = "done" /\ \E r \in {"declined", "bad response"} : result' = <<r>>
  BY DEF Answered, To!Refuse
<1>2. PICK r \in {"declined", "bad response"} : result' = <<r>>
  BY <1>1
<1>3. r # "ok"
  BY <1>2
<1>4. result'[1] # "ok"
  BY <1>2, <1>3
<1> QED
  BY <1>1, <1>4 DEF Answered, To!StatusFound

LEMMA FinishAnswers == ASSUME Pumped, Answered, To!Finish PROVE Answered'
<1>1. /\ reader = "reading" /\ pump = "ended" /\ chan = <<>> /\ UNCHANGED <<cancel, stream>>
      /\ cause' = None
      /\ ~EndsInError(got) \/ result' = <<"error", got[Len(got)][2]>>
  BY DEF To!Finish, To!pumpVars, To!handle_error, EndsInError, Answered
<1>2. Out = got
  <2>1. got \in Seq(To!Items)
    BY DEF Pumped
  <2> QED
    BY <1>1, <2>1, ConcatEmptySeq DEF Out
<1>3. ~cancel /\ ~EndsInError(got) => stream = <<>>
  BY <1>1, <1>2 DEF Pumped
<1>4. result'[1] = "ok" => ~EndsInError(got)
  BY <1>1
<1> QED
  BY <1>1, <1>3, <1>4 DEF Answered, To!StatusFound

\* The first status of the chain.
LEMMA FailAnswers ==
  ASSUME To!ToolsAssumption, NEW chain \in ToolChains, To!Fail(chain)
  PROVE  Answered'
<1> DEFINE I == {k \in DOMAIN chain : To!IsError(chain[k])}
           first == CHOOSE k \in I : \A j \in I : k <= j
<1>1. /\ at' = "done" /\ cause' = chain
      /\ result' = IF I = {} THEN <<"text">> ELSE <<"error", chain[first][2]>>
  BY DEF To!Fail, To!handle_any_error, To!handle_error
<1>2. chain \in Seq(To!Items)
  BY DEF To!ToolsAssumption
<1>3. I # {} => first \in I /\ \A j \in I : first <= j
  <2>1. I \in SUBSET Nat
    BY <1>2, LenProperties
  <2> HIDE DEF I
  <2>2. I # {} => \E k \in I : \A j \in I : k <= j
    BY <2>1, LeastOf
  <2> QED
    BY <2>2
<1>4. result' # <<>> /\ result'[1] # "ok"
  BY <1>1
<1> HIDE DEF first
<1>5. DOMAIN chain \subseteq Nat
  BY <1>2, LenProperties
<1>6. To!StatusFound'
  <2>1. CASE I = {}
    <3>1. result' = <<"text">> /\ \A i \in DOMAIN cause' : ~To!IsError(cause'[i])
      BY <1>1, <2>1
    <3> QED
      BY <3>1 DEF To!StatusFound, To!IsError
  <2>2. CASE I # {}
    <3>1. first \in DOMAIN chain /\ To!IsError(chain[first]) /\ result' = <<"error", chain[first][2]>>
      BY <1>1, <1>3, <2>2
    <3>2. \A j \in DOMAIN chain : j < first => ~To!IsError(chain[j])
      <4> SUFFICES ASSUME NEW j \in DOMAIN chain, j < first, To!IsError(chain[j]) PROVE FALSE
        OBVIOUS
      <4>1. first <= j
        BY <1>3, <2>2
      <4> QED
        BY <1>5, <3>1, <4>1
    <3> QED
      BY <1>1, <3>1, <3>2 DEF To!StatusFound, To!IsError, To!handle_error
  <2> QED
    BY <2>1, <2>2
<1> QED
  BY <1>1, <1>4, <1>6 DEF Answered

-----------------------------------------------------------------------------
(* A tool call keeps its invariant *)

LEMMA ToolStarts == ASSUME To!ToolsAssumption, To!Init PROVE ToolInv
<1>1. /\ asked = None /\ answer = None /\ at = "check"
      /\ stream \in ToolStreams /\ pump = "pull" /\ chan = <<>> /\ got = <<>>
      /\ reader = "reading" /\ cancel = FALSE
      /\ notes = <<>> /\ result = <<>> /\ cause = None
  BY DEF To!Init
<1>2. stream \in Seq(To!Items)
  BY <1>1 DEF To!ToolsAssumption
<1>3. Elicited
  BY <1>1 DEF Elicited, To!MergedExact, To!NothingMissing
<1>4. Pumped
  <2>1. Out = <<>> /\ Len(Out) = 0
    BY <1>1 DEF Out
  <2>2. Flow = (<<>> \o <<>>) \o stream
    BY <1>1, <2>1 DEF Flow
  <2>3. Flow = stream
    BY <1>2, <2>2, ConcatEmptySeq
  <2> QED
    BY <1>1, <1>2, <2>1, <2>3 DEF Pumped
<1>5. Notified
  <2>1. Items = 0
    BY <1>1 DEF Items, EndsInError
  <2> QED
    BY <1>1, <2>1 DEF Notified
<1>6. Answered
  BY <1>1 DEF Answered, To!StatusFound
<1> QED
  BY <1>3, <1>4, <1>5, <1>6 DEF ToolInv

LEMMA OthersRest ==
  ASSUME Elicited, Notified, Answered, To!Others' = To!Others, got' = got, at # "done"
  PROVE  Elicited' /\ Notified' /\ Answered'
<1>1. UNCHANGED <<args, asked, answer, toolToken, at, notes, result, cause, got>>
  BY DEF To!Others
<1> QED
  BY <1>1, ElicitedStays, NotesRest, AnswerRests

LEMMA ToolStays == ASSUME To!ToolsAssumption, ToolInv, To!Next PROVE ToolInv'
<1>1. Elicited /\ Pumped /\ Notified /\ Answered
  BY DEF ToolInv
<1>2. CASE To!Check
  <2>1. /\ UNCHANGED <<answer, args, toolToken, notes, result, cause>>
        /\ UNCHANGED <<stream, pump, item, chan, got, reader, cancel>>
        /\ at = "check" /\ at' \in {"stream", "pending"}
    BY <1>2 DEF To!Check, To!pumpVars
  <2>2. pump # "send"
    BY <1>1, <2>1 DEF Pumped
  <2> QED
    BY <1>1, <1>2, <2>1, <2>2, CheckKeeps, PumpRests, NotesRest, AnswerRests DEF ToolInv
<1>3. CASE To!Refuse
  <2>1. /\ at = "pending" /\ at' = "done" /\ UNCHANGED <<args, asked, answer, toolToken, notes>>
        /\ UNCHANGED <<stream, pump, item, chan, got, reader, cancel>>
    BY <1>3 DEF To!Refuse, To!pumpVars, To!callVars
  <2>2. pump # "send"
    BY <1>1, <2>1 DEF Pumped
  <2>3. Elicited' /\ Pumped' /\ Notified'
    BY <1>1, <2>1, <2>2, ElicitedStays, PumpRests, NotesRest
  <2> QED
    BY <1>1, <1>3, <2>3, RefuseAnswers DEF ToolInv
<1>4. ASSUME at = "pending", NEW c \in To!Replies, To!Accept(c) PROVE ToolInv'
  <2>1. /\ at' = "stream" /\ UNCHANGED <<toolToken, notes, result, cause>>
        /\ UNCHANGED <<stream, pump, item, chan, got, reader, cancel>>
    BY <1>4 DEF To!Accept, To!pumpVars
  <2>2. Elicited'
    BY <1>1, <1>4, AcceptKeeps
  <2>3. Pumped' /\ Notified' /\ Answered'
    BY <1>1, <1>4, <2>1, PumpRests, NotesRest, AnswerRests
  <2> QED
    BY <2>2, <2>3 DEF ToolInv
<1>5. CASE To!Pull
  <2>1. To!Others' = To!Others /\ got' = got /\ at # "done"
    BY <1>5 DEF To!Pull
  <2> QED
    BY <1>1, <1>5, <2>1, OthersRest, PullKeeps DEF ToolInv
<1>6. CASE To!SourceEnds \/ To!Cancelled \/ To!Cancel \/ To!Leave
  <2>1. To!Others' = To!Others /\ got' = got /\ at # "done"
    BY <1>6 DEF To!SourceEnds, To!Cancelled, To!Cancel, To!Leave
  <2> QED
    BY <1>1, <1>6, <2>1, OthersRest, PumpStops DEF ToolInv
<1>7. CASE To!Push
  <2>1. To!Others' = To!Others /\ got' = got /\ at # "done"
    BY <1>1, <1>7 DEF To!Push, Pumped
  <2> QED
    BY <1>1, <1>7, <2>1, OthersRest, PushKeeps DEF ToolInv
<1>8. CASE To!Receive
  <2>1. at = "stream" /\ UNCHANGED <<args, asked, answer, at, cause>>
    BY <1>8 DEF To!Receive, To!callVars
  <2>2. Elicited' /\ Answered'
    BY <1>1, <2>1, ElicitedStays, AnswerRests
  <2> QED
    BY <1>1, <1>8, <2>2, ReceiveKeeps, ReceiveTells DEF ToolInv
<1>9. CASE To!Finish
  <2>1. /\ at = "stream" /\ at' = "done" /\ pump = "ended" /\ UNCHANGED <<args, asked, answer>>
        /\ UNCHANGED <<stream, pump, item, chan, got, reader, cancel>>
    BY <1>9 DEF To!Finish, To!callVars, To!pumpVars
  <2>2. Elicited' /\ Pumped'
    BY <1>1, <2>1, ElicitedStays, PumpRests
  <2> QED
    BY <1>1, <1>9, <2>2, FinishTells, FinishAnswers DEF ToolInv
<1>10. ASSUME NEW c \in ToolChains, To!Fail(c) PROVE ToolInv'
  <2>1. /\ at = "stream" /\ at' = "done" /\ pump = "pull" /\ UNCHANGED <<args, asked, answer, toolToken, notes>>
        /\ UNCHANGED <<stream, pump, item, chan, got, reader, cancel>>
    BY <1>10 DEF To!Fail, To!callVars, To!pumpVars
  <2>2. Elicited' /\ Pumped' /\ Notified'
    BY <1>1, <2>1, ElicitedStays, PumpRests, NotesRest
  <2> QED
    BY <1>10, <2>2, FailAnswers DEF ToolInv
<1>11. ASSUME NEW m, NEW s, To!health_check_handler(m, s) PROVE ToolInv'
  <2>1. /\ UNCHANGED <<args, asked, answer, toolToken, at, notes, result, cause>>
        /\ UNCHANGED <<stream, pump, item, chan, got, reader, cancel>>
    BY <1>11 DEF To!health_check_handler, To!callVars, To!pumpVars
  <2>2. pump = "send" => at' = "stream"
    BY <1>1, <2>1 DEF Pumped
  <2>3. Elicited' /\ Pumped' /\ Notified'
    BY <1>1, <2>1, <2>2, ElicitedStays, PumpRests, NotesRest
  <2>4. Answered'
    BY <1>1, <2>1 DEF Answered, To!StatusFound
  <2> QED
    BY <2>3, <2>4 DEF ToolInv
<1> QED
  BY <1>2, <1>3, <1>4, <1>5, <1>6, <1>7, <1>8, <1>9, <1>10, <1>11 DEF To!Next

LEMMA ToolRests == ToolInv /\ UNCHANGED toVars => ToolInv'
<1> SUFFICES ASSUME ToolInv, UNCHANGED toVars PROVE ToolInv'
  OBVIOUS
<1>1. /\ UNCHANGED <<args, asked, answer, toolToken, at, notes, result, cause>>
      /\ UNCHANGED <<stream, pump, item, chan, got, reader, cancel>>
  BY DEF toVars
<1>2. Elicited /\ Pumped /\ Notified /\ Answered
  BY DEF ToolInv
<1>3. pump = "send" => at' = "stream"
  BY <1>1, <1>2 DEF Pumped
<1>4. Answered'
  BY <1>1, <1>2 DEF Answered, To!StatusFound
<1> QED
  BY <1>1, <1>2, <1>3, <1>4, ElicitedStays, PumpRests, NotesRest DEF ToolInv

\* What the invariant says of a tool call is what it promises.
LEMMA ToolShows == ASSUME To!ToolsAssumption, ToolInv PROVE To!ToolCallHonest
<1>1. Elicited /\ Pumped /\ Notified /\ Answered
  BY DEF ToolInv
<1>2. To!StreamInOrder
  <2>1. reader = "reading" => Flow \in ToolStreams
    BY <1>1 DEF Pumped
  <2>2. Flow = got \o chan \o (IF pump = "send" THEN <<item>> ELSE <<>>) \o stream
    BY DEF Flow, Out
  <2> QED
    BY <1>1, <2>1, <2>2 DEF To!StreamInOrder, Answered
<1>3. To!ProgressMatched
  <2> DEFINE items == SubSeq(got, 1, Items)
             heard == [i \in DOMAIN notes |-> notes[i].message]
  <2>1. /\ got \in Seq(To!Items) /\ Len(got) \in Nat /\ Items \in Nat /\ Items <= Len(got)
        /\ \A i \in 1..Items : ~To!IsError(got[i])
    BY <1>1, TakenInOrder
  <2>2. /\ items \in Seq(To!Items) /\ Len(items) = Items
        /\ \A i \in 1..Items : items[i] = got[i]
    BY <2>1, SubSeqProperties
  <2>3. ~toolToken => notes = <<>>
    BY <1>1 DEF Notified
  <2>4. notes \in Seq(Notes) /\ Len(notes) \in Nat /\ DOMAIN notes = 1..Len(notes)
    BY <1>1, LenProperties DEF Notified, Notes
  <2>5. ASSUME toolToken PROVE heard \in {items, Append(items, <<"done", 0>>)}
    <3>1. heard \in Seq(To!Items \cup {<<"done", 0>>}) /\ Len(heard) = Len(notes)
      <4>1. \A i \in 1..Len(notes) : notes[i].message \in To!Items \cup {<<"done", 0>>}
        <5>1. \A i \in 1..Len(notes) : notes[i] \in Notes
          BY <2>4, ElementOfSeq
        <5> QED
          BY <5>1 DEF Notes
      <4> QED
        BY <2>4, <4>1, IsASeq
    <3>2. \A i \in 1..Len(notes) : heard[i] = notes[i].message
      BY <2>4
    <3>3. items \in Seq(To!Items \cup {<<"done", 0>>})
      BY <2>2
    <3>4. \A i \in 1..Items : notes[i].message = got[i]
      BY <1>1, <2>5 DEF Notified
    <3> HIDE DEF heard, items
    <3>5. CASE Len(notes) = Items
      <4>1. \A i \in 1..Len(heard) : heard[i] = items[i]
        BY <2>2, <3>1, <3>2, <3>4, <3>5
      <4>2. heard = items
        BY <2>2, <3>1, <3>3, <3>5, <4>1, SeqEqual
      <4> QED
        BY <4>2
    <3>6. CASE Len(notes) = Items + 1 /\ notes[Items + 1].message = <<"done", 0>>
      <4> DEFINE more == Append(items, <<"done", 0>>)
      <4>1. /\ more \in Seq(To!Items \cup {<<"done", 0>>}) /\ Len(more) = Items + 1
            /\ more[Items + 1] = <<"done", 0>> /\ \A i \in 1..Items : more[i] = items[i]
        BY <2>2, <3>3, AppendProperties
      <4> HIDE DEF more
      <4>2. ASSUME NEW i \in 1..Len(heard) PROVE heard[i] = more[i]
        <5>1. CASE i = Items + 1
          BY <2>1, <3>1, <3>2, <3>6, <4>1, <5>1
        <5>2. CASE i # Items + 1
          <6>1. i \in 1..Items /\ i \in 1..Len(notes)
            BY <2>1, <3>1, <3>6, <5>2
          <6> QED
            BY <2>2, <3>2, <3>4, <4>1, <6>1
        <5> QED
          BY <5>1, <5>2
      <4>3. heard = more
        BY <3>1, <3>6, <4>1, <4>2, SeqEqual
      <4> QED
        BY <4>3 DEF more
    <3> QED
      BY <1>1, <2>5, <3>5, <3>6 DEF Notified
  <2>6. (IF got # <<>> /\ To!IsError(got[Len(got)]) THEN Len(got) - 1 ELSE Len(got)) = Items
    BY DEF Items, EndsInError
  <2> QED
    BY <2>1, <2>3, <2>5, <2>6 DEF To!ProgressMatched
<1>4. To!MergedExact /\ To!NothingMissing /\ To!StatusFound
  BY <1>1 DEF Elicited, Answered
<1> QED
  BY <1>2, <1>3, <1>4 DEF To!ToolCallHonest

-----------------------------------------------------------------------------
(* The run: one part moves, the others stand still *)

LayersInv == part = "layers" => CallInv

\* Whatever part a behaviour runs, every call is accounted exactly once and the chain has the
\* last word (otel.rs, intercept.rs, stream_intercept.rs), whatever ended it and however long
\* its chain.
THEOREM CallsHonestHolds == MCSpec => []CallsHonest
<1>1. MCInit => LayersInv
  BY CallInit, Instances DEF MCInit, LayersInv
<1>2. LayersInv /\ [MCNext]_mcVars => LayersInv'
  <2> SUFFICES ASSUME LayersInv, [MCNext]_mcVars PROVE LayersInv'
    OBVIOUS
  <2>1. part' = part
    BY DEF MCNext, Still, mcVars
  <2>2. ASSUME part = "layers" PROVE CallInv'
    <3>1. CallInv
      BY <2>2 DEF LayersInv
    <3>2. [La!Next]_(La!cvars)
      BY <2>2 DEF MCNext, Still, mcVars, laVars, La!cvars
    <3> QED
      BY <3>1, <3>2, CallStays, Instances
  <2> QED
    BY <2>1, <2>2 DEF LayersInv
<1>3. LayersInv => CallsHonest
  BY CallShows DEF LayersInv, CallsHonest
<1> QED
  BY <1>1, <1>2, <1>3, PTL DEF MCSpec

ServeInv ==
  /\ part = "runtime" => AgentInv
  /\ part = "mcp" => McpInv
  /\ part = "tools" => ToolInv

\* What an agent runtime and its MCP side promise: a listener serves the services of its
\* group and a failed start leaves nothing (start.rs); whatever a combined server lists is
\* reached by the service that declared it, and a tool asks for each of its fields once
\* (combine.rs, hosted.rs, ask.rs); and a tool call is called with what it was told, streams
\* in order and tells its progress and its error (elicitation.rs, stream.rs, progress.rs,
\* error.rs).
THEOREM AgentsServeHolds == MCSpec => []AgentsServe
<1>1. MCInit => ServeInv
  BY AgentInit, McpStarts, ToolStarts, Instances DEF MCInit, ServeInv
<1>2. ServeInv /\ [MCNext]_mcVars => ServeInv'
  <2> SUFFICES ASSUME ServeInv, [MCNext]_mcVars PROVE ServeInv'
    OBVIOUS
  <2>1. part' = part
    BY DEF MCNext, Still, mcVars
  <2>2. ASSUME part = "runtime" PROVE AgentInv'
    <3>1. AgentInv
      BY <2>2 DEF ServeInv
    <3>2. [Rt!Next]_(Rt!vars)
      BY <2>2 DEF MCNext, Still, mcVars, rtVars, Rt!vars
    <3> QED
      BY <3>1, <3>2, AgentStep, Instances
  <2>3. ASSUME part = "mcp" PROVE McpInv'
    <3>1. McpInv
      BY <2>3 DEF ServeInv
    <3>2. [Mc!Next]_(Mc!vars)
      BY <2>3 DEF MCNext, Still, mcVars, mcsVars, Mc!vars
    <3> QED
      BY <3>1, <3>2, McpStays, Instances
  <2>4. ASSUME part = "tools" PROVE ToolInv'
    <3>1. ToolInv
      BY <2>4 DEF ServeInv
    <3>2. To!Next \/ UNCHANGED toVars
      BY <2>4 DEF MCNext, Still, mcVars
    <3> QED
      BY <3>1, <3>2, ToolStays, ToolRests, Instances
  <2> QED
    BY <2>1, <2>2, <2>3, <2>4 DEF ServeInv
<1>3. ServeInv => AgentsServe
  BY AgentShows, McpShows, ToolShows, Instances DEF ServeInv, AgentsServe
<1> QED
  BY <1>1, <1>2, <1>3, PTL DEF MCSpec
=============================================================================
