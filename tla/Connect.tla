------------------------------ MODULE Connect -------------------------------
(***************************************************************************)
(* Connecting the network drivers: a memcached client over a list of       *)
(* servers, and a RESP client (Redis, or Dragonfly through the same code)  *)
(* over one address.  A configuration is checked, the servers are dialled, *)
(* one command proves the connection, and only then is there a client; a   *)
(* call takes a snapshot of it and runs on that, close takes it away.      *)
(*                                                                         *)
(* An address is a sequence of tokens and a key is its CRC.  A server is   *)
(* up, refusing or silent, and may change; timeouts are nondeterministic.  *)
(***************************************************************************)
EXTENDS Naturals, Sequences, FiniteSets

CONSTANTS Addresses,   \* RESP addresses, as token sequences; <<>> is unset
          ServerLists, \* memcached server lists; "" is a blank address
          Crcs,        \* the keys' CRCs; one of them is the probe key's
          ProbeCrc,
          MaxDatabase, \* the widest database index RESP takes (i64)
          None         \* refused, or absent

ConnectAssumption ==
  /\ Addresses \subseteq Seq(STRING) /\ ServerLists \subseteq Seq(STRING)
  /\ Crcs \subseteq Nat /\ ProbeCrc \in Nat

VARIABLES conf,    \* the configuration given to connect
          phase,   \* "checking", "dialling", "probing", "ready", "failed", "closed"
          plan,    \* the unique servers and the slots over them
          dialled, \* the servers that have answered the dial
          world,   \* what each server does
          proved,  \* the server that answered the probe
          calls    \* CRC -> the server its running call went to, or None

conVars == <<conf, phase, plan, dialled, world, proved, calls>>

-----------------------------------------------------------------------------
(* Timeouts: Default, Disabled, or After a duration. *)

Intents == {"Default", "Disabled", "After0", "After1"}

Default == "500ms"

\* Of the memcached driver; an operation timeout is normalised to the same.
resolve_timeout(t) ==
  CASE t = "Default" -> Default
    [] t = "Disabled" -> "never"
    [] t = "After0" -> None
    [] OTHER -> t

\* Of RESP: Default leaves the library's own bound.
connection_manager_config(t) ==
  CASE t = "Default" -> "library"
    [] t = "Disabled" -> "never"
    [] t = "After0" -> None
    [] OTHER -> t

-----------------------------------------------------------------------------
(* Addresses. *)

Positions(s, t) == {i \in 1..Len(s) : s[i] = t}
Least(S) == CHOOSE i \in S : \A j \in S : i <= j
Greatest(S) == CHOOSE i \in S : \A j \in S : i >= j

Parsed(host, port) ==
  IF host = <<>> \/ port \notin {<<"port">>} THEN None
  ELSE [host |-> host, port |-> port]

\* Mutant: the first colon ends the host.
FirstColon(a) ==
  LET colons == Positions(a, ":") IN
  IF colons = {} THEN None
  ELSE Parsed(SubSeq(a, 1, Least(colons) - 1), <<a[Len(a)]>>)

\* Port tokens: "port" is 1..65535; "0" and "big" are refused like any other.
parse_address(a) ==
  IF a /= <<>> /\ Head(a) = "["
  THEN LET ends == {i \in 2..(Len(a) - 1) : a[i] = "]" /\ a[i + 1] = ":"} IN
       IF ends = {} THEN None
       ELSE Parsed(SubSeq(a, 2, Least(ends) - 1), SubSeq(a, Least(ends) + 2, Len(a)))
  ELSE LET colons == Positions(a, ":") IN
       IF colons = {} THEN None
       ELSE Parsed(SubSeq(a, 1, Greatest(colons) - 1), SubSeq(a, Greatest(colons) + 1, Len(a)))

DefaultAddress == <<"localhost", ":", "port">>

Address(c) == IF c.address = <<>> THEN DefaultAddress ELSE c.address

-----------------------------------------------------------------------------
(* Servers and slots. *)

Indices(s) == 1..Len(s)

First(servers, i) == ~\E j \in 1..(i - 1) : servers[j] = servers[i]
Unique(servers) ==
  LET first == {i \in Indices(servers) : First(servers, i)} IN
  [n \in 1..Cardinality(first) |->
     servers[CHOOSE i \in first : Cardinality({j \in first : j <= i}) = n]]

\* Mutant: a server listed twice has one slot.
OneSlotEach(servers) ==
  LET unique == Unique(servers) IN [unique |-> unique, slots |-> [n \in Indices(unique) |-> n]]

\* The unique addresses in the order they first appear, and for every entry of
\* the list the index of its address among them.
plan_servers(servers) ==
  LET unique == Unique(servers) IN
  [unique |-> unique,
   slots |-> [i \in Indices(servers) |-> CHOOSE n \in Indices(unique) : unique[n] = servers[i]]]

route_slot(crc, slots) == (crc % slots) + 1

server_index(crc) == plan.slots[route_slot(crc, Len(plan.slots))]

Target(crc) == plan.unique[server_index(crc)]

-----------------------------------------------------------------------------
Hosts == {"a", "b", "resp"}
NoPlan == [unique |-> <<>>, slots |-> <<>>]

MemcachedConfigs ==
  [backend: {"memcached"}, servers: ServerLists, dial: Intents, operation: Intents]

RespConfigs(backend) ==
  [backend: {backend}, address: Addresses, database: 0..(MaxDatabase + 1), dial: Intents]

RedisConfigs == RespConfigs("redis")

\* redis_config carries every field over.
DragonflyConfigs == RespConfigs("dragonfly")

Init ==
  /\ conf \in MemcachedConfigs \union RedisConfigs \union DragonflyConfigs
  /\ phase = "checking"
  /\ plan = NoPlan
  /\ dialled = {}
  /\ world \in [Hosts -> {"up", "refusing"}]
  /\ proved = None
  /\ calls = [c \in Crcs |-> None]

Change(h) ==
  /\ \E w \in {"up", "refusing", "silent"} \ {world[h]} : world' = [world EXCEPT ![h] = w]
  /\ phase \notin {"failed", "closed"}
  /\ UNCHANGED <<conf, phase, plan, dialled, proved, calls>>

To(p) == phase' = p /\ UNCHANGED <<conf, world>>

Planned(p) == plan' = p /\ UNCHANGED <<dialled, proved, calls>>

\* MemcachedClient::connect up to the dial.
CheckMemcached ==
  /\ phase = "checking" /\ conf.backend = "memcached"
  /\ IF \/ None \in {resolve_timeout(conf.dial), resolve_timeout(conf.operation)}
        \/ conf.servers = <<>>
        \/ \E i \in Indices(conf.servers) : conf.servers[i] = ""
     THEN To("failed") /\ Planned(NoPlan)
     ELSE To("dialling") /\ Planned(plan_servers(conf.servers))

\* RedisClient::connect_with_profile up to the connection manager.
connect_with_profile ==
  /\ phase = "checking"
  /\ IF \/ parse_address(Address(conf)) = None
        \/ conf.database > MaxDatabase
        \/ connection_manager_config(conf.dial) = None
     THEN To("failed") /\ Planned(NoPlan)
     ELSE To("dialling") /\ Planned(plan_servers(<<"resp">>))

CheckRedis == conf.backend = "redis" /\ connect_with_profile

CheckDragonfly == conf.backend = "dragonfly" /\ connect_with_profile

Bound ==
  IF conf.backend = "memcached" THEN resolve_timeout(conf.dial)
  ELSE connection_manager_config(conf.dial)

Members == {plan.unique[i] : i \in Indices(plan.unique)}

\* connect_server: every server at once, each under the dial timeout.
DialAnswered(h) ==
  /\ phase = "dialling" /\ h \in Members \ dialled /\ world[h] = "up"
  /\ dialled' = dialled \union {h}
  /\ UNCHANGED <<conf, phase, plan, world, proved, calls>>

\* try_join_all: the first failure ends the connect and drops the rest.
DialFailed(h) ==
  /\ phase = "dialling" /\ h \in Members \ dialled
  /\ world[h] = "refusing" \/ (world[h] = "silent" /\ Bound /= "never")
  /\ To("failed") /\ UNCHANGED <<plan, dialled, proved, calls>>

\* Mutant: the first answer is enough.
AnyDialled == dialled /= {}

AllDialled == Members \subseteq dialled

Dialled ==
  /\ phase = "dialling" /\ conf.backend = "memcached" /\ AllDialled
  /\ To("probing") /\ UNCHANGED <<plan, dialled, proved, calls>>

\* The connection manager is there, and the client around it.
Managed ==
  /\ phase = "dialling" /\ conf.backend /= "memcached" /\ "resp" \in dialled
  /\ To("probing") /\ UNCHANGED <<plan, dialled, proved, calls>>

Proof(h) ==
  /\ phase = "probing"
  /\ \/ /\ world[h] = "up"
        /\ To("ready") /\ proved' = h
     \/ /\ world[h] /= "up"
        /\ To("failed") /\ UNCHANGED proved
  /\ UNCHANGED <<plan, dialled, calls>>

\* The probe key on the one server it routes to.
Probe == conf.backend = "memcached" /\ phase = "probing" /\ Proof(Target(ProbeCrc))

Ping == conf.backend /= "memcached" /\ Proof("resp")

-----------------------------------------------------------------------------
(* The client: a call runs on the router it took, close takes it from later ones. *)

Call(crc) ==
  /\ phase = "ready" /\ calls[crc] = None
  /\ calls' = [calls EXCEPT ![crc] = Target(crc)]
  /\ UNCHANGED <<conf, phase, plan, dialled, world, proved>>

CallEnds(crc) ==
  /\ calls[crc] /= None
  /\ calls' = [calls EXCEPT ![crc] = None]
  /\ UNCHANGED <<conf, phase, plan, dialled, world, proved>>

Taken ==
  /\ phase = "ready"
  /\ To("closed") /\ UNCHANGED <<plan, dialled, proved, calls>>

CloseMemcached == conf.backend = "memcached" /\ Taken

CloseResp == conf.backend /= "memcached" /\ Taken

Next ==
  \/ \E h \in Hosts : Change(h) \/ DialAnswered(h) \/ DialFailed(h)
  \/ CheckMemcached \/ CheckRedis \/ CheckDragonfly \/ Dialled \/ Managed
  \/ Probe \/ Ping \/ CloseMemcached \/ CloseResp
  \/ \E crc \in Crcs : Call(crc) \/ CallEnds(crc)

Spec == Init /\ [][Next]_conVars

-----------------------------------------------------------------------------
(* Properties. *)

\* Duplicate servers are dialled once and still weigh twice: every call goes to
\* the entry its CRC selects in the list as it was written (plan_servers).
RoutedAsListed ==
  \A crc \in Crcs : calls[crc] /= None /\ conf.backend = "memcached" =>
    calls[crc] = conf.servers[(crc % Len(conf.servers)) + 1]

\* A client exists only once every server of the list answered its dial and one
\* command came back, and the timeouts it runs under are never zero.
ReadyIsProved ==
  phase \in {"ready", "closed"} =>
    /\ proved \in dialled
    /\ conf.backend = "memcached" =>
         dialled = {conf.servers[i] : i \in Indices(conf.servers)}
    /\ conf.dial /= "After0"

\* No call runs for a client that was never handed out.
NoCallWithoutClient ==
  phase \notin {"ready", "closed"} => \A crc \in Crcs : calls[crc] = None

\* A RESP address that is accepted is host:port or [host]:port, and the parts
\* are its parts: the port is what follows the last colon (parse_address).
AddressExact ==
  conf.backend /= "memcached" /\ phase \notin {"checking", "failed"} =>
    LET a == Address(conf)  p == parse_address(a) IN
    \/ a = p.host \o <<":">> \o p.port
    \/ a = <<"[">> \o p.host \o <<"]", ":">> \o p.port

\* What a connected client stands for, together.
ConnectHonest == RoutedAsListed /\ ReadyIsProved /\ NoCallWithoutClient /\ AddressExact
=============================================================================
