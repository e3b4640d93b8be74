------------------------------ MODULE MCAside -------------------------------
(***************************************************************************)
(* Read-through with two processes, both with the Fenced capability and a  *)
(* caller each, and beside it the lifetimes that every strategy resolves,  *)
(* the key spaces of the providers and the connections of the network      *)
(* drivers.  The parts share nothing, so a behaviour runs one of them.  The *)
(* liveness of Aside is checked in MCDatabase.                             *)
(*                                                                         *)
(* Provider has a prefix that reads as a pattern, keys that look qualified *)
(* and neighbours that differ by a name.                                   *)
(***************************************************************************)
EXTENDS Aside, TLC

CONSTANTS
  Ttls, Defaults, MaxTime, MaxDuration, MaxInstant, MaxMillis, TicksPerMs,          \* of Expiry
  Prefix, Known, Names, Others, Indexes, Current, VolKeys, Handles, Batch,          \* of Provider
  Addresses, ServerLists, Crcs, ProbeCrc, MaxDatabase                               \* of Connect

VARIABLES
  part,   \* the part this behaviour runs; the others stand still
  now, defaults, kept, promise, answer,
  family, handle, keys, writers, drop,
  conf, phase, plan, dialled, world, proved, calls

MCProcs == {"p1", "p2"}
MCCallers == {"a", "b"}
MCHome == [c \in MCCallers |-> IF c = "a" THEN "p1" ELSE "p2"]
MCShared == [c \in MCCallers |-> "p1"]

MCPrefix == <<"*">>
Namespaces == {<<>>, <<"a">>, <<"a", ":", "b">>}
Neighbours == {<< <<"x">>, <<"a">> >>, << <<"*", ":", "a">>, <<"b">> >>}
VolatileKeys == {<<"k">>, <<"vol", ":">>}

RespAddresses ==
  {<<>>, <<"h", ":", "port">>, <<"h">>, <<":", "port">>, <<"h", ":", "0">>, <<"h", ":", "big">>,
   <<"[", "h", ":", "h", "]", ":", "port">>, <<"[", "h", "]">>, <<"h", ":", "h", ":", "port">>}
Lists ==
  {<<>>, <<"a">>, <<"">>, <<"a", "">>, <<"a", "b">>, <<"b", "b", "a">>, <<"a", "b", "a">>}

\* Only the tokens are interchangeable.
Symmetry == Permutations(Tokens)

Ex == INSTANCE Expiry WITH entry <- kept, conf <- defaults
Pr == INSTANCE Provider
Cn == INSTANCE Connect

ASSUME Assumptions ==
  Ex!ExpiryAssumption /\ Pr!ProviderAssumption /\ Cn!ConnectAssumption

exVars == <<now, defaults, kept, promise, answer>>
prVars == <<family, handle, keys, writers, drop>>
cnVars == <<conf, phase, plan, dialled, world, proved, calls>>

MCInit ==
  /\ part \in {"aside", "expiry", "provider", "connect"}
  /\ Init
  /\ IF part = "expiry" THEN Ex!Init
     ELSE /\ now = None /\ defaults = None /\ kept = None /\ promise = None /\ answer = None
  /\ IF part = "provider" THEN Pr!Init
     ELSE /\ family = None /\ handle = None /\ keys = None /\ writers = None /\ drop = None
  /\ IF part = "connect" THEN Cn!Init
     ELSE /\ conf = None /\ phase = None /\ plan = None /\ dialled = None /\ world = None
          /\ proved = None /\ calls = None

\* Every part but p stands still.
Still(p) ==
  /\ UNCHANGED part
  /\ IF p = "aside" THEN TRUE ELSE UNCHANGED vars
  /\ IF p = "expiry" THEN TRUE ELSE UNCHANGED exVars
  /\ IF p = "provider" THEN TRUE ELSE UNCHANGED prVars
  /\ IF p = "connect" THEN TRUE ELSE UNCHANGED cnVars

MCNext ==
  \/ part = "aside" /\ Next /\ Still("aside")
  \/ part = "expiry" /\ Ex!Next /\ Still("expiry")
  \/ part = "provider" /\ Pr!Next /\ Still("provider")
  \/ part = "connect" /\ Cn!Next /\ Still("connect")

mcVars == <<part, vars, exVars, prVars, cnVars>>

MCSpec == MCInit /\ [][MCNext]_mcVars

\* Read-through alone: the run of invalidate has both callers in one process, unfenced.
AsideSpec == MCInit /\ part = "aside" /\ [][MCNext]_mcVars

-----------------------------------------------------------------------------
\* An entry is served for the life its writer was promised, and called fresh or
\* stale when it is (aside.rs, volatile.rs, document.rs).
LifetimesKept == part = "expiry" => Ex!LifetimesKept

\* Databases of one provider never share a key, whatever their names look like,
\* and dropping one deletes its keys, all of them and no others (keyspace.rs,
\* redis.rs); a connected client has proved its servers and routes a key as the
\* list of servers says (memcached.rs, redis.rs).
BackendsHonest ==
  /\ part = "provider" => Pr!DatabasesApart /\ Pr!DropStaysInside /\ Pr!DropComplete
  /\ part = "connect" => Cn!ConnectHonest
=============================================================================
