------------------------------ MODULE Drivers -------------------------------
(***************************************************************************)
(* The three backends behind Driver: cache/src/core/memory_driver.rs (one  *)
(* locked map that expires lazily), cache/src/drivers/redis.rs (RESP       *)
(* commands, also Dragonfly's) and cache/src/drivers/memcached.rs (meta    *)
(* commands routed over several servers).                                  *)
(*                                                                         *)
(* A network call snapshots the connection, sends its commands, and may    *)
(* lose the connection before or after the server has run them.  Servers   *)
(* are external: they run one command at a time.                           *)
(***************************************************************************)
EXTENDS Integers, FiniteSets

CONSTANTS
  Keys, Clients, Ttls, None,
  MaxTime, MaxCalls,  \* bounds: clock ticks, calls made
  Milli, Second,      \* clock units in a millisecond and in a second
  ThirtyDays,         \* longest relative memcached expiry, in seconds
  MaxStamp            \* largest memcached timestamp (u32), in seconds

VARIABLES
  backend,   \* "memory", "resp" or "memcached"
  slot,      \* slot[k]: what the backend has allocated for k, expired or not
  now, call, calls,
  open,      \* the executor still has its connection
  held       \* callers with a snapshot of the connection

vars == <<backend, slot, now, call, calls, open, held>>

\* What the constants are meant to be.
DriversAssumption ==
  /\ Ttls \subseteq Nat
  /\ Milli \in Nat \ {0} /\ Second \in Nat \ {0} /\ Milli <= Second
  /\ ThirtyDays \in Nat \ {0}
  /\ None \notin [value : Clients, until : Int]
  /\ "unread" \notin Clients

Contract == INSTANCE Driver WITH
  Slack <- Second - 1,
  store <- [k \in Keys |->
              IF slot[k] # None /\ (slot[k].until = -1 \/ now < slot[k].until)
              THEN slot[k] ELSE None]

Forever == Contract!Forever
Idle == Contract!Idle
entry(value, until) == [value |-> value, until |-> until]
Present(s) == IF Contract!Live(s, now) THEN s ELSE None

-----------------------------------------------------------------------------
(* MemoryDriver: each method holds the lock for all it does *)

is_expired(s) == s.until # Forever /\ now >= s.until
MemExpiry(ttl) == IF ttl = 0 THEN Forever ELSE now + ttl
MemFound(s) == s # None /\ ~is_expired(s)

MemGet(s) == <<s, IF MemFound(s) THEN s.value ELSE "miss">>
MemSet(c, ttl) == <<entry(c, MemExpiry(ttl)), "yes">>
MemAdd(c, ttl, s) == IF MemFound(s) THEN <<s, "no">> ELSE MemSet(c, ttl)
MemReplace(c, ttl, s) == IF MemFound(s) THEN MemSet(c, ttl) ELSE <<s, "no">>
MemDelete == <<None, "yes">>
MemExists(s) == <<s, IF MemFound(s) THEN "yes" ELSE "no">>
MemTouch(ttl, s) ==
  IF MemFound(s) THEN <<[s EXCEPT !.until = MemExpiry(ttl)], "yes">> ELSE <<s, "miss">>
MemTtl(s) ==
  <<s, CASE s = None -> "miss"
         [] s # None /\ s.until = Forever -> "forever"
         [] s # None /\ s.until # Forever /\ s.until <= now -> "miss"
         [] OTHER -> "leased">>
MemDeleteIf(c, s) == IF MemFound(s) /\ s.value = c THEN <<None, "yes">> ELSE <<s, "no">>

MemRun(c, op, ttl, s) ==
  CASE op \in {"get", "get_many"} -> MemGet(s)
    [] op = "set" -> MemSet(c, ttl)
    [] op = "add" -> MemAdd(c, ttl, s)
    [] op = "replace" -> MemReplace(c, ttl, s)
    [] op = "delete" -> MemDelete
    [] op \in {"exists", "exists_many"} -> MemExists(s)
    [] op = "touch" -> MemTouch(ttl, s)
    [] op = "ttl" -> MemTtl(s)
    [] op = "delete_if" -> MemDeleteIf(c, s)

-----------------------------------------------------------------------------
(* RESP: commands, the server that runs them, and their replies decoded *)

\* Mutant: a lease below a millisecond is truncated, so that it is sent as 0.
TruncatedMillis(ttl) == ttl \div Milli
\* Rounded up, so that no positive lease becomes 0.
ttl_millis(ttl) == ttl \div Milli + IF ttl % Milli = 0 THEN 0 ELSE 1

\* External: SET with NX, XX and PX; s is the live entry.
ServerSet(c, px, condition, s) ==
  IF (condition = "NX" /\ s # None) \/ (condition = "XX" /\ s = None)
  THEN <<s, "nil">>
  ELSE <<entry(c, IF px = 0 THEN Forever ELSE now + px * Milli), "OK">>
\* External: PTTL, -2 for no key and -1 for no lease.
ServerPttl(s) ==
  CASE s = None -> -2
    [] s # None /\ s.until = Forever -> -1
    [] OTHER -> (s.until - now) \div Milli

RespWrite(c, ttl, condition, s) ==
  LET reply == ServerSet(c, IF ttl = 0 THEN 0 ELSE ttl_millis(ttl), condition, s) IN
  <<reply[1], IF reply[2] = "nil" THEN "no" ELSE "yes">>
RespGet(s) == <<s, IF s = None THEN "miss" ELSE s.value>>
RespSet(c, ttl, s) == RespWrite(c, ttl, "none", s)
RespAdd(c, ttl, s) == RespWrite(c, ttl, "NX", s)
RespReplace(c, ttl, s) == RespWrite(c, ttl, "XX", s)
RespDelete == <<None, "yes">>
RespExists(s) == <<s, IF s = None THEN "no" ELSE "yes">>
\* One script tests and persists; PEXPIRE answers 1 only for a key it found.
RespTouch(ttl, s) ==
  CASE s = None -> <<s, "miss">>
    [] ttl = 0 /\ s # None -> <<[s EXCEPT !.until = Forever], "yes">>
    [] OTHER -> <<[s EXCEPT !.until = now + ttl_millis(ttl) * Milli], "yes">>
RespTtl(s) ==
  LET pttl == ServerPttl(s) IN
  <<s, CASE pttl = -2 -> "miss" [] pttl = -1 -> "forever" [] pttl >= 0 -> "leased">>
\* One script compares and deletes.
RespDeleteIf(c, s) == IF s # None /\ s.value = c THEN <<None, "yes">> ELSE <<s, "no">>

RespRun(c, op, ttl, s) ==
  CASE op \in {"get", "get_many"} -> RespGet(s)
    [] op = "set" -> RespSet(c, ttl, s)
    [] op = "add" -> RespAdd(c, ttl, s)
    [] op = "replace" -> RespReplace(c, ttl, s)
    [] op = "delete" -> RespDelete
    [] op \in {"exists", "exists_many"} -> RespExists(s)
    [] op = "touch" -> RespTouch(ttl, s)
    [] op = "ttl" -> RespTtl(s)
    [] op = "delete_if" -> RespDeleteIf(c, s)

-----------------------------------------------------------------------------
(* memcached: expiry stamps, meta commands, replies *)

\* At least a second, whole seconds, a Unix time past thirty days.
to_expiry_at(ttl) ==
  LET seconds == IF ttl < Second THEN 1 ELSE ttl \div Second IN
  CASE ttl = 0 -> 0
    [] ttl # 0 /\ seconds <= ThirtyDays -> seconds
    [] OTHER -> (now + ttl) \div Second
Encodable(ttl) == to_expiry_at(ttl) <= MaxStamp
\* External: the deadline a server reads from a stamp.
ServerDeadline(stamp) ==
  CASE stamp = 0 -> Forever
    [] stamp # 0 /\ stamp <= ThirtyDays -> now + stamp * Second
    [] OTHER -> stamp * Second

\* External: a store command in its three modes.
ServerStore(c, stamp, condition, s) ==
  CASE condition = "Add" /\ s # None -> <<s, "AlreadyExists">>
    [] condition = "Replace" /\ s = None -> <<s, "NotFound">>
    [] OTHER -> <<entry(c, ServerDeadline(stamp)), "Applied">>
decode_mutation(status) ==
  CASE status = "Applied" -> "Stored" [] status = "NotFound" -> "Miss" [] OTHER -> status
McWrite(c, ttl, condition, s) ==
  LET result == ServerStore(c, to_expiry_at(ttl), condition, s)
      reply == decode_mutation(result[2]) IN
  <<result[1], CASE reply = "Stored" -> "yes"
                 [] condition = "Add" /\ reply = "AlreadyExists" -> "no"
                 [] condition = "Replace" /\ reply = "Miss" -> "no">>
McSet(c, ttl, s) == McWrite(c, ttl, "Set", s)
McAdd(c, ttl, s) == McWrite(c, ttl, "Add", s)
McReplace(c, ttl, s) == McWrite(c, ttl, "Replace", s)
McGet(s) == <<s, IF s = None THEN "miss" ELSE s.value>>
McDelete == <<None, "yes">>
\* A meta get without the value, and one that also renews the lease.
McExists(s) == <<s, IF s = None THEN "no" ELSE "yes">>
McTouch(ttl, s) ==
  IF s = None THEN <<s, "miss">>
  ELSE <<[s EXCEPT !.until = ServerDeadline(to_expiry_at(ttl))], "yes">>

McRun(c, op, ttl, s) ==
  CASE op \in {"get", "get_many"} -> McGet(s)
    [] op = "set" -> McSet(c, ttl, s)
    [] op = "add" -> McAdd(c, ttl, s)
    [] op = "replace" -> McReplace(c, ttl, s)
    [] op = "delete" -> McDelete
    [] op \in {"exists", "exists_many"} -> McExists(s)
    [] op = "touch" -> McTouch(ttl, s)

-----------------------------------------------------------------------------
(* Calls *)

Init ==
  /\ backend \in {"memory", "resp", "memcached"}
  /\ slot \in {[k \in Keys |-> s] : s \in {None} \cup {entry(c, 1) : c \in Clients}}
  /\ now = 0
  /\ call = [c \in Clients |-> Idle]
  /\ calls = 0
  /\ open = TRUE
  /\ held = {}

\* memcached has neither Leases nor Fenced.
Supported(op) == backend = "memcached" => op \notin {"ttl", "delete_if"}

CanBegin(c) == calls < MaxCalls /\ (call[c] = Idle \/ call[c].end # "open")
Begin(c, r) ==
  /\ Supported(r.op)
  /\ calls' = calls + 1
  /\ call' = [call EXCEPT ![c] = [Idle EXCEPT !.op = r.op, !.keys = r.keys, !.ttl = r.ttl]]
  /\ UNCHANGED <<backend, slot, now, open, held>>

Unread(c) == {k \in call[c].keys : call[c].got[k] = "unread"}
End(c, end) == call' = [call EXCEPT ![c].end = end]

\* Snapshot of the connection under a read lock, or "client is closed".  A call
\* that has nothing to send never asks for it.
Snapshot(c) ==
  /\ backend # "memory"
  /\ call[c].op # "idle" /\ call[c].end = "open" /\ c \notin held
  /\ Unread(c) # {}
  /\ IF open THEN held' = held \cup {c} /\ UNCHANGED call
             ELSE End(c, "error") /\ UNCHANGED held
  /\ UNCHANGED <<backend, slot, now, calls, open>>

Results(c, run(_, _, _, _), some, read(_)) ==
  [k \in some |-> run(c, call[c].op, call[c].ttl, read(slot[k]))]

Settle(c, result) ==
  /\ slot' = [k \in Keys |-> IF k \in DOMAIN result THEN result[k][1] ELSE slot[k]]
  /\ call' = [call EXCEPT ![c].got =
                [k \in Keys |-> IF k \in DOMAIN result THEN result[k][2] ELSE @[k]]]

\* The whole of a MemoryDriver method, under its lock.
MemStep(c) ==
  /\ backend = "memory"
  /\ call[c].end = "open" /\ Unread(c) # {}
  /\ Settle(c, Results(c, MemRun, call[c].keys, LAMBDA s : s))
  /\ UNCHANGED <<backend, now, calls, open, held>>

\* One RESP command: DEL takes all its keys, a pipeline one key after another.
RespStep(c) ==
  /\ backend = "resp" /\ c \in held /\ call[c].end = "open"
  /\ \E some \in IF call[c].op \in Contract!Bulk THEN {{k} : k \in Unread(c)} ELSE {Unread(c)} :
       /\ some # {}
       /\ Settle(c, Results(c, RespRun, some, Present))
  /\ UNCHANGED <<backend, now, calls, open, held>>

\* One meta command.  A batch is grouped by server and pipelined to each;
\* replies return to the positions of their keys.
McStep(c) ==
  /\ backend = "memcached" /\ c \in held /\ call[c].end = "open"
  /\ call[c].op # "delete" /\ Encodable(call[c].ttl)
  /\ \E k \in Unread(c) : Settle(c, Results(c, McRun, {k}, Present))
  /\ UNCHANGED <<backend, now, calls, open, held>>

\* delete sends one command per key, each through a snapshot of its own.
McDeleteStep(c) ==
  /\ backend = "memcached" /\ c \in held /\ call[c].end = "open"
  /\ call[c].op = "delete"
  /\ \E k \in Unread(c) : Settle(c, Results(c, McRun, {k}, Present))
  /\ held' = held \ {c}
  /\ UNCHANGED <<backend, now, calls, open>>

\* The connection fails, before or after the server ran the command; or the
\* lease cannot be written as a stamp.
Fail(c) ==
  /\ c \in held /\ call[c].end = "open"
  /\ End(c, "error")
  /\ held' = held \ {c}
  /\ UNCHANGED <<backend, slot, now, calls, open>>

Finish(c) ==
  /\ call[c].op # "idle" /\ call[c].end = "open" /\ Unread(c) = {}
  /\ End(c, "ok")
  /\ held' = held \ {c}
  /\ UNCHANGED <<backend, slot, now, calls, open>>

\* close takes the connection; snapshots keep theirs.
Close ==
  /\ backend # "memory" /\ open
  /\ open' = FALSE
  /\ UNCHANGED <<backend, slot, now, call, calls, held>>

Tick ==
  /\ now < MaxTime
  /\ now' = now + 1
  /\ UNCHANGED <<backend, slot, call, calls, open, held>>

Next ==
  \/ \E c \in Clients : CanBegin(c) /\ \E r \in Contract!Request : Begin(c, r)
  \/ \E c \in Clients : Snapshot(c) \/ MemStep(c) \/ RespStep(c) \/ McStep(c) \/ McDeleteStep(c)
  \/ \E c \in Clients : Fail(c) \/ Finish(c)
  \/ Close
  \/ Tick

Spec == Init /\ [][Next]_vars

-----------------------------------------------------------------------------
(* Properties *)

\* Every backend keeps the Driver contract ("Atomic, single-command storage
\* operations"): conditional writes, compare-and-delete and lazy expiry answer
\* as one atomic map would; a positive lease is never rounded to none or to
\* nothing; a failed call leaves each key as it was or as it asked.
ImplementsDriver == Contract!Spec
=============================================================================
