------------------------------- MODULE Driver -------------------------------
(***************************************************************************)
(* What the Driver, Bulk, Leases and Fenced traits promise of any backend: *)
(* cache/src/core/driver.rs, bulk.rs, leases.rs and fenced.rs.             *)
(*                                                                         *)
(* A call takes effect on each of its keys at one instant between its      *)
(* start and its return.  A call that returns an error may have taken      *)
(* effect on any of them.  A lease is a deadline; no deadline is `Forever`.*)
(***************************************************************************)
EXTENDS Integers, FiniteSets

CONSTANTS
  Keys,
  Clients,   \* concurrent callers; the bytes a caller writes are its own name
  Ttls,      \* the leases callers ask for, in clock units; 0 asks for none
  Slack,     \* how far from the lease asked for a backend may round it
  MaxTime,   \* bound: clock ticks
  MaxCalls,  \* bound: calls made
  None       \* no entry

VARIABLES
  store,     \* store[k]: the live entry under k, or None
  now,
  call,      \* call[c]: the call c is in
  calls      \* calls made so far

vars == <<store, now, call, calls>>

Forever == -1
Entry == [value : Clients, until : Int]
Live(entry, time) == entry # None /\ (entry.until = Forever \/ time < entry.until)

Reads == {"get", "exists", "ttl"}
Bulk == {"get_many", "exists_many"}
Idle == [op |-> "idle", keys |-> {}, ttl |-> 0, got |-> [k \in Keys |-> "unread"],
         end |-> "open"]

Request ==
  [op : {"set", "add", "replace", "touch"}, keys : {{k} : k \in Keys}, ttl : Ttls]
    \cup [op : Reads \cup {"delete_if"}, keys : {{k} : k \in Keys}, ttl : {0}]
    \cup [op : Bulk \cup {"delete"}, keys : SUBSET Keys, ttl : {0}]

\* The answer about a key, from the entry under it.
Answer(op, entry) ==
  CASE op \in {"get", "get_many"} -> IF entry = None THEN "miss" ELSE entry.value
    [] op \in {"exists", "exists_many"} -> IF entry = None THEN "no" ELSE "yes"
    [] op = "ttl" -> CASE entry = None -> "miss"
                       [] entry # None /\ entry.until = Forever -> "forever"
                       [] OTHER -> "leased"

\* The deadlines a backend may choose for a lease of ttl.
Deadlines(ttl) ==
  IF ttl = 0 THEN {Forever}
  ELSE {d \in (now + 1)..(now + ttl + Slack) : d >= now + ttl - Slack}

\* What a write by c may leave under a key, with its answer.
Effect(c, op, ttl, entry) ==
  LET put == {[value |-> c, until |-> d] : d \in Deadlines(ttl)} IN
  CASE op = "set" -> {<<e, "yes">> : e \in put}
    [] op = "add" -> IF entry = None THEN {<<e, "yes">> : e \in put} ELSE {<<entry, "no">>}
    [] op = "replace" -> IF entry # None THEN {<<e, "yes">> : e \in put} ELSE {<<None, "no">>}
    [] op = "touch" -> IF entry = None THEN {<<None, "miss">>}
                       ELSE {<<[entry EXCEPT !.until = d], "yes">> : d \in Deadlines(ttl)}
    [] op = "delete" -> {<<None, "yes">>}
    [] op = "delete_if" -> IF entry # None /\ entry.value = c
                           THEN {<<None, "yes">>} ELSE {<<entry, "no">>}
    [] OTHER -> {<<entry, Answer(op, entry)>>}

Init ==
  /\ store \in [Keys -> {None} \cup [value : Clients, until : {1}]]
  /\ now = 0
  /\ call = [c \in Clients |-> Idle]
  /\ calls = 0

Begin(c, r) ==
  /\ calls < MaxCalls
  /\ calls' = calls + 1
  /\ call[c] = Idle \/ call[c].end # "open"
  /\ call' = [call EXCEPT ![c] = [Idle EXCEPT !.op = r.op, !.keys = r.keys, !.ttl = r.ttl]]
  /\ UNCHANGED <<store, now>>

\* The call takes effect on some of its keys at once.
Apply(c, some) ==
  /\ some # {} /\ some \subseteq call[c].keys
  /\ call[c].end = "open"
  /\ \A k \in some : call[c].got[k] = "unread"
  /\ \E result \in [some -> UNION {Effect(c, call[c].op, call[c].ttl, store[k]) : k \in some}] :
       /\ \A k \in some : result[k] \in Effect(c, call[c].op, call[c].ttl, store[k])
       /\ store' = [k \in Keys |-> IF k \in some THEN result[k][1] ELSE store[k]]
       /\ call' = [call EXCEPT ![c].got = [k \in Keys |-> IF k \in some THEN result[k][2] ELSE @[k]]]
  /\ UNCHANGED <<now, calls>>

\* The caller hears of every key, or of an error.
Finish(c) ==
  /\ call[c].op # "idle" /\ call[c].end = "open"
  /\ \E end \in {"ok", "error"} :
       /\ end = "ok" => \A k \in call[c].keys : call[c].got[k] # "unread"
       /\ call' = [call EXCEPT ![c].end = end]
  /\ UNCHANGED <<store, now, calls>>

Tick ==
  /\ now < MaxTime
  /\ now' = now + 1
  /\ store' = [k \in Keys |-> IF Live(store[k], now + 1) THEN store[k] ELSE None]
  /\ UNCHANGED <<call, calls>>

Next ==
  \/ \E c \in Clients, r \in Request : Begin(c, r)
  \/ \E c \in Clients, some \in SUBSET Keys : Apply(c, some)
  \/ \E c \in Clients : Finish(c)
  \/ Tick

Spec == Init /\ [][Next]_vars
=============================================================================
