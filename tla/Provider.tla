------------------------------ MODULE Provider ------------------------------
(***************************************************************************)
(* Databases of one backend: key construction (cache/src/core/keyspace.rs),*)
(* the RESP and memcached providers that open, select and drop databases   *)
(* (cache/src/drivers), the bounded namespace drop (cache/src/core/drop.rs)*)
(* and the Volatile strategy's scan (cache/src/strategies/volatile.rs).    *)
(*                                                                         *)
(* A string is a sequence of words and punctuation marks.                  *)
(***************************************************************************)
EXTENDS Integers, Sequences, FiniteSets

CONSTANTS
  Prefix,     \* the application's prefix, a string
  Known,      \* configured database names; {} allows any
  Names,      \* names callers ask for
  Others,     \* other applications' databases: <<prefix, name>>
  Indexes,    \* native databases; Current is the client's
  Current,
  VolKeys,    \* keys callers set through Volatile
  Handles,    \* bound: databases opened
  Batch       \* DROP_BATCH: keys of one delete

VARIABLES
  family,     \* "resp" or "memcached"
  handle,     \* handle[h]: an opened database, or Closed
  keys,       \* the backend's keys: <<native index, string>>
  writers,    \* writers[k]: the databases k was written through (history)
  drop        \* the drop_database in progress

vars == <<family, handle, keys, writers, drop>>

-----------------------------------------------------------------------------
(* Keyspace *)

Segment(s) == IF s = <<>> THEN <<>> ELSE s \o <<":">>
DbWord(i) == IF i = 0 THEN "db0" ELSE "db1"
Keyspace(prefix, namespace, db, embed) ==
  Segment(prefix) \o Segment(namespace)
    \o (IF embed THEN <<DbWord(db), ":">> ELSE <<>>) \o <<"cache", ":">>
vol_prefix(head) == head \o <<"vol", ":">>
vol_entry(head, key) == vol_prefix(head) \o key
doc_entry(head, id) == head \o <<"doc", ":", "entry", ":">> \o id

\* Mutant: a name may hold the separator.
AnyName(name) == name # <<>>
Plain(name) == \A i \in DOMAIN name : name[i] # ":"
check_namespace(name) == name # <<>> /\ Plain(name)
check_known(name) == Known = {} \/ name \in Known

StartsWith(s, head) == Len(head) <= Len(s) /\ SubSeq(s, 1, Len(head)) = head

Special == {"*", "?", "[", "]", "\\"}
\* Mutant: the head is sent as a pattern.
Unescaped(s) == s
escape_glob_literal(s) ==
  LET upto[n \in 0..Len(s)] ==
        IF n = 0 THEN <<>>
        ELSE upto[n - 1] \o (IF s[n] \in Special THEN <<"\\", s[n]>> ELSE <<s[n]>>)
  IN upto[Len(s)]

prefix_pattern(head) == escape_glob_literal(head) \o <<"*">>
vol_pattern(head, glob) == escape_glob_literal(vol_prefix(head)) \o glob

\* External: the backend's glob match, from the end of the pattern: rest[n] holds where in
\* s a match of its last n characters begins.
Matches(pattern, s) ==
  LET rest[n \in 0..Len(pattern)] ==
        LET i == Len(pattern) - n + 1
            after == rest[n - 1]
            beyond == rest[n - 2]
        IN CASE n = 0 -> {Len(s) + 1}
             [] n > 0 /\ pattern[i] = "*" -> {j \in 1..(Len(s) + 1) : \E k \in after : j <= k}
             [] n > 1 /\ pattern[i] = "\\" -> {j \in 1..Len(s) : s[j] = pattern[i + 1] /\ j + 1 \in beyond}
             [] OTHER -> {j \in 1..Len(s) : s[j] = pattern[i] /\ j + 1 \in after}
  IN 1 \in rest[Len(pattern)]

-----------------------------------------------------------------------------
(* Providers *)

\* What can be opened: a named database of the client's own index, or an index.
Opened == [name : {n \in Names : n # <<>> /\ Plain(n)}, index : {Current}]
            \cup [name : {<<>>}, index : Indexes]

\* Applications that share a backend have prefixes that tell them apart: no head of
\* theirs begins with one of ours, or the other way round.
OurHeads == {Keyspace(Prefix, d.name, d.index, FALSE) : d \in Opened}
              \cup {Keyspace(Prefix, <<>>, i, TRUE) : i \in Indexes}
ProviderAssumption ==
  /\ Prefix \in Seq(STRING) /\ Names \subseteq Seq(STRING) /\ VolKeys \subseteq Seq(STRING)
  /\ Others \subseteq Seq(STRING) \X Seq(STRING)
  /\ \A o \in Others, ours \in OurHeads :
       LET theirs == Keyspace(o[1], o[2], 0, FALSE) IN
       ~StartsWith(ours, theirs) /\ ~StartsWith(theirs, ours)

Closed == [name |-> <<>>, index |-> -1]
Database == [name : Names, index : {Current}] \cup [name : {<<>>}, index : Indexes]
\* Only memcached spells the index in its keys; it has one native database.
HeadOf(d) == Keyspace(Prefix, d.name, d.index, family = "memcached" /\ d.name = <<>>)
Native(d) == IF family = "memcached" THEN 0 ELSE d.index
KeyOf(d, key) == <<Native(d), vol_entry(HeadOf(d), key)>>

\* Keys another application keeps in the same backend.
Foreign == {<<Current, vol_entry(Keyspace(o[1], o[2], 0, FALSE), key)>> :
              o \in Others, key \in VolKeys}
Universe == Foreign \cup {KeyOf(d, key) : d \in Database, key \in VolKeys}

NoDrop == [at |-> "none", head |-> <<>>, name |-> <<>>, unseen |-> {}, found |-> {},
           deleted |-> 0, steady |-> {}]

Init ==
  /\ family \in {"resp", "memcached"}
  /\ handle = [h \in Handles |-> Closed]
  /\ keys = Foreign
  /\ writers = [k \in Universe |-> {}]
  /\ drop = NoDrop

\* set_database: the client's own connection, pinged first on RESP.
set_database(h, name) ==
  /\ handle[h] = Closed /\ check_namespace(name) /\ check_known(name)
  /\ handle' = [handle EXCEPT ![h] = [name |-> name, index |-> Current]]
  /\ UNCHANGED <<family, keys, writers, drop>>

\* select_index: another native database gets a connection of its own, which the
\* database's release closes; a connection that fails opens nothing.
select_index(h, i) ==
  /\ handle[h] = Closed
  /\ handle' = [handle EXCEPT ![h] = [name |-> <<>>, index |-> i]]
  /\ UNCHANGED <<family, keys, writers, drop>>

\* The database is closed and its release run.
Release(h) ==
  /\ handle[h] # Closed
  /\ handle' = [handle EXCEPT ![h] = Closed]
  /\ UNCHANGED <<family, keys, writers, drop>>

\* Volatile set through an open database.
VolSet(h, key) ==
  /\ handle[h] # Closed
  /\ keys' = keys \cup {KeyOf(handle[h], key)}
  /\ writers' = [writers EXCEPT ![KeyOf(handle[h], key)] = @ \cup {handle[h]}]
  /\ UNCHANGED <<family, handle, drop>>

\* Volatile delete.
VolDelete(h, key) ==
  /\ handle[h] # Closed
  /\ keys' = keys \ {KeyOf(handle[h], key)}
  /\ drop' = [drop EXCEPT !.steady = @ \ {KeyOf(handle[h], key)}]
  /\ UNCHANGED <<family, handle, writers>>

-----------------------------------------------------------------------------
(* drop_database: scan, check, delete in batches; memcached cannot scan *)

DropBegin(name) ==
  /\ drop.at = "none" /\ family = "resp" /\ check_namespace(name)
  /\ LET head == Keyspace(Prefix, name, Current, FALSE) IN
     drop' = [NoDrop EXCEPT !.at = "scan", !.head = head, !.name = name, !.unseen = Universe,
                            !.steady = {k \in keys : k[1] = Current /\ StartsWith(k[2], head)}]
  /\ UNCHANGED <<family, handle, keys, writers>>

\* External: SCAN walks the keyspace in the backend's order, and returns every key
\* that is there throughout.
ScanNext ==
  /\ drop.at = "scan" /\ drop.unseen # {}
  /\ LET k == CHOOSE k \in drop.unseen : TRUE IN
     drop' = [drop EXCEPT
       !.unseen = @ \ {k},
       !.found = IF k \in keys /\ k[1] = Current /\ Matches(prefix_pattern(drop.head), k[2])
                 THEN @ \cup {k} ELSE @]
  /\ UNCHANGED <<family, handle, keys, writers>>

\* A key outside the head refuses the whole drop.
DropCheck ==
  /\ drop.at = "scan" /\ drop.unseen = {}
  /\ drop' = [drop EXCEPT !.at = IF \E k \in drop.found : ~StartsWith(k[2], drop.head)
                                 THEN "refused" ELSE "delete"]
  /\ UNCHANGED <<family, handle, keys, writers>>

\* Mutant: an error after the first batch reads as a plain one.
DropBatchPlain(batch) ==
  /\ drop.at = "delete" /\ batch \subseteq drop.found /\ batch # {}
  /\ Cardinality(batch) = Batch \/ batch = drop.found
  /\ \/ /\ keys' = keys \ batch
        /\ drop' = [drop EXCEPT !.found = @ \ batch, !.steady = @ \ batch, !.deleted = @ + Cardinality(batch),
                                !.at = IF batch = drop.found THEN "ok" ELSE "delete"]
     \/ keys' \in {keys, keys \ batch} /\ drop' = [drop EXCEPT !.at = "error"]
  /\ UNCHANGED <<family, handle, writers>>

DropBatch(batch) ==
  /\ drop.at = "delete" /\ batch \subseteq drop.found /\ batch # {}
  /\ Cardinality(batch) = Batch \/ batch = drop.found
  /\ \/ /\ keys' = keys \ batch
        /\ drop' = [drop EXCEPT !.found = @ \ batch, !.steady = @ \ batch, !.deleted = @ + Cardinality(batch),
                                !.at = IF batch = drop.found THEN "ok" ELSE "delete"]
     \/ /\ keys' \in {keys, keys \ batch}
        /\ drop' = [drop EXCEPT !.at = IF drop.deleted = 0 THEN "error" ELSE "partial"]
  /\ UNCHANGED <<family, handle, writers>>

DropEmpty ==
  /\ drop.at = "delete" /\ drop.found = {}
  /\ drop' = [drop EXCEPT !.at = "ok"]
  /\ UNCHANGED <<family, handle, keys, writers>>

DropReturn ==
  /\ drop.at \in {"ok", "error", "partial"}
  /\ drop' = NoDrop
  /\ UNCHANGED <<family, handle, keys, writers>>

Next ==
  \/ \E h \in Handles, name \in Names : set_database(h, name)
  \/ \E h \in Handles, i \in Indexes : select_index(h, i)
  \/ \E h \in Handles, key \in VolKeys : VolSet(h, key) \/ VolDelete(h, key)
  \/ \E h \in Handles : Release(h)
  \/ \E name \in Names : DropBegin(name)
  \/ \E batch \in SUBSET drop.found : DropBatch(batch)
  \/ ScanNext \/ DropCheck \/ DropEmpty \/ DropReturn

Spec == Init /\ [][Next]_vars

-----------------------------------------------------------------------------
(* Properties *)

\* "Builds the collision-safe key prefix for one selected database": two
\* databases of a RESP backend never share a key, whatever callers name them and
\* their keys; nor does an application's database reach another's keys.
DatabasesApart ==
  family = "resp" =>
    \A k \in keys : Cardinality(writers[k]) <= 1 /\ (k \in Foreign => writers[k] = {})

\* "Treating head literally prevents a configured prefix ... from expanding
\* deletion into adjacent application namespaces": a drop deletes keys of the
\* dropped database only, and is never refused for what the backend holds.
DropStaysInside ==
  /\ drop.at # "refused"
  /\ \A k \in drop.found : \A d \in writers[k] : d.name = drop.name
  /\ Foreign \subseteq keys

\* A drop that succeeds has deleted every key that was there from its start,
\* and an error never hides that some keys are already gone.
DropComplete ==
  /\ drop.at = "ok" => drop.steady = {}
  /\ drop.at = "error" => drop.deleted = 0
=============================================================================
