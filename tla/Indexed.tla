------------------------------ MODULE Indexed -------------------------------
(***************************************************************************)
(* Secondary indexes: cache/src/strategies/indexed.rs over the calls of    *)
(* document.rs and batch.rs, under the retry middleware of cache/src/      *)
(* retry.rs.                                                               *)
(*                                                                         *)
(* An entry's ID is kept in one membership set per field and value, and    *)
(* the pairs are kept in an inverse record under the ID, to be undone      *)
(* later.  An operation is the list of backend commands it still has to    *)
(* send; each is a step, and each may fail.                                *)
(***************************************************************************)
EXTENDS Integers, Sequences, FiniteSets, SequencesExt

CONSTANTS
  Actors, Ids, None,
  Pairs,      \* <<field, value>>, both strings (sequences of words)
  Indexes,    \* the sets of pairs callers pass
  Attempts,   \* attempts of the retry middleware
  MaxOps      \* bound: operations begun

VARIABLES
  entry,      \* entry[i]: the pairs wanted by the write that stored i, or None
  index,      \* the enumeration set
  member,     \* member[k]: the IDs filed under a membership key
  record,     \* record[i]: the encoded pairs of the inverse record
  op,         \* op[a]: the operation of a
  ops,        \* operations begun
  gone,       \* IDs whose last operation to return Ok deleted them (history)
  shared,     \* IDs two operations worked on at once (history)
  cut         \* IDs with an operation that stopped short of its end (history)

vars == <<entry, index, member, record, op, ops, gone, shared, cut>>

-----------------------------------------------------------------------------
(* Keys and inverse metadata *)

idx_by_field(field, value) == field \o <<":">> \o value
KeyOf(p) == idx_by_field(p[1], p[2])
pair(p) == p[1] \o <<"=">> \o p[2]
Cuts(s) == {n \in DOMAIN s : s[n] = "="}
split_pair(s) ==
  LET at == CHOOSE n \in Cuts(s) : \A m \in Cuts(s) : n <= m IN
  <<SubSeq(s, 1, at - 1), SubSeq(s, at + 1, Len(s))>>
Undo(s) == KeyOf(split_pair(s))

MemberKeys == {KeyOf(p) : p \in Pairs} \cup {Undo(pair(p)) : p \in Pairs}

\* A field that holds the separator of the records has no membership key of one that
\* does not; field names without a colon are told apart in every key.
IndexedAssumption ==
  /\ IsFiniteSet(Ids) /\ IsFiniteSet(Pairs)
  /\ Pairs \subseteq Seq(STRING) \X Seq(STRING) /\ Indexes \subseteq SUBSET Pairs
  /\ \A p, q \in Pairs : KeyOf(p) = KeyOf(q) /\ Cuts(p[1]) = {} => Cuts(q[1]) = {}

-----------------------------------------------------------------------------
(* Commands *)

Command(cmd, key, ids, pairs) == [cmd |-> cmd, key |-> key, ids |-> ids, pairs |-> pairs]
\* One command for each member of S, in an order nobody fixes (HashMap iteration).
InOrder(S, f(_)) ==
  {[n \in DOMAIN s |-> f(s[n])] : s \in {t \in [1..Cardinality(S) -> S] : IsInjective(t)}}

\* Mutant: memberships the record names already are not written again.
FileMissing(i, pairs) ==
  LET new == {p \in pairs : pair(p) \notin record[i]} IN
  IF new = {} THEN {<<>>}
  ELSE {s \o <<Command("record", <<>>, {i}, {pair(p) : p \in new})>> :
          s \in InOrder(new, LAMBDA p : Command("file", KeyOf(p), {i}, {}))}
\* file: memberships first, then the record.
file(i, pairs) ==
  IF pairs = {} THEN {<<>>}
  ELSE {s \o <<Command("record", <<>>, {i}, {pair(p) : p \in pairs})>> :
          s \in InOrder(pairs, LAMBDA p : Command("file", KeyOf(p), {i}, {}))}

\* Mutant: the record is pruned before the memberships it names.
PruneFirst(i, dropped) ==
  {<<Command("prune", <<>>, {i}, dropped)>> \o s :
     s \in InOrder(dropped, LAMBDA d : Command("unfile", Undo(d), {i}, {}))}
\* unfile: the recorded memberships, then the record.
unfile(i, dropped) ==
  {s \o <<Command("prune", <<>>, {i}, dropped)>> :
     s \in InOrder(dropped, LAMBDA d : Command("unfile", Undo(d), {i}, {}))}

\* refile: obsolete memberships, their record if any, then file.
refile(i, pairs) ==
  LET dropped == record[i] \ {pair(p) : p \in pairs} IN
  UNION {{s \o t : t \in file(i, pairs)} : s \in IF dropped = {} THEN {<<>>} ELSE unfile(i, dropped)}

DocumentCreate(i, pairs) ==
  <<Command("enumerate", <<>>, {i}, {}), Command("put", <<>>, {i}, pairs)>>
DocumentDelete(i) == <<Command("remove", <<>>, {i}, {}), Command("omit", <<>>, {i}, {})>>

Idle == [kind |-> "idle", todo |-> <<>>, ids |-> {}, pairs |-> {}, left |-> 0,
         records |-> <<>>]

Create(i, pairs) == {s \o DocumentCreate(i, pairs) : s \in file(i, pairs)}
Update(i, pairs) == {<<Command("replace", <<>>, {i}, pairs), Command("refile", <<>>, {i}, pairs)>>}
Delete(i) == {<<Command("undo", <<>>, {i}, {})>> \o DocumentDelete(i)}
Lookup(p) == <<Command("lookup", KeyOf(p), {}, {})>>
\* delete_by_index once the records of its live IDs are read: memberships grouped by
\* key, the enumeration, the records, then the entries.
DeleteByIndex(records) ==
  LET ids == DOMAIN records
      Holds(k) == {i \in ids : \E d \in records[i] : Undo(d) = k}
      keys == {k \in MemberKeys : Holds(k) # {}}
  IN UNION {{s \o <<Command("omit", <<>>, ids, {})>> \o t \o <<Command("remove", <<>>, ids, {})>> :
               t \in InOrder(ids, LAMBDA i : Command("prune", <<>>, {i}, records[i]))} :
              s \in InOrder(keys, LAMBDA k : Command("unfile", k, Holds(k), {}))}

Plan(kind, i, pairs) ==
  CASE kind = "create" -> Create(i, pairs)
    [] kind = "update" -> Update(i, pairs)
    [] kind = "delete" -> Delete(i)

\* with_retry: delete, keys, list, get and ttl; never create or update.
Retriable(kind) == kind = "delete"

-----------------------------------------------------------------------------
Init ==
  /\ entry = [i \in Ids |-> None]
  /\ index = {}
  /\ member = [k \in MemberKeys |-> {}]
  /\ record = [i \in Ids |-> {}]
  /\ op = [a \in Actors |-> Idle]
  /\ ops = 0
  /\ gone = {}
  /\ shared = {}
  /\ cut = {}

Busy == UNION {op[a].ids : a \in Actors}

Begin(a, kind, i, pairs) ==
  /\ op[a] = Idle /\ ops < MaxOps
  /\ ops' = ops + 1
  /\ \E todo \in Plan(kind, i, pairs) :
       op' = [op EXCEPT ![a] = [Idle EXCEPT !.kind = kind, !.todo = todo, !.ids = {i},
                                            !.pairs = pairs, !.left = Attempts]]
  /\ shared' = shared \cup (Busy \cap {i})
  /\ gone' = gone \ {i}
  /\ UNCHANGED <<entry, index, member, record, cut>>

\* by_index and delete_by_index.
BeginLookup(a, kind, p) ==
  /\ op[a] = Idle /\ ops < MaxOps
  /\ ops' = ops + 1
  /\ op' = [op EXCEPT ![a] = [Idle EXCEPT !.kind = kind, !.todo = Lookup(p)]]
  /\ UNCHANGED <<entry, index, member, record, gone, shared, cut>>

Next1(a) == Head(op[a].todo)
Sending(a, cmd) == op[a].todo # <<>> /\ Next1(a).cmd = cmd
\* The command succeeded; `more` follows it.
Advance(a, more) == op' = [op EXCEPT ![a].todo = more \o Tail(@)]

File(a) ==
  /\ Sending(a, "file")
  /\ member' = [member EXCEPT ![Next1(a).key] = @ \cup Next1(a).ids]
  /\ Advance(a, <<>>)
  /\ UNCHANGED <<entry, index, record, ops, gone, shared, cut>>

Unfile(a) ==
  /\ Sending(a, "unfile")
  /\ member' = [member EXCEPT ![Next1(a).key] = @ \ Next1(a).ids]
  /\ Advance(a, <<>>)
  /\ UNCHANGED <<entry, index, record, ops, gone, shared, cut>>

Record(a) ==
  /\ Sending(a, "record")
  /\ record' = [i \in Ids |-> IF i \in Next1(a).ids THEN record[i] \cup Next1(a).pairs ELSE record[i]]
  /\ Advance(a, <<>>)
  /\ UNCHANGED <<entry, index, member, ops, gone, shared, cut>>

\* refile ignores a failure here; unfile and delete_by_index do not (Fail).
Prune(a) ==
  /\ Sending(a, "prune")
  /\ \/ record' = [i \in Ids |-> IF i \in Next1(a).ids THEN record[i] \ Next1(a).pairs ELSE record[i]]
     \/ op[a].kind = "update" /\ UNCHANGED record
  /\ Advance(a, <<>>)
  /\ UNCHANGED <<entry, index, member, ops, gone, shared, cut>>

Enumerate(a) ==
  /\ Sending(a, "enumerate") \/ Sending(a, "omit")
  /\ index' = IF Next1(a).cmd = "enumerate" THEN index \cup Next1(a).ids ELSE index \ Next1(a).ids
  /\ Advance(a, <<>>)
  /\ UNCHANGED <<entry, member, record, ops, gone, shared, cut>>

\* An update without indexes leaves the filing as it is.
Wanted(i, pairs) == IF pairs = {} /\ entry[i] # None THEN entry[i] ELSE pairs

Put(a) ==
  /\ Sending(a, "put")
  /\ entry' = [i \in Ids |-> IF i \in Next1(a).ids THEN Next1(a).pairs ELSE entry[i]]
  /\ Advance(a, <<>>)
  /\ UNCHANGED <<index, member, record, ops, gone, shared, cut>>

RemoveEntries(a) ==
  /\ Sending(a, "remove")
  /\ entry' = [i \in Ids |-> IF i \in Next1(a).ids THEN None ELSE entry[i]]
  /\ Advance(a, <<>>)
  /\ UNCHANGED <<index, member, record, ops, gone, shared, cut>>

\* driver.replace, and NotFound when there is nothing to replace.
Replace(a) ==
  /\ Sending(a, "replace")
  /\ LET i == CHOOSE i \in Next1(a).ids : TRUE IN
     IF entry[i] = None
     THEN op' = [op EXCEPT ![a] = Idle] /\ UNCHANGED entry
     ELSE /\ entry' = [entry EXCEPT ![i] = Wanted(i, Next1(a).pairs)]
          /\ Advance(a, <<>>)
  /\ UNCHANGED <<index, member, record, ops, gone, shared, cut>>

\* The inverse record is read and the rest of the operation planned from it.
ReadRecord(a) ==
  /\ Sending(a, "refile") \/ Sending(a, "undo")
  /\ LET i == CHOOSE i \in Next1(a).ids : TRUE IN
     \E more \in CASE Next1(a).cmd = "undo" -> unfile(i, record[i])
                   [] Next1(a).cmd = "refile" /\ op[a].pairs = {} -> {<<>>}
                   [] OTHER -> refile(i, op[a].pairs) :
       Advance(a, more)
  /\ UNCHANGED <<entry, index, member, record, ops, gone, shared, cut>>

\* live_members: the members, and every one of them becomes this operation's business.
ReadMembers(a) ==
  /\ Sending(a, "lookup")
  /\ LET ids == member[Next1(a).key] IN
     /\ op' = [op EXCEPT ![a].ids = ids,
                         ![a].todo = IF ids = {} THEN <<>>
                                     ELSE <<Command("classify", Next1(a).key, ids, {})>>]
     /\ shared' = shared \cup (Busy \cap ids)
  /\ UNCHANGED <<entry, index, member, record, ops, gone, cut>>

\* classify_members: which of them are entries still; the others are swept.
Classify(a) ==
  /\ Sending(a, "classify")
  /\ LET live == {i \in Next1(a).ids : entry[i] # None}
         stale == Next1(a).ids \ live
     IN Advance(a, (IF stale = {} THEN <<>> ELSE <<Command("sweep", Next1(a).key, stale, {})>>)
                   \o (IF live = {} \/ op[a].kind = "by_index" THEN <<>>
                       ELSE <<Command("gather", <<>>, live, {})>>))
  /\ UNCHANGED <<entry, index, member, record, ops, gone, shared, cut>>

\* cleanup_stale, whose failure nobody sees.
Sweep(a) ==
  /\ Sending(a, "sweep")
  /\ \/ member' = [member EXCEPT ![Next1(a).key] = @ \ Next1(a).ids]
     \/ UNCHANGED member
  /\ Advance(a, <<>>)
  /\ UNCHANGED <<entry, index, record, ops, gone, shared, cut>>

\* The records are read one by one; the last one completes the plan.
Gather(a) ==
  /\ Sending(a, "gather")
  /\ \E i \in Next1(a).ids :
       LET old == op[a].records
           records == [j \in DOMAIN old \cup {i} |-> IF j = i THEN record[i] ELSE old[j]]
           left == Next1(a).ids \ {i}
       IN \E todo \in IF left = {} THEN DeleteByIndex(records)
                      ELSE {<<Command("gather", <<>>, left, {})>>} :
            op' = [op EXCEPT ![a].records = records, ![a].todo = todo]
  /\ UNCHANGED <<entry, index, member, record, ops, gone, shared, cut>>

Swallowed(a) ==
  \/ Sending(a, "sweep")
  \/ Sending(a, "prune") /\ op[a].kind = "update"

\* after_failure: a command fails, or its answer is lost.
Fail(a) ==
  /\ op[a] # Idle /\ ~Swallowed(a)
  /\ IF Retriable(op[a].kind) /\ op[a].left > 1
     THEN /\ \E i \in op[a].ids : \E todo \in Plan(op[a].kind, i, op[a].pairs) :
               op' = [op EXCEPT ![a].todo = todo, ![a].left = @ - 1]
          /\ UNCHANGED cut
     ELSE op' = [op EXCEPT ![a] = Idle] /\ cut' = cut \cup op[a].ids
  /\ UNCHANGED <<entry, index, member, record, ops, gone, shared>>

Return(a) ==
  /\ op[a] # Idle /\ op[a].todo = <<>>
  /\ gone' = CASE op[a].kind = "delete" -> gone \cup op[a].ids
               [] op[a].kind = "delete_by_index" -> gone \cup DOMAIN op[a].records
               [] OTHER -> gone
  /\ op' = [op EXCEPT ![a] = Idle]
  /\ UNCHANGED <<entry, index, member, record, ops, shared, cut>>

\* The backend drops an entry whose TTL has passed.
Expire(i) ==
  /\ entry[i] # None
  /\ entry' = [entry EXCEPT ![i] = None]
  /\ UNCHANGED <<index, member, record, op, ops, gone, shared, cut>>

Step(a) ==
  \/ File(a) \/ Unfile(a) \/ Record(a) \/ Prune(a) \/ Enumerate(a)
  \/ Put(a) \/ RemoveEntries(a) \/ Replace(a) \/ ReadRecord(a)
  \/ ReadMembers(a) \/ Classify(a) \/ Sweep(a) \/ Gather(a) \/ Fail(a) \/ Return(a)

Next ==
  \/ \E a \in Actors :
       \/ \E i \in Ids, pairs \in Indexes, kind \in {"create", "update"} : Begin(a, kind, i, pairs)
       \/ \E i \in Ids : Begin(a, "delete", i, {})
       \/ \E p \in Pairs, kind \in {"by_index", "delete_by_index"} : BeginLookup(a, kind, p)
       \/ Step(a)
  \/ \E i \in Ids : Expire(i)

Spec == Init /\ [][Next]_vars

-----------------------------------------------------------------------------
(* Properties *)

\* IDs no two operations shared and no operation left half done, at rest.
Settled == Ids \ (shared \cup cut \cup Busy)

\* An entry is found under every pair its last successful create or update asked for:
\* the order of filing, undoing and recording never loses a membership, however the
\* operations of other IDs, sweeps and expiry fall between.
FiledIsFound ==
  \A i \in Settled : entry[i] # None => \A p \in entry[i] : i \in member[KeyOf(p)]

\* The inverse record names every membership, so a delete or delete_by_index that
\* returned Ok leaves the ID filed nowhere and not enumerated, retried or not.  Field
\* names that hold the separator are left out: split_pair cuts them at the wrong place.
DeletedIsGone ==
  \A i \in Settled \cap gone :
    /\ i \notin index /\ entry[i] = None
    /\ \A p \in Pairs : Cuts(p[1]) = {} => i \notin member[KeyOf(p)]
=============================================================================
