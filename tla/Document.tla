------------------------------ MODULE Document ------------------------------
(***************************************************************************)
(* Enumerable storage over a Driver and Sets: cache/src/strategies/        *)
(* document.rs, with the sweep of cache/src/strategies/batch.rs.           *)
(*                                                                         *)
(* A value lives under its entry key and its ID in the enumeration set;    *)
(* the backend updates one key at a time.  Every backend call is a step,   *)
(* and an operation may stop before any of them, by an error, a dropped    *)
(* future or a crash (`Stop`).                                             *)
(***************************************************************************)
EXTENDS Integers, FiniteSets

CONSTANTS
  Actors,   \* concurrent callers, in any process
  Ids,
  None      \* no value, no ID

ASSUME DocumentAssumption == None \notin Ids /\ None \notin Actors

VARIABLES
  entry,    \* entry[i]: who wrote the stored value, or None
  index,    \* the enumeration set
  op,       \* op[a]: the operation of a, at its next step
  steady,   \* steady[a]: IDs stored and indexed ever since a began keys (history)
  shared    \* the IDs two operations have worked on at the same time (history)

vars == <<entry, index, op, steady, shared>>

NoOp == [at |-> "idle", id |-> None, unchecked |-> {}, live |-> {}, stale |-> {}]
Step(at, id) == [NoOp EXCEPT !.at = at, !.id = id]

Init ==
  /\ entry = [i \in Ids |-> None]
  /\ index = {}
  /\ op = [a \in Actors |-> NoOp]
  /\ steady = [a \in Actors |-> {}]
  /\ shared = {}

\* The IDs that are stored and listed, and what an action leaves of them.
Listed == {i \in index : entry[i] # None}
Observe == steady' = [a \in Actors |-> steady[a] \cap Listed']

\* The IDs an operation has begun to work on and not finished with.
Touched(o) == ({o.id} \ {None}) \cup o.unchecked \cup o.live \cup o.stale

\* a begins an operation o; IDs in use elsewhere become shared.
Begin(a, o) ==
  /\ op[a].at = "idle"
  /\ op' = [op EXCEPT ![a] = o]
  /\ shared' = shared \cup (Touched(o) \cap UNION {Touched(op[b]) : b \in Actors})

-----------------------------------------------------------------------------
(* create: index first *)

\* Mutant: the value is stored before it is indexed.
PublishLast(a, i) ==
  /\ Begin(a, Step("publish", i))
  /\ entry' = [entry EXCEPT ![i] = a]
  /\ UNCHANGED index
  /\ Observe

Publish(a, i) ==
  /\ Begin(a, Step("store", i))
  /\ index' = index \cup {i}
  /\ UNCHANGED entry
  /\ Observe

Store(a) ==
  /\ op[a].at = "store"
  /\ entry' = [entry EXCEPT ![op[a].id] = a]
  /\ op' = [op EXCEPT ![a] = NoOp]
  /\ UNCHANGED <<index, shared>>
  /\ Observe

-----------------------------------------------------------------------------
(* update and delete *)

\* driver.replace: only a value that exists; otherwise NotFound.
Update(a, i) ==
  /\ op[a].at = "idle"
  /\ entry[i] # None
  /\ entry' = [entry EXCEPT ![i] = a]
  /\ UNCHANGED <<index, op, shared>>
  /\ Observe

DeleteEntry(a, i) ==
  /\ Begin(a, Step("unindex", i))
  /\ entry' = [entry EXCEPT ![i] = None]
  /\ UNCHANGED index
  /\ Observe

Unindex(a) ==
  /\ op[a].at = "unindex"
  /\ index' = index \ {op[a].id}
  /\ op' = [op EXCEPT ![a] = NoOp]
  /\ UNCHANGED <<entry, shared>>
  /\ Observe

-----------------------------------------------------------------------------
(* keys: live_members, on the whole set or on one cursor page of it *)

\* set_members, or one page of set_scan.
ReadMembers(a, page) ==
  /\ Begin(a, [NoOp EXCEPT !.at = "check", !.unchecked = page])
  /\ steady' = [steady EXCEPT ![a] = Listed \cap page]
  /\ UNCHANGED <<entry, index>>

\* Mutant: answers are paired with IDs in the order in which they arrive.
CheckUnpaired(a, i) ==
  /\ op[a].at = "check" /\ i \in op[a].unchecked
  /\ \E j \in op[a].unchecked :
       op' = [op EXCEPT
         ![a].unchecked = @ \ {i},
         ![a].live  = IF entry[j] # None THEN @ \cup {i} ELSE @,
         ![a].stale = IF entry[j] # None THEN @ ELSE @ \cup {i}]
  /\ UNCHANGED <<entry, index, steady, shared>>

\* classify_members: one exists per ID, in flight together and answered in any
\* order.
Check(a, i) ==
  /\ op[a].at = "check" /\ i \in op[a].unchecked
  /\ op' = [op EXCEPT
       ![a].unchecked = @ \ {i},
       ![a].live  = IF entry[i] # None THEN @ \cup {i} ELSE @,
       ![a].stale = IF entry[i] # None THEN @ ELSE @ \cup {i}]
  /\ UNCHANGED <<entry, index, steady, shared>>

\* Mutant: the sweep removes the page it read.
SweepPage(a) ==
  /\ op[a].at = "check" /\ op[a].unchecked = {}
  /\ index' = index \ (op[a].stale \cup op[a].live)
  /\ op' = [op EXCEPT ![a].at = "listed"]
  /\ UNCHANGED <<entry, shared>>
  /\ Observe

\* cleanup_stale: one best-effort set_remove.
Sweep(a) ==
  /\ op[a].at = "check" /\ op[a].unchecked = {}
  /\ index' = index \ op[a].stale \/ UNCHANGED index
  /\ op' = [op EXCEPT ![a].at = "listed"]
  /\ UNCHANGED <<entry, shared>>
  /\ Observe

Return(a) ==
  /\ op[a].at = "listed"
  /\ op' = [op EXCEPT ![a] = NoOp]
  /\ UNCHANGED <<entry, index, steady, shared>>

-----------------------------------------------------------------------------
\* An error, a dropped future or a crash ends the operation where it is.
Stop(a) ==
  /\ op[a].at \in {"store", "unindex", "check"}
  /\ op' = [op EXCEPT ![a] = NoOp]
  /\ UNCHANGED <<entry, index, steady, shared>>

\* The entry's lease passes; the enumeration set has none.
Expire(i) ==
  /\ entry[i] # None
  /\ entry' = [entry EXCEPT ![i] = None]
  /\ UNCHANGED <<index, op, shared>>
  /\ Observe

Next ==
  \/ \E a \in Actors, i \in Ids : Publish(a, i) \/ Update(a, i) \/ DeleteEntry(a, i)
  \/ \E a \in Actors : Store(a) \/ Unindex(a) \/ Sweep(a) \/ Return(a) \/ Stop(a)
  \/ \E a \in Actors, page \in SUBSET index : page # {} /\ ReadMembers(a, page)
  \/ \E a \in Actors, i \in Ids : Check(a, i)
  \/ \E i \in Ids : Expire(i)

Spec == Init /\ [][Next]_vars

-----------------------------------------------------------------------------
(* Properties *)

TypeOK ==
  /\ entry \in [Ids -> Actors \cup {None}]
  /\ index \subseteq Ids
  /\ op \in [Actors -> [at : {"idle", "store", "unindex", "check", "listed"},
                        id : Ids \cup {None}, unchecked : SUBSET Ids,
                        live : SUBSET Ids, stale : SUBSET Ids]]
  /\ steady \in [Actors -> SUBSET Ids]
  /\ shared \subseteq Ids

\* "A failure between the two writes then leaves a sweepable dangling member,
\* never an invisible stored value": every stored value can be enumerated.
NeverInvisible == \A i \in Ids : entry[i] # None => i \in index

\* What holds of the code: a failure, a dropped call, an expiry or a sweep at
\* any point never hides a stored value, unless two operations worked on its ID
\* at the same time.
InvisibleOnlyIfShared == \A i \in Ids : entry[i] # None => i \in index \cup shared

\* keys returns every ID that was stored and indexed all the while it ran,
\* whatever expired, was deleted or was swept around it.
KeysComplete == \A a \in Actors : op[a].at = "listed" => steady[a] \subseteq op[a].live
=============================================================================
