--------------------------- MODULE DocumentProofs ---------------------------
(***************************************************************************)
(* Proofs about Document, for any sets of callers and IDs; about Indexed   *)
(* and Drivers, which the same run checks; and about that run.             *)
(***************************************************************************)
EXTENDS MCDocument, Sequences, FiniteSetTheorems, SequenceTheorems, TLAPS

-----------------------------------------------------------------------------
(* The inductive invariant *)

\* An operation that stores or removes one ID names it, and a caller without
\* an operation works on none.
OpsNamed ==
  \A a \in Actors :
    /\ op[a].at \in {"store", "unindex"} => op[a].id \in Ids
    /\ op[a].at = "idle" => op[a] = NoOp

\* Operations that work on one ID at the same time have made it shared.
Apart ==
  \A a, b \in Actors : a # b => Touched(op[a]) \cap Touched(op[b]) \subseteq shared

\* create: the member is there before the value is.
StoresListed == \A a \in Actors : op[a].at = "store" => op[a].id \in index \cup shared

\* delete and the sweep: a member is removed only after its value.
RemovesGone ==
  \A a \in Actors, i \in Ids :
    \/ op[a].at = "unindex" /\ i = op[a].id
    \/ op[a].at = "check" /\ i \in op[a].stale
    => i \in shared \/ entry[i] = None

Order == Apart /\ StoresListed /\ RemovesGone /\ InvisibleOnlyIfShared
IInv == TypeOK /\ OpsNamed /\ Order

OpType == [at : {"idle", "store", "unindex", "check", "listed"},
           id : Ids \cup {None}, unchecked : SUBSET Ids,
           live : SUBSET Ids, stale : SUBSET Ids]

LEMMA NoOpShape ==
  /\ NoOp \in OpType /\ NoOp.at = "idle" /\ NoOp.id = None
  /\ NoOp.unchecked = {} /\ NoOp.live = {} /\ NoOp.stale = {}
BY DEF NoOp, OpType

\* The operations that begin.
LEMMA StepShape ==
  ASSUME NEW i \in Ids, NEW at \in {"store", "unindex"}
  PROVE  /\ Step(at, i) \in OpType /\ Step(at, i).at = at /\ Step(at, i).id = i
         /\ Step(at, i).unchecked = {} /\ Step(at, i).live = {} /\ Step(at, i).stale = {}
BY DEF Step, NoOp, OpType

LEMMA ReadShape ==
  ASSUME NEW page \in SUBSET Ids,
         NEW o, o = [NoOp EXCEPT !.at = "check", !.unchecked = page]
  PROVE  /\ o \in OpType /\ o.at = "check" /\ o.id = None
         /\ o.unchecked = page /\ o.live = {} /\ o.stale = {}
BY DEF NoOp, OpType

LEMMA InitIInv == Init => IInv
<1> SUFFICES ASSUME Init PROVE IInv
  OBVIOUS
<1>1. TypeOK
  BY NoOpShape DEF Init, TypeOK, OpType
<1>2. OpsNamed
  BY NoOpShape DEF Init, OpsNamed
<1>3. Apart
  BY NoOpShape DEF Init, Apart, Touched
<1>4. StoresListed /\ RemovesGone /\ InvisibleOnlyIfShared
  BY NoOpShape DEF Init, StoresListed, RemovesGone, InvisibleOnlyIfShared
<1> QED
  BY <1>1, <1>2, <1>3, <1>4 DEF IInv, Order

-----------------------------------------------------------------------------
(* The ways in which a step changes the operations *)

Begins(a, o) ==
  /\ op[a] = NoOp
  /\ o \in OpType
  /\ op' = [op EXCEPT ![a] = o]
  /\ shared' = shared \cup (Touched(o) \cap UNION {Touched(op[b]) : b \in Actors})

Ends(a) == op' = [op EXCEPT ![a] = NoOp] /\ shared' = shared

\* An operation that goes on works on what it worked on.
GoesOn(a, o) ==
  /\ o \in OpType /\ Touched(o) = Touched(op[a])
  /\ op' = [op EXCEPT ![a] = o]
  /\ shared' = shared

\* However an operation begins, goes on or ends, Apart is kept.
LEMMA ApartStep ==
  ASSUME TypeOK, Apart, NEW a \in Actors, NEW o,
         Begins(a, o) \/ Ends(a) \/ GoesOn(a, o)
  PROVE  Apart'
<1> USE DEF TypeOK, Apart
<1>1. CASE Begins(a, o)
  <2> SUFFICES ASSUME NEW b \in Actors, NEW d \in Actors, b # d,
                      NEW i, i \in Touched(op'[b]), i \in Touched(op'[d])
               PROVE  i \in shared'
    OBVIOUS
  <2>1. op' = [op EXCEPT ![a] = o]
    BY <1>1 DEF Begins
  <2>2. ASSUME NEW e \in Actors, i \in Touched(o), i \in Touched(op[e]) PROVE i \in shared'
    BY <1>1, <2>2 DEF Begins
  <2>3. CASE b = a
    BY <2>1, <2>2, <2>3
  <2>4. CASE d = a
    BY <2>1, <2>2, <2>4
  <2>5. CASE b # a /\ d # a
    BY <1>1, <2>1, <2>5 DEF Begins
  <2> QED
    BY <2>3, <2>4, <2>5
<1>2. CASE Ends(a)
  <2>1. Touched(NoOp) = {}
    BY NoOpShape DEF Touched
  <2> QED
    BY <1>2, <2>1 DEF Ends
<1>3. CASE GoesOn(a, o)
  BY <1>3 DEF GoesOn
<1> QED
  BY <1>1, <1>2, <1>3

\* shared only grows.
LEMMA SharedGrows ==
  ASSUME NEW a, NEW o, Begins(a, o) \/ Ends(a) \/ GoesOn(a, o)
  PROVE  shared \subseteq shared'
BY DEF Begins, Ends, GoesOn

-----------------------------------------------------------------------------
(* Types *)

\* What a step does to the operations is enough for their types, once the
\* other variables have theirs.
LEMMA OpTypeStep ==
  ASSUME TypeOK, NEW a \in Actors, NEW o, Begins(a, o) \/ Ends(a) \/ GoesOn(a, o)
  PROVE  op' \in [Actors -> OpType] /\ shared' \subseteq Ids
<1>1. op \in [Actors -> OpType] /\ shared \subseteq Ids
  BY DEF TypeOK, OpType
<1>2. CASE Begins(a, o)
  <2>1. \A b \in Actors : Touched(op[b]) \subseteq Ids
    BY <1>1 DEF Touched, OpType
  <2> QED
    BY <1>1, <1>2, <2>1 DEF Begins
<1>3. CASE Ends(a) \/ GoesOn(a, o)
  BY <1>1, <1>3, NoOpShape DEF Ends, GoesOn
<1> QED
  BY <1>2, <1>3

LEMMA SteadyStep ==
  ASSUME TypeOK, entry' \in [Ids -> Actors \cup {None}], index' \subseteq Ids,
         Observe \/ steady' = steady
         \/ (\E a \in Actors, page \in SUBSET Ids :
               steady' = [steady EXCEPT ![a] = Listed \cap page])
  PROVE  steady' \in [Actors -> SUBSET Ids]
BY DEF TypeOK, Observe

-----------------------------------------------------------------------------
(* Each action keeps the invariant *)

LEMMA PublishStep ==
  ASSUME IInv, NEW a \in Actors, NEW i \in Ids, Publish(a, i) PROVE IInv'
<1> DEFINE o == Step("store", i)
<1>1. Begins(a, o)
  BY StepShape DEF IInv, OpsNamed, Publish, Begin, Begins
<1>2. o.at = "store" /\ o.id = i /\ op' = [op EXCEPT ![a] = o]
  BY <1>1, StepShape DEF Begins
<1> HIDE DEF o
<1>3. index' = index \cup {i} /\ entry' = entry /\ Observe /\ shared \subseteq shared'
  BY <1>1, SharedGrows DEF Publish
<1>4. TypeOK'
  BY <1>1, <1>3, OpTypeStep, SteadyStep DEF IInv, TypeOK, OpType
<1>5. OpsNamed'
  BY <1>2 DEF IInv, TypeOK, OpsNamed
<1>6. Apart'
  BY <1>1, ApartStep DEF IInv, Order
<1>7. StoresListed' /\ RemovesGone' /\ InvisibleOnlyIfShared'
  BY <1>2, <1>3 DEF IInv, Order, TypeOK, StoresListed, RemovesGone, InvisibleOnlyIfShared
<1> QED
  BY <1>4, <1>5, <1>6, <1>7 DEF IInv, Order

LEMMA StoreStep == ASSUME IInv, NEW a \in Actors, Store(a) PROVE IInv'
<1> DEFINE i == op[a].id
<1>1. Ends(a) /\ op[a].at = "store" /\ i \in Ids
  BY DEF IInv, OpsNamed, Store, Ends
<1>2. /\ op' = [op EXCEPT ![a] = NoOp] /\ shared' = shared
      /\ entry' = [entry EXCEPT ![i] = a] /\ index' = index /\ Observe
  BY DEF Store
<1>3. TypeOK'
  BY <1>1, <1>2, OpTypeStep, SteadyStep DEF IInv, TypeOK, OpType
<1>4. OpsNamed'
  BY <1>2, NoOpShape DEF IInv, TypeOK, OpsNamed
<1>5. Apart'
  BY <1>1, ApartStep DEF IInv, Order
<1>6. StoresListed'
  BY <1>2, NoOpShape DEF IInv, Order, TypeOK, StoresListed
<1>7. RemovesGone'
  <2> SUFFICES ASSUME NEW b \in Actors, NEW j \in Ids,
                      \/ op'[b].at = "unindex" /\ j = op'[b].id
                      \/ op'[b].at = "check" /\ j \in op'[b].stale
               PROVE  j \in shared \/ entry'[j] = None
    BY <1>2 DEF RemovesGone
  <2>1. b # a /\ op'[b] = op[b]
    BY <1>2, NoOpShape DEF IInv, TypeOK
  <2>2. CASE j = i
    <3>1. j \in Touched(op[b]) /\ j \in Touched(op[a])
      BY <1>1, <2>1, <2>2, DocumentAssumption DEF Touched
    <3> QED
      BY <2>1, <3>1 DEF IInv, Order, Apart
  <2>3. CASE j # i
    BY <1>2, <2>1, <2>3 DEF IInv, Order, TypeOK, RemovesGone
  <2> QED
    BY <2>2, <2>3
<1>8. InvisibleOnlyIfShared'
  BY <1>1, <1>2 DEF IInv, Order, TypeOK, StoresListed, InvisibleOnlyIfShared
<1> QED
  BY <1>3, <1>4, <1>5, <1>6, <1>7, <1>8 DEF IInv, Order

LEMMA UpdateStep ==
  ASSUME IInv, NEW a \in Actors, NEW i \in Ids, Update(a, i) PROVE IInv'
<1>1. /\ entry[i] # None /\ entry' = [entry EXCEPT ![i] = a]
      /\ op' = op /\ shared' = shared /\ index' = index /\ Observe
  BY DEF Update
<1>2. TypeOK'
  BY <1>1, SteadyStep DEF IInv, TypeOK
<1>3. OpsNamed' /\ Apart' /\ StoresListed'
  BY <1>1 DEF IInv, Order, OpsNamed, Apart, StoresListed
<1>4. RemovesGone' /\ InvisibleOnlyIfShared'
  BY <1>1 DEF IInv, Order, TypeOK, RemovesGone, InvisibleOnlyIfShared
<1> QED
  BY <1>2, <1>3, <1>4 DEF IInv, Order

LEMMA DeleteEntryStep ==
  ASSUME IInv, NEW a \in Actors, NEW i \in Ids, DeleteEntry(a, i) PROVE IInv'
<1> DEFINE o == Step("unindex", i)
<1>1. Begins(a, o)
  BY StepShape DEF IInv, OpsNamed, DeleteEntry, Begin, Begins
<1>2. o.at = "unindex" /\ o.id = i /\ o.stale = {} /\ op' = [op EXCEPT ![a] = o]
  BY <1>1, StepShape DEF Begins
<1> HIDE DEF o
<1>3. /\ entry' = [entry EXCEPT ![i] = None] /\ index' = index /\ Observe
      /\ shared \subseteq shared'
  BY <1>1, SharedGrows DEF DeleteEntry
<1>4. TypeOK'
  BY <1>1, <1>3, OpTypeStep, SteadyStep DEF IInv, TypeOK, OpType
<1>5. OpsNamed'
  BY <1>2 DEF IInv, TypeOK, OpsNamed
<1>6. Apart'
  BY <1>1, ApartStep DEF IInv, Order
<1>7. StoresListed' /\ RemovesGone' /\ InvisibleOnlyIfShared'
  BY <1>2, <1>3 DEF IInv, Order, TypeOK, StoresListed, RemovesGone, InvisibleOnlyIfShared
<1> QED
  BY <1>4, <1>5, <1>6, <1>7 DEF IInv, Order

\* A step that removes members leaves a stored value without one only if the
\* ID is shared: its own operation saw the value gone, and another operation on
\* the same ID would have made it shared.
LEMMA RemoveMembers ==
  ASSUME IInv, NEW a \in Actors, NEW o, Ends(a) \/ GoesOn(a, o),
         op'[a].at \notin {"store", "unindex", "check"},
         NEW lost \in SUBSET Ids, lost \subseteq Touched(op[a]),
         op[a].at # "store",
         \A i \in lost : i \in shared \/ entry[i] = None,
         index' = index \ lost, entry' = entry
  PROVE  StoresListed' /\ RemovesGone' /\ InvisibleOnlyIfShared'
<1>1. shared' = shared /\ \A b \in Actors : b # a => op'[b] = op[b]
  BY DEF IInv, TypeOK, Ends, GoesOn
<1>2. StoresListed'
  <2> SUFFICES ASSUME NEW b \in Actors, op'[b].at = "store" PROVE op'[b].id \in index' \cup shared
    BY <1>1 DEF StoresListed
  <2>1. b # a /\ op'[b] = op[b]
    BY <1>1
  <2>2. op[b].id \in index \cup shared /\ op[b].id \in Ids
    BY <2>1 DEF IInv, Order, StoresListed, OpsNamed
  <2>3. op[b].id \in Touched(op[b])
    BY <2>2, DocumentAssumption DEF Touched
  <2>4. op[b].id \in lost => op[b].id \in shared
    BY <2>1, <2>3 DEF IInv, Order, Apart
  <2> QED
    BY <2>1, <2>2, <2>4
<1>3. RemovesGone'
  BY <1>1 DEF IInv, Order, RemovesGone
<1>4. InvisibleOnlyIfShared'
  BY <1>1 DEF IInv, Order, InvisibleOnlyIfShared
<1> QED
  BY <1>2, <1>3, <1>4

LEMMA UnindexStep == ASSUME IInv, NEW a \in Actors, Unindex(a) PROVE IInv'
<1> DEFINE lost == {op[a].id}
<1>1. Ends(a) /\ op[a].at = "unindex" /\ op[a].id \in Ids
  BY DEF IInv, OpsNamed, Unindex, Ends
<1>2. /\ op' = [op EXCEPT ![a] = NoOp] /\ index' = index \ lost
      /\ entry' = entry /\ Observe
  BY DEF Unindex
<1>3. TypeOK'
  BY <1>1, <1>2, OpTypeStep, SteadyStep DEF IInv, TypeOK, OpType
<1>4. OpsNamed'
  BY <1>2, NoOpShape DEF IInv, TypeOK, OpsNamed
<1>5. Apart'
  BY <1>1, ApartStep DEF IInv, Order
<1>6. lost \in SUBSET Ids /\ lost \subseteq Touched(op[a])
  BY <1>1, DocumentAssumption DEF Touched
<1>7. \A i \in lost : i \in shared \/ entry[i] = None
  BY <1>1 DEF IInv, Order, RemovesGone
<1>8. op'[a].at = "idle"
  BY <1>2, NoOpShape DEF IInv, TypeOK
<1> HIDE DEF lost
<1>9. StoresListed' /\ RemovesGone' /\ InvisibleOnlyIfShared'
  BY <1>1, <1>2, <1>6, <1>7, <1>8, RemoveMembers
<1> QED
  BY <1>3, <1>4, <1>5, <1>9 DEF IInv, Order

LEMMA ReadMembersStep ==
  ASSUME IInv, NEW a \in Actors, NEW page \in SUBSET index, ReadMembers(a, page)
  PROVE  IInv'
<1> DEFINE o == [NoOp EXCEPT !.at = "check", !.unchecked = page]
<1>0. page \in SUBSET Ids
  BY DEF IInv, TypeOK
<1>1. o \in OpType /\ o.at = "check" /\ o.stale = {}
  BY <1>0, ReadShape
<1>2. Begins(a, o)
  BY <1>1 DEF IInv, OpsNamed, ReadMembers, Begin, Begins
<1> HIDE DEF o
<1>3. op' = [op EXCEPT ![a] = o] /\ shared \subseteq shared'
  BY <1>2, SharedGrows DEF Begins
<1>4. /\ entry' = entry /\ index' = index
      /\ steady' = [steady EXCEPT ![a] = Listed \cap page]
  BY DEF ReadMembers
<1>5. TypeOK'
  BY <1>0, <1>2, <1>4, OpTypeStep, SteadyStep DEF IInv, TypeOK, OpType
<1>6. OpsNamed'
  BY <1>1, <1>3 DEF IInv, TypeOK, OpsNamed
<1>7. Apart'
  BY <1>2, ApartStep DEF IInv, Order
<1>8. StoresListed' /\ RemovesGone' /\ InvisibleOnlyIfShared'
  BY <1>1, <1>3, <1>4 DEF IInv, Order, TypeOK, StoresListed, RemovesGone,
                          InvisibleOnlyIfShared
<1> QED
  BY <1>5, <1>6, <1>7, <1>8 DEF IInv, Order

LEMMA CheckStep ==
  ASSUME IInv, NEW a \in Actors, NEW i \in Ids, Check(a, i) PROVE IInv'
<1> DEFINE live == IF entry[i] # None THEN op[a].live \cup {i} ELSE op[a].live
           stale == IF entry[i] # None THEN op[a].stale ELSE op[a].stale \cup {i}
           o == [op[a] EXCEPT !.unchecked = @ \ {i}, !.live = live, !.stale = stale]
<1>1. op[a].at = "check" /\ i \in op[a].unchecked /\ op \in [Actors -> OpType]
  BY DEF Check, IInv, TypeOK, OpType
<1>2. op' = [op EXCEPT ![a] = o]
  BY <1>1 DEF Check, OpType
<1>3. /\ entry' = entry /\ index' = index /\ shared' = shared /\ steady' = steady
  BY DEF Check
<1>4. /\ o \in OpType /\ o.at = "check" /\ o.id = op[a].id
      /\ o.unchecked = op[a].unchecked \ {i} /\ o.live = live /\ o.stale = stale
  BY <1>1 DEF OpType
<1>5. Touched(o) = Touched(op[a])
  BY <1>1, <1>4 DEF Touched
<1>6. GoesOn(a, o)
  BY <1>2, <1>3, <1>4, <1>5 DEF GoesOn
<1>7. TypeOK'
  BY <1>3, <1>6, OpTypeStep DEF IInv, TypeOK, OpType
<1>8. OpsNamed'
  BY <1>1, <1>2, <1>4 DEF IInv, OpsNamed
<1>9. Apart'
  BY <1>6, ApartStep DEF IInv, Order
<1>10. \A b \in Actors : b # a => op'[b] = op[b]
  BY <1>1, <1>2
<1>11. op'[a].at = "check" /\ op'[a].stale = stale
  BY <1>1, <1>2, <1>4
<1> HIDE DEF o
<1>12. StoresListed' /\ RemovesGone' /\ InvisibleOnlyIfShared'
  BY <1>1, <1>3, <1>10, <1>11
     DEF IInv, Order, StoresListed, RemovesGone, InvisibleOnlyIfShared
<1> QED
  BY <1>7, <1>8, <1>9, <1>12 DEF IInv, Order

LEMMA SweepStep == ASSUME IInv, NEW a \in Actors, Sweep(a) PROVE IInv'
<1> DEFINE o == [op[a] EXCEPT !.at = "listed"]
<1>1. op[a].at = "check" /\ op \in [Actors -> OpType]
  BY DEF Sweep, IInv, TypeOK, OpType
<1>2. op' = [op EXCEPT ![a] = o]
  BY <1>1 DEF Sweep, OpType
<1>3. /\ o \in OpType /\ o.at = "listed" /\ o.id = op[a].id
      /\ o.unchecked = op[a].unchecked /\ o.live = op[a].live /\ o.stale = op[a].stale
  BY <1>1 DEF OpType
<1>4. GoesOn(a, o)
  BY <1>2, <1>3 DEF GoesOn, Touched, Sweep
<1> HIDE DEF o
<1>5. PICK lost \in {{}, op[a].stale} : index' = index \ lost
  BY DEF Sweep
<1>6. entry' = entry /\ Observe
  BY DEF Sweep
<1>7. lost \in SUBSET Ids /\ lost \subseteq Touched(op[a])
  BY <1>1, <1>5 DEF Touched, OpType
<1>8. \A i \in lost : i \in shared \/ entry[i] = None
  BY <1>1, <1>5, <1>7 DEF IInv, Order, RemovesGone
<1>9. TypeOK'
  BY <1>4, <1>5, <1>6, OpTypeStep, SteadyStep DEF IInv, TypeOK, OpType
<1>10. OpsNamed'
  BY <1>1, <1>2, <1>3 DEF IInv, OpsNamed
<1>11. Apart'
  BY <1>4, ApartStep DEF IInv, Order
<1>12. op'[a].at = "listed"
  BY <1>1, <1>2, <1>3
<1>13. StoresListed' /\ RemovesGone' /\ InvisibleOnlyIfShared'
  BY <1>1, <1>4, <1>5, <1>6, <1>7, <1>8, <1>12, RemoveMembers
<1> QED
  BY <1>9, <1>10, <1>11, <1>13 DEF IInv, Order

LEMMA EndStep == ASSUME IInv, NEW a \in Actors, Return(a) \/ Stop(a) PROVE IInv'
<1>1. Ends(a) /\ entry' = entry /\ index' = index /\ steady' = steady
  BY DEF Return, Stop, Ends
<1>2. op' = [op EXCEPT ![a] = NoOp] /\ shared' = shared
  BY <1>1 DEF Ends
<1>3. TypeOK'
  BY <1>1, OpTypeStep DEF IInv, TypeOK, OpType
<1>4. OpsNamed'
  BY <1>2, NoOpShape DEF IInv, TypeOK, OpsNamed
<1>5. Apart'
  BY <1>1, ApartStep DEF IInv, Order
<1>6. StoresListed' /\ RemovesGone' /\ InvisibleOnlyIfShared'
  BY <1>1, <1>2, NoOpShape DEF IInv, Order, TypeOK, StoresListed, RemovesGone,
                              InvisibleOnlyIfShared
<1> QED
  BY <1>3, <1>4, <1>5, <1>6 DEF IInv, Order

LEMMA ExpireStep == ASSUME IInv, NEW i \in Ids, Expire(i) PROVE IInv'
<1>1. /\ entry' = [entry EXCEPT ![i] = None]
      /\ op' = op /\ shared' = shared /\ index' = index /\ Observe
  BY DEF Expire
<1>2. TypeOK'
  BY <1>1, SteadyStep DEF IInv, TypeOK
<1>3. OpsNamed' /\ Apart' /\ StoresListed'
  BY <1>1 DEF IInv, Order, OpsNamed, Apart, StoresListed
<1>4. RemovesGone' /\ InvisibleOnlyIfShared'
  BY <1>1 DEF IInv, Order, TypeOK, RemovesGone, InvisibleOnlyIfShared
<1> QED
  BY <1>2, <1>3, <1>4 DEF IInv, Order

LEMMA IInvStep == ASSUME IInv, [Next]_vars PROVE IInv'
<1>1. CASE UNCHANGED vars
  BY <1>1 DEF vars, IInv, TypeOK, OpsNamed, Order, Apart, StoresListed, RemovesGone,
              InvisibleOnlyIfShared
<1>2. CASE Next
  BY <1>2, PublishStep, StoreStep, UpdateStep, DeleteEntryStep, UnindexStep,
     ReadMembersStep, CheckStep, SweepStep, EndStep, ExpireStep DEF Next
<1> QED
  BY <1>1, <1>2

-----------------------------------------------------------------------------
(* keys: what it still has to check, and what it found *)

\* History: a steady ID is stored and listed.
SteadyListed == \A a \in Actors : steady[a] \subseteq Listed

\* A steady ID is unchecked or was found live, never stale.
Covered ==
  \A a \in Actors :
    /\ op[a].at = "check" => steady[a] \subseteq op[a].unchecked \cup op[a].live
    /\ op[a].at = "listed" => steady[a] \subseteq op[a].live

KeysInv == SteadyListed /\ Covered

LEMMA KeysInit == Init => KeysInv
BY NoOpShape DEF Init, KeysInv, SteadyListed, Covered

\* A step observed by the history takes nothing but what it hides from steady.
LEMMA Observed ==
  ASSUME TypeOK, Observe
  PROVE  SteadyListed' /\ \A a \in Actors : steady'[a] \subseteq steady[a]
BY DEF TypeOK, Observe, SteadyListed

LEMMA KeysStep == ASSUME IInv, KeysInv, [Next]_vars PROVE KeysInv'
<1> USE DEF KeysInv, SteadyListed, Covered
<1>0. TypeOK /\ op \in [Actors -> OpType] /\ steady \in [Actors -> SUBSET Ids]
  BY DEF IInv, TypeOK, OpType
<1>1. ASSUME NEW a \in Actors, NEW i \in Ids, Publish(a, i) \/ DeleteEntry(a, i)
      PROVE KeysInv'
  <2>1. PICK at \in {"store", "unindex"} : op' = [op EXCEPT ![a] = Step(at, i)]
    BY <1>1 DEF Publish, DeleteEntry, Begin
  <2>2. Step(at, i).at = at
    BY StepShape
  <2>3. SteadyListed' /\ \A b \in Actors : steady'[b] \subseteq steady[b]
    BY <1>0, <1>1, Observed DEF Publish, DeleteEntry
  <2> QED
    BY <1>0, <2>1, <2>2, <2>3
<1>2. ASSUME NEW a \in Actors, Store(a) \/ Unindex(a) PROVE KeysInv'
  <2>1. op' = [op EXCEPT ![a] = NoOp]
    BY <1>2 DEF Store, Unindex
  <2>2. SteadyListed' /\ \A b \in Actors : steady'[b] \subseteq steady[b]
    BY <1>0, <1>2, Observed DEF Store, Unindex
  <2> QED
    BY <1>0, <2>1, <2>2, NoOpShape
<1>3. ASSUME NEW a \in Actors, NEW i \in Ids, Update(a, i) PROVE KeysInv'
  <2>1. SteadyListed' /\ \A b \in Actors : steady'[b] \subseteq steady[b]
    BY <1>0, <1>3, Observed DEF Update
  <2> QED
    BY <1>0, <1>3, <2>1 DEF Update
<1>4. ASSUME NEW a \in Actors, NEW page \in SUBSET index, ReadMembers(a, page)
      PROVE KeysInv'
  <2> DEFINE o == [NoOp EXCEPT !.at = "check", !.unchecked = page]
  <2>1. o.at = "check" /\ o.unchecked = page
    BY DEF NoOp
  <2>2. op' = [op EXCEPT ![a] = o]
    BY <1>4 DEF ReadMembers, Begin
  <2> HIDE DEF o
  <2>3. steady' = [steady EXCEPT ![a] = Listed \cap page] /\ Listed' = Listed
    BY <1>4 DEF ReadMembers, Listed
  <2>4. SteadyListed'
    BY <1>0, <2>3
  <2>5. steady'[a] \subseteq page /\ op'[a] = o
    BY <1>0, <2>2, <2>3
  <2>6. \A b \in Actors : b # a => steady'[b] = steady[b] /\ op'[b] = op[b]
    BY <1>0, <2>2, <2>3
  <2> QED
    BY <2>1, <2>4, <2>5, <2>6
<1>5. ASSUME NEW a \in Actors, NEW i \in Ids, Check(a, i) PROVE KeysInv'
  <2>1. /\ op'[a].at = "check"
        /\ op'[a].unchecked = op[a].unchecked \ {i}
        /\ op'[a].live = IF entry[i] # None THEN op[a].live \cup {i} ELSE op[a].live
        /\ \A b \in Actors : b # a => op'[b] = op[b]
    BY <1>0, <1>5 DEF Check, OpType
  <2>2. steady' = steady /\ Listed' = Listed /\ op[a].at = "check"
    BY <1>5 DEF Check, Listed
  <2>3. i \in steady[a] => entry[i] # None
    BY DEF Listed
  <2> QED
    BY <2>1, <2>2, <2>3
<1>6. ASSUME NEW a \in Actors, Sweep(a) PROVE KeysInv'
  <2>1. /\ op'[a].at = "listed" /\ op'[a].live = op[a].live
        /\ \A b \in Actors : b # a => op'[b] = op[b]
    BY <1>0, <1>6 DEF Sweep, OpType
  <2>2. op[a].at = "check" /\ op[a].unchecked = {}
    BY <1>6 DEF Sweep
  <2>3. SteadyListed' /\ \A b \in Actors : steady'[b] \subseteq steady[b]
    BY <1>0, <1>6, Observed DEF Sweep
  <2> QED
    BY <2>1, <2>2, <2>3
<1>7. ASSUME NEW a \in Actors, Return(a) \/ Stop(a) PROVE KeysInv'
  <2>1. op' = [op EXCEPT ![a] = NoOp] /\ steady' = steady /\ Listed' = Listed
    BY <1>7 DEF Return, Stop, Listed
  <2> QED
    BY <1>0, <2>1, NoOpShape
<1>8. ASSUME NEW i \in Ids, Expire(i) PROVE KeysInv'
  <2>1. SteadyListed' /\ \A b \in Actors : steady'[b] \subseteq steady[b]
    BY <1>0, <1>8, Observed DEF Expire
  <2> QED
    BY <1>0, <1>8, <2>1 DEF Expire
<1>9. CASE UNCHANGED vars
  BY <1>9 DEF vars, Listed
<1> QED
  BY <1>1, <1>2, <1>3, <1>4, <1>5, <1>6, <1>7, <1>8, <1>9 DEF Next

-----------------------------------------------------------------------------
(* Theorems *)

LEMMA Inductive == Spec => [](IInv /\ KeysInv)
<1>1. Init => IInv /\ KeysInv
  BY InitIInv, KeysInit
<1>2. IInv /\ KeysInv /\ [Next]_vars => (IInv /\ KeysInv)'
  BY IInvStep, KeysStep
<1> QED
  BY <1>1, <1>2, PTL DEF Spec

\* The stored entries, the enumeration set and the operations keep their types.
THEOREM TypeCorrect == Spec => []TypeOK
<1>1. IInv => TypeOK
  BY DEF IInv
<1> QED
  BY <1>1, Inductive, PTL

\* Index-first creation, entry-first deletion and the sweep never hide a stored
\* value from enumeration, wherever an operation stops, unless two operations
\* worked on its ID at the same time.
THEOREM InvisibleOnlyIfSharedHolds == Spec => []InvisibleOnlyIfShared
<1>1. IInv => InvisibleOnlyIfShared
  BY DEF IInv, Order
<1> QED
  BY <1>1, Inductive, PTL

\* keys returns every ID that was stored and listed all the while it ran.
THEOREM KeysAreComplete == Spec => []KeysComplete
<1>1. KeysInv => KeysComplete
  BY DEF KeysInv, Covered, KeysComplete
<1> QED
  BY <1>1, Inductive, PTL

-----------------------------------------------------------------------------
(* Indexed: the secondary indexes *)

\* The memberships that a record undoes, and the keys it undoes them under.
Encoded == {Ix!pair(p) : p \in Pairs}
GoodKeys == {Ix!KeyOf(p) : p \in {q \in Pairs : Ix!Cuts(q[1]) = {}}}
Covers(S, k) == \E d \in S : Ix!Undo(d) = k

LEMMA CutOnce ==
  ASSUME NEW T, NEW f \in Seq(T), NEW v \in Seq(T), "=" \in T, Ix!Cuts(f) = {}
  PROVE  Ix!split_pair(f \o <<"=">> \o v) = <<f, v>>
<1> DEFINE e == <<"=">>
           n == Len(f)
           m == Len(v)
           s == f \o e \o v
<1>1. n \in Nat /\ m \in Nat /\ e \in Seq(T) /\ Len(e) = 1 /\ e[1] = "="
  OBVIOUS
<1>2. \A i \in 1..n : f[i] # "="
  BY DEF Ix!Cuts
<1> HIDE DEF e
<1>3. /\ f \o e \in Seq(T) /\ Len(f \o e) = n + 1
      /\ \A i \in 1..n : (f \o e)[i] = f[i]
      /\ (f \o e)[n + 1] = "="
  <2>1. /\ f \o e \in Seq(T) /\ Len(f \o e) = n + 1
        /\ \A i \in 1..(n + 1) : (f \o e)[i] = IF i <= n THEN f[i] ELSE e[i - n]
    <3>1. /\ f \o e \in Seq(T) /\ Len(f \o e) = Len(f) + Len(e)
          /\ \A i \in 1..(Len(f) + Len(e)) :
               (f \o e)[i] = IF i <= Len(f) THEN f[i] ELSE e[i - Len(f)]
      BY <1>1, ConcatProperties
    <3> QED
      BY <1>1, <3>1
  <2> DEFINE g == f \o e
  <2> HIDE DEF g
  <2>2. \A i \in 1..n : g[i] = f[i]
    BY <1>1, <2>1 DEF g
  <2>3. g[n + 1] = e[1]
    BY <1>1, <2>1 DEF g
  <2> QED
    BY <1>1, <2>1, <2>2, <2>3 DEF g
<1>4. /\ s \in Seq(T) /\ Len(s) = n + 1 + m
      /\ \A i \in 1..(n + 1) : s[i] = (f \o e)[i]
      /\ \A i \in 1..m : s[n + 1 + i] = v[i]
  <2> DEFINE g == f \o e
  <2> HIDE DEF g
  <2>1. g \in Seq(T) /\ Len(g) = n + 1
    BY <1>3 DEF g
  <2>2. /\ g \o v \in Seq(T) /\ Len(g \o v) = n + 1 + m
        /\ \A i \in 1..(n + 1 + m) : (g \o v)[i] = IF i <= n + 1 THEN g[i] ELSE v[i - (n + 1)]
    <3>1. /\ g \o v \in Seq(T) /\ Len(g \o v) = Len(g) + Len(v)
          /\ \A i \in 1..(Len(g) + Len(v)) :
               (g \o v)[i] = IF i <= Len(g) THEN g[i] ELSE v[i - Len(g)]
      BY <2>1, ConcatProperties
    <3> QED
      BY <1>1, <2>1, <3>1
  <2>3. \A i \in 1..m : (g \o v)[n + 1 + i] = v[i]
    BY <1>1, <2>2
  <2>4. \A i \in 1..(n + 1) : (g \o v)[i] = g[i]
    BY <1>1, <2>2
  <2> QED
    BY <2>2, <2>3, <2>4 DEF g
<1>5. (\A i \in 1..n : s[i] = f[i]) /\ s[n + 1] = "="
  BY <1>1, <1>3, <1>4
<1> HIDE DEF s
<1>6. n + 1 \in Ix!Cuts(s) /\ \A i \in Ix!Cuts(s) : i \in Nat /\ n + 1 <= i
  <2>1. DOMAIN s = 1..(n + 1 + m)
    BY <1>4
  <2>2. n + 1 \in Ix!Cuts(s)
    BY <1>1, <1>5, <2>1 DEF Ix!Cuts
  <2>3. ASSUME NEW i \in Ix!Cuts(s) PROVE i \in Nat /\ n + 1 <= i
    <3>1. i \in 1..(n + 1 + m) /\ s[i] = "="
      BY <2>1 DEF Ix!Cuts
    <3>2. ~(i <= n)
      BY <1>1, <1>2, <1>5, <3>1
    <3> QED
      BY <1>1, <3>1, <3>2
  <2> QED
    BY <2>2, <2>3
<1> DEFINE at == CHOOSE i \in Ix!Cuts(s) : \A j \in Ix!Cuts(s) : i <= j
<1>7. at = n + 1
  <2>1. n + 1 \in Ix!Cuts(s) /\ \A j \in Ix!Cuts(s) : n + 1 <= j
    BY <1>6
  <2>2. at \in Ix!Cuts(s) /\ \A j \in Ix!Cuts(s) : at <= j
    BY <2>1
  <2> HIDE DEF at
  <2>3. at <= n + 1 /\ n + 1 <= at /\ at \in Nat
    BY <1>6, <2>1, <2>2
  <2> QED
    BY <1>1, <2>3
<1>8. SubSeq(s, 1, n) = f
  <2> DEFINE u == SubSeq(s, 1, n)
  <2>1. \A i \in 1..n : s[i] \in T
    BY <1>5
  <2>2. u \in Seq(T) /\ Len(u) = n /\ \A i \in 1..n : u[i] = s[i]
    BY <1>1, <2>1, SubSeqProperties
  <2> HIDE DEF u
  <2>3. \A i \in 1..Len(u) : u[i] = f[i]
    BY <1>5, <2>2
  <2>4. u = f
    BY <2>2, <2>3, SeqEqual
  <2> QED
    BY <2>4 DEF u
<1>9. SubSeq(s, n + 2, Len(s)) = v
  <2> DEFINE u == SubSeq(s, n + 2, Len(s))
  <2>1. \A i \in (n + 2)..Len(s) : s[i] \in T
    BY <1>1, <1>4
  <2>2. /\ u \in Seq(T) /\ Len(u) = m
        /\ \A i \in 1..m : u[i] = s[n + 2 + i - 1]
    <3>1. n + 2 \in Int /\ Len(s) \in Int /\ Len(s) - (n + 2) + 1 = m
      BY <1>1, <1>4
    <3>2. /\ u \in Seq(T)
          /\ Len(u) = IF n + 2 <= Len(s) THEN Len(s) - (n + 2) + 1 ELSE 0
          /\ \A i \in 1..(Len(s) - (n + 2) + 1) : u[i] = s[n + 2 + i - 1]
      BY <2>1, <3>1, SubSeqProperties
    <3> HIDE DEF u
    <3> QED
      BY <1>1, <1>4, <3>1, <3>2
  <2> HIDE DEF u
  <2>3. \A i \in 1..Len(u) : u[i] = v[i]
    <3>1. \A i \in 1..m : n + 2 + i - 1 = n + 1 + i
      BY <1>1
    <3> QED
      BY <1>4, <2>2, <3>1
  <2>4. u = v
    BY <2>2, <2>3, SeqEqual
  <2> QED
    BY <2>4 DEF u
<1>10. Ix!split_pair(s) = <<SubSeq(s, 1, at - 1), SubSeq(s, at + 1, Len(s))>>
  BY DEF Ix!split_pair
<1> HIDE DEF at
<1>11. at - 1 = n /\ at + 1 = n + 2
  BY <1>1, <1>7
<1>12. Ix!split_pair(s) = <<f, v>>
  BY <1>8, <1>9, <1>10, <1>11
<1> QED
  BY <1>12 DEF s, e

\* A record undoes what was filed, but for fields that hold its separator.
LEMMA UndoIs ==
  ASSUME Ix!IndexedAssumption, NEW p \in Pairs, Ix!KeyOf(p) \in GoodKeys
  PROVE  Ix!Undo(Ix!pair(p)) = Ix!KeyOf(p)
<1>1. Ix!Cuts(p[1]) = {}
  BY DEF GoodKeys, Ix!IndexedAssumption
<1> DEFINE T == STRING \cup {"="}
<1>2. p[1] \in Seq(STRING) /\ p[2] \in Seq(STRING)
  <2>1. p \in Seq(STRING) \X Seq(STRING)
    BY Zenon DEF Ix!IndexedAssumption
  <2> QED
    BY <2>1
<1>3. STRING \subseteq T /\ "=" \in T
  OBVIOUS
<1> HIDE DEF T
<1>4. p[1] \in Seq(T) /\ p[2] \in Seq(T)
  BY <1>2, <1>3, SeqMonotonic
<1>5. Ix!split_pair(p[1] \o <<"=">> \o p[2]) = <<p[1], p[2]>>
  BY <1>1, <1>3, <1>4, CutOnce
<1> DEFINE q == Ix!split_pair(p[1] \o <<"=">> \o p[2])
<1>6. Ix!Undo(Ix!pair(p)) = Ix!idx_by_field(q[1], q[2])
  BY Zenon DEF Ix!Undo, Ix!pair, Ix!KeyOf
<1> HIDE DEF q
<1>7. q[1] = p[1] /\ q[2] = p[2]
  BY <1>5 DEF q
<1> QED
  BY <1>6, <1>7 DEF Ix!KeyOf

LEMMA KeysInRange ==
  ASSUME Ix!IndexedAssumption
  PROVE  /\ \A p \in Pairs : Ix!KeyOf(p) \in Ix!MemberKeys /\ Ix!pair(p) \in Encoded
         /\ \A d \in Encoded : Ix!Undo(d) \in Ix!MemberKeys
         /\ GoodKeys \subseteq Ix!MemberKeys
BY Zenon DEF Ix!MemberKeys, Encoded, GoodKeys

-----------------------------------------------------------------------------
(* The inductive invariant *)

\* What is left to send, as a set.
Elems(t) == {t[n] : n \in DOMAIN t}
Cmds(t) == {c.cmd : c \in Elems(t)}
Due(t, cmd, i) == {c \in Elems(t) : c.cmd = cmd /\ i \in c.ids}
Owed(t, cmd, i) == {c.key : c \in Due(t, cmd, i)}
Names(t, cmd, i) == UNION {c.pairs : c \in Due(t, cmd, i)}

\* y never follows x: what an operation reads comes first, no membership is undone once
\* some are filed or the record is pruned, and the record is pruned before it is written.
Late(x, y) ==
  \/ y \in {"undo", "replace", "lookup", "classify", "sweep"}
  \/ y = "refile" /\ x # "replace"
  \/ y = "gather" /\ x # "sweep"
  \/ y = "unfile" /\ x \in {"file", "prune"}
  \/ y = "prune" /\ x = "record"
Ordered(t) == \A m, n \in DOMAIN t : m < n => ~Late(t[m].cmd, t[n].cmd)

Sent == {"file", "unfile", "record", "prune", "enumerate", "omit", "put", "remove", "replace",
         "refile", "undo", "lookup", "classify", "sweep", "gather"}
Commands == [cmd : Sent, key : Ix!MemberKeys \cup {<<>>}, ids : SUBSET Ids,
             pairs : SUBSET (Pairs \cup Encoded)]
Lookups == {"by_index", "delete_by_index"}

\* A command of an operation on ids that asks for pairs.
Fits(c, ids, pairs) ==
  /\ c.ids \subseteq ids
  /\ c.cmd \in {"replace", "refile", "undo", "classify"} => c.ids = ids
  /\ c.cmd \in {"file", "unfile", "lookup", "classify", "sweep"} => c.key \in Ix!MemberKeys
  /\ c.cmd \in {"record", "prune"} => c.pairs \subseteq Encoded
  /\ c.cmd \in {"replace", "put"} => c.pairs = pairs

\* The commands of each kind of operation.
Plans(o) ==
  LET C == Cmds(o.todo) IN
  /\ o.kind = "create" => C \subseteq {"file", "record", "enumerate", "put"}
  /\ o.kind = "update" => \/ C \subseteq {"replace", "refile"} /\ ("replace" \in C => "refile" \in C)
                          \/ o.pairs # {} /\ C \subseteq {"unfile", "prune", "file", "record"}
  /\ o.kind = "delete" => \/ C \subseteq {"undo", "remove", "omit"}
                          \/ C \subseteq {"unfile", "prune", "remove", "omit"}
  /\ o.kind = "by_index" => \E cmd \in {"lookup", "classify", "sweep"} : C \subseteq {cmd}
  /\ o.kind = "delete_by_index" =>
       \/ C \subseteq {"lookup"} \/ C \subseteq {"classify"} \/ C \subseteq {"sweep", "gather"}
       \/ C \subseteq {"unfile", "omit", "prune", "remove"}

Shape(o) ==
  /\ o.kind \in {"idle", "create", "update", "delete"} \cup Lookups
  /\ o.kind = "idle" => o = Ix!Idle
  /\ o.kind \in {"create", "update", "delete"} => \E i \in Ids : o.ids = {i}
  /\ o.ids \subseteq Ids /\ o.pairs \subseteq Pairs
  /\ o.todo \in Seq(Commands) /\ Ordered(o.todo)
  /\ \A c \in Elems(o.todo) : Fits(c, o.ids, o.pairs)
  /\ Plans(o)
  /\ "lookup" \in Cmds(o.todo) => o.ids = {}
  /\ Cmds(o.todo) \cap {"lookup", "classify", "sweep"} # {} => DOMAIN o.records = {}
  /\ DOMAIN o.records \subseteq o.ids
  /\ \A i \in DOMAIN o.records : o.records[i] \subseteq Encoded

\* Where i will be filed, and what its record will name, once t is sent.
Held(t, i, F) == Owed(t, "file", i) \cup (F \ Owed(t, "unfile", i))
Kept(t, i, R) == Names(t, "record", i) \cup (R \ Names(t, "prune", i))

\* Every membership is named by the record, or will be; and so it stays.
Named(t, i, F, R) ==
  /\ \A k \in GoodKeys \cap F : Covers(R \cup Names(t, "record", i), k)
  /\ \A k \in GoodKeys \cap Held(t, i, F) : Covers(Kept(t, i, R), k)
Found(E, F) == E # None => \A p \in E : Ix!KeyOf(p) \in F
Filing(o, i, F) == \A p \in o.pairs : Ix!KeyOf(p) \in Held(o.todo, i, F)
Undone(t, i, E, l, R) ==
  /\ E = None \/ Due(t, "remove", i) # {}
  /\ i \notin l \/ Due(t, "omit", i) # {}
  /\ "undo" \in Cmds(t) \/ R \subseteq Names(t, "prune", i)

Creating(o, i, E, F) ==
  /\ E \in {None, o.pairs} \/ Due(o.todo, "put", i) # {}
  /\ Filing(o, i, F)
Updating(o, i, E, F) ==
  \/ "replace" \in Cmds(o.todo) /\ Found(E, F)
  \/ o.pairs = {} /\ Found(E, F)
  \/ /\ "replace" \notin Cmds(o.todo) /\ E \in {None, o.pairs}
     /\ "refile" \in Cmds(o.todo) \/ Filing(o, i, F)
Deleting(o, i, E, l, F, R) ==
  IF "classify" \in Cmds(o.todo) THEN Found(E, F)
  ELSE IF "gather" \in Cmds(o.todo)
  THEN /\ Found(E, F)
       /\ i \in DOMAIN o.records \/ Due(o.todo, "gather", i) # {} \/ E = None
       /\ i \in DOMAIN o.records => o.records[i] = R
  ELSE IF i \in DOMAIN o.records THEN Undone(o.todo, i, E, l, R) ELSE E = None
Work(o, i, E, l, F, R) ==
  /\ Named(o.todo, i, F, R)
  /\ Due(o.todo, "sweep", i) # {} => E = None
  /\ o.kind = "create" => Creating(o, i, E, F)
  /\ o.kind = "update" => Updating(o, i, E, F)
  /\ o.kind = "delete" => Undone(o.todo, i, E, l, R)
  /\ o.kind = "by_index" => Found(E, F)
  /\ o.kind = "delete_by_index" => Deleting(o, i, E, l, F, R)
Rest(i, E, F, R) == Found(E, F) /\ Named(<<>>, i, F, R)
Clean(i, E, l, F) == i \notin l /\ E = None /\ GoodKeys \cap F = {}

\* The fields of an operation.
IsOp(o) == o = [kind |-> o.kind, todo |-> o.todo, ids |-> o.ids, pairs |-> o.pairs,
                left |-> o.left, records |-> o.records]
Popped(o, o2) ==
  /\ IsOp(o2) /\ o2.todo = Tail(o.todo)
  /\ o2.kind = o.kind /\ o2.ids = o.ids /\ o2.pairs = o.pairs /\ o2.records = o.records

\* What the first command of o does to i; an update may leave the record unpruned.
Simple == {"file", "unfile", "record", "prune", "enumerate", "omit", "put", "remove"}
Effect(o, i, E, l, F, R, E2, l2, F2, R2) ==
  LET h == Head(o.todo)
      Does(cmd) == h.cmd = cmd /\ i \in h.ids
  IN /\ F2 = IF Does("file") THEN F \cup {h.key} ELSE IF Does("unfile") THEN F \ {h.key} ELSE F
     /\ \/ R2 = IF Does("record") THEN R \cup h.pairs
                ELSE IF Does("prune") THEN R \ h.pairs ELSE R
        \/ h.cmd = "prune" /\ o.kind = "update" /\ R2 = R
     /\ E2 = IF Does("put") THEN h.pairs ELSE IF Does("remove") THEN None ELSE E
     /\ i \in l2 <=> IF Does("enumerate") THEN TRUE ELSE IF Does("omit") THEN FALSE ELSE i \in l

FiledAt(i) == {k \in Ix!MemberKeys : i \in member[k]}

-----------------------------------------------------------------------------
(* Lists of commands *)

LEMMA CommandIs ==
  ASSUME NEW cmd \in Sent, NEW key \in Ix!MemberKeys \cup {<<>>}, NEW ids \in SUBSET Ids,
         NEW pairs \in SUBSET (Pairs \cup Encoded),
         NEW c, c = Ix!Command(cmd, key, ids, pairs)
  PROVE  c \in Commands /\ c.cmd = cmd /\ c.key = key /\ c.ids = ids /\ c.pairs = pairs
<1> DEFINE K == Ix!MemberKeys \cup {<<>>}
           P == SUBSET (Pairs \cup Encoded)
<1>1. key \in K /\ pairs \in P /\ Commands = [cmd : Sent, key : K, ids : SUBSET Ids, pairs : P]
  BY DEF Commands
<1>2. c = [cmd |-> cmd, key |-> key, ids |-> ids, pairs |-> pairs]
  BY DEF Ix!Command
<1> HIDE DEF K, P
<1> QED
  BY <1>1, <1>2

LEMMA Nothing ==
  /\ <<>> \in Seq(Commands) /\ Ordered(<<>>) /\ Elems(<<>>) = {} /\ Cmds(<<>>) = {}
  /\ \A cmd, i : Due(<<>>, cmd, i) = {} /\ Owed(<<>>, cmd, i) = {} /\ Names(<<>>, cmd, i) = {}
<1>1. <<>> \in Seq(Commands) /\ DOMAIN <<>> = {}
  OBVIOUS
<1>2. Elems(<<>>) = {} /\ Ordered(<<>>)
  BY <1>1 DEF Elems, Ordered
<1> QED
  BY <1>1, <1>2 DEF Cmds, Due, Owed, Names

LEMMA One ==
  ASSUME NEW c \in Commands
  PROVE  /\ <<c>> \in Seq(Commands) /\ Ordered(<<c>>) /\ Elems(<<c>>) = {c}
         /\ Cmds(<<c>>) = {c.cmd}
         /\ Head(<<c>>) = c /\ Tail(<<c>>) = <<>>
<1> DEFINE t == <<c>>
<1>1. t \in Seq(Commands) /\ Len(t) = 1 /\ t[1] = c /\ DOMAIN t = {1} /\ Head(t) = c
  OBVIOUS
<1>2. Elems(t) = {c} /\ Ordered(t)
  BY <1>1 DEF Elems, Ordered
<1>3. Cmds(t) = {c.cmd}
  BY <1>2 DEF Cmds
<1>4. Tail(t) \in Seq(Commands) /\ Len(Tail(t)) = 0
  BY <1>1, HeadTailProperties
<1>5. Tail(t) = <<>>
  BY <1>4, EmptySeq
<1> QED
  BY <1>1, <1>2, <1>3, <1>5

\* The head is one of the commands, and the tail has the others.
LEMMA Pop ==
  ASSUME NEW t \in Seq(Commands), t # <<>>
  PROVE  /\ Head(t) \in Commands /\ Tail(t) \in Seq(Commands)
         /\ Elems(t) = {Head(t)} \cup Elems(Tail(t))
         /\ Ordered(t) => /\ Ordered(Tail(t))
                          /\ \A c \in Elems(Tail(t)) : ~Late(Head(t).cmd, c.cmd)
<1> DEFINE r == Tail(t)
           h == Head(t)
           n == Len(t)
<1>1. /\ h \in Commands /\ r \in Seq(Commands) /\ Len(r) = n - 1
      /\ \A m \in 1..Len(r) : r[m] = t[m + 1]
  BY HeadTailProperties
<1>2. n \in Nat /\ n # 0 /\ DOMAIN t = 1..n /\ h = t[1]
  BY EmptySeq, LenProperties
<1>3. DOMAIN r = 1..(n - 1) /\ Len(r) = n - 1
  BY <1>1, LenProperties
<1> HIDE DEF r, h, n
<1>4. \A m \in DOMAIN r : m + 1 \in DOMAIN t /\ r[m] = t[m + 1] /\ 1 < m + 1
  BY <1>1, <1>2, <1>3
<1>5. \A m \in DOMAIN t : m = 1 \/ (m - 1 \in DOMAIN r /\ t[m] = r[m - 1])
  <2> SUFFICES ASSUME NEW m \in DOMAIN t, m # 1
               PROVE  m - 1 \in DOMAIN r /\ t[m] = r[m - 1]
    OBVIOUS
  <2>1. m \in 1..n /\ m - 1 \in 1..(n - 1) /\ (m - 1) + 1 = m
    BY <1>2
  <2> QED
    BY <1>3, <1>4, <2>1
<1>6. 1 \in DOMAIN t
  BY <1>2
<1>7. Elems(t) \subseteq {h} \cup Elems(r)
  BY <1>2, <1>5 DEF Elems
<1>8. {h} \cup Elems(r) \subseteq Elems(t)
  BY <1>2, <1>4, <1>6 DEF Elems
<1>9. ASSUME Ordered(t) PROVE Ordered(r)
  <2> SUFFICES ASSUME NEW x \in DOMAIN r, NEW y \in DOMAIN r, x < y
               PROVE  ~Late(r[x].cmd, r[y].cmd)
    BY DEF Ordered
  <2>1. x + 1 < y + 1
    BY <1>3
  <2> QED
    BY <1>4, <1>9, <2>1 DEF Ordered
<1>10. ASSUME Ordered(t), NEW c \in Elems(r) PROVE ~Late(h.cmd, c.cmd)
  <2>1. PICK m \in DOMAIN r : c = r[m]
    BY DEF Elems
  <2> QED
    BY <1>2, <1>4, <1>6, <1>10, <2>1 DEF Ordered
<1>11. Elems(t) = {h} \cup Elems(r)
  BY <1>7, <1>8
<1> QED
  BY <1>1, <1>9, <1>10, <1>11 DEF r, h

LEMMA Pops ==
  ASSUME NEW t \in Seq(Commands), t # <<>>
  PROVE  /\ Cmds(t) = {Head(t).cmd} \cup Cmds(Tail(t))
         /\ \A cmd, i :
              IF Head(t).cmd = cmd /\ i \in Head(t).ids
              THEN /\ Due(t, cmd, i) = {Head(t)} \cup Due(Tail(t), cmd, i)
                   /\ Owed(t, cmd, i) = {Head(t).key} \cup Owed(Tail(t), cmd, i)
                   /\ Names(t, cmd, i) = Head(t).pairs \cup Names(Tail(t), cmd, i)
              ELSE /\ Due(t, cmd, i) = Due(Tail(t), cmd, i)
                   /\ Owed(t, cmd, i) = Owed(Tail(t), cmd, i)
                   /\ Names(t, cmd, i) = Names(Tail(t), cmd, i)
<1> DEFINE r == Tail(t)
           h == Head(t)
<1>1. Elems(t) = {h} \cup Elems(r)
  BY Pop
<1> HIDE DEF r, h
<1>2. Cmds(t) = {h.cmd} \cup Cmds(r)
  BY <1>1 DEF Cmds
<1>3. ASSUME NEW cmd, NEW i, h.cmd = cmd, i \in h.ids
      PROVE  /\ Due(t, cmd, i) = {h} \cup Due(r, cmd, i)
             /\ Owed(t, cmd, i) = {h.key} \cup Owed(r, cmd, i)
             /\ Names(t, cmd, i) = h.pairs \cup Names(r, cmd, i)
  <2>1. Due(t, cmd, i) = {h} \cup Due(r, cmd, i)
    BY <1>1, <1>3 DEF Due
  <2>2. Owed(t, cmd, i) = {h.key} \cup Owed(r, cmd, i)
    BY <2>1 DEF Owed
  <2>3. Names(t, cmd, i) = h.pairs \cup Names(r, cmd, i)
    BY <2>1 DEF Names
  <2> QED
    BY <2>1, <2>2, <2>3
<1>4. ASSUME NEW cmd, NEW i, ~(h.cmd = cmd /\ i \in h.ids)
      PROVE  /\ Due(t, cmd, i) = Due(r, cmd, i)
             /\ Owed(t, cmd, i) = Owed(r, cmd, i)
             /\ Names(t, cmd, i) = Names(r, cmd, i)
  <2>1. Due(t, cmd, i) = Due(r, cmd, i)
    BY <1>1, <1>4 DEF Due
  <2> QED
    BY <2>1 DEF Owed, Names
<1> QED
  BY <1>2, <1>3, <1>4 DEF r, h

LEMMA Join ==
  ASSUME NEW s \in Seq(Commands), NEW t \in Seq(Commands)
  PROVE  /\ s \o t \in Seq(Commands)
         /\ Elems(s \o t) = Elems(s) \cup Elems(t)
         /\ Ordered(s) /\ Ordered(t) /\ (\A c \in Elems(s), d \in Elems(t) : ~Late(c.cmd, d.cmd))
            => Ordered(s \o t)
<1> DEFINE m == Len(s)
           n == Len(t)
           u == s \o t
<1>1. /\ u \in Seq(Commands) /\ Len(u) = m + n
      /\ \A x \in 1..(m + n) : u[x] = IF x <= m THEN s[x] ELSE t[x - m]
  BY ConcatProperties
<1>2. /\ m \in Nat /\ n \in Nat
      /\ DOMAIN s = 1..m /\ DOMAIN t = 1..n
  BY LenProperties
<1>3. DOMAIN u = 1..(m + n)
  BY <1>1
<1> HIDE DEF m, n, u
<1>4. \A x \in DOMAIN u : IF x <= m THEN x \in DOMAIN s /\ u[x] = s[x]
                          ELSE x - m \in DOMAIN t /\ u[x] = t[x - m]
  BY <1>1, <1>2, <1>3
<1>5. \A x \in DOMAIN s : x \in DOMAIN u /\ u[x] = s[x]
  BY <1>1, <1>2, <1>3
<1>6. \A x \in DOMAIN t : x + m \in DOMAIN u /\ u[x + m] = t[x]
  <2> SUFFICES ASSUME NEW x \in DOMAIN t PROVE x + m \in DOMAIN u /\ u[x + m] = t[x]
    OBVIOUS
  <2>1. x \in 1..n /\ x + m \in 1..(m + n) /\ ~(x + m <= m) /\ (x + m) - m = x
    BY <1>2
  <2>2. u[x + m] = t[(x + m) - m]
    BY <1>1, <2>1
  <2> QED
    BY <1>3, <2>1, <2>2
<1>7. Elems(u) \subseteq Elems(s) \cup Elems(t)
  BY <1>4 DEF Elems
<1>8. Elems(s) \subseteq Elems(u)
  BY <1>5 DEF Elems
<1>9. Elems(t) \subseteq Elems(u)
  BY <1>6 DEF Elems
<1>10. ASSUME Ordered(s), Ordered(t), \A c \in Elems(s), d \in Elems(t) : ~Late(c.cmd, d.cmd)
       PROVE  Ordered(u)
  <2> SUFFICES ASSUME NEW x \in DOMAIN u, NEW y \in DOMAIN u, x < y
               PROVE  ~Late(u[x].cmd, u[y].cmd)
    BY DEF Ordered
  <2>1. CASE y <= m
    <3>1. x <= m
      BY <1>2, <1>3, <2>1
    <3> QED
      BY <1>4, <1>10, <2>1, <3>1 DEF Ordered
  <2>2. CASE ~(x <= m)
    <3>1. ~(y <= m) /\ x - m < y - m
      BY <1>2, <1>3, <2>2
    <3> QED
      BY <1>4, <1>10, <2>2, <3>1 DEF Ordered
  <2>3. CASE x <= m /\ ~(y <= m)
    <3>1. u[x] \in Elems(s) /\ u[y] \in Elems(t)
      BY <1>4, <2>3 DEF Elems
    <3> QED
      BY <1>10, <3>1
  <2> QED
    BY <2>1, <2>2, <2>3
<1>11. Elems(u) = Elems(s) \cup Elems(t)
  BY <1>7, <1>8, <1>9
<1> QED
  BY <1>1, <1>10, <1>11 DEF u

LEMMA Joined ==
  ASSUME NEW s \in Seq(Commands), NEW t \in Seq(Commands)
  PROVE  /\ Cmds(s \o t) = Cmds(s) \cup Cmds(t)
         /\ \A cmd, i : /\ Due(s \o t, cmd, i) = Due(s, cmd, i) \cup Due(t, cmd, i)
                        /\ Owed(s \o t, cmd, i) = Owed(s, cmd, i) \cup Owed(t, cmd, i)
                        /\ Names(s \o t, cmd, i) = Names(s, cmd, i) \cup Names(t, cmd, i)
<1> DEFINE u == s \o t
<1>1. Elems(u) = Elems(s) \cup Elems(t)
  BY Join
<1> HIDE DEF u
<1>2. Cmds(u) = Cmds(s) \cup Cmds(t)
  BY <1>1 DEF Cmds
<1>3. \A cmd, i : Due(u, cmd, i) = Due(s, cmd, i) \cup Due(t, cmd, i)
  BY <1>1 DEF Due
<1>4. \A cmd, i : Owed(u, cmd, i) = Owed(s, cmd, i) \cup Owed(t, cmd, i)
  BY <1>3 DEF Owed
<1>5. ASSUME NEW cmd, NEW i PROVE Names(u, cmd, i) = Names(s, cmd, i) \cup Names(t, cmd, i)
  <2>1. Due(u, cmd, i) = Due(s, cmd, i) \cup Due(t, cmd, i)
    BY <1>3
  <2> QED
    BY <2>1 DEF Names
<1> QED
  BY <1>2, <1>3, <1>4, <1>5 DEF u

LEMMA JoinedAt ==
  ASSUME NEW u, NEW s, NEW t, Elems(u) = Elems(s) \cup Elems(t), NEW i
  PROVE  \A cmd : /\ Due(u, cmd, i) = Due(s, cmd, i) \cup Due(t, cmd, i)
                  /\ Owed(u, cmd, i) = Owed(s, cmd, i) \cup Owed(t, cmd, i)
                  /\ Names(u, cmd, i) = Names(s, cmd, i) \cup Names(t, cmd, i)
<1> TAKE cmd
<1>1. Due(u, cmd, i) = Due(s, cmd, i) \cup Due(t, cmd, i)
  BY DEF Due
<1>2. Owed(u, cmd, i) = Owed(s, cmd, i) \cup Owed(t, cmd, i)
  BY <1>1 DEF Owed
<1>3. Names(u, cmd, i) = Names(s, cmd, i) \cup Names(t, cmd, i)
  BY <1>1 DEF Names
<1> QED
  BY <1>1, <1>2, <1>3

\* A listing of a finite set without repetition has all of it.
LEMMA Listing ==
  ASSUME NEW S, IsFiniteSet(S), NEW s \in [1..Cardinality(S) -> S],
         \A m, n \in DOMAIN s : s[m] = s[n] => m = n
  PROVE  {s[n] : n \in DOMAIN s} = S
<1> DEFINE k == Cardinality(S)
           T == {s[n] : n \in DOMAIN s}
<1>1. k \in Nat /\ s \in [1..k -> S]
  BY FS_CardinalityType
<1> HIDE DEF k
<1>2. DOMAIN s = 1..k /\ T \subseteq S /\ s \in [1..k -> T]
  BY <1>1
<1>3. s \in Surjection(1..k, T) /\ s \in Injection(1..k, T)
  <2>1. \A x \in T : \E n \in 1..k : s[n] = x
    BY <1>2
  <2> HIDE DEF T
  <2> QED
    BY <1>2, <2>1 DEF Injection, Surjection, IsInjective
<1>4. IsFiniteSet(1..k) /\ Cardinality(1..k) = k
  <2>1. IsFiniteSet(1..k) /\ Cardinality(1..k) = IF 1 > k THEN 0 ELSE k - 1 + 1
    BY <1>1, FS_Interval
  <2> QED
    BY <1>1, <2>1
<1>5. IsFiniteSet(T) /\ Cardinality(T) = k
  <2> HIDE DEF T
  <2> QED
    BY <1>3, <1>4, FS_Surjection
<1>6. T = S
  BY <1>2, <1>5, FS_Subset DEF k
<1> QED
  BY <1>6

LEMMA Absent ==
  ASSUME NEW t, NEW cmd, cmd \notin Cmds(t)
  PROVE  \A i : Due(t, cmd, i) = {} /\ Owed(t, cmd, i) = {} /\ Names(t, cmd, i) = {}
<1>1. \A i : Due(t, cmd, i) = {}
  BY DEF Due, Cmds
<1> QED
  BY <1>1 DEF Owed, Names

LEMMA EncodedFinite ==
  ASSUME Ix!IndexedAssumption
  PROVE  IsFiniteSet(Encoded) /\ IsFiniteSet(Ix!MemberKeys) /\ IsFiniteSet(Ids)
<1>1. IsFiniteSet(Pairs) /\ IsFiniteSet(Ids)
  BY DEF Ix!IndexedAssumption, Ix!IsFiniteSet, IsFiniteSet
<1> DEFINE f == [p \in Pairs |-> Ix!pair(p)]
           g == [p \in Pairs |-> Ix!KeyOf(p)]
           h == [p \in Pairs |-> Ix!Undo(Ix!pair(p))]
           K == {g[p] : p \in Pairs}
           U == {h[p] : p \in Pairs}
<1>2. Encoded = {f[p] : p \in Pairs} /\ Ix!MemberKeys = K \cup U
  BY Zenon DEF Encoded, Ix!MemberKeys
<1>3. ASSUME NEW e, DOMAIN e = Pairs, e = [p \in Pairs |-> e[p]]
      PROVE  IsFiniteSet({e[p] : p \in Pairs})
  <2> DEFINE T == {e[p] : p \in Pairs}
  <2>1. e \in [Pairs -> T] /\ \A x \in T : \E p \in Pairs : e[p] = x
    BY <1>3
  <2> HIDE DEF T
  <2>2. e \in Surjection(Pairs, T)
    BY <2>1 DEF Surjection
  <2>3. IsFiniteSet(T)
    BY <1>1, <2>2, FS_Surjection
  <2> QED
    BY <2>3 DEF T
<1>4. IsFiniteSet({f[p] : p \in Pairs})
  <2>1. DOMAIN f = Pairs /\ f = [p \in Pairs |-> f[p]]
    BY Zenon
  <2> HIDE DEF f
  <2> QED
    BY <1>3, <2>1
<1>5. IsFiniteSet(K)
  <2>1. DOMAIN g = Pairs /\ g = [p \in Pairs |-> g[p]]
    BY Zenon
  <2> HIDE DEF g
  <2> QED
    BY <1>3, <2>1
<1>6. IsFiniteSet(U)
  <2>1. DOMAIN h = Pairs /\ h = [p \in Pairs |-> h[p]]
    BY Zenon
  <2> HIDE DEF h
  <2> QED
    BY <1>3, <2>1
<1> HIDE DEF f, K, U
<1>7. IsFiniteSet(K \cup U)
  BY <1>5, <1>6, FS_Union
<1> QED
  BY <1>1, <1>2, <1>4, <1>7

-----------------------------------------------------------------------------
(* What an operation plans to send *)

\* One command for each member of a set, in some order.
Lists(t, S, g) ==
  \E s \in [1..Cardinality(S) -> S] :
    /\ Ix!IsInjective(s)
    /\ t \in [DOMAIN s -> Commands] /\ \A n \in DOMAIN s : t[n] = g[s[n]]

LEMMA Each ==
  ASSUME NEW S, IsFiniteSet(S), NEW g, g \in [S -> Commands],
         \A x, y \in S : ~Late(g[x].cmd, g[y].cmd),
         NEW t, Lists(t, S, g)
  PROVE  /\ t \in Seq(Commands) /\ Ordered(t)
         /\ Elems(t) = {g[x] : x \in S}
<1>0. PICK s \in [1..Cardinality(S) -> S] :
        /\ Ix!IsInjective(s)
        /\ t \in [DOMAIN s -> Commands] /\ \A n \in DOMAIN s : t[n] = g[s[n]]
  BY DEF Lists
<1>1. {s[n] : n \in DOMAIN s} = S
  <2>1. \A m, n \in DOMAIN s : s[m] = s[n] => m = n
    BY <1>0 DEF Ix!IsInjective
  <2> QED
    BY <2>1, Listing
<1>2. Cardinality(S) \in Nat
  BY FS_CardinalityType
<1>3. DOMAIN s = 1..Cardinality(S) /\ DOMAIN t = DOMAIN s /\ \A n \in DOMAIN t : t[n] = g[s[n]]
  BY <1>0
<1>4. t \in Seq(Commands)
  BY <1>0, <1>2
<1>5. Elems(t) = {g[x] : x \in S}
  <2>1. \A x \in S : \E n \in DOMAIN s : x = s[n]
    BY <1>1
  <2>2. \A n \in DOMAIN s : s[n] \in S
    OBVIOUS
  <2> QED
    BY <1>3, <2>1, <2>2 DEF Elems
<1>6. Ordered(t)
  BY <1>3 DEF Ordered
<1> QED
  BY <1>4, <1>5, <1>6

\* file: the memberships of the pairs, then the record of them.
LEMMA FilePlan ==
  ASSUME Ix!IndexedAssumption, NEW i \in Ids, NEW pairs \in SUBSET Pairs,
         NEW t \in Ix!file(i, pairs)
  PROVE  /\ t \in Seq(Commands) /\ Ordered(t) /\ Cmds(t) \subseteq {"file", "record"}
         /\ \A c \in Elems(t) : /\ c.ids = {i}
                                /\ c.cmd = "file" => c.key \in Ix!MemberKeys
                                /\ c.cmd = "record" => c.pairs \subseteq Encoded
         /\ Owed(t, "file", i) = {Ix!KeyOf(p) : p \in pairs}
         /\ Names(t, "record", i) = {Ix!pair(p) : p \in pairs}
<1>1. CASE pairs = {}
  <2>1. t = <<>>
    BY <1>1 DEF Ix!file
  <2> QED
    BY <1>1, <2>1, Nothing
<1>2. CASE pairs # {}
  <2> DEFINE P == {Ix!pair(p) : p \in pairs}
             w == Ix!Command("record", <<>>, {i}, P)
             g == [p \in pairs |-> Ix!Command("file", Ix!KeyOf(p), {i}, {})]
  <2>0. PICK l \in [1..Cardinality(pairs) -> pairs] :
               /\ Ix!IsInjective(l)
               /\ t = [n \in DOMAIN l |-> Ix!Command("file", Ix!KeyOf(l[n]), {i}, {})] \o <<w>>
    BY <1>2 DEF Ix!file, Ix!InOrder, Ix!Cardinality, Cardinality
  <2> DEFINE s == [n \in DOMAIN l |-> Ix!Command("file", Ix!KeyOf(l[n]), {i}, {})]
  <2>1. t = s \o <<w>>
    BY <2>0
  <2>2. Ix!IsInjective(l)
    BY <2>0
  <2>3. \A n \in DOMAIN l : l[n] \in pairs
    OBVIOUS
  <2>4. /\ DOMAIN s = DOMAIN l /\ s = [n \in DOMAIN s |-> s[n]]
         /\ \A n \in DOMAIN l : s[n] = g[l[n]]
    BY <2>2, <2>3
  <2>5. w \in Commands /\ w.cmd = "record" /\ w.ids = {i} /\ w.pairs = P /\ P \subseteq Encoded
    <3>1. P \subseteq Encoded
      BY DEF Encoded
    <3>2. "record" \in Sent /\ {i} \in SUBSET Ids /\ P \in SUBSET (Pairs \cup Encoded)
          /\ <<>> \in Ix!MemberKeys \cup {<<>>}
      BY <3>1 DEF Sent
    <3> HIDE DEF P
    <3> QED
      BY <3>1, <3>2, CommandIs
  <2>6. \A p \in pairs : /\ g[p] \in Commands /\ g[p].cmd = "file" /\ g[p].ids = {i}
                         /\ g[p].key = Ix!KeyOf(p) /\ g[p].key \in Ix!MemberKeys
    <3> SUFFICES ASSUME NEW p \in pairs
                 PROVE  /\ g[p] \in Commands /\ g[p].cmd = "file" /\ g[p].ids = {i}
                        /\ g[p].key = Ix!KeyOf(p) /\ g[p].key \in Ix!MemberKeys
      OBVIOUS
    <3>1. Ix!KeyOf(p) \in Ix!MemberKeys
      BY KeysInRange
    <3>2. "file" \in Sent /\ {i} \in SUBSET Ids /\ {} \in SUBSET (Pairs \cup Encoded)
          /\ Ix!KeyOf(p) \in Ix!MemberKeys \cup {<<>>}
      BY <3>1 DEF Sent
    <3>3. g[p] = Ix!Command("file", Ix!KeyOf(p), {i}, {})
      OBVIOUS
    <3> HIDE DEF g
    <3> QED
      BY <3>1, <3>2, <3>3, CommandIs
  <2>7. g \in [pairs -> Commands]
    BY <2>6
  <2>8. IsFiniteSet(pairs)
    <3>1. IsFiniteSet(Pairs)
      BY DEF Ix!IndexedAssumption, Ix!IsFiniteSet, IsFiniteSet
    <3> QED
      BY <3>1, FS_Subset
  <2> HIDE DEF g, w, P, s
  <2>9. s \in Seq(Commands) /\ Ordered(s) /\ Elems(s) = {g[p] : p \in pairs}
    <3>1. \A p, q \in pairs : ~Late(g[p].cmd, g[q].cmd)
      BY <2>6 DEF Late
    <3>2. Ix!IsInjective(l)
      BY <2>2
    <3>3. s \in [DOMAIN l -> Commands] /\ \A n \in DOMAIN l : s[n] = g[l[n]]
      BY <2>3, <2>4, <2>7
    <3>4. Lists(s, pairs, g)
      BY <3>2, <3>3 DEF Lists
    <3> QED
      BY <2>7, <2>8, <3>1, <3>4, Each
  <2>10. <<w>> \in Seq(Commands) /\ Ordered(<<w>>) /\ Elems(<<w>>) = {w}
    BY <2>5, One
  <2>11. t \in Seq(Commands) /\ Elems(t) = {g[p] : p \in pairs} \cup {w}
    BY <2>1, <2>9, <2>10, Join
  <2>12. Ordered(t)
    <3>1. \A c \in Elems(s), d \in Elems(<<w>>) : ~Late(c.cmd, d.cmd)
      BY <2>5, <2>6, <2>9, <2>10 DEF Late
    <3> QED
      BY <2>1, <2>9, <2>10, <3>1, Join
  <2>13. Cmds(t) \subseteq {"file", "record"}
    BY <2>5, <2>6, <2>11 DEF Cmds
  <2>14. \A c \in Elems(t) : /\ c.ids = {i}
                             /\ c.cmd = "file" => c.key \in Ix!MemberKeys
                             /\ c.cmd = "record" => c.pairs \subseteq Encoded
    BY <2>5, <2>6, <2>11
  <2>15. Owed(t, "file", i) = {Ix!KeyOf(p) : p \in pairs}
    <3>1. Due(t, "file", i) = {g[p] : p \in pairs}
      BY <2>5, <2>6, <2>11 DEF Due
    <3> QED
      BY <2>6, <3>1 DEF Owed
  <2>16. Names(t, "record", i) = P
    <3>1. Due(t, "record", i) = {w}
      BY <2>5, <2>6, <2>11 DEF Due
    <3> QED
      BY <2>5, <3>1 DEF Names
  <2> QED
    BY <2>11, <2>12, <2>13, <2>14, <2>15, <2>16 DEF P
<1> QED
  BY <1>1, <1>2

\* unfile: the memberships that the dropped pairs name, then the pairs themselves.
LEMMA UnfilePlan ==
  ASSUME Ix!IndexedAssumption, NEW i \in Ids, NEW dropped \in SUBSET Encoded,
         NEW t \in Ix!unfile(i, dropped)
  PROVE  /\ t \in Seq(Commands) /\ Ordered(t) /\ Cmds(t) \subseteq {"unfile", "prune"}
         /\ \A c \in Elems(t) : /\ c.ids = {i}
                                /\ c.cmd = "unfile" => c.key \in Ix!MemberKeys
                                /\ c.cmd = "prune" => c.pairs \subseteq Encoded
         /\ Owed(t, "unfile", i) = {Ix!Undo(d) : d \in dropped}
         /\ Names(t, "prune", i) = dropped
<1> DEFINE w == Ix!Command("prune", <<>>, {i}, dropped)
           g == [d \in dropped |-> Ix!Command("unfile", Ix!Undo(d), {i}, {})]
<1>0. PICK l \in [1..Cardinality(dropped) -> dropped] :
             /\ Ix!IsInjective(l)
             /\ t = [n \in DOMAIN l |-> Ix!Command("unfile", Ix!Undo(l[n]), {i}, {})] \o <<w>>
  BY DEF Ix!unfile, Ix!InOrder, Ix!Cardinality, Cardinality
<1> DEFINE s == [n \in DOMAIN l |-> Ix!Command("unfile", Ix!Undo(l[n]), {i}, {})]
<1>1. t = s \o <<w>>
  BY <1>0
<1>2. Ix!IsInjective(l)
  BY <1>0
<1>3. \A n \in DOMAIN l : l[n] \in dropped
  OBVIOUS
<1>4. /\ DOMAIN s = DOMAIN l /\ s = [n \in DOMAIN s |-> s[n]]
       /\ \A n \in DOMAIN l : s[n] = g[l[n]]
  BY <1>2, <1>3
<1>5. w \in Commands /\ w.cmd = "prune" /\ w.ids = {i} /\ w.pairs = dropped
  <2>1. "prune" \in Sent /\ {i} \in SUBSET Ids /\ dropped \in SUBSET (Pairs \cup Encoded)
        /\ <<>> \in Ix!MemberKeys \cup {<<>>}
    BY DEF Sent
  <2> QED
    BY <2>1, CommandIs
<1>6. \A d \in dropped : /\ g[d] \in Commands /\ g[d].cmd = "unfile" /\ g[d].ids = {i}
                         /\ g[d].key = Ix!Undo(d) /\ g[d].key \in Ix!MemberKeys
  <2> SUFFICES ASSUME NEW d \in dropped
               PROVE  /\ g[d] \in Commands /\ g[d].cmd = "unfile" /\ g[d].ids = {i}
                      /\ g[d].key = Ix!Undo(d) /\ g[d].key \in Ix!MemberKeys
    OBVIOUS
  <2>1. Ix!Undo(d) \in Ix!MemberKeys
    BY KeysInRange
  <2>2. "unfile" \in Sent /\ {i} \in SUBSET Ids /\ {} \in SUBSET (Pairs \cup Encoded)
        /\ Ix!Undo(d) \in Ix!MemberKeys \cup {<<>>}
    BY <2>1 DEF Sent
  <2>3. g[d] = Ix!Command("unfile", Ix!Undo(d), {i}, {})
    OBVIOUS
  <2> HIDE DEF g
  <2> QED
    BY <2>1, <2>2, <2>3, CommandIs
<1>7. g \in [dropped -> Commands]
  BY <1>6
<1>8. IsFiniteSet(dropped)
  BY EncodedFinite, FS_Subset
<1> HIDE DEF g, w, s
<1>9. s \in Seq(Commands) /\ Ordered(s) /\ Elems(s) = {g[d] : d \in dropped}
  <2>1. \A d, e \in dropped : ~Late(g[d].cmd, g[e].cmd)
    BY <1>6 DEF Late
  <2>2. Ix!IsInjective(l)
    BY <1>2
  <2>3. s \in [DOMAIN l -> Commands] /\ \A n \in DOMAIN l : s[n] = g[l[n]]
    BY <1>3, <1>4, <1>7
  <2>4. Lists(s, dropped, g)
    BY <2>2, <2>3 DEF Lists
  <2> QED
    BY <1>7, <1>8, <2>1, <2>4, Each
<1>10. <<w>> \in Seq(Commands) /\ Ordered(<<w>>) /\ Elems(<<w>>) = {w}
  BY <1>5, One
<1>11. t \in Seq(Commands) /\ Elems(t) = {g[d] : d \in dropped} \cup {w}
  BY <1>1, <1>9, <1>10, Join
<1>12. Ordered(t)
  <2>1. \A c \in Elems(s), d \in Elems(<<w>>) : ~Late(c.cmd, d.cmd)
    BY <1>5, <1>6, <1>9, <1>10 DEF Late
  <2> QED
    BY <1>1, <1>9, <1>10, <2>1, Join
<1>13. Cmds(t) \subseteq {"unfile", "prune"}
  BY <1>5, <1>6, <1>11 DEF Cmds
<1>14. \A c \in Elems(t) : /\ c.ids = {i}
                           /\ c.cmd = "unfile" => c.key \in Ix!MemberKeys
                           /\ c.cmd = "prune" => c.pairs \subseteq Encoded
  BY <1>5, <1>6, <1>11
<1>15. Owed(t, "unfile", i) = {Ix!Undo(d) : d \in dropped}
  <2>1. Due(t, "unfile", i) = {g[d] : d \in dropped}
    BY <1>5, <1>6, <1>11 DEF Due
  <2> QED
    BY <1>6, <2>1 DEF Owed
<1>16. Names(t, "prune", i) = dropped
  <2>1. Due(t, "prune", i) = {w}
    BY <1>5, <1>6, <1>11 DEF Due
  <2> QED
    BY <1>5, <2>1 DEF Names
<1> QED
  BY <1>11, <1>12, <1>13, <1>14, <1>15, <1>16

LEMMA Two ==
  ASSUME NEW c \in Commands, NEW d \in Commands, ~Late(c.cmd, d.cmd)
  PROVE  /\ <<c, d>> \in Seq(Commands) /\ Ordered(<<c, d>>) /\ Elems(<<c, d>>) = {c, d}
         /\ Cmds(<<c, d>>) = {c.cmd, d.cmd}
<1> DEFINE t == <<c, d>>
<1>1. t \in Seq(Commands) /\ t[1] = c /\ t[2] = d /\ DOMAIN t = {1, 2}
  OBVIOUS
<1> HIDE DEF t
<1>2. Elems(t) = {c, d}
  BY <1>1 DEF Elems
<1>3. Cmds(t) = {c.cmd, d.cmd}
  BY <1>2 DEF Cmds
<1>4. \A m, n \in DOMAIN t : m < n => m = 1 /\ n = 2
  BY <1>1
<1>5. Ordered(t)
  BY <1>1, <1>4 DEF Ordered
<1> QED
  BY <1>1, <1>2, <1>3, <1>5 DEF t

\* create: the index first, then the enumeration and the entry.
LEMMA CreatePlan ==
  ASSUME Ix!IndexedAssumption, NEW i \in Ids, NEW pairs \in SUBSET Pairs,
         NEW t \in Ix!Create(i, pairs)
  PROVE  /\ t \in Seq(Commands) /\ Ordered(t)
         /\ Cmds(t) \subseteq {"file", "record", "enumerate", "put"}
         /\ \A c \in Elems(t) : Fits(c, {i}, pairs)
         /\ Owed(t, "file", i) = {Ix!KeyOf(p) : p \in pairs}
         /\ Names(t, "record", i) = {Ix!pair(p) : p \in pairs}
         /\ Due(t, "put", i) # {}
<1> DEFINE c == Ix!Command("enumerate", <<>>, {i}, {})
           d == Ix!Command("put", <<>>, {i}, pairs)
           u == <<c, d>>
<1>1. PICK s \in Ix!file(i, pairs) : t = s \o u
  BY DEF Ix!Create, Ix!DocumentCreate
<1>2. /\ s \in Seq(Commands) /\ Ordered(s) /\ Cmds(s) \subseteq {"file", "record"}
      /\ \A x \in Elems(s) : /\ x.ids = {i}
                             /\ x.cmd = "file" => x.key \in Ix!MemberKeys
                             /\ x.cmd = "record" => x.pairs \subseteq Encoded
      /\ Owed(s, "file", i) = {Ix!KeyOf(p) : p \in pairs}
      /\ Names(s, "record", i) = {Ix!pair(p) : p \in pairs}
  BY FilePlan
<1>3. c \in Commands /\ c.cmd = "enumerate" /\ c.ids = {i} /\ Fits(c, {i}, pairs)
  <2>1. "enumerate" \in Sent /\ {i} \in SUBSET Ids /\ {} \in SUBSET (Pairs \cup Encoded)
        /\ <<>> \in Ix!MemberKeys \cup {<<>>}
        /\ c = Ix!Command("enumerate", <<>>, {i}, {})
    BY DEF Sent
  <2> HIDE DEF c
  <2>2. c \in Commands /\ c.cmd = "enumerate" /\ c.ids = {i} /\ c.pairs = {}
    BY <2>1, CommandIs
  <2> QED
    BY <2>2 DEF Fits
<1>4. d \in Commands /\ d.cmd = "put" /\ d.ids = {i} /\ Fits(d, {i}, pairs)
  <2>1. "put" \in Sent /\ {i} \in SUBSET Ids /\ pairs \in SUBSET (Pairs \cup Encoded)
        /\ <<>> \in Ix!MemberKeys \cup {<<>>}
        /\ d = Ix!Command("put", <<>>, {i}, pairs)
    BY DEF Sent
  <2> HIDE DEF d
  <2>2. d \in Commands /\ d.cmd = "put" /\ d.ids = {i} /\ d.pairs = pairs
    BY <2>1, CommandIs
  <2> QED
    BY <2>2 DEF Fits
<1> HIDE DEF c, d
<1>5. /\ u \in Seq(Commands) /\ Ordered(u) /\ Elems(u) = {c, d}
      /\ Cmds(u) = {"enumerate", "put"}
  <2>1. ~Late(c.cmd, d.cmd)
    BY <1>3, <1>4 DEF Late
  <2>2. u \in Seq(Commands) /\ Ordered(u) /\ Elems(u) = {c, d} /\ Cmds(u) = {c.cmd, d.cmd}
    BY <1>3, <1>4, <2>1, Two
  <2> QED
    BY <1>3, <1>4, <2>2
<1> HIDE DEF u
<1>6. t \in Seq(Commands) /\ Elems(t) = Elems(s) \cup {c, d}
  BY <1>1, <1>2, <1>5, Join
<1>7. Ordered(t)
  <2>1. \A x \in Elems(s), y \in Elems(u) : ~Late(x.cmd, y.cmd)
    BY <1>3, <1>4, <1>5 DEF Late
  <2> QED
    BY <1>1, <1>2, <1>5, <2>1, Join
<1>8. Cmds(t) = Cmds(s) \cup {"enumerate", "put"}
  BY <1>1, <1>2, <1>5, Joined
<1>9. \A x \in Elems(t) : Fits(x, {i}, pairs)
  <2>1. \A x \in Elems(s) : x.cmd \in {"file", "record"}
    BY <1>2 DEF Cmds
  <2>2. \A x \in Elems(s) : Fits(x, {i}, pairs)
    BY <1>2, <2>1 DEF Fits
  <2> QED
    BY <1>3, <1>4, <1>6, <2>2
<1>10. Owed(u, "file", i) = {} /\ Names(u, "record", i) = {}
  BY <1>5, Absent
<1>11. /\ Owed(t, "file", i) = Owed(s, "file", i) \cup Owed(u, "file", i)
       /\ Names(t, "record", i) = Names(s, "record", i) \cup Names(u, "record", i)
  BY <1>1, <1>2, <1>5, Joined
<1>12. d \in Due(t, "put", i)
  BY <1>4, <1>6 DEF Due
<1>13. Owed(t, "file", i) = Owed(s, "file", i) /\ Names(t, "record", i) = Names(s, "record", i)
  BY <1>10, <1>11
<1> QED
  BY <1>2, <1>6, <1>7, <1>8, <1>9, <1>12, <1>13

\* update: the entry, then its index.
LEMMA UpdatePlan ==
  ASSUME NEW i \in Ids, NEW pairs \in SUBSET Pairs, NEW t \in Ix!Update(i, pairs)
  PROVE  /\ t \in Seq(Commands) /\ Ordered(t) /\ Cmds(t) = {"replace", "refile"}
         /\ \A c \in Elems(t) : Fits(c, {i}, pairs)
<1> DEFINE c == Ix!Command("replace", <<>>, {i}, pairs)
           d == Ix!Command("refile", <<>>, {i}, pairs)
<1>1. t = <<c, d>>
  BY DEF Ix!Update
<1>2. c \in Commands /\ c.cmd = "replace" /\ c.ids = {i} /\ Fits(c, {i}, pairs)
  <2>1. "replace" \in Sent /\ {i} \in SUBSET Ids /\ pairs \in SUBSET (Pairs \cup Encoded)
        /\ <<>> \in Ix!MemberKeys \cup {<<>>}
        /\ c = Ix!Command("replace", <<>>, {i}, pairs)
    BY DEF Sent
  <2> HIDE DEF c
  <2>2. c \in Commands /\ c.cmd = "replace" /\ c.ids = {i} /\ c.pairs = pairs
    BY <2>1, CommandIs
  <2> QED
    BY <2>2 DEF Fits
<1>3. d \in Commands /\ d.cmd = "refile" /\ d.ids = {i} /\ Fits(d, {i}, pairs)
  <2>1. "refile" \in Sent /\ {i} \in SUBSET Ids /\ pairs \in SUBSET (Pairs \cup Encoded)
        /\ <<>> \in Ix!MemberKeys \cup {<<>>}
        /\ d = Ix!Command("refile", <<>>, {i}, pairs)
    BY DEF Sent
  <2> HIDE DEF d
  <2>2. d \in Commands /\ d.cmd = "refile" /\ d.ids = {i} /\ d.pairs = pairs
    BY <2>1, CommandIs
  <2> QED
    BY <2>2 DEF Fits
<1> HIDE DEF c, d
<1>4. ~Late(c.cmd, d.cmd)
  BY <1>2, <1>3 DEF Late
<1>5. t \in Seq(Commands) /\ Ordered(t) /\ Elems(t) = {c, d} /\ Cmds(t) = {c.cmd, d.cmd}
  BY <1>1, <1>2, <1>3, <1>4, Two
<1> QED
  BY <1>2, <1>3, <1>5

\* delete: the index, the entry, the enumeration.
LEMMA DeletePlan ==
  ASSUME NEW i \in Ids, NEW pairs \in SUBSET Pairs, NEW t \in Ix!Delete(i)
  PROVE  /\ t \in Seq(Commands) /\ Ordered(t) /\ Cmds(t) = {"undo", "remove", "omit"}
         /\ \A c \in Elems(t) : Fits(c, {i}, pairs)
         /\ Due(t, "remove", i) # {} /\ Due(t, "omit", i) # {}
<1> DEFINE b == Ix!Command("undo", <<>>, {i}, {})
           c == Ix!Command("remove", <<>>, {i}, {})
           d == Ix!Command("omit", <<>>, {i}, {})
           s == <<b>>
           u == <<c, d>>
<1>1. t = s \o u
  BY DEF Ix!Delete, Ix!DocumentDelete
<1>2. b \in Commands /\ b.cmd = "undo" /\ b.ids = {i} /\ Fits(b, {i}, pairs)
  <2>1. "undo" \in Sent /\ {i} \in SUBSET Ids /\ {} \in SUBSET (Pairs \cup Encoded)
        /\ <<>> \in Ix!MemberKeys \cup {<<>>}
        /\ b = Ix!Command("undo", <<>>, {i}, {})
    BY DEF Sent
  <2> HIDE DEF b
  <2>2. b \in Commands /\ b.cmd = "undo" /\ b.ids = {i} /\ b.pairs = {}
    BY <2>1, CommandIs
  <2> QED
    BY <2>2 DEF Fits
<1>3. c \in Commands /\ c.cmd = "remove" /\ c.ids = {i} /\ Fits(c, {i}, pairs)
  <2>1. "remove" \in Sent /\ {i} \in SUBSET Ids /\ {} \in SUBSET (Pairs \cup Encoded)
        /\ <<>> \in Ix!MemberKeys \cup {<<>>}
        /\ c = Ix!Command("remove", <<>>, {i}, {})
    BY DEF Sent
  <2> HIDE DEF c
  <2>2. c \in Commands /\ c.cmd = "remove" /\ c.ids = {i} /\ c.pairs = {}
    BY <2>1, CommandIs
  <2> QED
    BY <2>2 DEF Fits
<1>4. d \in Commands /\ d.cmd = "omit" /\ d.ids = {i} /\ Fits(d, {i}, pairs)
  <2>1. "omit" \in Sent /\ {i} \in SUBSET Ids /\ {} \in SUBSET (Pairs \cup Encoded)
        /\ <<>> \in Ix!MemberKeys \cup {<<>>}
        /\ d = Ix!Command("omit", <<>>, {i}, {})
    BY DEF Sent
  <2> HIDE DEF d
  <2>2. d \in Commands /\ d.cmd = "omit" /\ d.ids = {i} /\ d.pairs = {}
    BY <2>1, CommandIs
  <2> QED
    BY <2>2 DEF Fits
<1> HIDE DEF b, c, d
<1>5. /\ u \in Seq(Commands) /\ Ordered(u) /\ Elems(u) = {c, d}
      /\ Cmds(u) = {"remove", "omit"}
  <2>1. ~Late(c.cmd, d.cmd)
    BY <1>3, <1>4 DEF Late
  <2>2. u \in Seq(Commands) /\ Ordered(u) /\ Elems(u) = {c, d} /\ Cmds(u) = {c.cmd, d.cmd}
    BY <1>3, <1>4, <2>1, Two
  <2> QED
    BY <1>3, <1>4, <2>2
<1>6. s \in Seq(Commands) /\ Ordered(s) /\ Elems(s) = {b} /\ Cmds(s) = {"undo"}
  BY <1>2, One
<1> HIDE DEF u, s
<1>7. t \in Seq(Commands) /\ Elems(t) = {b, c, d}
  <2>1. t \in Seq(Commands) /\ Elems(t) = Elems(s) \cup Elems(u)
    BY <1>1, <1>5, <1>6, Join
  <2> QED
    BY <1>5, <1>6, <2>1
<1>8. Ordered(t)
  <2>1. \A x \in Elems(s), y \in Elems(u) : ~Late(x.cmd, y.cmd)
    BY <1>2, <1>3, <1>4, <1>5, <1>6 DEF Late
  <2> QED
    BY <1>1, <1>5, <1>6, <2>1, Join
<1>9. Cmds(t) = {"undo", "remove", "omit"}
  BY <1>2, <1>3, <1>4, <1>7 DEF Cmds
<1>10. c \in Due(t, "remove", i) /\ d \in Due(t, "omit", i)
  BY <1>3, <1>4, <1>7 DEF Due
<1> QED
  BY <1>2, <1>3, <1>4, <1>7, <1>8, <1>9, <1>10

\* refile: what the record names and the caller does not want, then the filing.
LEMMA RefilePlan ==
  ASSUME Ix!IndexedAssumption, NEW i \in Ids, NEW pairs \in SUBSET Pairs,
         record[i] \in SUBSET Encoded, NEW l \in Ix!refile(i, pairs)
  PROVE  /\ l \in Seq(Commands) /\ Ordered(l)
         /\ Cmds(l) \subseteq {"unfile", "prune", "file", "record"}
         /\ \A c \in Elems(l) : Fits(c, {i}, pairs)
         /\ Owed(l, "file", i) = {Ix!KeyOf(p) : p \in pairs}
         /\ Names(l, "record", i) = {Ix!pair(p) : p \in pairs}
         /\ LET dropped == record[i] \ {Ix!pair(p) : p \in pairs} IN
            /\ Owed(l, "unfile", i) = {Ix!Undo(d) : d \in dropped}
            /\ Names(l, "prune", i) = dropped
<1> DEFINE dropped == record[i] \ {Ix!pair(p) : p \in pairs}
<1>1. PICK s \in IF dropped = {} THEN {<<>>} ELSE Ix!unfile(i, dropped) :
        \E t \in Ix!file(i, pairs) : l = s \o t
  <2> DEFINE A == IF dropped = {} THEN {<<>>} ELSE Ix!unfile(i, dropped)
             B == Ix!file(i, pairs)
  <2>1. l \in UNION {{s \o t : t \in B} : s \in A}
    BY DEF Ix!refile
  <2> HIDE DEF A, B
  <2>2. PICK L \in {{s \o t : t \in B} : s \in A} : l \in L
    BY <2>1
  <2>3. PICK s \in A : L = {s \o t : t \in B}
    BY <2>2
  <2>4. \E t \in B : l = s \o t
    BY <2>2, <2>3
  <2> QED
    BY <2>4 DEF A, B
<1>0. PICK u \in Ix!file(i, pairs) : l = s \o u
  BY <1>1
<1>2. dropped \in SUBSET Encoded
  OBVIOUS
<1> HIDE DEF dropped
<1>3. /\ s \in Seq(Commands) /\ Ordered(s) /\ Cmds(s) \subseteq {"unfile", "prune"}
      /\ \A c \in Elems(s) : /\ c.ids = {i}
                             /\ c.cmd = "unfile" => c.key \in Ix!MemberKeys
                             /\ c.cmd = "prune" => c.pairs \subseteq Encoded
      /\ Owed(s, "unfile", i) = {Ix!Undo(d) : d \in dropped}
      /\ Names(s, "prune", i) = dropped
  <2>1. CASE dropped = {}
    <3>1. s = <<>>
      BY <2>1
    <3> QED
      BY <2>1, <3>1, Nothing
  <2>2. CASE dropped # {}
    <3>1. s \in Ix!unfile(i, dropped)
      BY <2>2
    <3> QED
      BY <1>2, <3>1, UnfilePlan
  <2> QED
    BY <2>1, <2>2
<1>4. /\ u \in Seq(Commands) /\ Ordered(u) /\ Cmds(u) \subseteq {"file", "record"}
      /\ \A c \in Elems(u) : /\ c.ids = {i}
                             /\ c.cmd = "file" => c.key \in Ix!MemberKeys
                             /\ c.cmd = "record" => c.pairs \subseteq Encoded
      /\ Owed(u, "file", i) = {Ix!KeyOf(p) : p \in pairs}
      /\ Names(u, "record", i) = {Ix!pair(p) : p \in pairs}
  BY FilePlan
<1>5. l \in Seq(Commands) /\ Elems(l) = Elems(s) \cup Elems(u)
  BY <1>0, <1>3, <1>4, Join
<1>6. /\ \A c \in Elems(s) : c.cmd \in {"unfile", "prune"}
      /\ \A c \in Elems(u) : c.cmd \in {"file", "record"}
  BY <1>3, <1>4 DEF Cmds
<1>7. Ordered(l)
  <2>1. \A x \in Elems(s), y \in Elems(u) : ~Late(x.cmd, y.cmd)
    BY <1>6 DEF Late
  <2> QED
    BY <1>0, <1>3, <1>4, <2>1, Join
<1>8. Cmds(l) \subseteq {"unfile", "prune", "file", "record"}
  <2>1. Cmds(l) = Cmds(s) \cup Cmds(u)
    BY <1>0, <1>3, <1>4, Joined
  <2> QED
    BY <1>3, <1>4, <2>1
<1>9. \A c \in Elems(l) : Fits(c, {i}, pairs)
  BY <1>3, <1>4, <1>5, <1>6 DEF Fits
<1>10. /\ Owed(u, "unfile", i) = {} /\ Names(u, "prune", i) = {}
       /\ Owed(s, "file", i) = {} /\ Names(s, "record", i) = {}
  <2>1. /\ "unfile" \notin Cmds(u) /\ "prune" \notin Cmds(u)
        /\ "file" \notin Cmds(s) /\ "record" \notin Cmds(s)
    BY <1>3, <1>4
  <2> QED
    BY <2>1, Absent
<1>11. /\ Owed(l, "file", i) = Owed(s, "file", i) \cup Owed(u, "file", i)
       /\ Names(l, "record", i) = Names(s, "record", i) \cup Names(u, "record", i)
       /\ Owed(l, "unfile", i) = Owed(s, "unfile", i) \cup Owed(u, "unfile", i)
       /\ Names(l, "prune", i) = Names(s, "prune", i) \cup Names(u, "prune", i)
  BY <1>0, <1>3, <1>4, Joined
<1>12. /\ Owed(l, "file", i) = Owed(u, "file", i)
       /\ Names(l, "record", i) = Names(u, "record", i)
       /\ Owed(l, "unfile", i) = Owed(s, "unfile", i)
       /\ Names(l, "prune", i) = Names(s, "prune", i)
  BY <1>10, <1>11
<1> QED
  BY <1>3, <1>4, <1>5, <1>7, <1>8, <1>9, <1>12 DEF dropped

\* delete_by_index: what the records name, for the IDs whose records were read and no other.
LEMMA DeleteByIndexPlan ==
  ASSUME Ix!IndexedAssumption, NEW records, DOMAIN records \in SUBSET Ids,
         \A i \in DOMAIN records : records[i] \subseteq Encoded,
         NEW l \in Ix!DeleteByIndex(records)
  PROVE  /\ l \in Seq(Commands) /\ Ordered(l)
         /\ Cmds(l) \subseteq {"unfile", "omit", "prune", "remove"}
         /\ \A c \in Elems(l) : /\ c.ids \subseteq DOMAIN records
                                /\ c.cmd = "unfile" => c.key \in Ix!MemberKeys
                                /\ c.cmd = "prune" => c.pairs \subseteq Encoded
         /\ \A i \in DOMAIN records :
              /\ Due(l, "remove", i) # {} /\ Due(l, "omit", i) # {}
              /\ records[i] \subseteq Names(l, "prune", i)
              /\ \A d \in records[i] : Ix!Undo(d) \in Owed(l, "unfile", i)
<1> DEFINE D == DOMAIN records
           Holds(k) == {i \in D : \E d \in records[i] : Ix!Undo(d) = k}
           keys == {k \in Ix!MemberKeys : Holds(k) # {}}
           o == Ix!Command("omit", <<>>, D, {})
           r == Ix!Command("remove", <<>>, D, {})
           f == [k \in keys |-> Ix!Command("unfile", k, Holds(k), {})]
           g == [i \in D |-> Ix!Command("prune", <<>>, {i}, records[i])]
           S == Ix!InOrder(keys, LAMBDA k : Ix!Command("unfile", k, Holds(k), {}))
           T == Ix!InOrder(D, LAMBDA i : Ix!Command("prune", <<>>, {i}, records[i]))
<1>1. \E s \in S : \E t \in T : l = s \o <<o>> \o t \o <<r>>
  <2>1. l \in UNION {{s \o <<o>> \o t \o <<r>> : t \in T} : s \in S}
    BY DEF Ix!DeleteByIndex
  <2> HIDE DEF S, T, o, r
  <2>2. PICK L \in {{s \o <<o>> \o t \o <<r>> : t \in T} : s \in S} : l \in L
    BY <2>1
  <2>3. PICK s \in S : L = {s \o <<o>> \o t \o <<r>> : t \in T}
    BY <2>2
  <2> QED
    BY <2>2, <2>3
<1>2. PICK s \in S : \E t \in T : l = s \o <<o>> \o t \o <<r>>
  BY <1>1
<1>3. PICK t \in T : l = s \o <<o>> \o t \o <<r>>
  BY <1>2
<1>4. IsFiniteSet(keys) /\ IsFiniteSet(D)
  BY EncodedFinite, FS_Subset
<1>5. \A k \in keys : /\ f[k] \in Commands /\ f[k].cmd = "unfile" /\ f[k].ids = Holds(k)
                      /\ f[k].key = k /\ k \in Ix!MemberKeys
  <2> SUFFICES ASSUME NEW k \in keys
               PROVE  /\ f[k] \in Commands /\ f[k].cmd = "unfile" /\ f[k].ids = Holds(k)
                      /\ f[k].key = k /\ k \in Ix!MemberKeys
    OBVIOUS
  <2>1. f[k] = Ix!Command("unfile", k, Holds(k), {})
    OBVIOUS
  <2>2. "unfile" \in Sent /\ Holds(k) \in SUBSET Ids /\ {} \in SUBSET (Pairs \cup Encoded)
        /\ k \in Ix!MemberKeys \cup {<<>>} /\ k \in Ix!MemberKeys
    BY DEF Sent
  <2> HIDE DEF f, Holds, keys
  <2> QED
    BY <2>1, <2>2, CommandIs
<1>6. \A i \in D : /\ g[i] \in Commands /\ g[i].cmd = "prune" /\ g[i].ids = {i}
                   /\ g[i].pairs = records[i]
  <2> SUFFICES ASSUME NEW i \in D
               PROVE  /\ g[i] \in Commands /\ g[i].cmd = "prune" /\ g[i].ids = {i}
                      /\ g[i].pairs = records[i]
    OBVIOUS
  <2> DEFINE R == records[i]
             c == g[i]
  <2>1. c = Ix!Command("prune", <<>>, {i}, R)
    OBVIOUS
  <2>2. "prune" \in Sent /\ {i} \in SUBSET Ids /\ R \in SUBSET (Pairs \cup Encoded)
        /\ <<>> \in Ix!MemberKeys \cup {<<>>}
    BY DEF Sent
  <2> HIDE DEF c, R
  <2>3. c \in Commands /\ c.cmd = "prune" /\ c.ids = {i} /\ c.pairs = R
    BY <2>1, <2>2, CommandIs
  <2> QED
    BY <2>3 DEF c, R
<1>7. o \in Commands /\ o.cmd = "omit" /\ o.ids = D
  <2>1. "omit" \in Sent /\ D \in SUBSET Ids /\ {} \in SUBSET (Pairs \cup Encoded)
        /\ <<>> \in Ix!MemberKeys \cup {<<>>}
    BY DEF Sent
  <2> QED
    BY <2>1, CommandIs
<1>8. r \in Commands /\ r.cmd = "remove" /\ r.ids = D
  <2>1. "remove" \in Sent /\ D \in SUBSET Ids /\ {} \in SUBSET (Pairs \cup Encoded)
        /\ <<>> \in Ix!MemberKeys \cup {<<>>}
    BY DEF Sent
  <2> QED
    BY <2>1, CommandIs
<1>9. s \in Seq(Commands) /\ Ordered(s) /\ Elems(s) = {f[k] : k \in keys}
  <2>1. PICK x \in [1..Cardinality(keys) -> keys] :
          /\ Ix!IsInjective(x)
          /\ s = [n \in DOMAIN x |-> Ix!Command("unfile", x[n], Holds(x[n]), {})]
    BY DEF Ix!InOrder, Ix!Cardinality, Cardinality
  <2>2. \A n \in DOMAIN x : x[n] \in keys
    OBVIOUS
  <2>3. DOMAIN s = DOMAIN x /\ s = [n \in DOMAIN s |-> s[n]]
        /\ \A n \in DOMAIN x : s[n] = f[x[n]]
    BY <2>1, <2>2
  <2>4. f \in [keys -> Commands] /\ \A y, z \in keys : ~Late(f[y].cmd, f[z].cmd)
    BY <1>5 DEF Late
  <2> HIDE DEF f, keys
  <2>5. s \in [DOMAIN x -> Commands]
    BY <2>2, <2>3, <2>4
  <2>6. Lists(s, keys, f)
    BY <2>1, <2>3, <2>5 DEF Lists
  <2> QED
    BY <1>4, <2>4, <2>6, Each
<1>10. t \in Seq(Commands) /\ Ordered(t) /\ Elems(t) = {g[i] : i \in D}
  <2>1. PICK x \in [1..Cardinality(D) -> D] :
          /\ Ix!IsInjective(x)
          /\ t = [n \in DOMAIN x |-> Ix!Command("prune", <<>>, {x[n]}, records[x[n]])]
    BY DEF Ix!InOrder, Ix!Cardinality, Cardinality
  <2>2. \A n \in DOMAIN x : x[n] \in D
    OBVIOUS
  <2>3. DOMAIN t = DOMAIN x /\ t = [n \in DOMAIN t |-> t[n]]
        /\ \A n \in DOMAIN x : t[n] = g[x[n]]
    BY <2>1, <2>2
  <2>4. g \in [D -> Commands] /\ \A y, z \in D : ~Late(g[y].cmd, g[z].cmd)
    BY <1>6 DEF Late
  <2> HIDE DEF g, D
  <2>5. t \in [DOMAIN x -> Commands]
    BY <2>2, <2>3, <2>4
  <2>6. Lists(t, D, g)
    BY <2>1, <2>3, <2>5 DEF Lists
  <2> QED
    BY <1>4, <2>4, <2>6, Each
<1>11. /\ <<o>> \in Seq(Commands) /\ Ordered(<<o>>) /\ Elems(<<o>>) = {o}
       /\ <<r>> \in Seq(Commands) /\ Ordered(<<r>>) /\ Elems(<<r>>) = {r}
  BY <1>7, <1>8, One
<1> HIDE DEF S, T
<1> DEFINE u == s \o <<o>>
           v == u \o t
           C == {f[k] : k \in keys} \cup {g[i] : i \in D} \cup {o, r}
<1>12. l = v \o <<r>>
  BY <1>3
<1> HIDE DEF o, r, f, g, v
<1>13. u \in Seq(Commands) /\ Ordered(u) /\ Elems(u) = {f[k] : k \in keys} \cup {o}
  <2>1. \A x \in Elems(s), y \in Elems(<<o>>) : ~Late(x.cmd, y.cmd)
    BY <1>5, <1>7, <1>9, <1>11 DEF Late
  <2>2. u \in Seq(Commands) /\ Ordered(u) /\ Elems(u) = Elems(s) \cup Elems(<<o>>)
    BY <1>9, <1>11, <2>1, Join
  <2> QED
    BY <1>9, <1>11, <2>2
<1> HIDE DEF u
<1>14. v \in Seq(Commands) /\ Ordered(v)
       /\ Elems(v) = {f[k] : k \in keys} \cup {o} \cup {g[i] : i \in D}
  <2>1. \A x \in Elems(u), y \in Elems(t) : ~Late(x.cmd, y.cmd)
    BY <1>5, <1>6, <1>7, <1>10, <1>13 DEF Late
  <2>2. v \in Seq(Commands) /\ Ordered(v) /\ Elems(v) = Elems(u) \cup Elems(t)
    BY <1>10, <1>13, <2>1, Join DEF v
  <2> QED
    BY <1>10, <1>13, <2>2
<1>15. l \in Seq(Commands) /\ Ordered(l) /\ Elems(l) = C
  <2>1. \A x \in Elems(v), y \in Elems(<<r>>) : ~Late(x.cmd, y.cmd)
    BY <1>5, <1>6, <1>7, <1>8, <1>11, <1>14 DEF Late
  <2>2. l \in Seq(Commands) /\ Ordered(l) /\ Elems(l) = Elems(v) \cup Elems(<<r>>)
    BY <1>11, <1>12, <1>14, <2>1, Join
  <2> QED
    BY <1>11, <1>14, <2>2
<1>16. Cmds(l) \subseteq {"unfile", "omit", "prune", "remove"}
  BY <1>5, <1>6, <1>7, <1>8, <1>15 DEF Cmds
<1>17. \A c \in Elems(l) : /\ c.ids \subseteq D
                           /\ c.cmd = "unfile" => c.key \in Ix!MemberKeys
                           /\ c.cmd = "prune" => c.pairs \subseteq Encoded
  BY <1>5, <1>6, <1>7, <1>8, <1>15
<1>18. ASSUME NEW i \in D
       PROVE  /\ Due(l, "remove", i) # {} /\ Due(l, "omit", i) # {}
              /\ records[i] \subseteq Names(l, "prune", i)
              /\ \A d \in records[i] : Ix!Undo(d) \in Owed(l, "unfile", i)
  <2>1. r \in Due(l, "remove", i) /\ o \in Due(l, "omit", i)
    BY <1>7, <1>8, <1>15 DEF Due
  <2>2. g[i] \in Due(l, "prune", i) /\ g[i].pairs = records[i]
    BY <1>6, <1>15 DEF Due
  <2>3. records[i] \subseteq Names(l, "prune", i)
    BY <2>2 DEF Names
  <2>4. ASSUME NEW d \in records[i] PROVE Ix!Undo(d) \in Owed(l, "unfile", i)
    <3> DEFINE k == Ix!Undo(d)
    <3>1. k \in Ix!MemberKeys
      BY KeysInRange
    <3>2. i \in Holds(k) /\ k \in keys
      BY <3>1
    <3> HIDE DEF k, Holds, keys
    <3>3. f[k] \in Due(l, "unfile", i) /\ f[k].key = k
      BY <1>5, <1>15, <3>2 DEF Due
    <3> QED
      BY <3>3 DEF Owed, k
  <2> QED
    BY <2>1, <2>3, <2>4
<1> QED
  BY <1>15, <1>16, <1>17, <1>18

-----------------------------------------------------------------------------
(* A command is sent *)

LEMMA PopShape ==
  ASSUME NEW o, NEW o2, Shape(o), o.todo # <<>>, Popped(o, o2)
  PROVE  Shape(o2) /\ o2.kind # "idle"
<1> DEFINE t == o.todo
           r == Tail(t)
<1>1. t \in Seq(Commands) /\ t # <<>> /\ Ordered(t)
  BY DEF Shape
<1>2. r \in Seq(Commands) /\ Ordered(r) /\ Elems(r) \subseteq Elems(t)
  BY <1>1, Pop
<1>3. Cmds(r) \subseteq Cmds(t)
  BY <1>2 DEF Cmds
<1>4. o.kind # "idle"
  <2>1. Ix!Idle.todo = <<>>
    BY DEF Ix!Idle
  <2> QED
    BY <2>1 DEF Shape
<1>5. /\ o2.todo = r /\ o2.kind = o.kind /\ o2.ids = o.ids /\ o2.pairs = o.pairs
      /\ o2.records = o.records
  BY DEF Popped
<1>6. \A c \in Elems(t) : Fits(c, o.ids, o.pairs)
  BY DEF Shape
<1>7. \A c \in Elems(r) : Fits(c, o.ids, o.pairs)
  BY <1>2, <1>6
<1>8. "replace" \in Cmds(r) => FALSE
  <2>1. \A c \in Elems(r) : ~Late(Head(t).cmd, c.cmd)
    BY <1>1, Pop
  <2>2. \A c \in Elems(r) : c.cmd # "replace"
    BY <2>1 DEF Late
  <2> QED
    BY <2>2 DEF Cmds
<1> HIDE DEF t, r
<1>9. Plans(o2)
  <2>1. Plans(o) /\ t = o.todo
    BY DEF Shape, t
  <2> QED
    BY <1>3, <1>5, <1>8, <2>1 DEF Plans
<1>10. /\ o.kind \in {"idle", "create", "update", "delete"} \cup Lookups
       /\ o.kind \in {"create", "update", "delete"} => \E i \in Ids : o.ids = {i}
       /\ o.ids \subseteq Ids /\ o.pairs \subseteq Pairs
       /\ "lookup" \in Cmds(t) => o.ids = {}
       /\ Cmds(t) \cap {"lookup", "classify", "sweep"} # {} => DOMAIN o.records = {}
       /\ DOMAIN o.records \subseteq o.ids
       /\ \A i \in DOMAIN o.records : o.records[i] \subseteq Encoded
  BY DEF Shape, t
<1>11. /\ o2.kind \in {"idle", "create", "update", "delete"} \cup Lookups
       /\ o2.kind \in {"create", "update", "delete"} => \E i \in Ids : o2.ids = {i}
       /\ o2.ids \subseteq Ids /\ o2.pairs \subseteq Pairs
       /\ DOMAIN o2.records \subseteq o2.ids
       /\ \A i \in DOMAIN o2.records : o2.records[i] \subseteq Encoded
  BY <1>5, <1>10
<1>12. /\ "lookup" \in Cmds(r) => o2.ids = {}
       /\ Cmds(r) \cap {"lookup", "classify", "sweep"} # {} => DOMAIN o2.records = {}
  BY <1>3, <1>5, <1>10
<1> QED
  BY <1>2, <1>4, <1>5, <1>7, <1>9, <1>11, <1>12 DEF Shape

\* No command later in the list undoes what this one does.
LEMMA NamedPop ==
  ASSUME NEW o, Shape(o), o.todo # <<>>, NEW i, Head(o.todo).cmd \in Simple,
         NEW E, NEW l, NEW F, NEW R, NEW E2, NEW l2, NEW F2, NEW R2,
         Effect(o, i, E, l, F, R, E2, l2, F2, R2), Named(o.todo, i, F, R)
  PROVE  /\ Named(Tail(o.todo), i, F2, R2)
         /\ Held(Tail(o.todo), i, F2) = Held(o.todo, i, F)
<1> DEFINE t == o.todo
           r == Tail(t)
           h == Head(t)
           file == Owed(r, "file", i)
           unfile == Owed(r, "unfile", i)
           record_ == Names(r, "record", i)
           prune == Names(r, "prune", i)
<1>1. t \in Seq(Commands) /\ t # <<>> /\ Ordered(t)
  BY DEF Shape
<1>2. \A c \in Elems(r) : ~Late(h.cmd, c.cmd)
  BY <1>1, Pop
<1>3. /\ h.cmd \in {"file", "prune"} => unfile = {}
      /\ h.cmd = "record" => prune = {}
  <2>1. /\ h.cmd \in {"file", "prune"} => "unfile" \notin Cmds(r)
        /\ h.cmd = "record" => "prune" \notin Cmds(r)
    BY <1>2 DEF Late, Cmds
  <2> QED
    BY <2>1, Absent
<1>4. /\ IF h.cmd = "file" /\ i \in h.ids THEN Owed(t, "file", i) = {h.key} \cup file
         ELSE Owed(t, "file", i) = file
      /\ IF h.cmd = "unfile" /\ i \in h.ids THEN Owed(t, "unfile", i) = {h.key} \cup unfile
         ELSE Owed(t, "unfile", i) = unfile
      /\ IF h.cmd = "record" /\ i \in h.ids THEN Names(t, "record", i) = h.pairs \cup record_
         ELSE Names(t, "record", i) = record_
      /\ IF h.cmd = "prune" /\ i \in h.ids THEN Names(t, "prune", i) = h.pairs \cup prune
         ELSE Names(t, "prune", i) = prune
  BY <1>1, Pops
<1>5. /\ F2 = IF h.cmd = "file" /\ i \in h.ids THEN F \cup {h.key}
              ELSE IF h.cmd = "unfile" /\ i \in h.ids THEN F \ {h.key} ELSE F
      /\ \/ R2 = IF h.cmd = "record" /\ i \in h.ids THEN R \cup h.pairs
                 ELSE IF h.cmd = "prune" /\ i \in h.ids THEN R \ h.pairs ELSE R
         \/ h.cmd = "prune" /\ R2 = R
  BY DEF Effect
<1> HIDE DEF t, r, h, file, unfile, record_, prune
<1>6. Held(r, i, F2) = Held(t, i, F)
  BY <1>3, <1>4, <1>5 DEF Held, file, unfile
<1>7. Kept(t, i, R) \subseteq Kept(r, i, R2)
  BY <1>3, <1>4, <1>5 DEF Kept, record_, prune
<1>8. /\ \A k \in GoodKeys \cap F : Covers(R \cup Names(t, "record", i), k)
      /\ \A k \in GoodKeys \cap Held(t, i, F) : Covers(Kept(t, i, R), k)
  BY DEF Named, t
<1>9. \A k \in GoodKeys \cap Held(r, i, F2) : Covers(Kept(r, i, R2), k)
  BY <1>6, <1>7, <1>8 DEF Covers
<1>10. \A k \in GoodKeys \cap F2 : Covers(R2 \cup Names(r, "record", i), k)
  <2>1. CASE h.cmd = "prune"
    <3>1. F2 \subseteq Held(r, i, F2)
      BY <1>3, <2>1 DEF Held, unfile
    <3>2. Kept(r, i, R2) \subseteq R2 \cup Names(r, "record", i)
      BY DEF Kept
    <3> QED
      BY <1>9, <3>1, <3>2 DEF Covers
  <2>2. CASE h.cmd = "file"
    <3>1. F2 \subseteq Held(r, i, F2)
      BY <1>3, <2>2 DEF Held, unfile
    <3>2. Kept(r, i, R2) \subseteq R2 \cup Names(r, "record", i)
      BY DEF Kept
    <3> QED
      BY <1>9, <3>1, <3>2 DEF Covers
  <2>3. CASE h.cmd \notin {"prune", "file"}
    <3>1. F2 \subseteq F
      BY <1>5, <2>3
    <3>2. R \cup Names(t, "record", i) \subseteq R2 \cup Names(r, "record", i)
      BY <1>4, <1>5, <2>3 DEF record_
    <3> QED
      BY <1>8, <3>1, <3>2 DEF Covers
  <2> QED
    BY <2>1, <2>2, <2>3
<1> QED
  BY <1>6, <1>9, <1>10 DEF Named, t, r

LEMMA UndonePop ==
  ASSUME NEW o, Shape(o), o.todo # <<>>, NEW i, o.kind # "update",
         Head(o.todo).cmd \in {"unfile", "prune", "remove", "omit"},
         NEW E, NEW l, NEW F, NEW R, NEW E2, NEW l2, NEW F2, NEW R2,
         Effect(o, i, E, l, F, R, E2, l2, F2, R2), Undone(o.todo, i, E, l, R)
  PROVE  Undone(Tail(o.todo), i, E2, l2, R2)
<1> DEFINE t == o.todo
           r == Tail(t)
           h == Head(t)
<1>1. t \in Seq(Commands) /\ t # <<>>
  BY DEF Shape
<1>2. /\ ~(h.cmd = "remove" /\ i \in h.ids) => Due(t, "remove", i) = Due(r, "remove", i)
      /\ ~(h.cmd = "omit" /\ i \in h.ids) => Due(t, "omit", i) = Due(r, "omit", i)
      /\ IF h.cmd = "prune" /\ i \in h.ids
         THEN Names(t, "prune", i) = h.pairs \cup Names(r, "prune", i)
         ELSE Names(t, "prune", i) = Names(r, "prune", i)
      /\ Cmds(t) = {h.cmd} \cup Cmds(r)
  BY <1>1, Pops
<1>3. /\ R2 = IF h.cmd = "prune" /\ i \in h.ids THEN R \ h.pairs ELSE R
      /\ E2 = IF h.cmd = "remove" /\ i \in h.ids THEN None ELSE E
      /\ i \in l2 <=> IF h.cmd = "omit" /\ i \in h.ids THEN FALSE ELSE i \in l
  BY DEF Effect
<1>4. Undone(t, i, E, l, R) /\ h.cmd # "undo"
  OBVIOUS
<1> HIDE DEF t, r, h
<1>5. E2 = None \/ Due(r, "remove", i) # {}
  BY <1>2, <1>3, <1>4 DEF Undone
<1>6. i \notin l2 \/ Due(r, "omit", i) # {}
  BY <1>2, <1>3, <1>4 DEF Undone
<1>7. "undo" \in Cmds(r) \/ R2 \subseteq Names(r, "prune", i)
  <2>1. "undo" \in Cmds(t) \/ R \subseteq Names(t, "prune", i)
    BY <1>4 DEF Undone
  <2> QED
    BY <1>2, <1>3, <1>4, <2>1
<1> QED
  BY <1>5, <1>6, <1>7 DEF Undone, t, r

\* One command of an operation keeps what the operation owes to an ID it works on.
LEMMA WorkPop ==
  ASSUME NEW o, NEW o2, Shape(o), o.todo # <<>>, Popped(o, o2), NEW i,
         Head(o.todo).cmd \in Simple,
         NEW E, NEW l, NEW F, NEW R, NEW E2, NEW l2, NEW F2, NEW R2,
         Effect(o, i, E, l, F, R, E2, l2, F2, R2), Work(o, i, E, l, F, R)
  PROVE  /\ Work(o2, i, E2, l2, F2, R2)
         /\ o.kind \in Lookups /\ Clean(i, E, l, F) => Clean(i, E2, l2, F2)
<1> DEFINE t == o.todo
           r == Tail(t)
           h == Head(t)
<1>1. t \in Seq(Commands) /\ t # <<>> /\ t = o.todo /\ h \in Elems(t)
  BY Pop DEF Shape
<1>2. /\ o2.todo = r /\ o2.kind = o.kind /\ o2.ids = o.ids /\ o2.pairs = o.pairs
      /\ o2.records = o.records
  BY DEF Popped
<1>3. Cmds(t) = {h.cmd} \cup Cmds(r)
  BY <1>1, Pops
<1>4. /\ F2 = IF h.cmd = "file" /\ i \in h.ids THEN F \cup {h.key}
              ELSE IF h.cmd = "unfile" /\ i \in h.ids THEN F \ {h.key} ELSE F
      /\ E2 = IF h.cmd = "put" /\ i \in h.ids THEN h.pairs
              ELSE IF h.cmd = "remove" /\ i \in h.ids THEN None ELSE E
      /\ i \in l2 <=> IF h.cmd = "enumerate" /\ i \in h.ids THEN TRUE
                      ELSE IF h.cmd = "omit" /\ i \in h.ids THEN FALSE ELSE i \in l
  BY DEF Effect
<1>5. Named(r, i, F2, R2) /\ Held(r, i, F2) = Held(t, i, F)
  BY NamedPop DEF Work
<1>6. Plans(o) /\ h.cmd \in Simple /\ Fits(h, o.ids, o.pairs)
  BY <1>1 DEF Shape
<1>7. /\ Due(t, "sweep", i) # {} => E = None
      /\ o.kind = "create" => Creating(o, i, E, F)
      /\ o.kind = "update" => Updating(o, i, E, F)
      /\ o.kind = "delete" => Undone(t, i, E, l, R)
      /\ o.kind = "by_index" => Found(E, F)
      /\ o.kind = "delete_by_index" => Deleting(o, i, E, l, F, R)
  BY DEF Work
<1>8. /\ Cmds(t) \cap {"sweep", "undo", "classify", "gather"} = {}
      /\ o.kind # "by_index"
      /\ o.kind = "create" => h.cmd \in {"file", "record", "enumerate", "put"}
      /\ o.kind = "update" => /\ h.cmd \in {"unfile", "prune", "file", "record"}
                             /\ Cmds(t) \cap {"replace", "refile"} = {} /\ o.pairs # {}
      /\ o.kind = "delete" => h.cmd \in {"unfile", "prune", "remove", "omit"}
      /\ o.kind = "delete_by_index" => h.cmd \in {"unfile", "prune", "remove", "omit"}
  <2>1. o.kind \in {"create", "update", "delete", "by_index", "delete_by_index"}
    <3>1. o2.kind # "idle"
      BY PopShape
    <3> QED
      BY <1>2, <3>1 DEF Shape, Lookups
  <2>2. h.cmd \in Cmds(t)
    BY <1>3
  <2> HIDE DEF t, r, h
  <2>3. CASE o.kind = "create"
    BY <1>1, <1>6, <2>2, <2>3 DEF Plans, Simple
  <2>4. CASE o.kind = "update"
    BY <1>1, <1>6, <2>2, <2>4 DEF Plans, Simple
  <2>5. CASE o.kind = "delete"
    <3>1. "undo" \notin Cmds(t)
      <4>1. \A c \in Elems(r) : c.cmd # "undo"
        BY <1>1, Pop DEF Shape, Late, t, r
      <4>2. h.cmd # "undo"
        BY <1>6 DEF Simple
      <4> QED
        BY <1>3, <4>1, <4>2 DEF Cmds
    <3> QED
      BY <1>1, <1>6, <2>2, <2>5, <3>1 DEF Plans, Simple
  <2>6. CASE o.kind = "by_index"
    BY <1>1, <1>6, <2>2, <2>6 DEF Plans, Simple
  <2>7. CASE o.kind = "delete_by_index"
    BY <1>1, <1>6, <2>2, <2>7 DEF Plans, Simple
  <2> QED
    BY <2>1, <2>3, <2>4, <2>5, <2>6, <2>7
<1> HIDE DEF t, r, h
<1>9. Due(r, "sweep", i) # {} => E2 = None
  <2>1. "sweep" \notin Cmds(r)
    BY <1>3, <1>8
  <2> QED
    BY <2>1, Absent
<1>10. o.kind = "create" => Creating(o2, i, E2, F2)
  <2> SUFFICES ASSUME o.kind = "create" PROVE Creating(o2, i, E2, F2)
    OBVIOUS
  <2>1. Filing(o2, i, F2)
    BY <1>1, <1>2, <1>5, <1>7 DEF Creating, Filing
  <2>2. E2 \in {None, o2.pairs} \/ Due(o2.todo, "put", i) # {}
    <3>1. CASE h.cmd = "put" /\ i \in h.ids
      BY <1>2, <1>4, <1>6, <3>1 DEF Fits
    <3>2. CASE ~(h.cmd = "put" /\ i \in h.ids)
      <4>1. Due(t, "put", i) = Due(r, "put", i)
        BY <1>1, <3>2, Pops DEF t, r, h
      <4>2. E2 = E
        BY <1>4, <1>8, <3>2
      <4> QED
        BY <1>1, <1>2, <1>7, <4>1, <4>2 DEF Creating
    <3> QED
      BY <3>1, <3>2
  <2> QED
    BY <2>1, <2>2 DEF Creating
<1>11. o.kind = "update" => Updating(o2, i, E2, F2)
  <2> SUFFICES ASSUME o.kind = "update" PROVE Updating(o2, i, E2, F2)
    OBVIOUS
  <2>1. E2 = E
    BY <1>4, <1>8
  <2>2. Cmds(o.todo) \cap {"replace", "refile"} = {} /\ "replace" \notin Cmds(r)
    BY <1>1, <1>3, <1>8
  <2>3. CASE o.pairs = {} /\ Found(E, F)
    BY <1>8, <2>3
  <2>4. CASE E \in {None, o.pairs} /\ Filing(o, i, F)
    <3>1. Filing(o2, i, F2)
      BY <1>1, <1>2, <1>5, <2>4 DEF Filing
    <3> QED
      BY <1>2, <2>1, <2>2, <2>4, <3>1 DEF Updating
  <2> QED
    BY <1>7, <2>2, <2>3, <2>4 DEF Updating
<1>12. o.kind = "delete" => Undone(r, i, E2, l2, R2)
  BY <1>1, <1>7, <1>8, UndonePop DEF t, r, h
<1>13. o.kind = "delete_by_index" => Deleting(o2, i, E2, l2, F2, R2)
  <2> SUFFICES ASSUME o.kind = "delete_by_index" PROVE Deleting(o2, i, E2, l2, F2, R2)
    OBVIOUS
  <2>1. IF i \in DOMAIN o.records THEN Undone(t, i, E, l, R) ELSE E = None
    BY <1>1, <1>7, <1>8 DEF Deleting
  <2>2. "classify" \notin Cmds(r) /\ "gather" \notin Cmds(r)
    BY <1>3, <1>8
  <2>3. i \in DOMAIN o.records => Undone(r, i, E2, l2, R2)
    BY <1>1, <1>8, <2>1, UndonePop DEF t, r, h
  <2>4. i \notin DOMAIN o.records => E2 = None
    BY <1>4, <1>8, <2>1
  <2> QED
    BY <1>2, <2>2, <2>3, <2>4 DEF Deleting
<1>14. o.kind \in Lookups /\ Clean(i, E, l, F) => Clean(i, E2, l2, F2)
  <2> SUFFICES ASSUME o.kind \in Lookups, Clean(i, E, l, F) PROVE Clean(i, E2, l2, F2)
    OBVIOUS
  <2>1. h.cmd \in {"unfile", "prune", "remove", "omit"}
    BY <1>8 DEF Lookups
  <2>2. F2 \subseteq F
    BY <1>4, <2>1
  <2> QED
    BY <1>4, <2>1, <2>2 DEF Clean
<1> QED
  BY <1>2, <1>5, <1>8, <1>9, <1>10, <1>11, <1>12, <1>13, <1>14 DEF Work

-----------------------------------------------------------------------------
(* The invariant, and what a step has to show of it *)

IxTypes ==
  /\ DOMAIN stored = Ids
  /\ member \in [Ix!MemberKeys -> SUBSET Ids]
  /\ record \in [Ids -> SUBSET Encoded]
  /\ DOMAIN running = Actors
  /\ \A a \in Actors : IsOp(running[a]) /\ Shape(running[a])

\* Operations on an ID at the same time have made it met.
Separate == \A a, b \in Actors : a # b => running[a].ids \cap running[b].ids \subseteq met

At(o, i) == Work(o, i, stored[i], listed, FiledAt(i), record[i])
AtRest(i) == Rest(i, stored[i], FiledAt(i), record[i])
Cleaned(i) == Clean(i, stored[i], listed, FiledAt(i))

Agreed(i) ==
  /\ (\A a \in Actors : i \notin running[a].ids) => AtRest(i)
  /\ \A a \in Actors : i \in running[a].ids => At(running[a], i)
  /\ i \in gone => Cleaned(i) /\ \A a \in Actors : i \in running[a].ids => running[a].kind \in Lookups

IxInv == IxTypes /\ Separate /\ \A i \in Ids \ (met \cup cut) : Agreed(i)

\* A step that is no business of i.
Untouched(i) ==
  /\ stored'[i] = stored[i] /\ record'[i] = record[i]
  /\ i \in listed' <=> i \in listed
  /\ FiledAt(i)' = FiledAt(i)

LEMMA SameView ==
  ASSUME NEW o, NEW i, NEW E, NEW l, NEW F, NEW R, NEW l2, i \in l <=> i \in l2
  PROVE  /\ Work(o, i, E, l, F, R) => Work(o, i, E, l2, F, R)
         /\ Clean(i, E, l, F) => Clean(i, E, l2, F)
<1>1. Undone(o.todo, i, E, l, R) => Undone(o.todo, i, E, l2, R)
  BY DEF Undone
<1>2. Deleting(o, i, E, l, F, R) => Deleting(o, i, E, l2, F, R)
  BY <1>1 DEF Deleting
<1>3. Work(o, i, E, l, F, R) => Work(o, i, E, l2, F, R)
  BY <1>1, <1>2 DEF Work
<1>4. Clean(i, E, l, F) => Clean(i, E, l2, F)
  BY DEF Clean
<1> QED
  BY <1>3, <1>4

LEMMA UntouchedIs ==
  ASSUME NEW i, Untouched(i)
  PROVE  /\ AtRest(i) => AtRest(i)'
         /\ \A o : At(o, i) => Work(o, i, stored'[i], listed', FiledAt(i)', record'[i])
         /\ Cleaned(i) => Cleaned(i)'
<1>1. AtRest(i) => AtRest(i)'
  BY DEF Untouched, AtRest
<1>2. ASSUME NEW o, At(o, i) PROVE Work(o, i, stored'[i], listed', FiledAt(i)', record'[i])
  <2>1. Work(o, i, stored[i], listed, FiledAt(i), record[i])
    BY <1>2 DEF At
  <2>2. Work(o, i, stored[i], listed', FiledAt(i), record[i])
    BY <2>1, SameView DEF Untouched
  <2> QED
    BY <2>2 DEF Untouched
<1>3. ASSUME Cleaned(i) PROVE Cleaned(i)'
  <2>1. Clean(i, stored[i], listed', FiledAt(i))
    BY <1>3, SameView DEF Untouched, Cleaned
  <2> QED
    BY <2>1 DEF Untouched, Cleaned
<1> QED
  BY <1>1, <1>2, <1>3

\* One operation goes on: what it does to its own IDs is enough.
LEMMA CarriesOn ==
  ASSUME IxInv, NEW a \in Actors, NEW o2,
         running' = [running EXCEPT ![a] = o2], IsOp(o2), Shape(o2),
         o2.kind = running[a].kind, o2.ids = running[a].ids,
         met' = met, cut' = cut, gone' = gone,
         DOMAIN stored' = Ids, member' \in [Ix!MemberKeys -> SUBSET Ids],
         record' \in [Ids -> SUBSET Encoded],
         \A i \in Ids \ running[a].ids : Untouched(i),
         \A i \in running[a].ids \ (met \cup cut) : At(running[a], i) =>
            /\ Work(o2, i, stored'[i], listed', FiledAt(i)', record'[i])
            /\ o2.kind \in Lookups /\ Cleaned(i) => Cleaned(i)'
  PROVE  IxInv'
<1>1. DOMAIN running = Actors /\ DOMAIN running' = Actors
  BY DEF IxInv, IxTypes
<1>2. running'[a] = o2 /\ \A b \in Actors : b # a => running'[b] = running[b]
  BY <1>1
<1>3. \A b \in Actors : running'[b].ids = running[b].ids /\ running'[b].kind = running[b].kind
  BY <1>2
<1>4. IxTypes'
  <2>1. \A b \in Actors : IsOp(running'[b]) /\ Shape(running'[b])
    BY <1>2 DEF IxInv, IxTypes
  <2> QED
    BY <1>1, <2>1 DEF IxTypes
<1>5. Separate'
  BY <1>3 DEF IxInv, Separate
<1>6. ASSUME NEW i \in Ids \ (met \cup cut) PROVE Agreed(i)'
  <2>1. /\ (\A b \in Actors : i \notin running[b].ids) => AtRest(i)
        /\ \A b \in Actors : i \in running[b].ids => At(running[b], i)
        /\ i \in gone => /\ Cleaned(i)
                         /\ \A b \in Actors : i \in running[b].ids => running[b].kind \in Lookups
    BY DEF IxInv, Agreed
  <2>2. CASE i \in running[a].ids
    <3>1. At(running[a], i)
      BY <2>1, <2>2
    <3>2. /\ Work(o2, i, stored'[i], listed', FiledAt(i)', record'[i])
          /\ o2.kind \in Lookups /\ Cleaned(i) => Cleaned(i)'
      BY <2>2, <3>1
    <3>3. \A b \in Actors : i \in running'[b].ids => b = a
      BY <1>3, <2>2 DEF IxInv, Separate
    <3>4. i \in running'[a].ids
      BY <1>3, <2>2
    <3>5. \A b \in Actors : i \in running'[b].ids => At(running[b], i)'
      BY <1>2, <3>2, <3>3 DEF At
    <3>6. i \in gone' => /\ Cleaned(i)'
                        /\ \A b \in Actors : i \in running'[b].ids => running'[b].kind \in Lookups
      BY <1>3, <2>1, <2>2, <3>2
    <3> QED
      BY <3>4, <3>5, <3>6 DEF Agreed
  <2>3. CASE i \notin running[a].ids
    <3>1. Untouched(i)
      BY <2>3
    <3>2. AtRest(i) => AtRest(i)'
      BY <3>1, UntouchedIs
    <3>3. \A b \in Actors : i \in running'[b].ids => At(running[b], i)'
      <4> SUFFICES ASSUME NEW b \in Actors, i \in running'[b].ids PROVE At(running[b], i)'
        OBVIOUS
      <4>1. b # a /\ At(running[b], i) /\ running'[b] = running[b]
        BY <1>2, <1>3, <2>1, <2>3
      <4>2. Work(running[b], i, stored'[i], listed', FiledAt(i)', record'[i])
        BY <3>1, <4>1, UntouchedIs
      <4> QED
        BY <4>1, <4>2 DEF At
    <3>4. Cleaned(i) => Cleaned(i)'
      BY <3>1, UntouchedIs
    <3> QED
      BY <1>3, <2>1, <3>2, <3>3, <3>4 DEF Agreed
  <2> QED
    BY <2>2, <2>3
<1> QED
  BY <1>4, <1>5, <1>6 DEF IxInv

-----------------------------------------------------------------------------
(* The actions *)

LEMMA AdvanceIs ==
  ASSUME IxInv, NEW a \in Actors, NEW more, Ix!Advance(a, more)
  PROVE  LET o == running[a]
             o2 == running'[a]
         IN /\ running' = [running EXCEPT ![a] = o2]
            /\ IsOp(o2) /\ o2.todo = more \o Tail(o.todo)
            /\ o2.kind = o.kind /\ o2.ids = o.ids /\ o2.pairs = o.pairs /\ o2.records = o.records
<1> DEFINE o == running[a]
           u == more \o Tail(o.todo)
           o2 == [o EXCEPT !.todo = u]
<1>1. running' = [running EXCEPT ![a] = o2]
  BY DEF Ix!Advance
<1>2. DOMAIN running = Actors /\ IsOp(o)
  BY DEF IxInv, IxTypes
<1> HIDE DEF o, u
<1>3. o = [kind |-> o.kind, todo |-> o.todo, ids |-> o.ids, pairs |-> o.pairs,
           left |-> o.left, records |-> o.records]
  BY <1>2 DEF IsOp
<1>4. o2 = [kind |-> o.kind, todo |-> u, ids |-> o.ids, pairs |-> o.pairs,
            left |-> o.left, records |-> o.records]
  BY <1>3
<1> HIDE DEF o2
<1>5. /\ o2.todo = u /\ o2.kind = o.kind /\ o2.ids = o.ids /\ o2.pairs = o.pairs
      /\ o2.records = o.records /\ o2.left = o.left
  BY <1>4
<1>6. IsOp(o2)
  BY <1>4, <1>5 DEF IsOp
<1>7. running'[a] = o2
  BY <1>1, <1>2
<1> QED
  BY <1>1, <1>5, <1>6, <1>7 DEF o, u

\* Sending one of the simple commands.
LEMMA SimpleStep ==
  ASSUME IxInv, NEW a \in Actors, running[a].todo # <<>>, Head(running[a].todo).cmd \in Simple,
         Ix!Advance(a, <<>>), met' = met, cut' = cut, gone' = gone,
         DOMAIN stored' = Ids, member' \in [Ix!MemberKeys -> SUBSET Ids],
         record' \in [Ids -> SUBSET Encoded],
         \A i \in Ids : Effect(running[a], i, stored[i], listed, FiledAt(i), record[i],
                               stored'[i], listed', FiledAt(i)', record'[i])
  PROVE  IxInv'
<1> DEFINE o == running[a]
           o2 == running'[a]
           h == Head(o.todo)
<1>1. Shape(o)
  BY DEF IxInv, IxTypes
<1>2. o.todo \in Seq(Commands) /\ h \in Elems(o.todo)
  BY <1>1, Pop DEF Shape
<1>3. Tail(o.todo) \in Seq(Commands)
  BY <1>2, Pop
<1>4. /\ running' = [running EXCEPT ![a] = o2]
      /\ IsOp(o2) /\ o2.todo = Tail(o.todo)
      /\ o2.kind = o.kind /\ o2.ids = o.ids /\ o2.pairs = o.pairs /\ o2.records = o.records
  BY <1>3, AdvanceIs, ConcatEmptySeq
<1>5. Popped(o, o2)
  BY <1>4 DEF Popped
<1>6. Shape(o2)
  BY <1>1, <1>5, PopShape
<1>7. h.ids \subseteq o.ids /\ h.cmd \in Simple
  BY <1>1, <1>2 DEF Shape, Fits
<1>8. ASSUME NEW i \in Ids \ o.ids PROVE Untouched(i)
  <2>1. i \notin h.ids
    BY <1>7
  <2>2. Effect(o, i, stored[i], listed, FiledAt(i), record[i],
               stored'[i], listed', FiledAt(i)', record'[i])
    OBVIOUS
  <2> QED
    BY <2>1, <2>2 DEF Effect, Untouched
<1>9. ASSUME NEW i \in o.ids, At(o, i)
      PROVE  /\ Work(o2, i, stored'[i], listed', FiledAt(i)', record'[i])
             /\ o2.kind \in Lookups /\ Cleaned(i) => Cleaned(i)'
  <2>1. i \in Ids
    BY <1>1 DEF Shape
  <2>2. Effect(o, i, stored[i], listed, FiledAt(i), record[i],
               stored'[i], listed', FiledAt(i)', record'[i])
    BY <2>1
  <2>3. Work(o, i, stored[i], listed, FiledAt(i), record[i])
    BY <1>9 DEF At
  <2>4. /\ Work(o2, i, stored'[i], listed', FiledAt(i)', record'[i])
        /\ o.kind \in Lookups /\ Clean(i, stored[i], listed, FiledAt(i))
           => Clean(i, stored'[i], listed', FiledAt(i)')
    BY <1>1, <1>5, <1>7, <2>2, <2>3, WorkPop
  <2> QED
    BY <1>4, <2>4 DEF Cleaned
<1> HIDE DEF o2
<1> QED
  BY <1>4, <1>6, <1>8, <1>9, CarriesOn

\* The head of a list that is not empty.
LEMMA Sends ==
  ASSUME IxInv, NEW a \in Actors, NEW cmd, Ix!Sending(a, cmd)
  PROVE  LET o == running[a]
             h == Head(o.todo)
         IN /\ Shape(o) /\ o.todo # <<>> /\ h = Ix!Next1(a) /\ h.cmd = cmd
            /\ h \in Commands /\ h \in Elems(o.todo) /\ Fits(h, o.ids, o.pairs)
            /\ h.ids \subseteq o.ids /\ o.ids \subseteq Ids
<1>1. Shape(running[a])
  BY DEF IxInv, IxTypes
<1>2. running[a].todo # <<>> /\ Ix!Next1(a) = Head(running[a].todo) /\ Ix!Next1(a).cmd = cmd
  BY DEF Ix!Sending, Ix!Next1
<1>3. Head(running[a].todo) \in Commands /\ Head(running[a].todo) \in Elems(running[a].todo)
  BY <1>1, <1>2, Pop DEF Shape
<1> QED
  BY <1>1, <1>2, <1>3 DEF Shape, Fits

LEMMA FileStep ==
  ASSUME IxInv, NEW a \in Actors, Ix!File(a)
  PROVE  IxInv'
<1> DEFINE h == Head(running[a].todo)
<1>1. Ix!Sending(a, "file")
  BY DEF Ix!File
<1>2. /\ running[a].todo # <<>> /\ h = Ix!Next1(a) /\ h.cmd = "file"
      /\ h.ids \subseteq Ids /\ h.key \in Ix!MemberKeys
  BY <1>1, Sends DEF Fits
<1>3. /\ member' = [member EXCEPT ![h.key] = member[h.key] \cup h.ids]
      /\ Ix!Advance(a, <<>>)
      /\ stored' = stored /\ listed' = listed /\ record' = record /\ gone' = gone
      /\ met' = met /\ cut' = cut
  BY <1>2 DEF Ix!File
<1>4. /\ DOMAIN stored = Ids /\ member \in [Ix!MemberKeys -> SUBSET Ids]
      /\ record \in [Ids -> SUBSET Encoded]
  BY DEF IxInv, IxTypes
<1> HIDE DEF h
<1>5. member' \in [Ix!MemberKeys -> SUBSET Ids]
  BY <1>2, <1>3, <1>4
<1>6. ASSUME NEW i \in Ids
      PROVE  FiledAt(i)' = IF i \in h.ids THEN FiledAt(i) \cup {h.key} ELSE FiledAt(i)
  BY <1>2, <1>3, <1>4 DEF FiledAt
<1>7. \A i \in Ids : Effect(running[a], i, stored[i], listed, FiledAt(i), record[i],
                            stored'[i], listed', FiledAt(i)', record'[i])
  BY <1>2, <1>3, <1>6 DEF Effect, h
<1> QED
  BY <1>2, <1>3, <1>4, <1>5, <1>7, SimpleStep DEF Simple, h

LEMMA UnfileStep ==
  ASSUME IxInv, NEW a \in Actors, Ix!Unfile(a)
  PROVE  IxInv'
<1> DEFINE h == Head(running[a].todo)
<1>1. Ix!Sending(a, "unfile")
  BY DEF Ix!Unfile
<1>2. /\ running[a].todo # <<>> /\ h = Ix!Next1(a) /\ h.cmd = "unfile"
      /\ h.ids \subseteq Ids /\ h.key \in Ix!MemberKeys
  BY <1>1, Sends DEF Fits
<1>3. /\ member' = [member EXCEPT ![h.key] = member[h.key] \ h.ids]
      /\ Ix!Advance(a, <<>>)
      /\ stored' = stored /\ listed' = listed /\ record' = record /\ gone' = gone
      /\ met' = met /\ cut' = cut
  BY <1>2 DEF Ix!Unfile
<1>4. /\ DOMAIN stored = Ids /\ member \in [Ix!MemberKeys -> SUBSET Ids]
      /\ record \in [Ids -> SUBSET Encoded]
  BY DEF IxInv, IxTypes
<1> HIDE DEF h
<1>5. member' \in [Ix!MemberKeys -> SUBSET Ids]
  BY <1>2, <1>3, <1>4
<1>6. ASSUME NEW i \in Ids
      PROVE  FiledAt(i)' = IF i \in h.ids THEN FiledAt(i) \ {h.key} ELSE FiledAt(i)
  BY <1>2, <1>3, <1>4 DEF FiledAt
<1>7. \A i \in Ids : Effect(running[a], i, stored[i], listed, FiledAt(i), record[i],
                            stored'[i], listed', FiledAt(i)', record'[i])
  BY <1>2, <1>3, <1>6 DEF Effect, h
<1> QED
  BY <1>2, <1>3, <1>4, <1>5, <1>7, SimpleStep DEF Simple, h

LEMMA RecordStep ==
  ASSUME IxInv, NEW a \in Actors, Ix!Record(a)
  PROVE  IxInv'
<1> DEFINE h == Head(running[a].todo)
<1>1. Ix!Sending(a, "record")
  BY DEF Ix!Record
<1>2. /\ running[a].todo # <<>> /\ h = Ix!Next1(a) /\ h.cmd = "record"
      /\ h.ids \subseteq Ids /\ h.pairs \subseteq Encoded
  BY <1>1, Sends DEF Fits
<1>3. /\ record' = [i \in Ids |-> IF i \in h.ids THEN record[i] \cup h.pairs ELSE record[i]]
      /\ Ix!Advance(a, <<>>)
      /\ stored' = stored /\ listed' = listed /\ member' = member /\ gone' = gone
      /\ met' = met /\ cut' = cut
  BY <1>2 DEF Ix!Record
<1>4. /\ DOMAIN stored = Ids /\ member \in [Ix!MemberKeys -> SUBSET Ids]
      /\ record \in [Ids -> SUBSET Encoded]
  BY DEF IxInv, IxTypes
<1> HIDE DEF h
<1>5. record' \in [Ids -> SUBSET Encoded]
  BY <1>2, <1>3, <1>4
<1>6. \A i \in Ids : FiledAt(i)' = FiledAt(i)
  BY <1>3 DEF FiledAt
<1>7. \A i \in Ids : Effect(running[a], i, stored[i], listed, FiledAt(i), record[i],
                            stored'[i], listed', FiledAt(i)', record'[i])
  BY <1>2, <1>3, <1>6 DEF Effect, h
<1> QED
  BY <1>2, <1>3, <1>4, <1>5, <1>7, SimpleStep DEF Simple, h

LEMMA PruneStep ==
  ASSUME IxInv, NEW a \in Actors, Ix!Prune(a)
  PROVE  IxInv'
<1> DEFINE h == Head(running[a].todo)
<1>1. Ix!Sending(a, "prune")
  BY DEF Ix!Prune
<1>2. /\ running[a].todo # <<>> /\ h = Ix!Next1(a) /\ h.cmd = "prune"
      /\ h.ids \subseteq Ids /\ h.pairs \subseteq Encoded
  BY <1>1, Sends DEF Fits
<1>3. /\ \/ record' = [i \in Ids |-> IF i \in h.ids THEN record[i] \ h.pairs ELSE record[i]]
         \/ running[a].kind = "update" /\ record' = record
      /\ Ix!Advance(a, <<>>)
      /\ stored' = stored /\ listed' = listed /\ member' = member /\ gone' = gone
      /\ met' = met /\ cut' = cut
  BY <1>2 DEF Ix!Prune
<1>4. /\ DOMAIN stored = Ids /\ member \in [Ix!MemberKeys -> SUBSET Ids]
      /\ record \in [Ids -> SUBSET Encoded]
  BY DEF IxInv, IxTypes
<1> HIDE DEF h
<1>5. record' \in [Ids -> SUBSET Encoded]
  BY <1>2, <1>3, <1>4
<1>6. \A i \in Ids : FiledAt(i)' = FiledAt(i)
  BY <1>3 DEF FiledAt
<1>7. \A i \in Ids : Effect(running[a], i, stored[i], listed, FiledAt(i), record[i],
                            stored'[i], listed', FiledAt(i)', record'[i])
  BY <1>2, <1>3, <1>6 DEF Effect, h
<1> QED
  BY <1>2, <1>3, <1>4, <1>5, <1>7, SimpleStep DEF Simple, h

LEMMA EnumerateStep ==
  ASSUME IxInv, NEW a \in Actors, Ix!Enumerate(a)
  PROVE  IxInv'
<1> DEFINE h == Head(running[a].todo)
<1>1. PICK cmd \in {"enumerate", "omit"} : Ix!Sending(a, cmd)
  BY DEF Ix!Enumerate
<1>2. /\ running[a].todo # <<>> /\ h = Ix!Next1(a) /\ h.cmd \in {"enumerate", "omit"}
      /\ h.ids \subseteq Ids
  BY <1>1, Sends
<1>3. /\ listed' = IF h.cmd = "enumerate" THEN listed \cup h.ids ELSE listed \ h.ids
      /\ Ix!Advance(a, <<>>)
      /\ stored' = stored /\ member' = member /\ record' = record /\ gone' = gone
      /\ met' = met /\ cut' = cut
  BY <1>2 DEF Ix!Enumerate
<1>4. /\ DOMAIN stored = Ids /\ member \in [Ix!MemberKeys -> SUBSET Ids]
      /\ record \in [Ids -> SUBSET Encoded]
  BY DEF IxInv, IxTypes
<1> HIDE DEF h
<1>5. \A i \in Ids : FiledAt(i)' = FiledAt(i)
  BY <1>3 DEF FiledAt
<1>6. \A i \in Ids : Effect(running[a], i, stored[i], listed, FiledAt(i), record[i],
                            stored'[i], listed', FiledAt(i)', record'[i])
  BY <1>2, <1>3, <1>5 DEF Effect, h
<1> QED
  BY <1>2, <1>3, <1>4, <1>6, SimpleStep DEF Simple, h

LEMMA PutStep ==
  ASSUME IxInv, NEW a \in Actors, Ix!Put(a)
  PROVE  IxInv'
<1> DEFINE h == Head(running[a].todo)
<1>1. Ix!Sending(a, "put")
  BY DEF Ix!Put
<1>2. running[a].todo # <<>> /\ h = Ix!Next1(a) /\ h.cmd = "put" /\ h.ids \subseteq Ids
  BY <1>1, Sends
<1>3. /\ stored' = [i \in Ids |-> IF i \in h.ids THEN h.pairs ELSE stored[i]]
      /\ Ix!Advance(a, <<>>)
      /\ listed' = listed /\ member' = member /\ record' = record /\ gone' = gone
      /\ met' = met /\ cut' = cut
  BY <1>2 DEF Ix!Put
<1>4. /\ DOMAIN stored = Ids /\ member \in [Ix!MemberKeys -> SUBSET Ids]
      /\ record \in [Ids -> SUBSET Encoded]
  BY DEF IxInv, IxTypes
<1> HIDE DEF h
<1>5. \A i \in Ids : FiledAt(i)' = FiledAt(i)
  BY <1>3 DEF FiledAt
<1>6. DOMAIN stored' = Ids
  BY <1>3
<1>7. \A i \in Ids : Effect(running[a], i, stored[i], listed, FiledAt(i), record[i],
                            stored'[i], listed', FiledAt(i)', record'[i])
  BY <1>2, <1>3, <1>5 DEF Effect, h
<1> QED
  BY <1>2, <1>3, <1>4, <1>6, <1>7, SimpleStep DEF Simple, h

LEMMA RemoveEntriesStep ==
  ASSUME IxInv, NEW a \in Actors, Ix!RemoveEntries(a)
  PROVE  IxInv'
<1> DEFINE h == Head(running[a].todo)
<1>1. Ix!Sending(a, "remove")
  BY DEF Ix!RemoveEntries
<1>2. running[a].todo # <<>> /\ h = Ix!Next1(a) /\ h.cmd = "remove" /\ h.ids \subseteq Ids
  BY <1>1, Sends
<1>3. /\ stored' = [i \in Ids |-> IF i \in h.ids THEN None ELSE stored[i]]
      /\ Ix!Advance(a, <<>>)
      /\ listed' = listed /\ member' = member /\ record' = record /\ gone' = gone
      /\ met' = met /\ cut' = cut
  BY <1>2 DEF Ix!RemoveEntries
<1>4. /\ DOMAIN stored = Ids /\ member \in [Ix!MemberKeys -> SUBSET Ids]
      /\ record \in [Ids -> SUBSET Encoded]
  BY DEF IxInv, IxTypes
<1> HIDE DEF h
<1>5. \A i \in Ids : FiledAt(i)' = FiledAt(i)
  BY <1>3 DEF FiledAt
<1>6. DOMAIN stored' = Ids
  BY <1>3
<1>7. \A i \in Ids : Effect(running[a], i, stored[i], listed, FiledAt(i), record[i],
                            stored'[i], listed', FiledAt(i)', record'[i])
  BY <1>2, <1>3, <1>5 DEF Effect, h
<1> QED
  BY <1>2, <1>3, <1>4, <1>6, <1>7, SimpleStep DEF Simple, h

LEMMA KindOf ==
  ASSUME NEW o, Shape(o), NEW cmd, cmd \in Cmds(o.todo)
  PROVE  /\ o.kind # "idle"
         /\ cmd \in {"replace", "refile"} => o.kind = "update" /\ Cmds(o.todo) \subseteq {"replace", "refile"}
         /\ cmd = "undo" => o.kind = "delete" /\ Cmds(o.todo) \subseteq {"undo", "remove", "omit"}
         /\ cmd \in {"lookup", "classify"} => o.kind \in Lookups /\ Cmds(o.todo) \subseteq {cmd}
         /\ cmd = "sweep" => o.kind \in Lookups /\ Cmds(o.todo) \subseteq {"sweep", "gather"}
         /\ cmd = "gather" => o.kind = "delete_by_index" /\ Cmds(o.todo) \subseteq {"sweep", "gather"}
<1>1. o.kind # "idle"
  <2>1. Ix!Idle.todo = <<>>
    BY DEF Ix!Idle
  <2> QED
    BY <2>1, Nothing DEF Shape
<1>2. o.kind \in {"create", "update", "delete", "by_index", "delete_by_index"} /\ Plans(o)
  BY <1>1 DEF Shape, Lookups
<1> DEFINE C == Cmds(o.todo)
<1>3. CASE o.kind = "create"
  <2>1. C \subseteq {"file", "record", "enumerate", "put"}
    BY <1>2, <1>3 DEF Plans
  <2> QED
    BY <1>1, <1>3, <2>1
<1>4. CASE o.kind = "update"
  <2>1. C \subseteq {"replace", "refile"} \/ C \subseteq {"unfile", "prune", "file", "record"}
    BY <1>2, <1>4 DEF Plans
  <2> QED
    BY <1>1, <1>4, <2>1
<1>5. CASE o.kind = "delete"
  <2>1. C \subseteq {"undo", "remove", "omit"} \/ C \subseteq {"unfile", "prune", "remove", "omit"}
    BY <1>2, <1>5 DEF Plans
  <2> QED
    BY <1>1, <1>5, <2>1
<1>6. CASE o.kind = "by_index"
  <2>1. \E x \in {"lookup", "classify", "sweep"} : C \subseteq {x}
    BY <1>2, <1>6 DEF Plans
  <2> QED
    BY <1>1, <1>6, <2>1 DEF Lookups
<1>7. CASE o.kind = "delete_by_index"
  <2>1. \/ C \subseteq {"lookup"} \/ C \subseteq {"classify"} \/ C \subseteq {"sweep", "gather"}
        \/ C \subseteq {"unfile", "omit", "prune", "remove"}
    BY <1>2, <1>7 DEF Plans
  <2> QED
    BY <1>1, <1>7, <2>1 DEF Lookups
<1> QED
  BY <1>2, <1>3, <1>4, <1>5, <1>6, <1>7

\* Commands that file nothing.
LEMMA Quiet ==
  ASSUME NEW t, Cmds(t) \cap {"file", "unfile", "record", "prune"} = {}, NEW i, NEW F, NEW R
  PROVE  /\ Held(t, i, F) = F /\ Kept(t, i, R) = R /\ Names(t, "record", i) = {}
         /\ Named(t, i, F, R) <=> \A k \in GoodKeys \cap F : Covers(R, k)
<1>1. /\ "file" \notin Cmds(t) /\ "unfile" \notin Cmds(t)
      /\ "record" \notin Cmds(t) /\ "prune" \notin Cmds(t)
  OBVIOUS
<1>2. /\ Owed(t, "file", i) = {} /\ Owed(t, "unfile", i) = {}
      /\ Names(t, "record", i) = {} /\ Names(t, "prune", i) = {}
  BY <1>1, Absent
<1>3. Held(t, i, F) = F /\ Kept(t, i, R) = R
  BY <1>2 DEF Held, Kept
<1>4. R \cup Names(t, "record", i) = R
  BY <1>2
<1> QED
  BY <1>2, <1>3, <1>4 DEF Named

LEMMA IdleShape ==
  /\ IsOp(Ix!Idle) /\ Shape(Ix!Idle)
  /\ Ix!Idle.kind = "idle" /\ Ix!Idle.todo = <<>> /\ Ix!Idle.ids = {}
<1> DEFINE o == Ix!Idle
<1>1. /\ o.kind = "idle" /\ o.todo = <<>> /\ o.ids = {} /\ o.pairs = {} /\ o.left = 0
      /\ o.records = <<>>
  BY DEF Ix!Idle
<1>2. IsOp(o)
  BY DEF IsOp, Ix!Idle
<1>3. DOMAIN <<>> = {}
  OBVIOUS
<1>4. DOMAIN o.records = {}
  BY <1>1, <1>3
<1>5. Plans(o)
  BY <1>1 DEF Plans
<1>6. Shape(o)
  <2>1. /\ o.kind \in {"idle", "create", "update", "delete"} \cup Lookups
        /\ o.kind \notin {"create", "update", "delete"}
        /\ o.ids \subseteq Ids /\ o.pairs \subseteq Pairs
    BY <1>1
  <2>2. o.todo \in Seq(Commands) /\ Ordered(o.todo) /\ Elems(o.todo) = {} /\ Cmds(o.todo) = {}
    BY <1>1, Nothing
  <2> HIDE DEF o
  <2> QED
    BY <1>4, <1>5, <2>1, <2>2 DEF Shape, o
<1> QED
  BY <1>1, <1>2, <1>6

\* An operation ends; what it leaves at rest, and what it has deleted.
LEMMA Leaves ==
  ASSUME IxInv, NEW a \in Actors, running' = [running EXCEPT ![a] = Ix!Idle],
         stored' = stored, listed' = listed, member' = member, record' = record,
         met' = met, cut \subseteq cut',
         \A i \in running[a].ids \ (met \cup cut') : At(running[a], i) => AtRest(i),
         \A i \in gone' \ (met \cup cut') :
           i \in gone \/ (i \in running[a].ids /\ (At(running[a], i) => Cleaned(i)))
  PROVE  IxInv'
<1>1. DOMAIN running = Actors /\ DOMAIN running' = Actors
  BY DEF IxInv, IxTypes
<1>2. running'[a] = Ix!Idle /\ \A b \in Actors : b # a => running'[b] = running[b]
  BY <1>1
<1>3. \A b \in Actors : running'[b].ids = IF b = a THEN {} ELSE running[b].ids
  <2>1. running'[a].ids = {}
    BY <1>2, IdleShape
  <2>2. \A b \in Actors : b # a => running'[b].ids = running[b].ids
    BY <1>2
  <2> QED
    BY <2>1, <2>2
<1>4. IxTypes'
  <2>1. \A b \in Actors : IsOp(running'[b]) /\ Shape(running'[b])
    BY <1>2, IdleShape DEF IxInv, IxTypes
  <2>2. /\ DOMAIN stored' = Ids /\ member' \in [Ix!MemberKeys -> SUBSET Ids]
        /\ record' \in [Ids -> SUBSET Encoded]
    BY DEF IxInv, IxTypes
  <2> QED
    BY <1>1, <2>1, <2>2 DEF IxTypes
<1>5. Separate'
  BY <1>3 DEF IxInv, Separate
<1>6. ASSUME NEW i \in Ids \ (met' \cup cut') PROVE Agreed(i)'
  <2>0. i \in Ids \ (met \cup cut)
    OBVIOUS
  <2>1. /\ (\A b \in Actors : i \notin running[b].ids) => AtRest(i)
        /\ \A b \in Actors : i \in running[b].ids => At(running[b], i)
        /\ i \in gone => /\ Cleaned(i)
                         /\ \A b \in Actors : i \in running[b].ids => running[b].kind \in Lookups
    BY <2>0 DEF IxInv, Agreed
  <2>2. Untouched(i)
    BY DEF Untouched, FiledAt
  <2>3. AtRest(i) => AtRest(i)'
    BY <2>2, UntouchedIs
  <2>4. Cleaned(i) => Cleaned(i)'
    BY <2>2, UntouchedIs
  <2>5. \A b \in Actors : i \in running'[b].ids => At(running[b], i)'
    <3> SUFFICES ASSUME NEW b \in Actors, i \in running'[b].ids PROVE At(running[b], i)'
      OBVIOUS
    <3>1. b # a /\ running'[b] = running[b] /\ i \in running[b].ids
      BY <1>2, <1>3
    <3>2. Work(running[b], i, stored'[i], listed', FiledAt(i)', record'[i])
      BY <2>1, <2>2, <3>1, UntouchedIs
    <3> QED
      BY <3>1, <3>2 DEF At
  <2>6. CASE i \in running[a].ids
    <3>1. At(running[a], i) /\ AtRest(i)
      BY <2>1, <2>6
    <3>2. \A b \in Actors : i \notin running'[b].ids
      BY <1>3, <2>0, <2>6 DEF IxInv, Separate
    <3>3. i \in gone' => Cleaned(i)
      BY <2>1, <3>1
    <3> QED
      BY <2>3, <2>4, <3>1, <3>2, <3>3 DEF Agreed
  <2>7. CASE i \notin running[a].ids
    <3>1. i \in gone' => i \in gone
      BY <2>7
    <3>2. (\A b \in Actors : i \notin running'[b].ids) => AtRest(i)
      BY <1>3, <2>1, <2>7
    <3>3. i \in gone' => \A b \in Actors : i \in running'[b].ids => running'[b].kind \in Lookups
      BY <1>2, <1>3, <2>1, <3>1
    <3> QED
      BY <2>1, <2>3, <2>4, <2>5, <3>1, <3>2, <3>3 DEF Agreed
  <2> QED
    BY <2>6, <2>7
<1> QED
  BY <1>4, <1>5, <1>6 DEF IxInv

LEMMA WorkDone ==
  ASSUME NEW o, Shape(o), o.todo = <<>>, o.kind # "idle", NEW i,
         NEW E, NEW l, NEW F, NEW R, Work(o, i, E, l, F, R)
  PROVE  /\ Rest(i, E, F, R)
         /\ o.kind = "delete" \/ (o.kind = "delete_by_index" /\ i \in DOMAIN o.records)
            => Clean(i, E, l, F)
<1>1. Cmds(o.todo) = {} /\ \A cmd : Due(o.todo, cmd, i) = {} /\ Names(o.todo, cmd, i) = {}
  BY Nothing
<1>2. \A k \in GoodKeys \cap F : Covers(R, k)
  BY <1>1, Quiet DEF Work
<1>3. Named(<<>>, i, F, R)
  BY <1>2, Nothing, Quiet
<1>4. ASSUME Undone(o.todo, i, E, l, R) PROVE Clean(i, E, l, F)
  <2>1. E = None /\ i \notin l /\ R = {}
    BY <1>1, <1>4 DEF Undone
  <2> QED
    BY <1>2, <2>1 DEF Clean, Covers
<1>5. ASSUME E = None PROVE Found(E, F)
  BY <1>5 DEF Found
<1>6. CASE o.kind = "create"
  <2>1. E \in {None, o.pairs} /\ Filing(o, i, F)
    BY <1>1, <1>6 DEF Work, Creating
  <2>2. Held(o.todo, i, F) = F
    BY <1>1, Quiet
  <2>3. Found(E, F)
    BY <2>1, <2>2 DEF Found, Filing
  <2> QED
    BY <1>3, <1>6, <2>3 DEF Rest
<1>7. CASE o.kind = "update"
  <2>1. Found(E, F) \/ (E \in {None, o.pairs} /\ Filing(o, i, F))
    BY <1>1, <1>7 DEF Work, Updating
  <2>2. Held(o.todo, i, F) = F
    BY <1>1, Quiet
  <2>3. Found(E, F)
    BY <2>1, <2>2 DEF Found, Filing
  <2> QED
    BY <1>3, <1>7, <2>3 DEF Rest
<1>8. CASE o.kind = "delete"
  <2>1. Clean(i, E, l, F)
    BY <1>4, <1>8 DEF Work
  <2> QED
    BY <1>3, <1>5, <1>8, <2>1 DEF Rest, Clean
<1>9. CASE o.kind = "by_index"
  BY <1>3, <1>9 DEF Rest, Work
<1>10. CASE o.kind = "delete_by_index"
  <2>1. IF i \in DOMAIN o.records THEN Undone(o.todo, i, E, l, R) ELSE E = None
    BY <1>1, <1>10 DEF Work, Deleting
  <2>2. i \in DOMAIN o.records => Clean(i, E, l, F)
    BY <1>4, <2>1
  <2>3. E = None
    BY <2>1, <2>2 DEF Clean
  <2> QED
    BY <1>3, <1>5, <1>10, <2>2, <2>3 DEF Rest
<1> QED
  BY <1>6, <1>7, <1>8, <1>9, <1>10 DEF Shape, Lookups

LEMMA ReturnStep ==
  ASSUME IxInv, NEW a \in Actors, Ix!Return(a)
  PROVE  IxInv'
<1> DEFINE o == running[a]
<1>1. /\ o # Ix!Idle /\ o.todo = <<>>
      /\ running' = [running EXCEPT ![a] = Ix!Idle]
      /\ stored' = stored /\ listed' = listed /\ member' = member /\ record' = record
      /\ met' = met /\ cut' = cut
  BY DEF Ix!Return
<1>2. gone' = CASE o.kind = "delete" -> gone \cup o.ids
                [] o.kind = "delete_by_index" -> gone \cup DOMAIN o.records
                [] OTHER -> gone
  BY DEF Ix!Return
<1>3. Shape(o) /\ o.kind # "idle"
  BY <1>1 DEF IxInv, IxTypes, Shape
<1>4. DOMAIN o.records \subseteq o.ids
  BY <1>3 DEF Shape
<1> HIDE DEF o
<1>5. ASSUME NEW i, At(o, i)
      PROVE  /\ AtRest(i)
             /\ o.kind = "delete" \/ (o.kind = "delete_by_index" /\ i \in DOMAIN o.records) => Cleaned(i)
  BY <1>1, <1>3, <1>5, WorkDone DEF At, AtRest, Cleaned
<1>6. \A i \in gone' : \/ i \in gone
                       \/ o.kind = "delete" /\ i \in o.ids
                       \/ o.kind = "delete_by_index" /\ i \in DOMAIN o.records
  BY <1>2
<1>7. \A i \in gone' : i \in gone \/ (i \in o.ids /\ (At(o, i) => Cleaned(i)))
  BY <1>4, <1>5, <1>6
<1>8. \A i : At(o, i) => AtRest(i)
  BY <1>5
<1> QED
  BY <1>1, <1>7, <1>8, Leaves DEF o

LEMMA WorkExpired ==
  ASSUME NEW o, NEW i, NEW E, NEW l, NEW F, NEW R, Work(o, i, E, l, F, R)
  PROVE  Work(o, i, None, l, F, R)
<1>1. Found(None, F)
  BY DEF Found
<1>2. Creating(o, i, E, F) => Creating(o, i, None, F)
  BY DEF Creating
<1>3. Updating(o, i, E, F) => Updating(o, i, None, F)
  BY <1>1 DEF Updating
<1>4. Undone(o.todo, i, E, l, R) => Undone(o.todo, i, None, l, R)
  BY DEF Undone
<1>5. Deleting(o, i, E, l, F, R) => Deleting(o, i, None, l, F, R)
  BY <1>1, <1>4 DEF Deleting
<1> QED
  BY <1>1, <1>2, <1>3, <1>4, <1>5 DEF Work

LEMMA ExpireEntryStep ==
  ASSUME IxInv, NEW j \in Ids, Ix!Expire(j)
  PROVE  IxInv'
<1>1. /\ stored' = [stored EXCEPT ![j] = None]
      /\ listed' = listed /\ member' = member /\ record' = record /\ running' = running
      /\ gone' = gone /\ met' = met /\ cut' = cut
  BY DEF Ix!Expire
<1>2. IxTypes' /\ Separate'
  BY <1>1 DEF IxInv, IxTypes, Separate
<1>3. DOMAIN stored = Ids
  BY DEF IxInv, IxTypes
<1>4. ASSUME NEW i \in Ids \ (met \cup cut) PROVE Agreed(i)'
  <2>1. Agreed(i)
    BY DEF IxInv
  <2>2. FiledAt(i)' = FiledAt(i) /\ (stored'[i] = None \/ stored'[i] = stored[i])
    BY <1>1, <1>3 DEF FiledAt
  <2>3. AtRest(i) => AtRest(i)'
    BY <1>1, <2>2 DEF AtRest, Rest, Found
  <2>4. ASSUME NEW b \in Actors, At(running[b], i) PROVE At(running[b], i)'
    <3>1. Work(running[b], i, stored[i], listed, FiledAt(i), record[i])
      BY <2>4 DEF At
    <3>2. Work(running[b], i, stored'[i], listed, FiledAt(i), record[i])
      BY <2>2, <3>1, WorkExpired
    <3> QED
      BY <1>1, <2>2, <3>2 DEF At
  <2>5. Cleaned(i) => Cleaned(i)'
    BY <1>1, <2>2 DEF Cleaned, Clean
  <2> QED
    BY <1>1, <2>1, <2>3, <2>4, <2>5 DEF Agreed
<1> QED
  BY <1>1, <1>2, <1>4 DEF IxInv

LEMMA ReplaceStep ==
  ASSUME IxInv, NEW a \in Actors, Ix!Replace(a)
  PROVE  IxInv'
<1> DEFINE o == running[a]
           t == o.todo
           h == Head(t)
           r == Tail(t)
<1>1. Ix!Sending(a, "replace")
  BY DEF Ix!Replace
<1>2. /\ Shape(o) /\ t # <<>> /\ h = Ix!Next1(a) /\ h.cmd = "replace" /\ h \in Elems(t)
      /\ h.ids = o.ids /\ h.pairs = o.pairs /\ o.ids \subseteq Ids /\ t \in Seq(Commands)
  BY <1>1, Sends DEF Fits, Shape
<1>3. /\ Cmds(t) = {"replace"} \cup Cmds(r) /\ r \in Seq(Commands)
  BY <1>2, Pop, Pops
<1>4. o.kind = "update" /\ Cmds(t) \subseteq {"replace", "refile"} /\ "refile" \in Cmds(r)
  <2>1. "replace" \in Cmds(t) /\ t = o.todo
    BY <1>3
  <2> HIDE DEF t, r
  <2>2. o.kind = "update" /\ Cmds(t) \subseteq {"replace", "refile"}
    BY <1>2, <2>1, KindOf
  <2>3. "refile" \in Cmds(t)
    BY <1>2, <2>1, <2>2 DEF Shape, Plans
  <2> QED
    BY <1>3, <2>2, <2>3
<1>5. PICK j \in Ids : o.ids = {j}
  BY <1>2, <1>4 DEF Shape
<1>6. (CHOOSE i \in Ix!Next1(a).ids : TRUE) = j
  BY <1>2, <1>5
<1>7. /\ IF stored[j] = None
         THEN running' = [running EXCEPT ![a] = Ix!Idle] /\ stored' = stored
         ELSE /\ stored' = [stored EXCEPT ![j] = Ix!Wanted(j, h.pairs)]
              /\ Ix!Advance(a, <<>>)
      /\ listed' = listed /\ member' = member /\ record' = record
      /\ gone' = gone /\ met' = met /\ cut' = cut
  BY <1>2, <1>6 DEF Ix!Replace
<1>8. \A i \in Ids : FiledAt(i)' = FiledAt(i)
  BY <1>7 DEF FiledAt
<1>9. ASSUME NEW i, At(o, i)
      PROVE  /\ Found(stored[i], FiledAt(i))
             /\ \A u : Cmds(u) \cap {"file", "unfile", "record", "prune"} = {}
                      => Named(u, i, FiledAt(i), record[i])
  <2>1. Named(t, i, FiledAt(i), record[i]) /\ Updating(o, i, stored[i], FiledAt(i))
    BY <1>4, <1>9 DEF At, Work
  <2>2. "replace" \in Cmds(t) /\ Cmds(t) \cap {"file", "unfile", "record", "prune"} = {}
    BY <1>3, <1>4
  <2>3. Found(stored[i], FiledAt(i))
    BY <2>1, <2>2 DEF Updating
  <2>4. \A k \in GoodKeys \cap FiledAt(i) : Covers(record[i], k)
    BY <2>1, <2>2, Quiet
  <2> QED
    BY <2>3, <2>4, Quiet
<1>10. CASE stored[j] = None
  <2>1. \A i : At(o, i) => AtRest(i)
    BY <1>9, Nothing DEF AtRest, Rest
  <2>2. running' = [running EXCEPT ![a] = Ix!Idle] /\ stored' = stored
    BY <1>7, <1>10
  <2> HIDE DEF o
  <2> QED
    BY <1>7, <2>1, <2>2, Leaves DEF o
<1>11. CASE stored[j] # None
  <2> DEFINE o2 == running'[a]
  <2>1. /\ stored' = [stored EXCEPT ![j] = Ix!Wanted(j, h.pairs)] /\ Ix!Advance(a, <<>>)
    BY <1>7, <1>11
  <2>2. /\ running' = [running EXCEPT ![a] = o2]
        /\ IsOp(o2) /\ o2.todo = r
        /\ o2.kind = o.kind /\ o2.ids = o.ids /\ o2.pairs = o.pairs /\ o2.records = o.records
    BY <1>3, <2>1, AdvanceIs, ConcatEmptySeq
  <2>3. Shape(o2)
    <3>1. Popped(o, o2)
      BY <2>2 DEF Popped
    <3> QED
      BY <1>2, <3>1, PopShape
  <2>4. DOMAIN stored' = Ids /\ DOMAIN stored = Ids
    BY <2>1 DEF IxInv, IxTypes
  <2>5. ASSUME NEW i \in Ids \ o.ids PROVE Untouched(i)
    BY <1>5, <1>7, <1>8, <2>1, <2>4 DEF Untouched
  <2>6. ASSUME NEW i \in o.ids, At(o, i)
        PROVE  Work(o2, i, stored'[i], listed', FiledAt(i)', record'[i])
    <3>1. i = j /\ i \in Ids
      BY <1>5
    <3>2. stored'[i] = IF o.pairs = {} THEN stored[i] ELSE o.pairs
      BY <1>2, <1>11, <2>1, <2>4, <3>1 DEF Ix!Wanted
    <3>3. Cmds(r) \cap {"file", "unfile", "record", "prune"} = {} /\ "sweep" \notin Cmds(r)
          /\ "replace" \notin Cmds(r)
      <4>1. \A c \in Elems(r) : c.cmd # "replace"
        BY <1>2, Pop DEF Shape, Late
      <4>2. "replace" \notin Cmds(r)
        BY <4>1 DEF Cmds
      <4> QED
        BY <1>3, <1>4, <4>2
    <3>4. Named(r, i, FiledAt(i), record[i]) /\ Found(stored[i], FiledAt(i))
      BY <1>9, <2>6, <3>3
    <3>5. Due(r, "sweep", i) = {}
      BY <3>3, Absent
    <3> HIDE DEF o2, o, r
    <3>6. Updating(o2, i, stored'[i], FiledAt(i))
      BY <1>4, <2>2, <3>2, <3>3, <3>4 DEF Updating
    <3>7. Work(o2, i, stored'[i], listed, FiledAt(i), record[i])
      BY <1>4, <2>2, <3>4, <3>5, <3>6 DEF Work
    <3> QED
      BY <1>7, <1>8, <3>1, <3>7
  <2>7. member' \in [Ix!MemberKeys -> SUBSET Ids] /\ record' \in [Ids -> SUBSET Encoded]
    BY <1>7 DEF IxInv, IxTypes
  <2>8. o2.kind \notin Lookups
    BY <1>4, <2>2 DEF Lookups
  <2> HIDE DEF o2
  <2> QED
    BY <1>7, <2>2, <2>3, <2>4, <2>5, <2>6, <2>7, <2>8, CarriesOn
<1> QED
  BY <1>10, <1>11

\* An operation o that becomes o2 by putting more before what follows its first command.
Resumes(o, o2, more) ==
  /\ IsOp(o2) /\ o2.todo = more \o Tail(o.todo)
  /\ o2.kind = o.kind /\ o2.ids = o.ids /\ o2.pairs = o.pairs /\ o2.records = o.records

LEMMA ResumeShape ==
  ASSUME NEW o, Shape(o), o.todo # <<>>, NEW o2, NEW more \in Seq(Commands), Resumes(o, o2, more),
         Ordered(more), \A c \in Elems(more) : Fits(c, o.ids, o.pairs),
         \A c \in Elems(more), d \in Elems(Tail(o.todo)) : ~Late(c.cmd, d.cmd),
         o.kind \in {"update", "delete"}, Plans(o2),
         Cmds(o2.todo) \cap {"lookup", "classify", "sweep"} = {}
  PROVE  Shape(o2)
<1> DEFINE t == o.todo
           r == Tail(t)
           u == more \o r
<1>1. t \in Seq(Commands) /\ t # <<>> /\ Ordered(t) /\ \A c \in Elems(t) : Fits(c, o.ids, o.pairs)
  BY DEF Shape
<1>2. r \in Seq(Commands) /\ Ordered(r) /\ Elems(r) \subseteq Elems(t)
  BY <1>1, Pop
<1>3. /\ o2.todo = u /\ o2.kind = o.kind /\ o2.ids = o.ids /\ o2.pairs = o.pairs
      /\ o2.records = o.records
  BY DEF Resumes
<1>4. u \in Seq(Commands) /\ Elems(u) = Elems(more) \cup Elems(r) /\ Ordered(u)
  BY <1>2, Join
<1> HIDE DEF t, r, u
<1>5. \A c \in Elems(u) : Fits(c, o.ids, o.pairs)
  BY <1>1, <1>2, <1>4
<1>6. /\ o.kind \in {"idle", "create", "update", "delete"} \cup Lookups
      /\ \E i \in Ids : o.ids = {i}
      /\ o.ids \subseteq Ids /\ o.pairs \subseteq Pairs
      /\ DOMAIN o.records \subseteq o.ids
      /\ \A i \in DOMAIN o.records : o.records[i] \subseteq Encoded
  BY DEF Shape
<1>7. o2.kind # "idle" /\ "lookup" \notin Cmds(o2.todo)
  BY <1>3
<1>8. /\ o2.kind \in {"idle", "create", "update", "delete"} \cup Lookups
      /\ \E i \in Ids : o2.ids = {i}
      /\ o2.ids \subseteq Ids /\ o2.pairs \subseteq Pairs
      /\ DOMAIN o2.records \subseteq o2.ids
      /\ \A i \in DOMAIN o2.records : o2.records[i] \subseteq Encoded
  BY <1>3, <1>6
<1>9. o2.todo \in Seq(Commands) /\ Ordered(o2.todo)
      /\ \A c \in Elems(o2.todo) : Fits(c, o2.ids, o2.pairs)
  BY <1>3, <1>4, <1>5
<1> QED
  BY <1>7, <1>8, <1>9 DEF Shape

\* delete has read the record: what it names is all there is to undo.
LEMMA ReadUndo ==
  ASSUME Ix!IndexedAssumption, NEW o, Shape(o), o.todo # <<>>, Head(o.todo).cmd = "undo",
         NEW j \in Ids, o.ids = {j}, NEW R \in SUBSET Encoded, NEW more \in Ix!unfile(j, R),
         NEW o2, Resumes(o, o2, more)
  PROVE  /\ Shape(o2)
         /\ \A E, l, F : Work(o, j, E, l, F, R) => Work(o2, j, E, l, F, R)
<1> DEFINE t == o.todo
           r == Tail(t)
           h == Head(t)
           u == more \o r
<1>1. t \in Seq(Commands) /\ t # <<>> /\ Ordered(t)
  BY DEF Shape
<1>2. r \in Seq(Commands) /\ Cmds(t) = {"undo"} \cup Cmds(r)
      /\ \A c \in Elems(r) : ~Late("undo", c.cmd)
  BY <1>1, Pop, Pops
<1>3. o.kind = "delete" /\ Cmds(t) \subseteq {"undo", "remove", "omit"}
  <2>1. "undo" \in Cmds(o.todo)
    BY <1>2
  <2> QED
    BY <2>1, KindOf
<1>4. Cmds(r) \subseteq {"remove", "omit"} /\ \A c \in Elems(r) : c.cmd \in {"remove", "omit"}
  <2>1. \A c \in Elems(r) : c.cmd # "undo"
    BY <1>2 DEF Late
  <2>2. \A c \in Elems(r) : c.cmd \in Cmds(t)
    BY <1>2 DEF Cmds
  <2>3. \A c \in Elems(r) : c.cmd \in {"remove", "omit"}
    BY <1>3, <2>1, <2>2
  <2> QED
    BY <2>3 DEF Cmds
<1>5. /\ more \in Seq(Commands) /\ Ordered(more) /\ Cmds(more) \subseteq {"unfile", "prune"}
      /\ \A c \in Elems(more) : /\ c.ids = {j}
                                /\ c.cmd = "unfile" => c.key \in Ix!MemberKeys
                                /\ c.cmd = "prune" => c.pairs \subseteq Encoded
      /\ Owed(more, "unfile", j) = {Ix!Undo(d) : d \in R}
      /\ Names(more, "prune", j) = R
  BY UnfilePlan
<1>6. /\ o2.todo = u /\ o2.kind = o.kind /\ o2.ids = o.ids /\ o2.pairs = o.pairs
      /\ o2.records = o.records
  BY DEF Resumes
<1>7. Cmds(u) = Cmds(more) \cup Cmds(r)
  BY <1>2, <1>5, Joined
<1>8. \A cmd : /\ Due(u, cmd, j) = Due(more, cmd, j) \cup Due(r, cmd, j)
              /\ Owed(u, cmd, j) = Owed(more, cmd, j) \cup Owed(r, cmd, j)
              /\ Names(u, cmd, j) = Names(more, cmd, j) \cup Names(r, cmd, j)
  <2>1. Elems(u) = Elems(more) \cup Elems(r)
    BY <1>2, <1>5, Join
  <2> HIDE DEF u, r
  <2> QED
    BY <2>1, JoinedAt
<1>9. Due(t, "remove", j) = Due(r, "remove", j) /\ Due(t, "omit", j) = Due(r, "omit", j)
  BY <1>1, Pops
<1> HIDE DEF t, r, h, u
<1>10. Cmds(u) \subseteq {"unfile", "prune", "remove", "omit"}
  BY <1>4, <1>5, <1>7
<1>11. Plans(o2)
  BY <1>3, <1>6, <1>10 DEF Plans
<1>12. Shape(o2)
  <2>1. \A c \in Elems(more) : c.cmd \in {"unfile", "prune"}
    BY <1>5 DEF Cmds
  <2>2. \A c \in Elems(more) : Fits(c, o.ids, o.pairs)
    BY <1>5, <2>1 DEF Fits
  <2>3. \A c \in Elems(more), d \in Elems(Tail(o.todo)) : ~Late(c.cmd, d.cmd)
    BY <1>4 DEF Late, r, t
  <2>4. Cmds(o2.todo) \cap {"lookup", "classify", "sweep"} = {}
    BY <1>6, <1>10
  <2>5. o.kind \in {"update", "delete"}
    BY <1>3
  <2> QED
    BY <1>5, <1>11, <2>2, <2>3, <2>4, <2>5, ResumeShape
<1>13. ASSUME NEW E, NEW l, NEW F, Work(o, j, E, l, F, R) PROVE Work(o2, j, E, l, F, R)
  <2>1. Named(t, j, F, R) /\ Undone(t, j, E, l, R)
    BY <1>3, <1>13 DEF Work, t
  <2>2. \A k \in GoodKeys \cap F : Covers(R, k)
    <3>1. Cmds(t) \cap {"file", "unfile", "record", "prune"} = {}
      BY <1>3
    <3> QED
      BY <2>1, <3>1, Quiet
  <2>3. "file" \notin Cmds(u) /\ "record" \notin Cmds(u) /\ "sweep" \notin Cmds(u)
    BY <1>10
  <2>4. Owed(u, "file", j) = {} /\ Names(u, "record", j) = {} /\ Due(u, "sweep", j) = {}
    BY <2>3, Absent
  <2>5. GoodKeys \cap Held(u, j, F) = {}
    BY <1>5, <1>8, <2>2, <2>4 DEF Held, Covers
  <2>6. Named(u, j, F, R)
    <3>1. R \cup Names(u, "record", j) = R
      BY <2>4
    <3> QED
      BY <2>2, <2>5, <3>1 DEF Named
  <2>7. Undone(u, j, E, l, R)
    BY <1>5, <1>8, <1>9, <2>1 DEF Undone
  <2> QED
    BY <1>3, <1>6, <2>4, <2>6, <2>7 DEF Work
<1> QED
  BY <1>12, <1>13

\* update has read the record: what it does not want is undone, what it wants is filed.
LEMMA ReadRefile ==
  ASSUME Ix!IndexedAssumption, NEW o, Shape(o), o.todo # <<>>, Head(o.todo).cmd = "refile",
         NEW j \in Ids, o.ids = {j}, record[j] \in SUBSET Encoded,
         NEW more \in (IF o.pairs = {} THEN {<<>>} ELSE Ix!refile(j, o.pairs)),
         NEW o2, Resumes(o, o2, more)
  PROVE  /\ Shape(o2)
         /\ \A E, l, F : Work(o, j, E, l, F, record[j]) => Work(o2, j, E, l, F, record[j])
<1> DEFINE t == o.todo
           r == Tail(t)
           h == Head(t)
           u == more \o r
           R == record[j]
           wanted == {Ix!pair(p) : p \in o.pairs}
<1>1. t \in Seq(Commands) /\ t # <<>> /\ Ordered(t) /\ o.pairs \in SUBSET Pairs
  BY DEF Shape
<1>2. r \in Seq(Commands) /\ Cmds(t) = {"refile"} \cup Cmds(r)
      /\ \A c \in Elems(r) : ~Late("refile", c.cmd)
  BY <1>1, Pop, Pops
<1>3. o.kind = "update" /\ Cmds(t) \subseteq {"replace", "refile"}
  <2>1. "refile" \in Cmds(o.todo)
    BY <1>2
  <2> QED
    BY <2>1, KindOf
<1>4. Elems(r) = {} /\ Cmds(r) = {} /\ "replace" \notin Cmds(t)
  <2>1. \A c \in Elems(r) : c.cmd \notin {"replace", "refile"}
    BY <1>2 DEF Late
  <2>2. \A c \in Elems(r) : c.cmd \in Cmds(t)
    BY <1>2 DEF Cmds
  <2>3. Elems(r) = {}
    BY <1>3, <2>1, <2>2
  <2>4. Cmds(r) = {}
    BY <2>3 DEF Cmds
  <2> QED
    BY <1>2, <2>3, <2>4
<1>5. /\ o2.todo = u /\ o2.kind = o.kind /\ o2.ids = o.ids /\ o2.pairs = o.pairs
      /\ o2.records = o.records
  BY DEF Resumes
<1>6. CASE o.pairs = {}
  <2>1. more = <<>> /\ more \in Seq(Commands) /\ Elems(more) = {} /\ Cmds(more) = {} /\ Ordered(more)
    BY <1>6, Nothing
  <2>2. Cmds(u) = {}
    BY <1>2, <1>4, <2>1, Joined
  <2>3. Plans(o2)
    BY <1>3, <1>5, <2>2 DEF Plans
  <2>4. Shape(o2)
    <3>1. Cmds(o2.todo) \cap {"lookup", "classify", "sweep"} = {}
      BY <1>5, <2>2
    <3>2. o.kind \in {"update", "delete"}
      BY <1>3
    <3> QED
      BY <2>1, <2>3, <3>1, <3>2, ResumeShape
  <2> HIDE DEF t, r, h, u, R
  <2>5. ASSUME NEW E, NEW l, NEW F, Work(o, j, E, l, F, R) PROVE Work(o2, j, E, l, F, R)
    <3>1. Named(t, j, F, R) /\ Updating(o, j, E, F)
      BY <1>3, <2>5 DEF Work, t
    <3>2. Named(u, j, F, R)
      <4>1. Cmds(t) \cap {"file", "unfile", "record", "prune"} = {}
        BY <1>3
      <4> QED
        BY <2>2, <3>1, <4>1, Quiet
    <3>3. Found(E, F)
      <4>1. Found(E, F) \/ E \in {None, o.pairs}
        BY <3>1 DEF Updating
      <4> QED
        BY <1>6, <4>1 DEF Found
    <3>4. Updating(o2, j, E, F)
      BY <1>5, <1>6, <3>3 DEF Updating
    <3>5. Due(u, "sweep", j) = {}
      BY <2>2, Absent
    <3> QED
      BY <1>3, <1>5, <3>2, <3>4, <3>5 DEF Work
  <2> QED
    BY <2>4, <2>5 DEF R
<1>7. CASE o.pairs # {}
  <2> DEFINE dropped == R \ wanted
  <2>1. /\ more \in Seq(Commands) /\ Ordered(more)
        /\ Cmds(more) \subseteq {"unfile", "prune", "file", "record"}
        /\ \A c \in Elems(more) : Fits(c, {j}, o.pairs)
        /\ Owed(more, "file", j) = {Ix!KeyOf(p) : p \in o.pairs}
        /\ Names(more, "record", j) = wanted
        /\ Owed(more, "unfile", j) = {Ix!Undo(d) : d \in dropped}
        /\ Names(more, "prune", j) = dropped
    <3>1. more \in Ix!refile(j, o.pairs)
      BY <1>7
    <3> QED
      BY <1>1, <3>1, RefilePlan
  <2>2. Cmds(u) = Cmds(more)
    <3>1. Cmds(u) = Cmds(more) \cup Cmds(r)
      BY <1>2, <2>1, Joined
    <3> QED
      BY <1>4, <3>1
  <2>3. \A cmd : Owed(r, cmd, j) = {} /\ Names(r, cmd, j) = {}
    BY <1>4, Absent
  <2>4. /\ Owed(u, "file", j) = Owed(more, "file", j) /\ Owed(u, "unfile", j) = Owed(more, "unfile", j)
        /\ Names(u, "record", j) = Names(more, "record", j) /\ Names(u, "prune", j) = Names(more, "prune", j)
    <3>1. \A cmd : /\ Owed(u, cmd, j) = Owed(more, cmd, j) \cup Owed(r, cmd, j)
                   /\ Names(u, cmd, j) = Names(more, cmd, j) \cup Names(r, cmd, j)
      <4>1. Elems(u) = Elems(more) \cup Elems(r)
        BY <1>2, <2>1, Join
      <4> HIDE DEF u, r
      <4> QED
        BY <4>1, JoinedAt
    <3> QED
      BY <2>3, <3>1
  <2>5. Plans(o2)
    BY <1>3, <1>5, <1>7, <2>1, <2>2 DEF Plans
  <2>6. Shape(o2)
    <3>1. Cmds(o2.todo) \cap {"lookup", "classify", "sweep"} = {}
      BY <1>5, <2>1, <2>2
    <3>2. o.kind \in {"update", "delete"}
      BY <1>3
    <3>3. \A c \in Elems(more), d \in Elems(Tail(o.todo)) : ~Late(c.cmd, d.cmd)
      BY <1>4
    <3>4. \A c \in Elems(more) : Fits(c, o.ids, o.pairs)
      BY <2>1
    <3>5. more \in Seq(Commands) /\ Ordered(more)
      BY <2>1
    <3> QED
      BY <2>5, <3>1, <3>2, <3>3, <3>4, <3>5, ResumeShape
  <2>7. \A p \in o.pairs : Ix!KeyOf(p) \in GoodKeys => Covers(wanted, Ix!KeyOf(p))
    <3> SUFFICES ASSUME NEW p \in o.pairs, Ix!KeyOf(p) \in GoodKeys
                 PROVE  Covers(wanted, Ix!KeyOf(p))
      OBVIOUS
    <3>1. Ix!Undo(Ix!pair(p)) = Ix!KeyOf(p)
      BY <1>1, UndoIs
    <3> QED
      BY <3>1 DEF Covers
  <2> HIDE DEF t, r, h, u, R, wanted
  <2>8. ASSUME NEW E, NEW l, NEW F, Work(o, j, E, l, F, R) PROVE Work(o2, j, E, l, F, R)
    <3>1. Named(t, j, F, R) /\ Updating(o, j, E, F)
      BY <1>3, <2>8 DEF Work, t
    <3>2. \A k \in GoodKeys \cap F : Covers(R, k)
      <4>1. Cmds(t) \cap {"file", "unfile", "record", "prune"} = {}
        BY <1>3
      <4> QED
        BY <3>1, <4>1, Quiet
    <3>3. ASSUME NEW k \in GoodKeys \cap Held(u, j, F) PROVE Covers(Kept(u, j, R), k)
      <4>1. Kept(u, j, R) = wanted \cup (R \ dropped)
        BY <2>1, <2>4 DEF Kept
      <4>2. CASE k \in Owed(u, "file", j)
        <5>1. PICK p \in o.pairs : k = Ix!KeyOf(p)
          BY <2>1, <2>4, <4>2
        <5>2. Covers(wanted, k)
          BY <2>7, <3>3, <5>1
        <5> QED
          BY <4>1, <5>2 DEF Covers
      <4>3. CASE k \in F /\ k \notin Owed(u, "unfile", j)
        <5>1. PICK d \in R : Ix!Undo(d) = k
          BY <3>2, <3>3, <4>3 DEF Covers
        <5>2. d \notin dropped
          BY <2>1, <2>4, <4>3, <5>1
        <5> HIDE DEF dropped
        <5> QED
          BY <4>1, <5>1, <5>2 DEF Covers
      <4> QED
        BY <3>3, <4>2, <4>3 DEF Held
    <3>4. \A k \in GoodKeys \cap F : Covers(R \cup Names(u, "record", j), k)
      BY <3>2 DEF Covers
    <3>5. Named(u, j, F, R)
      BY <3>3, <3>4 DEF Named
    <3>6. E \in {None, o.pairs}
      BY <1>4, <1>7, <3>1 DEF Updating, t
    <3>7. Filing(o2, j, F)
      BY <1>5, <2>1, <2>4 DEF Filing, Held
    <3>8. "replace" \notin Cmds(u) /\ "sweep" \notin Cmds(u)
      BY <2>1, <2>2
    <3>9. Updating(o2, j, E, F)
      BY <1>5, <3>6, <3>7, <3>8 DEF Updating
    <3>10. Due(u, "sweep", j) = {}
      BY <3>8, Absent
    <3> QED
      BY <1>3, <1>5, <3>5, <3>9, <3>10 DEF Work
  <2> QED
    BY <2>6, <2>8 DEF R
<1> QED
  BY <1>6, <1>7

LEMMA ReadRecordStep ==
  ASSUME Ix!IndexedAssumption, IxInv, NEW a \in Actors, Ix!ReadRecord(a)
  PROVE  IxInv'
<1> DEFINE o == running[a]
           o2 == running'[a]
           h == Head(o.todo)
<1>1. PICK cmd \in {"refile", "undo"} : Ix!Sending(a, cmd)
  BY DEF Ix!ReadRecord
<1>2. /\ Shape(o) /\ o.todo # <<>> /\ h = Ix!Next1(a) /\ h.cmd = cmd /\ h \in Elems(o.todo)
      /\ h.ids = o.ids /\ o.ids \subseteq Ids
  BY <1>1, Sends DEF Fits
<1>3. h.cmd \in Cmds(o.todo)
  BY <1>2 DEF Cmds
<1>4. o.kind = IF h.cmd = "undo" THEN "delete" ELSE "update"
  BY <1>1, <1>2, <1>3, KindOf
<1>5. PICK j \in Ids : o.ids = {j}
  BY <1>2, <1>4 DEF Shape
<1>6. (CHOOSE i \in Ix!Next1(a).ids : TRUE) = j
  BY <1>2, <1>5
<1>7. /\ stored' = stored /\ listed' = listed /\ member' = member /\ record' = record
      /\ gone' = gone /\ met' = met /\ cut' = cut
  BY DEF Ix!ReadRecord
<1>8. PICK more : /\ h.cmd = "undo" => more \in Ix!unfile(j, record[j])
                  /\ h.cmd = "refile" => more \in (IF o.pairs = {} THEN {<<>>} ELSE Ix!refile(j, o.pairs))
                  /\ Ix!Advance(a, more)
  <2>1. \E more \in CASE h.cmd = "undo" -> Ix!unfile(j, record[j])
                      [] h.cmd = "refile" /\ o.pairs = {} -> {<<>>}
                      [] OTHER -> Ix!refile(j, o.pairs) : Ix!Advance(a, more)
    BY <1>2, <1>6 DEF Ix!ReadRecord
  <2> QED
    BY <1>1, <1>2, <2>1
<1>9. /\ running' = [running EXCEPT ![a] = o2] /\ Resumes(o, o2, more)
      /\ IsOp(o2) /\ o2.kind = o.kind /\ o2.ids = o.ids
  BY <1>8, AdvanceIs DEF Resumes
<1>10. record[j] \in SUBSET Encoded
  BY DEF IxInv, IxTypes
<1> HIDE DEF o, o2, h
<1>11. Shape(o2) /\ \A E, l, F : Work(o, j, E, l, F, record[j]) => Work(o2, j, E, l, F, record[j])
  <2>1. CASE h.cmd = "undo"
    BY <1>2, <1>5, <1>8, <1>9, <1>10, <2>1, ReadUndo DEF h
  <2>2. CASE h.cmd = "refile"
    BY <1>2, <1>5, <1>8, <1>9, <1>10, <2>2, ReadRefile DEF h
  <2> QED
    BY <1>1, <1>2, <2>1, <2>2
<1>12. \A i \in Ids : Untouched(i)
  BY <1>7 DEF Untouched, FiledAt
<1>13. ASSUME NEW i \in o.ids, At(o, i)
       PROVE  Work(o2, i, stored'[i], listed', FiledAt(i)', record'[i])
  <2>1. i = j /\ i \in Ids
    BY <1>5
  <2>2. Work(o2, i, stored[i], listed, FiledAt(i), record[i])
    BY <1>11, <1>13, <2>1 DEF At
  <2>3. FiledAt(i)' = FiledAt(i)
    BY <1>7 DEF FiledAt
  <2> QED
    BY <1>7, <2>2, <2>3
<1>14. /\ DOMAIN stored' = Ids /\ member' \in [Ix!MemberKeys -> SUBSET Ids]
       /\ record' \in [Ids -> SUBSET Encoded]
  BY <1>7 DEF IxInv, IxTypes
<1>15. o2.kind \notin Lookups
  BY <1>4, <1>9 DEF Lookups
<1> QED
  BY <1>7, <1>9, <1>11, <1>12, <1>13, <1>14, <1>15, CarriesOn DEF o

LEMMA Emptied ==
  ASSUME NEW t \in Seq(Commands), Elems(t) = {}
  PROVE  t = <<>>
<1> SUFFICES ASSUME t # <<>> PROVE FALSE
  OBVIOUS
<1> QED
  BY Pop

\* The parts of the list that classify plans.
LEMMA OneIf ==
  ASSUME NEW c, NEW b \in BOOLEAN, ~b => c \in Commands,
         NEW t, t = IF b THEN <<>> ELSE <<c>>
  PROVE  t \in Seq(Commands) /\ Ordered(t) /\ Elems(t) = (IF b THEN {} ELSE {c})
<1>1. CASE b
  BY <1>1, Nothing
<1>2. CASE ~b
  BY <1>2, One
<1> QED
  BY <1>1, <1>2

\* Sweep the stale ones, gather the live ones.
Classified(key, stale, live, b) ==
  (IF stale = {} THEN <<>> ELSE <<Ix!Command("sweep", key, stale, {})>>)
  \o (IF b THEN <<>> ELSE <<Ix!Command("gather", <<>>, live, {})>>)
Sorted(more, key, stale, live, b) ==
  /\ more \in Seq(Commands) /\ Ordered(more)
  /\ \A c \in Elems(more) :
       \/ c.cmd = "sweep" /\ c.key = key /\ c.ids = stale /\ stale # {}
       \/ ~b /\ c.cmd = "gather" /\ c.ids = live
  /\ ~b => \E c \in Elems(more) : c.cmd = "gather" /\ c.ids = live

LEMMA ClassifyPlan ==
  ASSUME NEW key \in Ix!MemberKeys, NEW stale \in SUBSET Ids, NEW live \in SUBSET Ids,
         NEW b \in BOOLEAN, live = {} => b
  PROVE  Sorted(Classified(key, stale, live, b), key, stale, live, b)
<1> DEFINE x == Ix!Command("sweep", key, stale, {})
           y == Ix!Command("gather", <<>>, live, {})
           s == IF stale = {} THEN <<>> ELSE <<x>>
           t == IF b THEN <<>> ELSE <<y>>
           more == s \o t
           nil == <<>>
<1>1. x \in Commands /\ x.cmd = "sweep" /\ x.key = key /\ x.ids = stale
  BY CommandIs DEF Sent
<1>2. y \in Commands /\ y.cmd = "gather" /\ y.ids = live
  <2>1. "gather" \in Sent /\ nil \in Ix!MemberKeys \cup {<<>>} /\ {} \in SUBSET (Pairs \cup Encoded)
    BY DEF Sent
  <2>2. y = Ix!Command("gather", nil, live, {})
    OBVIOUS
  <2> HIDE DEF nil, y
  <2> QED
    BY <2>1, <2>2, CommandIs
<1>3. Classified(key, stale, live, b) = more
  BY DEF Classified
<1> HIDE DEF x, y
<1>4. s \in Seq(Commands) /\ Ordered(s) /\ Elems(s) = IF stale = {} THEN {} ELSE {x}
  BY <1>1, OneIf
<1>5. t \in Seq(Commands) /\ Ordered(t) /\ Elems(t) = IF b THEN {} ELSE {y}
  BY <1>2, OneIf
<1> HIDE DEF more, s, t
<1>6. \A c \in Elems(s), d \in Elems(t) : ~Late(c.cmd, d.cmd)
  <2>1. \A c \in Elems(s), d \in Elems(t) : c.cmd = "sweep" /\ d.cmd = "gather"
    BY <1>1, <1>2, <1>4, <1>5
  <2> QED
    BY <2>1 DEF Late
<1>7. more \in Seq(Commands) /\ Elems(more) = Elems(s) \cup Elems(t) /\ Ordered(more)
  BY <1>4, <1>5, <1>6, Join DEF more
<1>8. \A c \in Elems(more) : (c = x /\ stale # {}) \/ (c = y /\ ~b)
  BY <1>4, <1>5, <1>7
<1>9. ~b => y \in Elems(more)
  BY <1>5, <1>7
<1> QED
  BY <1>1, <1>2, <1>3, <1>7, <1>8, <1>9 DEF Sorted

LEMMA ClassifyStep ==
  ASSUME IxInv, NEW a \in Actors, Ix!Classify(a)
  PROVE  IxInv'
<1> DEFINE o == running[a]
           o2 == running'[a]
           t == o.todo
           h == Head(t)
           r == Tail(t)
           live == {i \in h.ids : stored[i] # None}
           stale == h.ids \ live
           b == live = {} \/ o.kind = "by_index"
           more == Classified(h.key, stale, live, b)
<1>1. Ix!Sending(a, "classify")
  BY DEF Ix!Classify
<1>2. /\ Shape(o) /\ t # <<>> /\ h = Ix!Next1(a) /\ h.cmd = "classify" /\ h \in Elems(t)
      /\ h.ids = o.ids /\ o.ids \subseteq Ids /\ h.key \in Ix!MemberKeys
      /\ t \in Seq(Commands) /\ Ordered(t)
  BY <1>1, Sends DEF Fits, Shape
<1>3. /\ Ix!Advance(a, more)
      /\ stored' = stored /\ listed' = listed /\ member' = member /\ record' = record
      /\ gone' = gone /\ met' = met /\ cut' = cut
  BY <1>2 DEF Ix!Classify, Classified
<1>4. "classify" \in Cmds(t)
  BY <1>2 DEF Cmds
<1>5. o.kind \in Lookups /\ Cmds(t) \subseteq {"classify"} /\ DOMAIN o.records = {}
  <2>1. o.kind \in Lookups /\ Cmds(t) \subseteq {"classify"}
    BY <1>2, <1>4, KindOf
  <2>2. Cmds(o.todo) \cap {"lookup", "classify", "sweep"} # {}
    BY <1>4
  <2> QED
    BY <1>2, <2>1, <2>2 DEF Shape
<1>6. r = <<>>
  <2>1. r \in Seq(Commands) /\ Elems(r) \subseteq Elems(t) /\ \A c \in Elems(r) : ~Late("classify", c.cmd)
    BY <1>2, Pop
  <2>2. \A c \in Elems(r) : c.cmd = "classify"
    BY <1>5, <2>1 DEF Cmds
  <2>3. Elems(r) = {}
    BY <2>1, <2>2 DEF Late
  <2> HIDE DEF r
  <2> QED
    BY <2>1, <2>3, Emptied
<1>7. Sorted(more, h.key, stale, live, b)
  <2>1. stale \in SUBSET Ids /\ live \in SUBSET Ids /\ b \in BOOLEAN /\ (live = {} => b)
    BY <1>2
  <2> HIDE DEF stale, live, b, h
  <2> QED
    BY <1>2, <2>1, ClassifyPlan
<1> HIDE DEF more
<1>8. /\ running' = [running EXCEPT ![a] = o2]
      /\ IsOp(o2) /\ o2.todo = more
      /\ o2.kind = o.kind /\ o2.ids = o.ids /\ o2.pairs = o.pairs /\ o2.records = o.records
  <2>1. /\ running' = [running EXCEPT ![a] = o2]
        /\ IsOp(o2) /\ o2.todo = more \o r
        /\ o2.kind = o.kind /\ o2.ids = o.ids /\ o2.pairs = o.pairs /\ o2.records = o.records
    BY <1>3, AdvanceIs
  <2>2. more \o <<>> = more
    <3>1. more \in Seq(Commands)
      BY <1>7 DEF Sorted
    <3> QED
      BY <3>1, ConcatEmptySeq
  <2> QED
    BY <1>6, <2>1, <2>2
<1> HIDE DEF o2
<1>9. Cmds(more) \subseteq {"sweep", "gather"} /\ ("gather" \in Cmds(more) <=> ~b)
  <2> HIDE DEF b, live, stale, h
  <2> QED
    BY <1>7 DEF Cmds, Sorted
<1>10. Shape(o2)
  <2>1. Plans(o2)
    <3>1. o.kind = "by_index" => Cmds(more) \subseteq {"sweep"}
      BY <1>9
    <3> HIDE DEF b, o, t
    <3> QED
      BY <1>5, <1>8, <1>9, <3>1 DEF Plans, Lookups
  <2>2. \A c \in Elems(more) : Fits(c, o.ids, o.pairs)
    <3>1. stale \subseteq o.ids /\ live \subseteq o.ids
      BY <1>2
    <3> HIDE DEF stale, live, b, h, o, t
    <3> QED
      BY <1>2, <1>7, <3>1 DEF Fits, Sorted
  <2>3. /\ o2.kind \in {"idle", "create", "update", "delete"} \cup Lookups
        /\ o2.kind # "idle" /\ o2.kind \notin {"create", "update", "delete"}
    BY <1>5, <1>8 DEF Lookups
  <2>4. /\ o2.ids \subseteq Ids /\ o2.pairs \subseteq Pairs
        /\ DOMAIN o2.records = {}
    BY <1>2, <1>5, <1>8 DEF Shape
  <2>5. "lookup" \notin Cmds(o2.todo)
    BY <1>8, <1>9
  <2> HIDE DEF o
  <2> QED
    BY <1>7, <1>8, <2>1, <2>2, <2>3, <2>4, <2>5 DEF Shape, Sorted
<1>11. \A i \in Ids : FiledAt(i)' = FiledAt(i) /\ Untouched(i) /\ (Cleaned(i) => Cleaned(i)')
  <2>1. \A i \in Ids : FiledAt(i)' = FiledAt(i)
    BY <1>3 DEF FiledAt
  <2> QED
    BY <1>3, <2>1 DEF Untouched, Cleaned
<1>12. ASSUME NEW i \in o.ids, At(o, i)
       PROVE  Work(o2, i, stored'[i], listed', FiledAt(i)', record'[i])
  <2>1. i \in Ids
    BY <1>2
  <2>2. /\ Named(t, i, FiledAt(i), record[i])
        /\ o.kind = "by_index" => Found(stored[i], FiledAt(i))
        /\ o.kind = "delete_by_index" => Deleting(o, i, stored[i], listed, FiledAt(i), record[i])
    BY <1>12 DEF At, Work
  <2>3. Found(stored[i], FiledAt(i))
    BY <1>4, <1>5, <2>2 DEF Deleting, Lookups
  <2>4. Named(more, i, FiledAt(i), record[i])
    <3>1. Cmds(t) \cap {"file", "unfile", "record", "prune"} = {}
      BY <1>5
    <3>2. Cmds(more) \cap {"file", "unfile", "record", "prune"} = {}
      BY <1>9
    <3> HIDE DEF t
    <3> QED
      BY <2>2, <3>1, <3>2, Quiet
  <2>5. Due(more, "sweep", i) # {} => stored[i] = None
    <3>1. Due(more, "sweep", i) # {} => i \in stale
      <4> HIDE DEF stale, live, b, h
      <4> QED
        BY <1>7 DEF Due, Sorted
    <3> QED
      BY <3>1
  <2>6. Deleting(o2, i, stored[i], listed, FiledAt(i), record[i]) \/ o.kind = "by_index"
    <3>1. "classify" \notin Cmds(more) /\ i \notin DOMAIN o2.records
      BY <1>5, <1>8, <1>9
    <3>2. CASE ~b
      <4>1. "gather" \in Cmds(more)
        BY <1>9, <3>2
      <4>2. stored[i] # None => i \in live
        BY <1>2
      <4>3. i \in live => Due(more, "gather", i) # {}
        <5> HIDE DEF b, live, stale, h
        <5> QED
          BY <1>7, <3>2 DEF Due, Sorted
      <4> QED
        BY <1>8, <2>3, <3>1, <4>1, <4>2, <4>3 DEF Deleting
    <3>3. CASE live = {}
      <4>1. stored[i] = None
        BY <1>2, <3>3
      <4>2. "gather" \notin Cmds(more)
        BY <1>9, <3>3
      <4> QED
        BY <1>8, <3>1, <4>1, <4>2 DEF Deleting
    <3> QED
      BY <3>2, <3>3
  <2>7. o2.kind \in {"by_index", "delete_by_index"}
    BY <1>5, <1>8 DEF Lookups
  <2> HIDE DEF o
  <2>8. Work(o2, i, stored[i], listed, FiledAt(i), record[i])
    BY <1>8, <2>3, <2>4, <2>5, <2>6, <2>7 DEF Work
  <2> QED
    BY <1>3, <1>11, <2>1, <2>8
<1>13. /\ DOMAIN stored' = Ids /\ member' \in [Ix!MemberKeys -> SUBSET Ids]
       /\ record' \in [Ids -> SUBSET Encoded]
  BY <1>3 DEF IxInv, IxTypes
<1>14. \A i \in o.ids : Cleaned(i) => Cleaned(i)'
  BY <1>2, <1>11
<1> HIDE DEF t, h, r, live, stale, b
<1> QED
  BY <1>3, <1>8, <1>10, <1>11, <1>12, <1>13, <1>14, CarriesOn

LEMMA SweepMembersStep ==
  ASSUME IxInv, NEW a \in Actors, Ix!Sweep(a)
  PROVE  IxInv'
<1> DEFINE o == running[a]
           o2 == running'[a]
           t == o.todo
           h == Head(t)
           r == Tail(t)
<1>1. Ix!Sending(a, "sweep")
  BY DEF Ix!Sweep
<1>2. /\ Shape(o) /\ t # <<>> /\ h = Ix!Next1(a) /\ h.cmd = "sweep" /\ h \in Elems(t)
      /\ h.ids \subseteq o.ids /\ o.ids \subseteq Ids /\ h.key \in Ix!MemberKeys
      /\ t \in Seq(Commands)
  BY <1>1, Sends DEF Fits, Shape
<1>3. /\ \/ member' = [member EXCEPT ![h.key] = member[h.key] \ h.ids]
         \/ member' = member
      /\ Ix!Advance(a, <<>>)
      /\ stored' = stored /\ listed' = listed /\ record' = record
      /\ gone' = gone /\ met' = met /\ cut' = cut
  BY <1>2 DEF Ix!Sweep
<1>4. /\ Cmds(t) = {"sweep"} \cup Cmds(r) /\ r \in Seq(Commands)
      /\ \A i : Due(t, "gather", i) = Due(r, "gather", i)
      /\ \A i : Due(r, "sweep", i) \subseteq Due(t, "sweep", i)
      /\ \A i \in h.ids : Due(t, "sweep", i) # {}
  <2>1. /\ Elems(t) = {h} \cup Elems(r) /\ r \in Seq(Commands)
    BY <1>2, Pop
  <2> HIDE DEF t, r, h
  <2> QED
    BY <1>2, <2>1 DEF Cmds, Due
<1>5. o.kind \in Lookups /\ Cmds(t) \subseteq {"sweep", "gather"} /\ DOMAIN o.records = {}
  <2>1. "sweep" \in Cmds(o.todo)
    BY <1>4
  <2>2. Cmds(o.todo) \cap {"lookup", "classify", "sweep"} # {}
    BY <2>1
  <2> QED
    BY <1>2, <2>1, <2>2, KindOf DEF Shape
<1>6. /\ running' = [running EXCEPT ![a] = o2]
      /\ IsOp(o2) /\ o2.todo = r
      /\ o2.kind = o.kind /\ o2.ids = o.ids /\ o2.pairs = o.pairs /\ o2.records = o.records
  BY <1>3, <1>4, AdvanceIs, ConcatEmptySeq
<1>7. Shape(o2)
  <2>1. Popped(o, o2)
    BY <1>6 DEF Popped
  <2> QED
    BY <1>2, <2>1, PopShape
<1>8. member \in [Ix!MemberKeys -> SUBSET Ids] /\ DOMAIN stored = Ids
      /\ record \in [Ids -> SUBSET Encoded]
  BY DEF IxInv, IxTypes
<1> HIDE DEF o, o2, t, h, r
<1>9. member' \in [Ix!MemberKeys -> SUBSET Ids]
  BY <1>2, <1>3, <1>8
<1>10. \A i \in Ids : /\ FiledAt(i)' \subseteq FiledAt(i)
                      /\ i \notin h.ids => FiledAt(i)' = FiledAt(i)
  BY <1>2, <1>3, <1>8 DEF FiledAt
<1>11. \A i \in Ids \ o.ids : Untouched(i)
  BY <1>2, <1>3, <1>10 DEF Untouched
<1>12. ASSUME NEW i \in o.ids, At(o, i)
       PROVE  /\ Work(o2, i, stored'[i], listed', FiledAt(i)', record'[i])
              /\ o2.kind \in Lookups /\ Cleaned(i) => Cleaned(i)'
  <2> DEFINE E == stored[i]
             F == FiledAt(i)
             F2 == FiledAt(i)'
             R == record[i]
  <2>1. i \in Ids
    BY <1>2
  <2>2. Work(o, i, E, listed, F, R)
    BY <1>12 DEF At
  <2>3. stored'[i] = E /\ record'[i] = R /\ listed' = listed /\ F2 \subseteq F
        /\ (i \notin h.ids => F2 = F)
    BY <1>3, <1>10, <2>1
  <2>4. Cleaned(i) => Cleaned(i)'
    BY <2>3 DEF Cleaned, Clean
  <2> HIDE DEF E, F, F2, R
  <2>5. /\ Named(t, i, F, R) /\ (Due(t, "sweep", i) # {} => E = None)
        /\ o.kind = "by_index" => Found(E, F)
        /\ o.kind = "delete_by_index" => Deleting(o, i, E, listed, F, R)
    BY <2>2 DEF Work, t
  <2>6. Found(E, F) => Found(E, F2)
    BY <1>4, <2>3, <2>5 DEF Found
  <2>7. Named(r, i, F2, R)
    <3>1. Cmds(t) \cap {"file", "unfile", "record", "prune"} = {}
      BY <1>5
    <3>2. Cmds(r) \cap {"file", "unfile", "record", "prune"} = {}
      BY <1>4, <3>1
    <3>3. \A k \in GoodKeys \cap F : Covers(R, k)
      BY <2>5, <3>1, Quiet
    <3>4. \A k \in GoodKeys \cap F2 : Covers(R, k)
      BY <2>3, <3>3
    <3> QED
      BY <3>2, <3>4, Quiet
  <2>8. Due(r, "sweep", i) # {} => E = None
    BY <1>4, <2>5
  <2>9. o.kind = "delete_by_index" => Deleting(o2, i, E, listed, F2, R)
    <3> SUFFICES ASSUME o.kind = "delete_by_index" PROVE Deleting(o2, i, E, listed, F2, R)
      OBVIOUS
    <3>1. "classify" \notin Cmds(t) /\ "classify" \notin Cmds(r) /\ i \notin DOMAIN o.records
      BY <1>4, <1>5
    <3>2. "gather" \in Cmds(t) <=> "gather" \in Cmds(r)
      BY <1>4
    <3>3. IF "gather" \in Cmds(t)
          THEN Found(E, F) /\ (Due(t, "gather", i) # {} \/ E = None)
          ELSE E = None
      BY <2>5, <3>1 DEF Deleting, t
    <3> QED
      BY <1>4, <1>6, <2>6, <3>1, <3>2, <3>3 DEF Deleting
  <2>10. o2.kind \in {"by_index", "delete_by_index"}
    BY <1>5, <1>6 DEF Lookups
  <2>11. Work(o2, i, E, listed, F2, R)
    BY <1>6, <2>5, <2>6, <2>7, <2>8, <2>9, <2>10 DEF Work
  <2> QED
    BY <2>3, <2>4, <2>11 DEF F2
<1> QED
  BY <1>3, <1>6, <1>7, <1>8, <1>9, <1>11, <1>12, CarriesOn DEF o

\* The first command gathers, and nothing follows it.
LEMMA Gathering ==
  ASSUME IxInv, NEW a \in Actors, Ix!Sending(a, "gather")
  PROVE  LET o == running[a]
             h == Head(o.todo)
         IN /\ Shape(o) /\ o.kind = "delete_by_index" /\ h = Ix!Next1(a)
            /\ h.ids \subseteq o.ids /\ o.ids \subseteq Ids
            /\ Elems(o.todo) = {h} /\ h.cmd = "gather" /\ Cmds(o.todo) = {"gather"}
<1> DEFINE o == running[a]
           t == o.todo
           h == Head(t)
           r == Tail(t)
<1>1. /\ Shape(o) /\ t # <<>> /\ h = Ix!Next1(a) /\ h.cmd = "gather" /\ h \in Elems(t)
      /\ h.ids \subseteq o.ids /\ o.ids \subseteq Ids /\ t \in Seq(Commands) /\ Ordered(t)
  BY Sends DEF Shape
<1>2. "gather" \in Cmds(t)
  BY <1>1 DEF Cmds
<1>3. o.kind = "delete_by_index" /\ Cmds(t) \subseteq {"sweep", "gather"}
  BY <1>1, <1>2, KindOf
<1>4. Elems(t) = {h} \cup Elems(r) /\ \A c \in Elems(r) : ~Late("gather", c.cmd)
  BY <1>1, Pop
<1> HIDE DEF o, t, h, r
<1>5. \A c \in Elems(r) : c.cmd \in {"sweep", "gather"}
  BY <1>3, <1>4 DEF Cmds
<1>6. Elems(r) = {}
  BY <1>4, <1>5 DEF Late
<1>7. Elems(t) = {h}
  BY <1>4, <1>6
<1>8. Cmds(t) = {"gather"}
  BY <1>1, <1>7 DEF Cmds
<1> QED
  BY <1>1, <1>3, <1>7, <1>8 DEF o, t, h

\* The record of i is read; the others of h are still to be.
Gathers(o, o2, h, i, R) ==
  /\ IsOp(o2) /\ o2.kind = o.kind /\ o2.ids = o.ids /\ o2.pairs = o.pairs
  /\ DOMAIN o2.records = DOMAIN o.records \cup {i}
  /\ \A j \in DOMAIN o2.records : o2.records[j] = IF j = i THEN R[i] ELSE o.records[j]
  /\ o2.todo \in IF h.ids = {i} THEN Ix!DeleteByIndex(o2.records)
                 ELSE {<<Ix!Command("gather", <<>>, h.ids \ {i}, {})>>}

LEMMA GatherShape ==
  ASSUME Ix!IndexedAssumption, NEW R \in [Ids -> SUBSET Encoded], NEW o, Shape(o),
         o.kind = "delete_by_index", NEW h, h.ids \subseteq o.ids, NEW i \in h.ids,
         NEW o2, Gathers(o, o2, h, i, R)
  PROVE  /\ Shape(o2) /\ DOMAIN o2.records \in SUBSET Ids
         /\ \A j \in DOMAIN o2.records : o2.records[j] \subseteq Encoded
<1>1. /\ o2.kind = o.kind /\ o2.ids = o.ids /\ o2.pairs = o.pairs
      /\ DOMAIN o2.records = DOMAIN o.records \cup {i}
      /\ \A j \in DOMAIN o2.records : o2.records[j] = IF j = i THEN R[i] ELSE o.records[j]
  BY DEF Gathers
<1>2. /\ o.ids \subseteq Ids /\ o.pairs \subseteq Pairs /\ DOMAIN o.records \subseteq o.ids
      /\ \A j \in DOMAIN o.records : o.records[j] \subseteq Encoded
  BY DEF Shape
<1>3. /\ DOMAIN o2.records \subseteq o2.ids /\ DOMAIN o2.records \in SUBSET Ids
      /\ \A j \in DOMAIN o2.records : o2.records[j] \subseteq Encoded
  BY <1>1, <1>2
<1>4. /\ o2.todo \in Seq(Commands) /\ Ordered(o2.todo)
      /\ \A c \in Elems(o2.todo) : Fits(c, o2.ids, o2.pairs)
      /\ Cmds(o2.todo) \subseteq {"gather"} \/ Cmds(o2.todo) \subseteq {"unfile", "omit", "prune", "remove"}
  <2>1. CASE h.ids = {i}
    <3>1. o2.todo \in Ix!DeleteByIndex(o2.records)
      BY <2>1 DEF Gathers
    <3> DEFINE l == o2.todo
               recs == o2.records
    <3>2. l \in Ix!DeleteByIndex(recs) /\ DOMAIN recs \in SUBSET Ids
          /\ \A j \in DOMAIN recs : recs[j] \subseteq Encoded
      BY <1>3, <3>1
    <3> HIDE DEF l, recs
    <3>3. /\ l \in Seq(Commands) /\ Ordered(l)
          /\ Cmds(l) \subseteq {"unfile", "omit", "prune", "remove"}
          /\ \A c \in Elems(l) : /\ c.ids \subseteq DOMAIN recs
                                 /\ c.cmd = "unfile" => c.key \in Ix!MemberKeys
                                 /\ c.cmd = "prune" => c.pairs \subseteq Encoded
      BY <3>2, DeleteByIndexPlan
    <3>4. \A c \in Elems(l) : c.cmd \in {"unfile", "omit", "prune", "remove"}
      BY <3>3 DEF Cmds
    <3>5. \A c \in Elems(l) : Fits(c, o2.ids, o2.pairs)
      BY <1>3, <3>3, <3>4 DEF Fits, recs
    <3> QED
      BY <3>3, <3>5 DEF l
  <2>2. CASE h.ids # {i}
    <3> DEFINE nil == <<>>
               left == h.ids \ {i}
               c == Ix!Command("gather", nil, left, {})
    <3>1. o2.todo = <<c>>
      BY <2>2 DEF Gathers
    <3>2. "gather" \in Sent /\ nil \in Ix!MemberKeys \cup {<<>>} /\ {} \in SUBSET (Pairs \cup Encoded)
          /\ left \in SUBSET Ids /\ left \subseteq o2.ids
      BY <1>1, <1>2 DEF Sent
    <3>3. c = Ix!Command("gather", nil, left, {})
      OBVIOUS
    <3> HIDE DEF nil, left, c
    <3>4. c \in Commands /\ c.cmd = "gather" /\ c.ids = left
      BY <3>2, <3>3, CommandIs
    <3>5. o2.todo \in Seq(Commands) /\ Ordered(o2.todo) /\ Elems(o2.todo) = {c} /\ Cmds(o2.todo) = {c.cmd}
      BY <3>1, <3>4, One
    <3>6. Fits(c, o2.ids, o2.pairs)
      BY <3>2, <3>4 DEF Fits
    <3> QED
      BY <3>4, <3>5, <3>6
  <2> QED
    BY <2>1, <2>2
<1>5. Plans(o2)
  BY <1>1, <1>4 DEF Plans
<1>6. /\ o2.kind \in {"idle", "create", "update", "delete"} \cup Lookups
      /\ o2.kind # "idle" /\ o2.kind \notin {"create", "update", "delete"}
  BY <1>1 DEF Lookups
<1>7. "lookup" \notin Cmds(o2.todo) /\ Cmds(o2.todo) \cap {"lookup", "classify", "sweep"} = {}
  BY <1>4
<1>8. o2.ids \subseteq Ids /\ o2.pairs \subseteq Pairs
  BY <1>1, <1>2
<1> QED
  BY <1>3, <1>4, <1>5, <1>6, <1>7, <1>8 DEF Shape

LEMMA GatherWork ==
  ASSUME Ix!IndexedAssumption, NEW R \in [Ids -> SUBSET Encoded], NEW o, Shape(o),
         o.kind = "delete_by_index", NEW h, h.ids \subseteq o.ids, NEW i \in h.ids,
         Elems(o.todo) = {h}, h.cmd = "gather",
         NEW o2, Gathers(o, o2, h, i, R),
         NEW j \in o.ids, NEW E, NEW l, NEW F, Work(o, j, E, l, F, R[j])
  PROVE  Work(o2, j, E, l, F, R[j])
<1> DEFINE t == o.todo
           u == o2.todo
           recs == o2.records
           Rj == R[j]
<1>1. /\ o2.kind = "delete_by_index"
      /\ DOMAIN recs = DOMAIN o.records \cup {i}
      /\ \A k \in DOMAIN recs : recs[k] = IF k = i THEN R[i] ELSE o.records[k]
  BY DEF Gathers
<1>2. Cmds(t) = {"gather"} /\ Due(t, "gather", j) = {c \in {h} : j \in h.ids}
  BY DEF Cmds, Due
<1>3. Named(t, j, F, Rj) /\ Deleting(o, j, E, l, F, Rj)
  BY DEF Work
<1>4. /\ Found(E, F)
      /\ j \in DOMAIN o.records \/ j \in h.ids \/ E = None
      /\ j \in DOMAIN o.records => o.records[j] = Rj
  BY <1>2, <1>3 DEF Deleting
<1>5. j \in DOMAIN recs => recs[j] = Rj
  BY <1>1, <1>4
<1>6. \A k \in GoodKeys \cap F : Covers(Rj, k)
  <2>1. Cmds(t) \cap {"file", "unfile", "record", "prune"} = {}
    BY <1>2
  <2> HIDE DEF t, Rj
  <2> QED
    BY <1>3, <2>1, Quiet
<1> HIDE DEF t, Rj
<1>7. CASE h.ids # {i}
  <2> DEFINE nil == <<>>
             left == h.ids \ {i}
             c == Ix!Command("gather", nil, left, {})
  <2>1. u = <<c>>
    BY <1>7 DEF Gathers
  <2>2. c.cmd = "gather" /\ c.ids = left
    BY DEF Ix!Command
  <2>3. Elems(u) = {c}
    <3> HIDE DEF c
    <3>1. DOMAIN u = {1} /\ u[1] = c
      BY <2>1
    <3> HIDE DEF u
    <3> QED
      BY <3>1 DEF Elems
  <2> HIDE DEF c, u
  <2>4. Cmds(u) = {"gather"}
    BY <2>2, <2>3 DEF Cmds
  <2>5. j \in left => Due(u, "gather", j) # {}
    <3> HIDE DEF left
    <3> QED
      BY <2>2, <2>3 DEF Due
  <2>6. j \in DOMAIN recs \/ Due(u, "gather", j) # {} \/ E = None
    BY <1>1, <1>4, <2>5
  <2>7. "classify" \notin Cmds(u) /\ "gather" \in Cmds(u) /\ "sweep" \notin Cmds(u)
        /\ Cmds(u) \cap {"file", "unfile", "record", "prune"} = {}
    BY <2>4
  <2>8. Deleting(o2, j, E, l, F, Rj)
    BY <1>4, <1>5, <2>6, <2>7 DEF Deleting, u
  <2>9. Named(u, j, F, Rj)
    BY <1>6, <2>7, Quiet
  <2>10. Due(u, "sweep", j) = {}
    BY <2>7, Absent
  <2> QED
    BY <1>1, <2>8, <2>9, <2>10 DEF Work, u, Rj
<1>8. CASE h.ids = {i}
  <2>1. /\ u \in Ix!DeleteByIndex(recs) /\ DOMAIN recs \in SUBSET Ids
        /\ \A k \in DOMAIN recs : recs[k] \subseteq Encoded
    <3>1. o2.todo \in Ix!DeleteByIndex(o2.records)
      BY <1>8 DEF Gathers
    <3> QED
      BY <3>1, GatherShape
  <2> HIDE DEF u, recs
  <2>2. /\ Cmds(u) \subseteq {"unfile", "omit", "prune", "remove"}
        /\ \A c \in Elems(u) : c.ids \subseteq DOMAIN recs
        /\ \A k \in DOMAIN recs :
              /\ Due(u, "remove", k) # {} /\ Due(u, "omit", k) # {}
              /\ recs[k] \subseteq Names(u, "prune", k)
              /\ \A d \in recs[k] : Ix!Undo(d) \in Owed(u, "unfile", k)
    BY <2>1, DeleteByIndexPlan
  <2>3. "classify" \notin Cmds(u) /\ "gather" \notin Cmds(u) /\ "sweep" \notin Cmds(u)
        /\ "file" \notin Cmds(u) /\ "record" \notin Cmds(u)
    BY <2>2
  <2>4. Due(u, "sweep", j) = {} /\ Owed(u, "file", j) = {} /\ Names(u, "record", j) = {}
    BY <2>3, Absent
  <2>5. Deleting(o2, j, E, l, F, Rj)
    <3>1. CASE j \in DOMAIN recs
      <4>1. Undone(u, j, E, l, Rj)
        BY <1>5, <2>2, <3>1 DEF Undone
      <4> QED
        BY <2>3, <3>1, <4>1 DEF Deleting, u, recs
    <3>2. CASE j \notin DOMAIN recs
      <4>1. E = None
        BY <1>1, <1>4, <1>8, <3>2
      <4> QED
        BY <2>3, <3>2, <4>1 DEF Deleting, u, recs
    <3> QED
      BY <3>1, <3>2
  <2>6. Named(u, j, F, Rj)
    <3>1. Rj \cup Names(u, "record", j) = Rj
      BY <2>4
    <3>2. ASSUME NEW k \in GoodKeys \cap Held(u, j, F) PROVE Covers(Kept(u, j, Rj), k)
      <4>1. k \in F /\ k \notin Owed(u, "unfile", j)
        BY <2>4, <3>2 DEF Held
      <4>2. PICK d \in Rj : Ix!Undo(d) = k
        BY <1>6, <4>1 DEF Covers
      <4>3. j \notin DOMAIN recs
        BY <1>5, <2>2, <4>1, <4>2
      <4>4. Due(u, "prune", j) = {}
        BY <2>2, <4>3 DEF Due
      <4>5. Names(u, "prune", j) = {}
        BY <4>4 DEF Names
      <4> QED
        BY <4>2, <4>5 DEF Kept, Covers
    <3> QED
      BY <1>6, <3>1, <3>2 DEF Named
  <2> QED
    BY <1>1, <2>4, <2>5, <2>6 DEF Work, u, Rj
<1> QED
  BY <1>7, <1>8

LEMMA GatherStep ==
  ASSUME Ix!IndexedAssumption, IxInv, NEW a \in Actors, Ix!Gather(a)
  PROVE  IxInv'
<1> DEFINE o == running[a]
           o2 == running'[a]
           h == Head(o.todo)
<1>1. /\ Shape(o) /\ o.kind = "delete_by_index" /\ h = Ix!Next1(a)
      /\ h.ids \subseteq o.ids /\ o.ids \subseteq Ids
      /\ Elems(o.todo) = {h} /\ h.cmd = "gather" /\ Cmds(o.todo) = {"gather"}
  BY Gathering DEF Ix!Gather
<1>2. /\ stored' = stored /\ listed' = listed /\ member' = member /\ record' = record
      /\ gone' = gone /\ met' = met /\ cut' = cut
  BY DEF Ix!Gather
<1>3. /\ DOMAIN running = Actors /\ IsOp(o) /\ record \in [Ids -> SUBSET Encoded]
      /\ DOMAIN stored = Ids /\ member \in [Ix!MemberKeys -> SUBSET Ids]
  BY DEF IxInv, IxTypes
<1>4. PICK i, recs, todo :
        /\ i \in h.ids
        /\ recs = [j \in DOMAIN o.records \cup {i} |-> IF j = i THEN record[i] ELSE o.records[j]]
        /\ todo \in IF h.ids = {i} THEN Ix!DeleteByIndex(recs)
                    ELSE {<<Ix!Command("gather", <<>>, h.ids \ {i}, {})>>}
        /\ running' = [running EXCEPT ![a].records = recs, ![a].todo = todo]
  <2> DEFINE Recs(i) == [j \in DOMAIN o.records \cup {i} |-> IF j = i THEN record[i] ELSE o.records[j]]
  <2>1. PICK i \in Ix!Next1(a).ids :
          \E todo \in IF Ix!Next1(a).ids \ {i} = {} THEN Ix!DeleteByIndex(Recs(i))
                      ELSE {<<Ix!Command("gather", <<>>, Ix!Next1(a).ids \ {i}, {})>>} :
            running' = [running EXCEPT ![a].records = Recs(i), ![a].todo = todo]
    BY DEF Ix!Gather
  <2>2. PICK recs : recs = Recs(i)
    OBVIOUS
  <2> HIDE DEF Recs
  <2>3. PICK todo \in IF h.ids \ {i} = {} THEN Ix!DeleteByIndex(recs)
                      ELSE {<<Ix!Command("gather", <<>>, h.ids \ {i}, {})>>} :
            running' = [running EXCEPT ![a].records = recs, ![a].todo = todo]
    BY <1>1, <2>1, <2>2
  <2>4. i \in h.ids /\ (h.ids \ {i} = {} <=> h.ids = {i})
    BY <1>1, <2>1
  <2>5. todo \in IF h.ids = {i} THEN Ix!DeleteByIndex(recs)
                 ELSE {<<Ix!Command("gather", <<>>, h.ids \ {i}, {})>>}
    BY <2>3, <2>4
  <2> QED
    BY <2>2, <2>3, <2>4, <2>5 DEF Recs
<1>5. /\ running' = [running EXCEPT ![a] = o2] /\ Gathers(o, o2, h, i, record)
  <2> DEFINE q == [o EXCEPT !.records = recs]
             p == [q EXCEPT !.todo = todo]
  <2>1. running' = [running EXCEPT ![a] = p]
    BY <1>3, <1>4
  <2>2. o = [kind |-> o.kind, todo |-> o.todo, ids |-> o.ids, pairs |-> o.pairs,
             left |-> o.left, records |-> o.records]
    BY <1>3 DEF IsOp
  <2> HIDE DEF o
  <2>3. p = [kind |-> o.kind, todo |-> todo, ids |-> o.ids, pairs |-> o.pairs,
             left |-> o.left, records |-> recs]
    <3>1. q = [kind |-> o.kind, todo |-> o.todo, ids |-> o.ids, pairs |-> o.pairs,
               left |-> o.left, records |-> recs]
      BY <2>2
    <3> HIDE DEF q
    <3> QED
      BY <3>1
  <2> HIDE DEF p
  <2>4. /\ p.kind = o.kind /\ p.todo = todo /\ p.ids = o.ids /\ p.pairs = o.pairs
        /\ p.left = o.left /\ p.records = recs
    BY <2>3
  <2>5. IsOp(p)
    BY <2>3, <2>4 DEF IsOp
  <2>6. o2 = p
    BY <1>3, <2>1
  <2>7. /\ DOMAIN recs = DOMAIN o.records \cup {i}
        /\ \A j \in DOMAIN recs : recs[j] = IF j = i THEN record[i] ELSE o.records[j]
    BY <1>4
  <2> HIDE DEF o2, h
  <2>8. Gathers(o, p, h, i, record)
    BY <1>4, <2>4, <2>5, <2>7 DEF Gathers
  <2> QED
    BY <2>1, <2>6, <2>8
<1> HIDE DEF o2, h
<1>6. Shape(o2) /\ IsOp(o2) /\ o2.kind = o.kind /\ o2.ids = o.ids
  <2>1. Shape(o2)
    <3> HIDE DEF o
    <3> QED
      BY <1>1, <1>3, <1>4, <1>5, GatherShape
  <2> QED
    BY <1>5, <2>1 DEF Gathers
<1>7. \A j \in Ids : FiledAt(j)' = FiledAt(j) /\ Untouched(j) /\ (Cleaned(j) => Cleaned(j)')
  <2>1. \A j \in Ids : FiledAt(j)' = FiledAt(j)
    BY <1>2 DEF FiledAt
  <2> QED
    BY <1>2, <2>1 DEF Untouched, Cleaned
<1>8. ASSUME NEW j \in o.ids, At(o, j)
      PROVE  Work(o2, j, stored'[j], listed', FiledAt(j)', record'[j])
  <2>1. j \in Ids
    BY <1>1
  <2>2. Work(o, j, stored[j], listed, FiledAt(j), record[j])
    BY <1>8 DEF At
  <2>3. Work(o2, j, stored[j], listed, FiledAt(j), record[j])
    <3> HIDE DEF o
    <3> QED
      BY <1>1, <1>3, <1>4, <1>5, <1>8, <2>2, GatherWork
  <2> QED
    BY <1>2, <1>7, <2>1, <2>3
<1>9. /\ DOMAIN stored' = Ids /\ member' \in [Ix!MemberKeys -> SUBSET Ids]
      /\ record' \in [Ids -> SUBSET Encoded]
  BY <1>2, <1>3
<1>10. \A j \in o.ids : Cleaned(j) => Cleaned(j)'
  BY <1>1, <1>7
<1> QED
  BY <1>2, <1>5, <1>6, <1>7, <1>8, <1>9, <1>10, CarriesOn DEF o

\* An operation takes up IDs: those nobody is at are at rest.
LEMMA Joins ==
  ASSUME IxInv, NEW a \in Actors, NEW o2, running' = [running EXCEPT ![a] = o2],
         running[a].ids = {}, IsOp(o2), Shape(o2),
         stored' = stored, listed' = listed, member' = member, record' = record, cut' = cut,
         met' = met \cup (Ix!Busy \cap o2.ids), gone' \subseteq gone,
         \A i \in o2.ids : /\ AtRest(i) => At(o2, i)
                           /\ i \in gone' => o2.kind \in Lookups
  PROVE  IxInv'
<1>1. DOMAIN running = Actors /\ DOMAIN running' = Actors
  BY DEF IxInv, IxTypes
<1>2. running'[a] = o2 /\ \A b \in Actors : b # a => running'[b] = running[b]
  BY <1>1
<1>3. IxTypes'
  <2>1. \A b \in Actors : IsOp(running'[b]) /\ Shape(running'[b])
    BY <1>2 DEF IxInv, IxTypes
  <2>2. /\ DOMAIN stored' = Ids /\ member' \in [Ix!MemberKeys -> SUBSET Ids]
        /\ record' \in [Ids -> SUBSET Encoded]
    BY DEF IxInv, IxTypes
  <2> QED
    BY <1>1, <2>1, <2>2 DEF IxTypes
<1>4. \A b \in Actors : running[b].ids \subseteq Ix!Busy
  BY DEF Ix!Busy
<1>5. Separate'
  <2> SUFFICES ASSUME NEW b \in Actors, NEW c \in Actors, b # c
               PROVE  running'[b].ids \cap running'[c].ids \subseteq met'
    BY DEF Separate
  <2>1. CASE b # a /\ c # a
    BY <1>2, <2>1 DEF IxInv, Separate
  <2>2. CASE b = a
    <3>1. running'[b] = o2 /\ running'[c] = running[c]
      BY <1>2, <2>2
    <3> QED
      BY <1>4, <3>1
  <2>3. CASE c = a
    <3>1. running'[c] = o2 /\ running'[b] = running[b]
      BY <1>2, <2>3
    <3> QED
      BY <1>4, <3>1
  <2> QED
    BY <2>1, <2>2, <2>3
<1>6. ASSUME NEW i \in Ids \ (met' \cup cut') PROVE Agreed(i)'
  <2>1. /\ (\A b \in Actors : i \notin running[b].ids) => AtRest(i)
        /\ \A b \in Actors : i \in running[b].ids => At(running[b], i)
        /\ i \in gone => /\ Cleaned(i)
                         /\ \A b \in Actors : i \in running[b].ids => running[b].kind \in Lookups
    BY DEF IxInv, Agreed
  <2>2. Untouched(i)
    BY DEF Untouched, FiledAt
  <2>3. AtRest(i) => AtRest(i)'
    BY <2>2, UntouchedIs
  <2>4. Cleaned(i) => Cleaned(i)'
    BY <2>2, UntouchedIs
  <2>5. ASSUME NEW o, At(o, i) PROVE At(o, i)'
    <3>1. Work(o, i, stored'[i], listed', FiledAt(i)', record'[i])
      BY <2>2, <2>5, UntouchedIs
    <3> QED
      BY <3>1 DEF At
  <2>6. CASE i \in o2.ids
    <3>1. \A b \in Actors : i \notin running[b].ids
      BY <1>4, <2>6
    <3>2. At(o2, i)
      BY <2>1, <2>6, <3>1
    <3>3. \A b \in Actors : i \in running'[b].ids => b = a
      BY <1>2, <3>1
    <3>4. i \in running'[a].ids
      BY <1>2, <2>6
    <3>5. \A b \in Actors : i \in running'[b].ids => At(running[b], i)'
      <4> SUFFICES ASSUME NEW b \in Actors, i \in running'[b].ids PROVE At(running[b], i)'
        OBVIOUS
      <4>1. b = a
        BY <3>3
      <4>2. At(o2, i)'
        <5>1. Work(o2, i, stored'[i], listed', FiledAt(i)', record'[i])
          BY <2>2, <3>2, UntouchedIs
        <5>2. Work(running'[a], i, stored'[i], listed', FiledAt(i)', record'[i])
          BY <1>2, <5>1
        <5> QED
          BY <1>2, <5>2 DEF At
      <4> QED
        BY <1>2, <4>1, <4>2 DEF At
    <3>6. i \in gone' => /\ Cleaned(i)'
                        /\ \A b \in Actors : i \in running'[b].ids => running'[b].kind \in Lookups
      BY <1>2, <2>1, <2>4, <2>6, <3>3
    <3> QED
      BY <3>4, <3>5, <3>6 DEF Agreed
  <2>7. CASE i \notin o2.ids
    <3>1. \A b \in Actors : i \in running'[b].ids => b # a /\ running'[b] = running[b]
      BY <1>2, <2>7
    <3>2. (\A b \in Actors : i \notin running'[b].ids) => \A b \in Actors : i \notin running[b].ids
      BY <1>2
    <3>3. \A b \in Actors : i \in running'[b].ids => At(running[b], i)'
      <4> SUFFICES ASSUME NEW b \in Actors, i \in running'[b].ids PROVE At(running[b], i)'
        OBVIOUS
      <4>1. running'[b] = running[b] /\ At(running[b], i)
        BY <2>1, <3>1
      <4>2. Work(running[b], i, stored'[i], listed', FiledAt(i)', record'[i])
        BY <2>2, <4>1, UntouchedIs
      <4> QED
        BY <4>1, <4>2 DEF At
    <3>4. i \in gone' => /\ Cleaned(i)'
                        /\ \A b \in Actors : i \in running'[b].ids => running'[b].kind \in Lookups
      BY <2>1, <2>4, <3>1
    <3> QED
      BY <2>1, <2>3, <3>2, <3>3, <3>4 DEF Agreed
  <2> QED
    BY <2>6, <2>7
<1> QED
  BY <1>3, <1>5, <1>6 DEF IxInv

LEMMA LookupStep ==
  ASSUME IxInv, NEW a \in Actors, Ix!ReadMembers(a)
  PROVE  IxInv'
<1> DEFINE o == running[a]
           t == o.todo
           h == Head(t)
           nil == <<>>
           ids == member[h.key]
           c == Ix!Command("classify", h.key, ids, {})
           u == IF ids = {} THEN nil ELSE <<c>>
           p == [o EXCEPT !.ids = ids]
           o2 == [p EXCEPT !.todo = u]
<1>1. Ix!Sending(a, "lookup")
  BY DEF Ix!ReadMembers
<1>2. /\ Shape(o) /\ t # <<>> /\ h = Ix!Next1(a) /\ h.cmd = "lookup" /\ h \in Elems(t)
      /\ h.key \in Ix!MemberKeys
  BY <1>1, Sends DEF Fits
<1>3. /\ DOMAIN running = Actors /\ IsOp(o) /\ member \in [Ix!MemberKeys -> SUBSET Ids]
  BY DEF IxInv, IxTypes
<1>4. /\ running' = [running EXCEPT ![a] = o2]
      /\ met' = met \cup (Ix!Busy \cap ids)
      /\ stored' = stored /\ listed' = listed /\ member' = member /\ record' = record
      /\ gone' = gone /\ cut' = cut
  <2>1. /\ running' = [running EXCEPT ![a].ids = ids, ![a].todo = u]
        /\ met' = met \cup (Ix!Busy \cap ids)
        /\ stored' = stored /\ listed' = listed /\ member' = member /\ record' = record
        /\ gone' = gone /\ cut' = cut
    BY <1>2 DEF Ix!ReadMembers
  <2> HIDE DEF ids, u
  <2> QED
    BY <1>3, <2>1
<1>5. "lookup" \in Cmds(t)
  BY <1>2 DEF Cmds
<1>6. o.kind \in Lookups /\ o.ids = {} /\ DOMAIN o.records = {} /\ o.pairs \subseteq Pairs
  <2>1. Cmds(o.todo) \cap {"lookup", "classify", "sweep"} # {}
    BY <1>5
  <2> QED
    BY <1>2, <1>5, <2>1, KindOf DEF Shape
<1>7. /\ o2.kind = o.kind /\ o2.todo = u /\ o2.ids = ids /\ o2.pairs = o.pairs
      /\ o2.records = o.records /\ IsOp(o2)
  <2>1. o = [kind |-> o.kind, todo |-> o.todo, ids |-> o.ids, pairs |-> o.pairs,
             left |-> o.left, records |-> o.records]
    BY <1>3 DEF IsOp
  <2> HIDE DEF o, t, h, ids, u
  <2>2. p = [kind |-> o.kind, todo |-> o.todo, ids |-> ids, pairs |-> o.pairs,
             left |-> o.left, records |-> o.records]
    BY <2>1
  <2> HIDE DEF p
  <2>3. o2 = [kind |-> o.kind, todo |-> u, ids |-> ids, pairs |-> o.pairs,
             left |-> o.left, records |-> o.records]
    BY <2>2
  <2> HIDE DEF o2
  <2>4. /\ o2.kind = o.kind /\ o2.todo = u /\ o2.ids = ids /\ o2.pairs = o.pairs
        /\ o2.left = o.left /\ o2.records = o.records
    BY <2>3
  <2> QED
    BY <2>3, <2>4 DEF IsOp
<1>8. ids \in SUBSET Ids
  BY <1>2, <1>3
<1> HIDE DEF o, t, h, p, o2
<1>9. /\ u \in Seq(Commands) /\ Ordered(u) /\ Cmds(u) \subseteq {"classify"}
      /\ \A d \in Elems(u) : Fits(d, ids, o.pairs)
      /\ ids # {} => "classify" \in Cmds(u)
  <2>1. CASE ids = {}
    BY <2>1, Nothing
  <2>2. CASE ids # {}
    <3>1. "classify" \in Sent /\ {} \in SUBSET (Pairs \cup Encoded)
      BY DEF Sent
    <3>2. c = Ix!Command("classify", h.key, ids, {})
      OBVIOUS
    <3>3. u = <<c>>
      BY <2>2
    <3> HIDE DEF ids, c, u
    <3>4. c \in Commands /\ c.cmd = "classify" /\ c.key = h.key /\ c.ids = ids
      BY <1>2, <1>8, <3>1, <3>2, CommandIs
    <3>5. Fits(c, ids, o.pairs)
      BY <1>2, <3>4 DEF Fits
    <3>6. u \in Seq(Commands) /\ Ordered(u) /\ Elems(u) = {c} /\ Cmds(u) = {c.cmd}
      BY <3>3, <3>4, One
    <3> QED
      BY <3>4, <3>5, <3>6
  <2> QED
    BY <2>1, <2>2
<1> HIDE DEF u, ids
<1>10. Shape(o2)
  <2>1. Plans(o2)
    BY <1>6, <1>7, <1>9 DEF Plans, Lookups
  <2>2. /\ o2.kind \in {"idle", "create", "update", "delete"} \cup Lookups
        /\ o2.kind # "idle" /\ o2.kind \notin {"create", "update", "delete"}
    BY <1>6, <1>7 DEF Lookups
  <2>3. DOMAIN o2.records = {} /\ "lookup" \notin Cmds(o2.todo)
    BY <1>6, <1>7, <1>9
  <2> QED
    BY <1>6, <1>7, <1>8, <1>9, <2>1, <2>2, <2>3 DEF Shape
<1>11. ASSUME NEW i \in ids, AtRest(i) PROVE At(o2, i)
  <2>1. Found(stored[i], FiledAt(i)) /\ Named(<<>>, i, FiledAt(i), record[i])
    BY <1>11 DEF AtRest, Rest
  <2>2. Named(u, i, FiledAt(i), record[i])
    <3>1. \A k \in GoodKeys \cap FiledAt(i) : Covers(record[i], k)
      BY <2>1, Nothing, Quiet
    <3>2. Cmds(u) \cap {"file", "unfile", "record", "prune"} = {}
      BY <1>9
    <3> QED
      BY <3>1, <3>2, Quiet
  <2>3. "classify" \in Cmds(u) /\ "sweep" \notin Cmds(u)
    BY <1>9
  <2>4. Due(u, "sweep", i) = {}
    BY <2>3, Absent
  <2>5. Deleting(o2, i, stored[i], listed, FiledAt(i), record[i])
    BY <1>7, <2>1, <2>3 DEF Deleting
  <2>6. o2.kind \in {"by_index", "delete_by_index"}
    BY <1>6, <1>7 DEF Lookups
  <2> QED
    BY <1>7, <2>1, <2>2, <2>4, <2>5, <2>6 DEF At, Work
<1> QED
  BY <1>4, <1>6, <1>7, <1>10, <1>11, Joins DEF o

\* What begin makes of Idle.
Begun(kind, todo, ids, pairs, left) ==
  [Ix!Idle EXCEPT !.kind = kind, !.todo = todo, !.ids = ids, !.pairs = pairs, !.left = left]

LEMMA BegunIs ==
  ASSUME NEW kind, NEW todo, NEW ids, NEW pairs, NEW left, NEW o,
         o = Begun(kind, todo, ids, pairs, left)
  PROVE  /\ IsOp(o) /\ o.kind = kind /\ o.todo = todo /\ o.ids = ids /\ o.pairs = pairs
         /\ DOMAIN o.records = {}
<1> DEFINE nil == <<>>
           none == {}
           idle == "idle"
           w == [kind |-> idle, todo |-> nil, ids |-> none, pairs |-> none, left |-> 0,
                 records |-> nil]
           x == [w EXCEPT !.kind = kind]
           y == [x EXCEPT !.todo = todo]
           z == [y EXCEPT !.ids = ids]
           v == [z EXCEPT !.pairs = pairs]
           u == [v EXCEPT !.left = left]
<1>1. w = Ix!Idle
  BY DEF Ix!Idle
<1>2. o = u
  BY <1>1 DEF Begun
<1>3. DOMAIN nil = {}
  OBVIOUS
<1> HIDE DEF nil, none, idle
<1>4. x = [kind |-> kind, todo |-> nil, ids |-> none, pairs |-> none, left |-> 0, records |-> nil]
  OBVIOUS
<1> HIDE DEF x
<1>5. y = [kind |-> kind, todo |-> todo, ids |-> none, pairs |-> none, left |-> 0, records |-> nil]
  BY <1>4
<1> HIDE DEF y
<1>6. z = [kind |-> kind, todo |-> todo, ids |-> ids, pairs |-> none, left |-> 0, records |-> nil]
  BY <1>5
<1> HIDE DEF z
<1>7. v = [kind |-> kind, todo |-> todo, ids |-> ids, pairs |-> pairs, left |-> 0, records |-> nil]
  BY <1>6
<1> HIDE DEF v
<1>8. u = [kind |-> kind, todo |-> todo, ids |-> ids, pairs |-> pairs, left |-> left, records |-> nil]
  BY <1>7
<1> HIDE DEF u
<1>9. /\ o.kind = kind /\ o.todo = todo /\ o.ids = ids /\ o.pairs = pairs /\ o.left = left
      /\ o.records = nil
  <2>1. /\ u.kind = kind /\ u.todo = todo /\ u.ids = ids /\ u.pairs = pairs /\ u.left = left
        /\ u.records = nil
    BY <1>8
  <2> QED
    BY <1>2, <2>1
<1>10. IsOp(o)
  BY <1>2, <1>8, <1>9 DEF IsOp
<1> QED
  BY <1>3, <1>9, <1>10

\* A plan for one ID, and what it promises of one at rest.
LEMMA BegunShape ==
  ASSUME Ix!IndexedAssumption, NEW i \in Ids, NEW o, DOMAIN o.records = {}, o.ids = {i},
         o.pairs \in SUBSET Pairs, o.kind \in {"create", "update", "delete"},
         o.todo \in Ix!Plan(o.kind, i, o.pairs)
  PROVE  /\ Shape(o)
         /\ \A E, l, F, R : Rest(i, E, F, R) => Work(o, i, E, l, F, R)
<1> DEFINE t == o.todo
<1>1. ASSUME NEW C, C = Cmds(t), C \cap {"lookup", "classify", "sweep"} = {},
             t \in Seq(Commands), Ordered(t), \A c \in Elems(t) : Fits(c, {i}, o.pairs), Plans(o)
      PROVE  Shape(o)
  <2>1. /\ o.kind \in {"idle", "create", "update", "delete"} \cup Lookups
        /\ o.kind # "idle" /\ o.ids \subseteq Ids /\ o.pairs \subseteq Pairs
        /\ "lookup" \notin Cmds(o.todo) /\ DOMAIN o.records \subseteq o.ids
    BY <1>1
  <2> QED
    BY <1>1, <2>1 DEF Shape
<1>2. ASSUME NEW E, NEW F, NEW R, Rest(i, E, F, R)
      PROVE  Found(E, F) /\ \A k \in GoodKeys \cap F : Covers(R, k)
  BY <1>2, Nothing, Quiet DEF Rest
<1>3. CASE o.kind = "create"
  <2>1. /\ t \in Seq(Commands) /\ Ordered(t)
        /\ Cmds(t) \subseteq {"file", "record", "enumerate", "put"}
        /\ \A c \in Elems(t) : Fits(c, {i}, o.pairs)
        /\ Owed(t, "file", i) = {Ix!KeyOf(p) : p \in o.pairs}
        /\ Names(t, "record", i) = {Ix!pair(p) : p \in o.pairs}
        /\ Due(t, "put", i) # {}
    <3>1. t \in Ix!Create(i, o.pairs)
      BY <1>3 DEF Ix!Plan
    <3> QED
      BY <3>1, CreatePlan
  <2>2. \A p \in o.pairs : Ix!KeyOf(p) \in GoodKeys => Ix!Undo(Ix!pair(p)) = Ix!KeyOf(p)
    BY UndoIs
  <2> HIDE DEF t
  <2>3. Plans(o)
    BY <1>3, <2>1 DEF Plans, t
  <2>4. Shape(o)
    BY <1>1, <2>1, <2>3
  <2>5. "unfile" \notin Cmds(t) /\ "prune" \notin Cmds(t) /\ "sweep" \notin Cmds(t)
    BY <2>1
  <2>6. Owed(t, "unfile", i) = {} /\ Names(t, "prune", i) = {} /\ Due(t, "sweep", i) = {}
    BY <2>5, Absent
  <2>7. ASSUME NEW E, NEW l, NEW F, NEW R, Rest(i, E, F, R) PROVE Work(o, i, E, l, F, R)
    <3>1. \A k \in GoodKeys \cap F : Covers(R, k)
      BY <1>2, <2>7
    <3>2. Held(t, i, F) = Owed(t, "file", i) \cup F /\ Kept(t, i, R) = R \cup Names(t, "record", i)
      BY <2>6 DEF Held, Kept
    <3>3. ASSUME NEW k \in GoodKeys \cap Held(t, i, F) PROVE Covers(R \cup Names(t, "record", i), k)
      <4>1. CASE k \in F
        BY <3>1, <3>3, <4>1 DEF Covers
      <4>2. CASE k \in Owed(t, "file", i)
        <5>1. PICK p \in o.pairs : k = Ix!KeyOf(p)
          BY <2>1, <4>2
        <5>2. Ix!pair(p) \in Names(t, "record", i)
          BY <2>1
        <5> QED
          BY <2>2, <3>3, <5>1, <5>2 DEF Covers
      <4> QED
        BY <3>2, <3>3, <4>1, <4>2
    <3>4. Named(t, i, F, R)
      BY <3>2, <3>3 DEF Named
    <3>5. Creating(o, i, E, F)
      <4>1. \A p \in o.pairs : Ix!KeyOf(p) \in Held(t, i, F)
        BY <2>1, <3>2
      <4> QED
        BY <2>1, <4>1 DEF Creating, Filing, t
    <3> QED
      BY <1>3, <2>6, <3>4, <3>5 DEF Work, t
  <2> QED
    BY <2>4, <2>7
<1>4. CASE o.kind = "update"
  <2>1. /\ t \in Seq(Commands) /\ Ordered(t) /\ Cmds(t) = {"replace", "refile"}
        /\ \A c \in Elems(t) : Fits(c, {i}, o.pairs)
    <3>1. t \in Ix!Update(i, o.pairs)
      BY <1>4 DEF Ix!Plan
    <3> QED
      BY <3>1, UpdatePlan
  <2> HIDE DEF t
  <2>2. Plans(o)
    BY <1>4, <2>1 DEF Plans, t
  <2>3. Shape(o)
    BY <1>1, <2>1, <2>2
  <2>4. "replace" \in Cmds(t) /\ "sweep" \notin Cmds(t)
        /\ Cmds(t) \cap {"file", "unfile", "record", "prune"} = {}
    BY <2>1
  <2>5. ASSUME NEW E, NEW l, NEW F, NEW R, Rest(i, E, F, R) PROVE Work(o, i, E, l, F, R)
    <3>1. Found(E, F) /\ \A k \in GoodKeys \cap F : Covers(R, k)
      BY <1>2, <2>5
    <3>2. Named(t, i, F, R)
      BY <2>4, <3>1, Quiet
    <3>3. Updating(o, i, E, F)
      BY <2>4, <3>1 DEF Updating, t
    <3>4. Due(t, "sweep", i) = {}
      BY <2>4, Absent
    <3> QED
      BY <1>4, <3>2, <3>3, <3>4 DEF Work, t
  <2> QED
    BY <2>3, <2>5
<1>5. CASE o.kind = "delete"
  <2>1. /\ t \in Seq(Commands) /\ Ordered(t) /\ Cmds(t) = {"undo", "remove", "omit"}
        /\ \A c \in Elems(t) : Fits(c, {i}, o.pairs)
        /\ Due(t, "remove", i) # {} /\ Due(t, "omit", i) # {}
    <3>1. t \in Ix!Delete(i)
      BY <1>5 DEF Ix!Plan
    <3> QED
      BY <3>1, DeletePlan
  <2> HIDE DEF t
  <2>2. Plans(o)
    BY <1>5, <2>1 DEF Plans, t
  <2>3. Shape(o)
    BY <1>1, <2>1, <2>2
  <2>4. "undo" \in Cmds(t) /\ "sweep" \notin Cmds(t)
        /\ Cmds(t) \cap {"file", "unfile", "record", "prune"} = {}
    BY <2>1
  <2>5. ASSUME NEW E, NEW l, NEW F, NEW R, Rest(i, E, F, R) PROVE Work(o, i, E, l, F, R)
    <3>1. \A k \in GoodKeys \cap F : Covers(R, k)
      BY <1>2, <2>5
    <3>2. Named(t, i, F, R)
      BY <2>4, <3>1, Quiet
    <3>3. Undone(t, i, E, l, R)
      BY <2>1, <2>4 DEF Undone
    <3>4. Due(t, "sweep", i) = {}
      BY <2>4, Absent
    <3> QED
      BY <1>5, <3>2, <3>3, <3>4 DEF Work, t
  <2> QED
    BY <2>3, <2>5
<1> QED
  BY <1>3, <1>4, <1>5

LEMMA BeginStep ==
  ASSUME Ix!IndexedAssumption, IxInv, NEW a \in Actors, NEW i \in Ids, NEW pairs \in SUBSET Pairs,
         NEW kind \in {"create", "update", "delete"}, Ix!Begin(a, kind, i, pairs)
  PROVE  IxInv'
<1>1. /\ running[a] = Ix!Idle
      /\ met' = met \cup (Ix!Busy \cap {i}) /\ gone' = gone \ {i}
      /\ stored' = stored /\ listed' = listed /\ member' = member /\ record' = record
      /\ cut' = cut
  BY DEF Ix!Begin
<1>2. PICK todo \in Ix!Plan(kind, i, pairs) :
        running' = [running EXCEPT ![a] = Begun(kind, todo, {i}, pairs, Attempts)]
  BY Zenon DEF Ix!Begin, Begun
<1> DEFINE ids == {i}
           o2 == Begun(kind, todo, ids, pairs, Attempts)
<1>3. /\ IsOp(o2) /\ o2.kind = kind /\ o2.todo = todo /\ o2.ids = ids /\ o2.pairs = pairs
      /\ DOMAIN o2.records = {}
  <2> HIDE DEF ids
  <2> QED
    BY BegunIs
<1>4. running' = [running EXCEPT ![a] = o2] /\ running[a].ids = {}
  BY <1>1, <1>2, IdleShape
<1> HIDE DEF o2
<1>5. o2.ids = {i} /\ o2.pairs \in SUBSET Pairs /\ o2.kind \in {"create", "update", "delete"}
      /\ o2.todo \in Ix!Plan(o2.kind, i, o2.pairs)
  BY <1>2, <1>3
<1>6. Shape(o2) /\ \A E, l, F, R : Rest(i, E, F, R) => Work(o2, i, E, l, F, R)
  BY <1>3, <1>5, BegunShape
<1>7. \A j \in o2.ids : /\ AtRest(j) => At(o2, j)
                        /\ j \in gone' => o2.kind \in Lookups
  BY <1>1, <1>5, <1>6 DEF AtRest, At
<1>8. met' = met \cup (Ix!Busy \cap o2.ids) /\ gone' \subseteq gone
  BY <1>1, <1>5
<1> QED
  BY <1>1, <1>3, <1>4, <1>6, <1>7, <1>8, Joins

LEMMA BeginLookupStep ==
  ASSUME Ix!IndexedAssumption, IxInv, NEW a \in Actors, NEW p \in Pairs, NEW kind \in Lookups,
         Ix!BeginLookup(a, kind, p)
  PROVE  IxInv'
<1> DEFINE todo == Ix!Lookup(p)
           none == {}
           o2 == [Ix!Idle EXCEPT !.kind = kind, !.todo = todo]
<1>1. /\ running[a] = Ix!Idle /\ running' = [running EXCEPT ![a] = o2]
      /\ stored' = stored /\ listed' = listed /\ member' = member /\ record' = record
      /\ gone' = gone /\ met' = met /\ cut' = cut
  BY DEF Ix!BeginLookup
<1>2. /\ IsOp(o2) /\ o2.kind = kind /\ o2.todo = todo /\ o2.ids = none /\ o2.pairs = none
      /\ DOMAIN o2.records = {}
  <2> DEFINE nil == <<>>
             idle == "idle"
             w == [kind |-> idle, todo |-> nil, ids |-> none, pairs |-> none, left |-> 0,
                   records |-> nil]
             x == [w EXCEPT !.kind = kind]
             y == [x EXCEPT !.todo = todo]
  <2>1. w = Ix!Idle
    BY DEF Ix!Idle
  <2>2. o2 = y
    BY <2>1
  <2>3. DOMAIN nil = {}
    OBVIOUS
  <2> HIDE DEF nil, none, idle, todo, o2
  <2>4. x = [kind |-> kind, todo |-> nil, ids |-> none, pairs |-> none, left |-> 0, records |-> nil]
    OBVIOUS
  <2> HIDE DEF x
  <2>5. y = [kind |-> kind, todo |-> todo, ids |-> none, pairs |-> none, left |-> 0, records |-> nil]
    BY <2>4
  <2> HIDE DEF y
  <2>6. /\ o2.kind = kind /\ o2.todo = todo /\ o2.ids = none /\ o2.pairs = none /\ o2.left = 0
        /\ o2.records = nil
    BY <2>2, <2>5
  <2>7. IsOp(o2)
    BY <2>2, <2>5, <2>6 DEF IsOp
  <2> QED
    BY <2>3, <2>6, <2>7
<1>3. /\ todo \in Seq(Commands) /\ Ordered(todo) /\ Cmds(todo) = {"lookup"}
      /\ \A c \in Elems(todo) : Fits(c, none, none)
  <2> DEFINE key == Ix!KeyOf(p)
             c == Ix!Command("lookup", key, none, none)
  <2>1. "lookup" \in Sent /\ key \in Ix!MemberKeys /\ none \in SUBSET Ids
        /\ none \in SUBSET (Pairs \cup Encoded)
    BY KeysInRange DEF Sent
  <2>2. c = Ix!Command("lookup", key, none, none) /\ todo = <<c>>
    BY DEF Ix!Lookup
  <2> HIDE DEF key, c, none, todo
  <2>3. c \in Commands /\ c.cmd = "lookup" /\ c.key = key /\ c.ids = none
    BY <2>1, <2>2, CommandIs
  <2>4. todo \in Seq(Commands) /\ Ordered(todo) /\ Elems(todo) = {c} /\ Cmds(todo) = {c.cmd}
    BY <2>2, <2>3, One
  <2>5. Fits(c, none, none)
    BY <2>1, <2>3 DEF Fits
  <2> QED
    BY <2>3, <2>4, <2>5
<1> HIDE DEF o2, todo
<1>4. Shape(o2)
  <2>1. Plans(o2)
    <3>1. Cmds(o2.todo) \subseteq {"lookup"} /\ o2.kind \in {"by_index", "delete_by_index"}
      BY <1>2, <1>3 DEF Lookups
    <3> QED
      BY <3>1 DEF Plans
  <2>2. /\ o2.kind \in {"idle", "create", "update", "delete"} \cup Lookups
        /\ o2.kind # "idle" /\ o2.kind \notin {"create", "update", "delete"}
    BY <1>2 DEF Lookups
  <2>3. o2.ids = {} /\ o2.ids \subseteq Ids /\ o2.pairs \subseteq Pairs
    BY <1>2
  <2> HIDE DEF none
  <2> QED
    BY <1>2, <1>3, <2>1, <2>2, <2>3 DEF Shape
<1>5. running[a].ids = {} /\ o2.ids = {} /\ met' = met \cup (Ix!Busy \cap o2.ids)
  BY <1>1, <1>2, IdleShape
<1> QED
  BY <1>1, <1>2, <1>4, <1>5, Joins

\* A delete that starts over: what is filed is still named.
LEMMA RetryDelete ==
  ASSUME NEW o, Shape(o), o.kind = "delete", NEW i, o.ids = {i}, NEW o2, IsOp(o2),
         o2.kind = o.kind, o2.ids = o.ids, o2.pairs = o.pairs, o2.records = o.records,
         o2.todo \in Ix!Delete(i)
  PROVE  /\ Shape(o2)
         /\ \A E, l, F, R : Work(o, i, E, l, F, R) => Work(o2, i, E, l, F, R)
<1> DEFINE t == o.todo
           u == o2.todo
<1>1. /\ i \in Ids /\ o.pairs \in SUBSET Pairs
      /\ o.kind \in {"idle", "create", "update", "delete"} \cup Lookups
      /\ DOMAIN o.records \subseteq o.ids
      /\ \A j \in DOMAIN o.records : o.records[j] \subseteq Encoded
  BY DEF Shape
<1>2. /\ u \in Seq(Commands) /\ Ordered(u) /\ Cmds(u) = {"undo", "remove", "omit"}
      /\ \A c \in Elems(u) : Fits(c, {i}, o.pairs)
      /\ Due(u, "remove", i) # {} /\ Due(u, "omit", i) # {}
  BY <1>1, DeletePlan
<1>3. "record" \notin Cmds(t)
  BY DEF Shape, Plans
<1> HIDE DEF t, u
<1>4. Plans(o2)
  BY <1>2 DEF Plans, u
<1>5. Shape(o2)
  <2>1. "lookup" \notin Cmds(u) /\ Cmds(u) \cap {"lookup", "classify", "sweep"} = {}
    BY <1>2
  <2>2. o2.kind # "idle" /\ o2.ids \subseteq Ids /\ o2.pairs \subseteq Pairs
    BY <1>1
  <2>3. /\ o2.kind \in {"idle", "create", "update", "delete"} \cup Lookups
        /\ DOMAIN o2.records \subseteq o2.ids
        /\ \A j \in DOMAIN o2.records : o2.records[j] \subseteq Encoded
        /\ \E j \in Ids : o2.ids = {j}
    BY <1>1
  <2>4. \A c \in Elems(u) : Fits(c, o2.ids, o2.pairs)
    BY <1>2
  <2> QED
    BY <1>2, <1>4, <2>1, <2>2, <2>3, <2>4 DEF Shape, u
<1>6. ASSUME NEW E, NEW l, NEW F, NEW R, Work(o, i, E, l, F, R) PROVE Work(o2, i, E, l, F, R)
  <2>1. \A k \in GoodKeys \cap F : Covers(R, k)
    <3>1. Names(t, "record", i) = {}
      BY <1>3, Absent
    <3>2. R \cup Names(t, "record", i) = R
      BY <3>1
    <3>3. Named(t, i, F, R)
      BY <1>6 DEF Work, t
    <3> QED
      BY <3>2, <3>3 DEF Named
  <2>2. "undo" \in Cmds(u) /\ "sweep" \notin Cmds(u)
        /\ Cmds(u) \cap {"file", "unfile", "record", "prune"} = {}
    BY <1>2
  <2>3. Named(u, i, F, R)
    BY <2>1, <2>2, Quiet
  <2>4. Undone(u, i, E, l, R)
    BY <1>2, <2>2 DEF Undone
  <2>5. Due(u, "sweep", i) = {}
    BY <2>2, Absent
  <2> QED
    BY <2>3, <2>4, <2>5 DEF Work, u
<1> QED
  BY <1>5, <1>6

LEMMA FailStep ==
  ASSUME IxInv, NEW a \in Actors, Ix!Fail(a)
  PROVE  IxInv'
<1> DEFINE o == running[a]
<1>1. /\ stored' = stored /\ listed' = listed /\ member' = member /\ record' = record
      /\ gone' = gone /\ met' = met
  BY DEF Ix!Fail
<1>2. /\ DOMAIN running = Actors /\ IsOp(o) /\ Shape(o)
      /\ DOMAIN stored = Ids /\ member \in [Ix!MemberKeys -> SUBSET Ids]
      /\ record \in [Ids -> SUBSET Encoded]
  BY DEF IxInv, IxTypes
<1>3. CASE ~(Ix!Retriable(o.kind) /\ o.left > 1)
  <2>1. running' = [running EXCEPT ![a] = Ix!Idle] /\ cut' = cut \cup o.ids
    BY <1>3 DEF Ix!Fail
  <2>2. /\ cut \subseteq cut' /\ o.ids \ (met \cup cut') = {}
        /\ gone' \subseteq gone
    BY <1>1, <2>1
  <2> HIDE DEF o
  <2> QED
    BY <1>1, <2>1, <2>2, Leaves DEF o
<1>4. CASE Ix!Retriable(o.kind) /\ o.left > 1
  <2>1. o.kind = "delete"
    BY <1>4 DEF Ix!Retriable
  <2>0. PICK i \in o.ids :
          \E todo \in Ix!Delete(i) :
            running' = [running EXCEPT ![a].todo = todo, ![a].left = o.left - 1]
    BY <1>4, <2>1 DEF Ix!Fail, Ix!Plan
  <2>2. PICK todo \in Ix!Delete(i) :
          running' = [running EXCEPT ![a].todo = todo, ![a].left = o.left - 1]
    BY <2>0
  <2>3. cut' = cut
    BY <1>4 DEF Ix!Fail
  <2>4. o.ids = {i}
    BY <1>2, <2>1 DEF Shape
  <2> DEFINE left == o.left - 1
             q == [o EXCEPT !.todo = todo]
             p == [q EXCEPT !.left = left]
  <2>5. running' = [running EXCEPT ![a] = p]
    <3> HIDE DEF left
    <3>1. running' = [running EXCEPT ![a].todo = todo, ![a].left = left]
      BY <2>2 DEF left
    <3> QED
      BY <1>2, <3>1
  <2>6. /\ p.kind = o.kind /\ p.todo = todo /\ p.ids = o.ids /\ p.pairs = o.pairs
        /\ p.records = o.records /\ IsOp(p)
    <3>1. o = [kind |-> o.kind, todo |-> o.todo, ids |-> o.ids, pairs |-> o.pairs,
               left |-> o.left, records |-> o.records]
      BY <1>2 DEF IsOp
    <3> HIDE DEF o, left
    <3>2. q = [kind |-> o.kind, todo |-> todo, ids |-> o.ids, pairs |-> o.pairs,
               left |-> o.left, records |-> o.records]
      BY <3>1
    <3> HIDE DEF q
    <3>3. p = [kind |-> o.kind, todo |-> todo, ids |-> o.ids, pairs |-> o.pairs,
               left |-> left, records |-> o.records]
      BY <3>2
    <3> HIDE DEF p
    <3>4. /\ p.kind = o.kind /\ p.todo = todo /\ p.ids = o.ids /\ p.pairs = o.pairs
          /\ p.records = o.records /\ p.left = left
      BY <3>3
    <3> QED
      BY <3>3, <3>4 DEF IsOp
  <2> HIDE DEF o, p
  <2>7. Shape(p) /\ \A E, l, F, R : Work(o, i, E, l, F, R) => Work(p, i, E, l, F, R)
    BY <1>2, <2>1, <2>2, <2>4, <2>6, RetryDelete
  <2>8. i \in Ids /\ p.kind \notin Lookups
    BY <1>2, <2>1, <2>4, <2>6 DEF Shape, Lookups
  <2>9. \A j \in Ids : FiledAt(j)' = FiledAt(j)
    BY <1>1 DEF FiledAt
  <2>10. \A j \in Ids \ o.ids : Untouched(j)
    BY <1>1, <2>9 DEF Untouched
  <2>11. ASSUME NEW j \in o.ids, At(o, j)
         PROVE  Work(p, j, stored'[j], listed', FiledAt(j)', record'[j])
    <3>1. j = i
      BY <2>4
    <3>2. Work(p, j, stored[j], listed, FiledAt(j), record[j])
      BY <2>7, <2>11, <3>1 DEF At
    <3> QED
      BY <1>1, <2>8, <2>9, <3>1, <3>2
  <2>12. /\ DOMAIN stored' = Ids /\ member' \in [Ix!MemberKeys -> SUBSET Ids]
         /\ record' \in [Ids -> SUBSET Encoded]
    BY <1>1, <1>2
  <2> QED
    BY <1>1, <2>3, <2>5, <2>6, <2>7, <2>8, <2>10, <2>11, <2>12, CarriesOn DEF o
<1> QED
  BY <1>3, <1>4

LEMMA InitIx ==
  ASSUME Ix!Init
  PROVE  IxInv
<1>1. /\ stored = [i \in Ids |-> None] /\ listed = {} /\ gone = {}
      /\ member = [k \in Ix!MemberKeys |-> {}] /\ record = [i \in Ids |-> {}]
      /\ running = [a \in Actors |-> Ix!Idle]
  BY DEF Ix!Init
<1>2. \A a \in Actors : IsOp(running[a]) /\ Shape(running[a]) /\ running[a].ids = {}
  BY <1>1, IdleShape
<1>3. IxTypes
  <2>1. DOMAIN stored = Ids /\ DOMAIN running = Actors /\ record \in [Ids -> SUBSET Encoded]
    BY <1>1
  <2>2. member \in [Ix!MemberKeys -> SUBSET Ids]
    BY <1>1
  <2> QED
    BY <1>2, <2>1, <2>2 DEF IxTypes
<1>4. Separate
  BY <1>2 DEF Separate
<1>5. ASSUME NEW i \in Ids PROVE Agreed(i)
  <2>1. FiledAt(i) = {} /\ stored[i] = None
    BY <1>1 DEF FiledAt
  <2>2. \A k \in GoodKeys \cap FiledAt(i) : Covers(record[i], k)
    BY <2>1
  <2>3. Named(<<>>, i, FiledAt(i), record[i])
    BY <2>2, Nothing, Quiet
  <2>4. AtRest(i)
    BY <2>1, <2>3 DEF AtRest, Rest, Found
  <2> QED
    BY <1>1, <1>2, <2>4 DEF Agreed
<1> QED
  BY <1>3, <1>4, <1>5 DEF IxInv

LEMMA NextIx ==
  ASSUME Ix!IndexedAssumption, IxInv, [Ix!Next]_Ix!vars
  PROVE  IxInv'
<1>1. ASSUME NEW a \in Actors, Ix!Step(a) PROVE IxInv'
  BY <1>1, FileStep, UnfileStep, RecordStep, PruneStep, EnumerateStep, PutStep,
     RemoveEntriesStep, ReplaceStep, ReadRecordStep, LookupStep, ClassifyStep, SweepMembersStep,
     GatherStep, FailStep, ReturnStep DEF Ix!Step
<1>2. ASSUME NEW a \in Actors, NEW i \in Ids, NEW pairs \in Indexes,
             NEW kind \in {"create", "update"}, Ix!Begin(a, kind, i, pairs)
      PROVE  IxInv'
  <2>1. pairs \in SUBSET Pairs
    BY DEF Ix!IndexedAssumption
  <2>2. kind \in {"create", "update", "delete"}
    OBVIOUS
  <2> QED
    BY <1>2, <2>1, <2>2, BeginStep
<1>3. ASSUME NEW a \in Actors, NEW i \in Ids, Ix!Begin(a, "delete", i, {}) PROVE IxInv'
  <2> DEFINE kind == "delete"
             none == {}
  <2>1. kind \in {"create", "update", "delete"} /\ none \in SUBSET Pairs
        /\ Ix!Begin(a, kind, i, none)
    BY <1>3
  <2> HIDE DEF kind, none
  <2> QED
    BY <2>1, BeginStep
<1>4. ASSUME NEW a \in Actors, NEW p \in Pairs, NEW kind \in {"by_index", "delete_by_index"},
             Ix!BeginLookup(a, kind, p)
      PROVE  IxInv'
  <2>1. kind \in Lookups
    BY DEF Lookups
  <2> QED
    BY <1>4, <2>1, BeginLookupStep
<1>5. ASSUME NEW i \in Ids, Ix!Expire(i) PROVE IxInv'
  BY <1>5, ExpireEntryStep
<1>6. CASE UNCHANGED Ix!vars
  <2>1. /\ stored' = stored /\ listed' = listed /\ member' = member /\ record' = record
        /\ running' = running /\ gone' = gone /\ met' = met /\ cut' = cut
    BY <1>6 DEF Ix!vars
  <2>2. \A i : FiledAt(i)' = FiledAt(i)
    BY <2>1 DEF FiledAt
  <2>3. IxTypes' /\ Separate'
    BY <2>1 DEF IxInv, IxTypes, Separate
  <2>4. \A i : Agreed(i) => Agreed(i)'
    BY <2>1, <2>2 DEF Agreed, At, AtRest, Cleaned
  <2> QED
    BY <2>1, <2>3, <2>4 DEF IxInv
<1>7. CASE Ix!Next
  BY <1>1, <1>2, <1>3, <1>4, <1>5, <1>7 DEF Ix!Next
<1> QED
  BY <1>6, <1>7

LEMMA IxInvAgrees ==
  ASSUME Ix!IndexedAssumption
  PROVE  IxInv => Ix!FiledIsFound /\ Ix!DeletedIsGone
<1> SUFFICES ASSUME IxInv PROVE Ix!FiledIsFound /\ Ix!DeletedIsGone
  OBVIOUS
<1>1. ASSUME NEW i \in Ix!Settled PROVE i \in Ids /\ AtRest(i) /\ (i \in gone => Cleaned(i))
  <2>1. i \in Ids \ (met \cup cut) /\ \A a \in Actors : i \notin running[a].ids
    BY <1>1 DEF Ix!Settled, Ix!Busy
  <2> QED
    BY <2>1 DEF IxInv, Agreed
<1>2. \A p \in Pairs : Ix!KeyOf(p) \in Ix!MemberKeys
  BY KeysInRange
<1>3. Ix!FiledIsFound
  BY <1>1 DEF Ix!FiledIsFound, AtRest, Rest, Found, FiledAt
<1>4. Ix!DeletedIsGone
  <2> SUFFICES ASSUME NEW i \in Ix!Settled \cap gone
               PROVE  /\ i \notin listed /\ stored[i] = None
                      /\ \A p \in Pairs : Ix!Cuts(p[1]) = {} => i \notin member[Ix!KeyOf(p)]
    BY DEF Ix!DeletedIsGone
  <2>1. Cleaned(i)
    BY <1>1
  <2>2. i \notin listed /\ stored[i] = None /\ GoodKeys \cap FiledAt(i) = {}
    BY <2>1 DEF Cleaned, Clean
  <2>3. ASSUME NEW p \in Pairs, Ix!Cuts(p[1]) = {} PROVE i \notin member[Ix!KeyOf(p)]
    <3>1. Ix!KeyOf(p) \in GoodKeys
      BY <2>3 DEF GoodKeys
    <3> QED
      BY <1>2, <2>2, <3>1 DEF FiledAt
  <2> QED
    BY <2>2, <2>3
<1> QED
  BY <1>3, <1>4

\* An entry is found under every pair its last write asked for, and one that was deleted
\* under none: whatever operations of other IDs interleave, whatever is swept or expires,
\* and wherever commands of a delete fail and are sent again.
THEOREM IndexHolds ==
  ASSUME Ix!IndexedAssumption
  PROVE  Ix!Spec => [](Ix!FiledIsFound /\ Ix!DeletedIsGone)
<1>1. IxInv => Ix!FiledIsFound /\ Ix!DeletedIsGone
  BY IxInvAgrees
<1>2. Ix!Init => IxInv
  BY InitIx
<1>3. IxInv /\ [Ix!Next]_Ix!vars => IxInv'
  BY NextIx
<1> QED
  BY <1>1, <1>2, <1>3, PTL DEF Ix!Spec

-----------------------------------------------------------------------------
(* Drivers: every backend implements Driver *)

Operations ==
  {"set", "add", "replace", "touch", "delete", "delete_if"} \cup Dr!Contract!Reads \cup Dr!Contract!Bulk
Slot == Dr!Contract!Entry \cup {None}
Answers == {"yes", "no", "miss", "forever", "leased"} \cup Actors
CallType ==
  [op : Operations \cup {"idle"}, keys : SUBSET Ids, ttl : Nat,
   got : [Ids -> Answers \cup {"unread"}], end : {"open", "ok", "error"}]

\* The variables keep their types.
DrTypeOK ==
  /\ backend \in {"memory", "resp", "memcached"}
  /\ slot \in [Ids -> Slot]
  /\ now \in Nat /\ commands \in Nat
  /\ command \in [Actors -> CallType]
  /\ held \subseteq Actors /\ open \in BOOLEAN

\* A call asks for what the backend can do and holds a connection only while it
\* is one; a memory driver answers about all its keys at once.
Asked ==
  \A c \in Actors :
    /\ command[c].op = "idle" => command[c].keys = {} /\ c \notin held
    /\ Dr!Supported(command[c].op)
    /\ backend = "memory" => Dr!Unread(c) \in {{}, command[c].keys}

DrInv == DrTypeOK /\ Asked

-----------------------------------------------------------------------------
(* Leases *)

LEMMA Division ==
  ASSUME NEW n \in Nat, NEW s \in Nat \ {0}
  PROVE  /\ n \div s \in Nat /\ n % s \in Nat /\ n % s < s
         /\ n = s * (n \div s) + (n % s)
<1>1. n % s \in Nat /\ n % s < s
  OBVIOUS
<1>2. n \div s \in Int
  OBVIOUS
<1>3. n = s * (n \div s) + (n % s)
  BY Z3T(30)
<1>4. n \div s \in Nat
  OBVIOUS
<1> QED
  BY <1>1, <1>2, <1>3, <1>4

LEMMA Product ==
  ASSUME NEW a \in Nat, NEW b \in Nat, NEW s \in Nat \ {0}
  PROVE  /\ s * a \in Nat
         /\ a < b => s * a + s <= s * b
         /\ a >= 1 => s * a >= s
<1>1. s * a \in Nat /\ s * b \in Nat
  OBVIOUS
<1>2. ASSUME a < b PROVE s * a + s <= s * b
  <2>1. b - a - 1 \in Nat
    BY <1>2
  <2>2. s * (b - a - 1) \in Nat
    BY <2>1
  <2>3. s * b = s * a + s + s * (b - a - 1)
    BY <2>1
  <2> QED
    BY <1>1, <2>2, <2>3
<1>3. ASSUME a >= 1 PROVE s * a >= s
  <2>1. a - 1 \in Nat
    BY <1>3
  <2>2. s * (a - 1) \in Nat
    BY <2>1
  <2>3. s * a = s + s * (a - 1)
    BY <2>1
  <2> QED
    BY <1>1, <2>2, <2>3
<1> QED
  BY <1>1, <1>2, <1>3

\* A lease in milliseconds: rounded up, never to nothing.
LEMMA MillisLease ==
  ASSUME Dr!DriversAssumption, now \in Nat, NEW ttl \in Nat \ {0}
  PROVE  /\ Dr!ttl_millis(ttl) \in Nat \ {0}
         /\ now + Dr!ttl_millis(ttl) * Milli \in Dr!Contract!Deadlines(ttl)
<1> DEFINE q == ttl \div Milli
           r == ttl % Milli
<1>0. Milli \in Nat \ {0} /\ Second \in Nat \ {0} /\ Milli <= Second
  BY DEF Dr!DriversAssumption
<1>1. q \in Nat /\ r \in Nat /\ r < Milli /\ ttl = Milli * q + r
  BY <1>0, Division
<1>2. Dr!ttl_millis(ttl) = q + IF r = 0 THEN 0 ELSE 1
  BY DEF Dr!ttl_millis
<1> HIDE DEF q, r
<1>3. Dr!ttl_millis(ttl) \in Nat \ {0}
  BY <1>0, <1>1, <1>2
<1>4. Dr!ttl_millis(ttl) * Milli = Milli * q + IF r = 0 THEN 0 ELSE Milli
  BY <1>0, <1>1, <1>2
<1>5. Milli * q \in Nat
  BY <1>0, <1>1
<1>6. /\ now + Dr!ttl_millis(ttl) * Milli >= now + ttl
      /\ now + Dr!ttl_millis(ttl) * Milli <= now + ttl + (Second - 1)
  BY <1>0, <1>1, <1>4, <1>5
<1>7. now + Dr!ttl_millis(ttl) * Milli \in Int
  BY <1>0, <1>3
<1> QED
  BY <1>0, <1>3, <1>6, <1>7 DEF Dr!Contract!Deadlines

\* A lease as a stamp: a second at least, whole seconds, relative or absolute.
LEMMA StampLease ==
  ASSUME Dr!DriversAssumption, now \in Nat, NEW ttl \in Nat
  PROVE  Dr!ServerDeadline(Dr!to_expiry_at(ttl)) \in Dr!Contract!Deadlines(ttl)
<1> DEFINE q == ttl \div Second
           r == ttl % Second
           Q == (now + ttl) \div Second
           R == (now + ttl) % Second
<1>0. Second \in Nat \ {0} /\ ThirtyDays \in Nat \ {0}
  BY DEF Dr!DriversAssumption
<1>1. q \in Nat /\ r \in Nat /\ r < Second /\ ttl = Second * q + r
  BY <1>0, Division
<1>2. Q \in Nat /\ R \in Nat /\ R < Second /\ now + ttl = Second * Q + R
  BY <1>0, Division
<1>3. Dr!to_expiry_at(ttl) = LET seconds == IF ttl < Second THEN 1 ELSE q IN
                          CASE ttl = 0 -> 0 [] ttl # 0 /\ seconds <= ThirtyDays -> seconds [] OTHER -> Q
  BY DEF Dr!to_expiry_at
<1> HIDE DEF q, r, Q, R
<1>4. CASE ttl = 0
  BY <1>3, <1>4 DEF Dr!ServerDeadline, Dr!Contract!Deadlines, Dr!Forever, Dr!Contract!Forever
<1>5. CASE ttl # 0 /\ ttl < Second
  <2>1. Dr!to_expiry_at(ttl) = 1
    BY <1>0, <1>3, <1>5
  <2>2. Dr!ServerDeadline(1) = now + Second
    BY <1>0 DEF Dr!ServerDeadline
  <2> QED
    BY <1>0, <1>5, <2>1, <2>2 DEF Dr!Contract!Deadlines
<1>6. CASE ttl >= Second
  <2>1. q >= 1
    <3>1. q # 0
      BY <1>0, <1>1, <1>6
    <3> QED
      BY <1>1, <3>1
  <2>2. Second * q \in Nat /\ Second * q >= Second
    BY <1>0, <1>1, <2>1, Product
  <2>3. CASE q <= ThirtyDays
    <3>1. Dr!to_expiry_at(ttl) = q
      BY <1>0, <1>3, <1>6, <2>3
    <3>2. Dr!ServerDeadline(q) = now + q * Second
      BY <1>1, <2>1, <2>3 DEF Dr!ServerDeadline
    <3>3. q * Second = Second * q
      BY <1>0, <1>1
    <3> HIDE DEF Dr!DriversAssumption
    <3>4. /\ now + Second * q >= now + 1 /\ now + Second * q >= now + ttl - (Second - 1)
          /\ now + Second * q <= now + ttl + (Second - 1) /\ now + Second * q \in Int
      BY <1>0, <1>1, <2>2
    <3> QED
      BY <1>0, <1>6, <3>1, <3>2, <3>3, <3>4 DEF Dr!Contract!Deadlines
  <2>4. CASE q > ThirtyDays
    <3>1. Dr!to_expiry_at(ttl) = Q
      BY <1>0, <1>1, <1>3, <1>6, <2>4
    <3>2. Q >= q
      <4>1. ASSUME Q < q PROVE FALSE
        <5>1. Second * Q + Second <= Second * q
          BY <1>0, <1>1, <1>2, <4>1, Product
        <5>2. Second * Q \in Nat
          BY <1>0, <1>2, Product
        <5> QED
          BY <1>0, <1>1, <1>2, <2>2, <5>1, <5>2
      <4> QED
        BY <1>1, <1>2, <4>1
    <3>3. Dr!ServerDeadline(Q) = Q * Second
      BY <1>0, <1>1, <1>2, <2>4, <3>2 DEF Dr!ServerDeadline
    <3>4. Q * Second = Second * Q /\ Second * Q \in Nat
      BY <1>0, <1>2, Product
    <3>5. /\ Second * Q >= now + 1 /\ Second * Q >= now + ttl - (Second - 1)
          /\ Second * Q <= now + ttl + (Second - 1)
      BY <1>0, <1>2, <1>6, <3>4
    <3> QED
      BY <1>0, <1>6, <3>1, <3>3, <3>4, <3>5 DEF Dr!Contract!Deadlines
  <2> QED
    BY <1>0, <1>1, <2>3, <2>4
<1> QED
  BY <1>0, <1>4, <1>5, <1>6

\* A lease of the memory driver.
LEMMA MemLease ==
  ASSUME Dr!DriversAssumption, now \in Nat, NEW ttl \in Nat
  PROVE  Dr!MemExpiry(ttl) \in Dr!Contract!Deadlines(ttl)
<1>1. Second \in Nat \ {0}
  BY DEF Dr!DriversAssumption
<1> QED
  BY <1>1 DEF Dr!MemExpiry, Dr!Contract!Deadlines, Dr!Forever, Dr!Contract!Forever

\* A deadline is none, or ahead.
LEMMA Ahead ==
  ASSUME Dr!DriversAssumption, now \in Nat, NEW ttl \in Nat, NEW d \in Dr!Contract!Deadlines(ttl)
  PROVE  d \in Int /\ (d = -1 \/ now < d)
<1>1. Second \in Nat \ {0}
  BY DEF Dr!DriversAssumption
<1> QED
  BY <1>1 DEF Dr!Contract!Deadlines, Dr!Contract!Forever

-----------------------------------------------------------------------------
(* Entries *)

LEMMA EntryShape ==
  ASSUME Dr!DriversAssumption
  PROVE  /\ None \notin Dr!Contract!Entry /\ None \in Slot
         /\ \A s \in Slot : s # None => s \in Dr!Contract!Entry /\ s.value \in Actors /\ s.until \in Int
         /\ \A c \in Actors, d \in Int :
              /\ Dr!entry(c, d) \in Dr!Contract!Entry /\ Dr!entry(c, d) \in Slot /\ Dr!entry(c, d) # None
              /\ Dr!entry(c, d).value = c /\ Dr!entry(c, d).until = d
         /\ \A s \in Dr!Contract!Entry, d \in Int :
              /\ [s EXCEPT !.until = d] \in Dr!Contract!Entry /\ [s EXCEPT !.until = d] \in Slot
              /\ [s EXCEPT !.until = d].until = d /\ [s EXCEPT !.until = d] # None
<1>1. None \notin Dr!Contract!Entry
  BY DEF Dr!DriversAssumption, Dr!Contract!Entry
<1>2. \A s \in Dr!Contract!Entry : s.value \in Actors /\ s.until \in Int
  BY DEF Dr!Contract!Entry
<1>3. \A c \in Actors, d \in Int :
        /\ Dr!entry(c, d) \in Dr!Contract!Entry
        /\ Dr!entry(c, d).value = c /\ Dr!entry(c, d).until = d
  BY DEF Dr!Contract!Entry, Dr!entry
<1>4. \A s \in Dr!Contract!Entry, d \in Int :
        [s EXCEPT !.until = d] \in Dr!Contract!Entry /\ [s EXCEPT !.until = d].until = d
  BY DEF Dr!Contract!Entry
<1> QED
  BY <1>1, <1>2, <1>3, <1>4 DEF Slot

LEMMA PresentShape ==
  ASSUME Dr!DriversAssumption, now \in Nat
  PROVE  /\ \A s \in Slot :
              /\ Dr!Present(s) \in Slot /\ Dr!Present(s) \in {s, None}
              /\ Dr!Present(s) # None <=> Dr!MemFound(s)
              /\ Dr!Present(Dr!Present(s)) = Dr!Present(s)
         /\ Dr!Present(None) = None
         /\ \A s \in Dr!Contract!Entry : s.until = -1 \/ now < s.until => Dr!Present(s) = s
<1>1. Dr!Present(None) = None
  BY DEF Dr!Present
<1>2. ASSUME NEW s \in Slot PROVE Dr!Present(s) \in {s, None} /\ (Dr!Present(s) # None <=> Dr!MemFound(s))
  BY <1>2, EntryShape DEF Dr!Present, Dr!MemFound, Dr!is_expired, Dr!Forever, Dr!Contract!Live, Dr!Contract!Forever
<1>3. ASSUME NEW s \in Dr!Contract!Entry, s.until = -1 \/ now < s.until PROVE Dr!Present(s) = s
  BY <1>3, EntryShape DEF Dr!Present, Dr!Contract!Live, Dr!Contract!Forever
<1>4. ASSUME NEW s \in Slot PROVE Dr!Present(s) \in Slot /\ Dr!Present(Dr!Present(s)) = Dr!Present(s)
  BY <1>1, <1>2, <1>4, EntryShape DEF Dr!Present
<1> QED
  BY <1>1, <1>2, <1>3, <1>4

-----------------------------------------------------------------------------
(* What one command leaves and answers *)

\* The entry and the answer in `out` are ones the contract allows.
Yields(c, kind, ttl, s, out) ==
  /\ out[1] \in Slot /\ out[2] \in Answers
  /\ <<Dr!Present(out[1]), out[2]>> \in Dr!Contract!Effect(c, kind, ttl, Dr!Present(s))

\* Writing an entry with a lease.
LEMMA PutYields ==
  ASSUME Dr!DriversAssumption, now \in Nat, NEW c \in Actors, NEW ttl \in Nat, NEW s \in Slot,
         NEW d \in Dr!Contract!Deadlines(ttl), NEW kind \in {"set", "add", "replace"},
         kind = "add" => Dr!Present(s) = None, kind = "replace" => Dr!Present(s) # None
  PROVE  Yields(c, kind, ttl, s, <<Dr!entry(c, d), "yes">>)
<1>1. d \in Int /\ (d = -1 \/ now < d)
  BY Ahead
<1>2. Dr!entry(c, d) \in Slot /\ Dr!Present(Dr!entry(c, d)) = Dr!entry(c, d)
  BY <1>1, EntryShape, PresentShape
<1>3. <<Dr!entry(c, d), "yes">> \in Dr!Contract!Effect(c, kind, ttl, Dr!Present(s))
  BY DEF Dr!Contract!Effect, Dr!entry
<1> QED
  BY <1>2, <1>3 DEF Yields, Answers

LEMMA TouchYields ==
  ASSUME Dr!DriversAssumption, now \in Nat, NEW c \in Actors, NEW ttl \in Nat, NEW s \in Slot,
         NEW d \in Dr!Contract!Deadlines(ttl), Dr!Present(s) # None
  PROVE  Yields(c, "touch", ttl, s, <<[Dr!Present(s) EXCEPT !.until = d], "yes">>)
<1> DEFINE e == Dr!Present(s)
<1>1. d \in Int /\ (d = -1 \/ now < d)
  BY Ahead
<1>2. e \in Dr!Contract!Entry
  <2>1. e \in Slot /\ e # None
    BY PresentShape
  <2> QED
    BY <2>1 DEF Slot
<1> HIDE DEF e
<1>3. [e EXCEPT !.until = d] \in Slot /\ Dr!Present([e EXCEPT !.until = d]) = [e EXCEPT !.until = d]
  <2> DEFINE x == [e EXCEPT !.until = d]
  <2>1. x \in Dr!Contract!Entry /\ x \in Slot /\ x.until = d
    BY <1>1, <1>2, EntryShape
  <2> HIDE DEF x
  <2>2. Dr!Present(x) = x
    BY <1>1, <2>1, PresentShape
  <2> QED
    BY <2>1, <2>2 DEF x
<1>4. <<[e EXCEPT !.until = d], "yes">> \in Dr!Contract!Effect(c, "touch", ttl, e)
  BY DEF Dr!Contract!Effect, e
<1> QED
  BY <1>3, <1>4 DEF Yields, Answers, e

\* Leaving an entry, live or expired, and answering about it.
LEMMA KeepYields ==
  ASSUME Dr!DriversAssumption, now \in Nat, NEW c \in Actors, NEW ttl \in Nat, NEW s \in Slot, NEW x \in {s, Dr!Present(s)}
  PROVE  /\ \A kind \in {"get", "get_many"} :
              Yields(c, kind, ttl, s, <<x, IF Dr!Present(s) = None THEN "miss" ELSE Dr!Present(s).value>>)
         /\ \A kind \in {"exists", "exists_many"} :
              Yields(c, kind, ttl, s, <<x, IF Dr!Present(s) = None THEN "no" ELSE "yes">>)
         /\ Dr!Present(s) = None => /\ Yields(c, "ttl", ttl, s, <<x, "miss">>)
                                 /\ Yields(c, "touch", ttl, s, <<x, "miss">>)
                                 /\ Yields(c, "replace", ttl, s, <<x, "no">>)
         /\ Dr!Present(s) # None => /\ Yields(c, "ttl", ttl, s, <<x, IF Dr!Present(s).until = Dr!Forever THEN "forever" ELSE "leased">>)
                                 /\ Yields(c, "add", ttl, s, <<x, "no">>)
         /\ ~(Dr!Present(s) # None /\ Dr!Present(s).value = c) => Yields(c, "delete_if", ttl, s, <<x, "no">>)
<1> DEFINE e == Dr!Present(s)
<1>1. x \in Slot /\ Dr!Present(x) = e /\ e \in Slot /\ (e # None => e.value \in Actors)
  BY PresentShape, EntryShape
<1> HIDE DEF e
<1> USE DEF Answers, Dr!Contract!Effect, Dr!Contract!Answer
<1>2. ASSUME NEW kind \in {"get", "get_many"}
      PROVE  Yields(c, kind, ttl, s, <<x, IF e = None THEN "miss" ELSE e.value>>)
  <2>1. <<e, IF e = None THEN "miss" ELSE e.value>> \in Dr!Contract!Effect(c, kind, ttl, e)
    OBVIOUS
  <2> QED
    BY <1>1, <2>1 DEF Yields, e
<1>3. ASSUME NEW kind \in {"exists", "exists_many"}
      PROVE  Yields(c, kind, ttl, s, <<x, IF e = None THEN "no" ELSE "yes">>)
  <2>1. <<e, IF e = None THEN "no" ELSE "yes">> \in Dr!Contract!Effect(c, kind, ttl, e)
    OBVIOUS
  <2> QED
    BY <1>1, <2>1 DEF Yields, e
<1>4. ASSUME e = None
      PROVE  /\ Yields(c, "ttl", ttl, s, <<x, "miss">>) /\ Yields(c, "touch", ttl, s, <<x, "miss">>)
             /\ Yields(c, "replace", ttl, s, <<x, "no">>)
  <2>1. <<e, "miss">> \in Dr!Contract!Effect(c, "ttl", ttl, e) /\ <<e, "miss">> \in Dr!Contract!Effect(c, "touch", ttl, e)
    BY <1>4
  <2>2. <<e, "no">> \in Dr!Contract!Effect(c, "replace", ttl, e)
    BY <1>4
  <2> QED
    BY <1>1, <2>1, <2>2 DEF Yields, e
<1>5. ASSUME e # None
      PROVE  /\ Yields(c, "ttl", ttl, s, <<x, IF e.until = Dr!Forever THEN "forever" ELSE "leased">>)
             /\ Yields(c, "add", ttl, s, <<x, "no">>)
  <2>1. <<e, IF e.until = Dr!Forever THEN "forever" ELSE "leased">> \in Dr!Contract!Effect(c, "ttl", ttl, e)
    BY <1>5 DEF Dr!Forever
  <2>2. <<e, "no">> \in Dr!Contract!Effect(c, "add", ttl, e)
    BY <1>5
  <2> QED
    BY <1>1, <2>1, <2>2 DEF Yields, e
<1>6. ASSUME ~(e # None /\ e.value = c) PROVE Yields(c, "delete_if", ttl, s, <<x, "no">>)
  <2>1. <<e, "no">> \in Dr!Contract!Effect(c, "delete_if", ttl, e)
    BY <1>6
  <2> QED
    BY <1>1, <2>1 DEF Yields, e
<1> QED
  BY <1>2, <1>3, <1>4, <1>5, <1>6 DEF e

LEMMA DropYields ==
  ASSUME Dr!DriversAssumption, now \in Nat, NEW c \in Actors, NEW ttl \in Nat, NEW s \in Slot
  PROVE  /\ Yields(c, "delete", ttl, s, <<None, "yes">>)
         /\ Dr!Present(s) # None /\ Dr!Present(s).value = c => Yields(c, "delete_if", ttl, s, <<None, "yes">>)
<1>1. None \in Slot /\ Dr!Present(None) = None
  BY EntryShape, PresentShape
<1> QED
  BY <1>1 DEF Yields, Answers, Dr!Contract!Effect

\* MemoryDriver's methods, on the entry as it lies in the map.
LEMMA MemYields ==
  ASSUME Dr!DriversAssumption, now \in Nat, NEW c \in Actors, NEW kind \in Operations, NEW ttl \in Nat,
         NEW s \in Slot
  PROVE  Yields(c, kind, ttl, s, Dr!MemRun(c, kind, ttl, s))
<1>0. /\ Dr!MemFound(s) => Dr!Present(s) = s /\ Dr!Present(s) # None /\ s \in Dr!Contract!Entry
      /\ ~Dr!MemFound(s) => Dr!Present(s) = None
  BY PresentShape, EntryShape
<1>1. Dr!MemExpiry(ttl) \in Dr!Contract!Deadlines(ttl)
  BY MemLease
<1>2. CASE kind \in {"get", "get_many"}
  <2>1. Dr!MemRun(c, kind, ttl, s) = <<s, IF Dr!Present(s) = None THEN "miss" ELSE Dr!Present(s).value>>
    BY <1>0, <1>2 DEF Dr!MemRun, Dr!MemGet
  <2> QED
    BY <1>2, <2>1, KeepYields
<1>3. CASE kind \in {"exists", "exists_many"}
  <2>1. Dr!MemRun(c, kind, ttl, s) = <<s, IF Dr!Present(s) = None THEN "no" ELSE "yes">>
    BY <1>0, <1>3 DEF Dr!MemRun, Dr!MemExists
  <2> QED
    BY <1>3, <2>1, KeepYields
<1>4. CASE kind = "set" \/ (kind = "add" /\ ~Dr!MemFound(s)) \/ (kind = "replace" /\ Dr!MemFound(s))
  <2>1. Dr!MemRun(c, kind, ttl, s) = <<Dr!entry(c, Dr!MemExpiry(ttl)), "yes">>
    BY <1>4 DEF Dr!MemRun, Dr!MemSet, Dr!MemAdd, Dr!MemReplace
  <2> QED
    BY <1>0, <1>1, <1>4, <2>1, PutYields
<1>5. CASE (kind = "add" /\ Dr!MemFound(s)) \/ (kind = "replace" /\ ~Dr!MemFound(s))
  <2>1. Dr!MemRun(c, kind, ttl, s) = <<s, "no">>
    BY <1>5 DEF Dr!MemRun, Dr!MemAdd, Dr!MemReplace
  <2> QED
    BY <1>0, <1>5, <2>1, KeepYields
<1>6. CASE kind = "delete" \/ (kind = "delete_if" /\ Dr!MemFound(s) /\ s.value = c)
  <2>1. Dr!MemRun(c, kind, ttl, s) = <<None, "yes">>
    BY <1>6 DEF Dr!MemRun, Dr!MemDelete, Dr!MemDeleteIf
  <2> QED
    BY <1>0, <1>6, <2>1, DropYields
<1>7. CASE kind = "delete_if" /\ ~(Dr!MemFound(s) /\ s.value = c)
  <2>1. Dr!MemRun(c, kind, ttl, s) = <<s, "no">>
    BY <1>7 DEF Dr!MemRun, Dr!MemDeleteIf
  <2> QED
    BY <1>0, <1>7, <2>1, KeepYields
<1>8. CASE kind = "touch"
  <2>1. CASE Dr!MemFound(s)
    <3>1. Dr!MemRun(c, kind, ttl, s) = <<[Dr!Present(s) EXCEPT !.until = Dr!MemExpiry(ttl)], "yes">>
      BY <1>0, <1>8, <2>1 DEF Dr!MemRun, Dr!MemTouch
    <3> QED
      BY <1>0, <1>1, <1>8, <2>1, <3>1, TouchYields
  <2>2. CASE ~Dr!MemFound(s)
    <3>1. Dr!MemRun(c, kind, ttl, s) = <<s, "miss">>
      BY <1>8, <2>2 DEF Dr!MemRun, Dr!MemTouch
    <3> QED
      BY <1>0, <1>8, <2>2, <3>1, KeepYields
  <2> QED
    BY <2>1, <2>2
<1>9. CASE kind = "ttl"
  <2>1. Dr!MemRun(c, kind, ttl, s) = Dr!MemTtl(s)
    BY <1>9 DEF Dr!MemRun
  <2>2. CASE Dr!MemFound(s)
    <3>1. Dr!MemTtl(s) = <<s, IF Dr!Present(s).until = Dr!Forever THEN "forever" ELSE "leased">>
      <4>1. s # None /\ s.until \in Int /\ (s.until # Dr!Forever => ~(s.until <= now))
        BY <1>0, <2>2, EntryShape DEF Dr!MemFound, Dr!is_expired
      <4>2. Dr!Present(s) = s
        BY <1>0, <2>2
      <4> HIDE DEF Dr!Present
      <4> QED
        BY <4>1, <4>2 DEF Dr!MemTtl
    <3> QED
      BY <1>0, <1>9, <2>1, <2>2, <3>1, KeepYields
  <2>3. CASE ~Dr!MemFound(s)
    <3>1. Dr!MemTtl(s) = <<s, "miss">>
      <4>1. s = None \/ (s # None /\ s.until # Dr!Forever /\ s.until <= now)
        BY <2>3, EntryShape DEF Dr!MemFound, Dr!is_expired
      <4> QED
        BY <4>1 DEF Dr!MemTtl
    <3> QED
      BY <1>0, <1>9, <2>1, <2>3, <3>1, KeepYields
  <2> QED
    BY <2>2, <2>3
<1>10. \/ kind \in {"get", "get_many", "exists", "exists_many", "set", "add", "replace"}
       \/ kind \in {"delete", "delete_if", "touch", "ttl"}
  BY DEF Operations, Dr!Contract!Reads, Dr!Contract!Bulk
<1> QED
  BY <1>2, <1>3, <1>4, <1>5, <1>6, <1>7, <1>8, <1>9, <1>10

\* RESP commands and scripts, on the live entry.
LEMMA RespYields ==
  ASSUME Dr!DriversAssumption, now \in Nat, NEW c \in Actors, NEW kind \in Operations, NEW ttl \in Nat,
         NEW s \in Slot
  PROVE  Yields(c, kind, ttl, s, Dr!RespRun(c, kind, ttl, Dr!Present(s)))
<1> DEFINE e == Dr!Present(s)
           d == IF ttl = 0 THEN Dr!Forever ELSE now + Dr!ttl_millis(ttl) * Milli
<1>1. d \in Dr!Contract!Deadlines(ttl) /\ (ttl # 0 => Dr!ttl_millis(ttl) # 0)
  <2>1. CASE ttl = 0
    BY <2>1 DEF Dr!Contract!Deadlines, Dr!Forever
  <2>2. CASE ttl # 0
    BY <2>2, MillisLease
  <2> QED
    BY <2>1, <2>2
<1>2. e = None \/ (e \in Dr!Contract!Entry /\ e # None /\ (e.until = Dr!Forever \/ now < e.until) /\ e.until \in Int)
  <2>1. e \in Slot /\ e \in {s, None} /\ (e # None => Dr!MemFound(s))
    BY PresentShape
  <2> HIDE DEF e
  <2> QED
    BY <2>1, EntryShape DEF Dr!MemFound, Dr!is_expired
<1>3. CASE kind \in {"get", "get_many"}
  <2>1. Dr!RespRun(c, kind, ttl, e) = <<e, IF e = None THEN "miss" ELSE e.value>>
    BY <1>3 DEF Dr!RespRun, Dr!RespGet
  <2> QED
    BY <1>3, <2>1, KeepYields
<1>4. CASE kind \in {"exists", "exists_many"}
  <2>1. Dr!RespRun(c, kind, ttl, e) = <<e, IF e = None THEN "no" ELSE "yes">>
    BY <1>4 DEF Dr!RespRun, Dr!RespExists
  <2> QED
    BY <1>4, <2>1, KeepYields
<1>5. CASE kind = "set" \/ (kind = "add" /\ e = None) \/ (kind = "replace" /\ e # None)
  <2>1. \A condition \in {"none", "NX", "XX"} :
          ~((condition = "NX" /\ e # None) \/ (condition = "XX" /\ e = None)) =>
            Dr!RespWrite(c, ttl, condition, e) = <<Dr!entry(c, d), "yes">>
    BY <1>1 DEF Dr!RespWrite, Dr!ServerSet
  <2>2. Dr!RespRun(c, kind, ttl, e) = <<Dr!entry(c, d), "yes">>
    BY <1>5, <2>1 DEF Dr!RespRun, Dr!RespSet, Dr!RespAdd, Dr!RespReplace
  <2> HIDE DEF d
  <2> QED
    BY <1>1, <1>5, <2>2, PutYields
<1>6. CASE (kind = "add" /\ e # None) \/ (kind = "replace" /\ e = None)
  <2>1. Dr!RespRun(c, kind, ttl, e) = <<e, "no">>
    BY <1>6 DEF Dr!RespRun, Dr!RespAdd, Dr!RespReplace, Dr!RespWrite, Dr!ServerSet
  <2> QED
    BY <1>6, <2>1, KeepYields
<1>7. CASE kind = "delete" \/ (kind = "delete_if" /\ e # None /\ e.value = c)
  <2>1. Dr!RespRun(c, kind, ttl, e) = <<None, "yes">>
    BY <1>7 DEF Dr!RespRun, Dr!RespDelete, Dr!RespDeleteIf
  <2> QED
    BY <1>7, <2>1, DropYields
<1>8. CASE kind = "delete_if" /\ ~(e # None /\ e.value = c)
  <2>1. Dr!RespRun(c, kind, ttl, e) = <<e, "no">>
    BY <1>8 DEF Dr!RespRun, Dr!RespDeleteIf
  <2> QED
    BY <1>8, <2>1, KeepYields
<1>9. CASE kind = "touch"
  <2>1. CASE e # None
    <3>1. Dr!RespTouch(ttl, e) = <<[e EXCEPT !.until = d], "yes">>
      BY <2>1 DEF Dr!RespTouch
    <3>2. Dr!RespRun(c, kind, ttl, e) = <<[e EXCEPT !.until = d], "yes">>
      BY <1>9, <3>1 DEF Dr!RespRun
    <3> HIDE DEF d
    <3> QED
      BY <1>1, <1>9, <2>1, <3>2, TouchYields
  <2>2. CASE e = None
    <3>1. Dr!RespRun(c, kind, ttl, e) = <<e, "miss">>
      BY <1>9, <2>2 DEF Dr!RespRun, Dr!RespTouch
    <3> QED
      BY <1>9, <2>2, <3>1, KeepYields
  <2> QED
    BY <2>1, <2>2
<1>10. CASE kind = "ttl"
  <2>1. Dr!RespRun(c, kind, ttl, e) = Dr!RespTtl(e)
    BY <1>10 DEF Dr!RespRun
  <2>2. CASE e = None
    <3>1. Dr!RespTtl(e) = <<e, "miss">>
      BY <2>2 DEF Dr!RespTtl, Dr!ServerPttl
    <3> QED
      BY <1>10, <2>1, <2>2, <3>1, KeepYields
  <2>3. CASE e # None /\ e.until = Dr!Forever
    <3>1. Dr!RespTtl(e) = <<e, "forever">>
      BY <2>3 DEF Dr!RespTtl, Dr!ServerPttl
    <3> QED
      BY <1>10, <2>1, <2>3, <3>1, KeepYields
  <2>4. CASE e # None /\ e.until # Dr!Forever
    <3>1. e.until - now \in Nat /\ Milli \in Nat \ {0}
      BY <1>2, <2>4 DEF Dr!DriversAssumption
    <3>2. (e.until - now) \div Milli \in Nat
      BY <3>1, Division
    <3>3. Dr!ServerPttl(e) = (e.until - now) \div Milli
      BY <2>4 DEF Dr!ServerPttl
    <3> DEFINE q == (e.until - now) \div Milli
    <3> HIDE DEF q, e
    <3>4. Dr!RespTtl(e) = <<e, "leased">>
      <4>1. Dr!ServerPttl(e) = q /\ q \in Nat
        BY <3>2, <3>3 DEF q
      <4>2. q # -2 /\ q # -1 /\ q >= 0
        BY <4>1
      <4> QED
        BY <4>1, <4>2 DEF Dr!RespTtl
    <3> USE DEF e
    <3> QED
      BY <1>10, <2>1, <2>4, <3>4, KeepYields
  <2> QED
    BY <2>2, <2>3, <2>4
<1>11. \/ kind \in {"get", "get_many", "exists", "exists_many", "set", "add", "replace"}
       \/ kind \in {"delete", "delete_if", "touch", "ttl"}
  BY DEF Operations, Dr!Contract!Reads, Dr!Contract!Bulk
<1> QED
  BY <1>3, <1>4, <1>5, <1>6, <1>7, <1>8, <1>9, <1>10, <1>11

\* memcached's meta commands, on the live entry.
LEMMA McYields ==
  ASSUME Dr!DriversAssumption, now \in Nat, NEW c \in Actors, NEW kind \in Operations \ {"ttl", "delete_if"},
         NEW ttl \in Nat, NEW s \in Slot
  PROVE  Yields(c, kind, ttl, s, Dr!McRun(c, kind, ttl, Dr!Present(s)))
<1> DEFINE e == Dr!Present(s)
           d == Dr!ServerDeadline(Dr!to_expiry_at(ttl))
<1>1. d \in Dr!Contract!Deadlines(ttl)
  BY StampLease
<1> HIDE DEF d
<1>2. CASE kind \in {"get", "get_many"}
  <2>1. Dr!McRun(c, kind, ttl, e) = <<e, IF e = None THEN "miss" ELSE e.value>>
    BY <1>2 DEF Dr!McRun, Dr!McGet
  <2> QED
    BY <1>2, <2>1, KeepYields
<1>3. CASE kind \in {"exists", "exists_many"}
  <2>1. Dr!McRun(c, kind, ttl, e) = <<e, IF e = None THEN "no" ELSE "yes">>
    BY <1>3 DEF Dr!McRun, Dr!McExists
  <2> QED
    BY <1>3, <2>1, KeepYields
<1>4. CASE kind = "set" \/ (kind = "add" /\ e = None) \/ (kind = "replace" /\ e # None)
  <2>1. ASSUME NEW condition \in {"Set", "Add", "Replace"},
               ~((condition = "Add" /\ e # None) \/ (condition = "Replace" /\ e = None))
        PROVE  Dr!McWrite(c, ttl, condition, e) = <<Dr!entry(c, d), "yes">>
    <3>1. Dr!ServerStore(c, Dr!to_expiry_at(ttl), condition, e) = <<Dr!entry(c, d), "Applied">>
      BY <2>1 DEF Dr!ServerStore, d
    <3>2. Dr!decode_mutation("Applied") = "Stored"
      BY DEF Dr!decode_mutation
    <3> QED
      BY <3>1, <3>2 DEF Dr!McWrite
  <2>2. Dr!McRun(c, kind, ttl, e) = <<Dr!entry(c, d), "yes">>
    BY <1>4, <2>1 DEF Dr!McRun, Dr!McSet, Dr!McAdd, Dr!McReplace
  <2> QED
    BY <1>1, <1>4, <2>2, PutYields
<1>5. CASE kind = "add" /\ e # None
  <2>1. Dr!ServerStore(c, Dr!to_expiry_at(ttl), "Add", e) = <<e, "AlreadyExists">>
    BY <1>5 DEF Dr!ServerStore
  <2>2. Dr!McWrite(c, ttl, "Add", e) = <<e, "no">>
    BY <2>1 DEF Dr!McWrite, Dr!decode_mutation
  <2>3. Dr!McRun(c, kind, ttl, e) = <<e, "no">>
    BY <1>5, <2>2 DEF Dr!McRun, Dr!McAdd
  <2> QED
    BY <1>5, <2>3, KeepYields
<1>6. CASE kind = "replace" /\ e = None
  <2>1. Dr!ServerStore(c, Dr!to_expiry_at(ttl), "Replace", e) = <<e, "NotFound">>
    BY <1>6 DEF Dr!ServerStore
  <2>2. Dr!McWrite(c, ttl, "Replace", e) = <<e, "no">>
    BY <2>1 DEF Dr!McWrite, Dr!decode_mutation
  <2>3. Dr!McRun(c, kind, ttl, e) = <<e, "no">>
    BY <1>6, <2>2 DEF Dr!McRun, Dr!McReplace
  <2> QED
    BY <1>6, <2>3, KeepYields
<1>7. CASE kind = "delete"
  <2>1. Dr!McRun(c, kind, ttl, e) = <<None, "yes">>
    BY <1>7 DEF Dr!McRun, Dr!McDelete
  <2> QED
    BY <1>7, <2>1, DropYields
<1>8. CASE kind = "touch"
  <2>1. CASE e # None
    <3>1. Dr!McRun(c, kind, ttl, e) = <<[e EXCEPT !.until = d], "yes">>
      BY <1>8, <2>1 DEF Dr!McRun, Dr!McTouch, d
    <3> QED
      BY <1>1, <1>8, <2>1, <3>1, TouchYields
  <2>2. CASE e = None
    <3>1. Dr!McRun(c, kind, ttl, e) = <<e, "miss">>
      BY <1>8, <2>2 DEF Dr!McRun, Dr!McTouch
    <3> QED
      BY <1>8, <2>2, <3>1, KeepYields
  <2> QED
    BY <2>1, <2>2
<1>9. kind \in {"get", "get_many", "exists", "exists_many", "set", "add", "replace", "delete", "touch"}
  BY DEF Operations, Dr!Contract!Reads, Dr!Contract!Bulk
<1> QED
  BY <1>2, <1>3, <1>4, <1>5, <1>6, <1>7, <1>8, <1>9

-----------------------------------------------------------------------------
(* Steps *)

\* The live entries: the store of the contract.
Stored ==
  [k \in Ids |->
     IF slot[k] # None /\ (slot[k].until = -1 \/ now < slot[k].until) THEN slot[k] ELSE None]

LEMMA StoredIs ==
  /\ \A k \in Ids : Stored[k] = Dr!Present(slot[k])
  /\ now' = now => \A k \in Ids : Stored'[k] = Dr!Present(slot'[k])
BY DEF Stored, Dr!Present, Dr!Contract!Live, Dr!Contract!Forever

LEMMA CallShape ==
  ASSUME DrTypeOK, NEW c \in Actors
  PROVE  /\ command[c] \in CallType /\ command[c].op \in Operations \cup {"idle"} /\ command[c].keys \subseteq Ids
         /\ command[c].ttl \in Nat /\ command[c].got \in [Ids -> Answers \cup {"unread"}]
         /\ command[c].end \in {"open", "ok", "error"}
         /\ Dr!Unread(c) \subseteq command[c].keys /\ \A k \in Dr!Unread(c) : command[c].got[k] = "unread"
<1>1. command[c] \in CallType
  BY DEF DrTypeOK
<1>2. \A x \in CallType : /\ x.op \in Operations \cup {"idle"} /\ x.keys \subseteq Ids
                      /\ x.ttl \in Nat /\ x.got \in [Ids -> Answers \cup {"unread"}]
                      /\ x.end \in {"open", "ok", "error"}
  BY DEF CallType
<1> QED
  BY <1>1, <1>2 DEF Dr!Unread

LEMMA CallTypes ==
  /\ Dr!Idle \in CallType /\ Dr!Idle.op = "idle" /\ Dr!Idle.keys = {}
  /\ \A x \in CallType, end \in {"ok", "error"} : [x EXCEPT !.end = end] \in CallType
  /\ \A x \in CallType, g \in [Ids -> Answers \cup {"unread"}] : [x EXCEPT !.got = g] \in CallType
  /\ \A r \in Dr!Contract!Request : r.op \in Operations /\ r.keys \in SUBSET Ids /\ r.ttl \in Ttls \cup {0}
<1>1. Dr!Idle \in CallType /\ Dr!Idle.op = "idle" /\ Dr!Idle.keys = {}
  BY DEF Dr!Idle, Dr!Contract!Idle, CallType
<1>2. \A x \in CallType, end \in {"ok", "error"} : [x EXCEPT !.end = end] \in CallType
  BY DEF CallType
<1>3. \A x \in CallType, g \in [Ids -> Answers \cup {"unread"}] : [x EXCEPT !.got = g] \in CallType
  BY DEF CallType
<1>4. \A r \in Dr!Contract!Request : r.op \in Operations /\ r.keys \in SUBSET Ids /\ r.ttl \in Ttls \cup {0}
  BY DEF Dr!Contract!Request, Operations, Dr!Contract!Reads, Dr!Contract!Bulk
<1> QED
  BY <1>1, <1>2, <1>3, <1>4

\* A command that yields what the contract allows under each of its keys.
LEMMA SettleRefines ==
  ASSUME Dr!DriversAssumption, DrTypeOK, NEW c \in Actors, NEW some, NEW result,
         command[c].end = "open", some # {}, some \subseteq Dr!Unread(c),
         DOMAIN result = some, Dr!Settle(c, result), UNCHANGED <<now, commands>>,
         \A k \in some : Yields(c, command[c].op, command[c].ttl, slot[k], result[k])
  PROVE  /\ Dr!Contract!Apply(c, some)
         /\ slot' \in [Ids -> Slot] /\ command' \in [Actors -> CallType]
         /\ \A b \in Actors : b # c => command'[b] = command[b]
         /\ command'[c].op = command[c].op /\ command'[c].keys = command[c].keys
         /\ Dr!Unread(c)' = Dr!Unread(c) \ some
<1> DEFINE kind == command[c].op
           ttl == command[c].ttl
           seen == [k \in some |-> <<Dr!Present(result[k][1]), result[k][2]>>]
           got == [k \in Ids |-> IF k \in some THEN result[k][2] ELSE command[c].got[k]]
<1>1. some \subseteq command[c].keys /\ some \subseteq Ids /\ \A k \in some : command[c].got[k] = "unread"
  BY CallShape
<1>2. \A k \in some : /\ result[k][1] \in Slot /\ result[k][2] \in Answers
                      /\ seen[k] \in Dr!Contract!Effect(c, kind, ttl, Stored[k])
  BY <1>1, StoredIs DEF Yields
<1>3. slot' = [k \in Ids |-> IF k \in some THEN result[k][1] ELSE slot[k]]
  BY DEF Dr!Settle
<1>4. slot' \in [Ids -> Slot]
  BY <1>2, <1>3 DEF DrTypeOK
<1>5. command' = [command EXCEPT ![c] = [command[c] EXCEPT !.got = got]]
  BY DEF Dr!Settle
<1>6. got \in [Ids -> Answers \cup {"unread"}]
  BY <1>2, CallShape
<1>7. command'[c] = [command[c] EXCEPT !.got = got] /\ \A b \in Actors : b # c => command'[b] = command[b]
  BY <1>5 DEF DrTypeOK
<1>8. command' \in [Actors -> CallType]
  <2>1. [command[c] EXCEPT !.got = got] \in CallType
    BY <1>6, CallShape, CallTypes
  <2> QED
    BY <1>5, <2>1 DEF DrTypeOK
<1>9. command'[c].op = kind /\ command'[c].keys = command[c].keys /\ command'[c].got = got
  <2>1. \A x \in CallType : /\ [x EXCEPT !.got = got].op = x.op /\ [x EXCEPT !.got = got].keys = x.keys
                        /\ [x EXCEPT !.got = got].got = got
    BY DEF CallType
  <2> QED
    BY <1>7, <2>1, CallShape
<1>10. Dr!Unread(c)' = Dr!Unread(c) \ some
  <2>1. "unread" \notin Answers
    BY DEF Dr!DriversAssumption, Answers
  <2>2. \A k \in command[c].keys : got[k] = "unread" <=> command[c].got[k] = "unread" /\ k \notin some
    BY <1>1, <1>2, <2>1, CallShape
  <2> HIDE DEF got
  <2>3. Dr!Unread(c)' = {k \in command[c].keys : got[k] = "unread"}
    BY <1>9 DEF Dr!Unread
  <2> QED
    BY <2>2, <2>3 DEF Dr!Unread
<1>11. Dr!Contract!Apply(c, some)
  <2> DEFINE effects(k) == Dr!Contract!Effect(c, kind, ttl, Stored[k])
  <2>1. seen \in [some -> UNION {effects(k) : k \in some}] /\ \A k \in some : seen[k] \in effects(k)
    BY <1>2
  <2>2. Stored' = [k \in Ids |-> IF k \in some THEN seen[k][1] ELSE Stored[k]]
    <3>1. ASSUME NEW k \in Ids
          PROVE  Stored'[k] = IF k \in some THEN seen[k][1] ELSE Stored[k]
      <4>1. Stored'[k] = Dr!Present(slot'[k])
        BY StoredIs
      <4>2. slot'[k] = IF k \in some THEN result[k][1] ELSE slot[k]
        BY <1>3
      <4> QED
        BY <4>1, <4>2, StoredIs
    <3> QED
      BY <3>1 DEF Stored
  <2>3. command' = [command EXCEPT ![c].got = [k \in Ids |-> IF k \in some THEN seen[k][2] ELSE @[k]]]
    <3>1. got = [k \in Ids |-> IF k \in some THEN seen[k][2] ELSE command[c].got[k]]
      OBVIOUS
    <3> HIDE DEF got, seen
    <3> QED
      BY <1>5, <3>1
  <2> HIDE DEF seen
  <2> QED
    BY <1>1, <2>1, <2>2, <2>3 DEF Dr!Contract!Apply, Stored
<1> HIDE DEF seen, got
<1> QED
  BY <1>4, <1>7, <1>8, <1>9, <1>10, <1>11

-----------------------------------------------------------------------------
(* Each step keeps the invariant and is one of the contract, or none *)

LEMMA InitRefines == ASSUME Dr!DriversAssumption, Dr!Init PROVE DrInv /\ Dr!Contract!Init
<1> USE DEF Dr!Init
<1>1. slot \in [Ids -> {None} \cup {Dr!entry(c, 1) : c \in Actors}]
  OBVIOUS
<1>2. \A c \in Actors : Dr!entry(c, 1) \in Slot /\ Dr!entry(c, 1) \in [value : Actors, until : {1}]
  BY EntryShape DEF Dr!entry
<1>3. slot \in [Ids -> Slot] /\ slot \in [Ids -> {None} \cup [value : Actors, until : {1}]]
  BY <1>1, <1>2, EntryShape
<1>4. DrTypeOK
  BY <1>3, CallTypes DEF DrTypeOK
<1>5. Asked
  BY CallTypes DEF Asked, Dr!Supported, Dr!Unread
<1>6. Stored \in [Ids -> {None} \cup [value : Actors, until : {1}]]
  BY <1>3 DEF Stored
<1>7. command = [c \in Actors |-> Dr!Contract!Idle]
  BY DEF Dr!Idle
<1> QED
  BY <1>4, <1>5, <1>6, <1>7 DEF DrInv, Dr!Contract!Init, Stored

\* A step of one caller: what must hold of its call.
LEMMA OneAsks ==
  ASSUME Asked, NEW c \in Actors, backend' = backend,
         \A b \in Actors : b # c => command'[b] = command[b] /\ (b \in held' => b \in held),
         command'[c].op = "idle" => command'[c].keys = {} /\ c \notin held',
         Dr!Supported(command'[c].op),
         backend = "memory" => Dr!Unread(c)' \in {{}, command'[c].keys}
  PROVE  Asked'
<1>1. \A b \in Actors : b # c => Dr!Unread(b)' = Dr!Unread(b)
  BY DEF Dr!Unread
<1> QED
  BY <1>1 DEF Asked, Dr!Supported

LEMMA BeginRefines ==
  ASSUME Dr!DriversAssumption, DrInv, NEW c \in Actors, Dr!CanBegin(c), NEW r \in Dr!Contract!Request, Dr!Begin(c, r)
  PROVE  DrInv' /\ Dr!Contract!Begin(c, r)
<1> USE DEF DrInv, Dr!Begin
<1> DEFINE new == [Dr!Idle EXCEPT !.op = r.op, !.keys = r.keys, !.ttl = r.ttl]
<1>1. r.op \in Operations /\ r.keys \in SUBSET Ids /\ r.ttl \in Nat
  BY CallTypes DEF Dr!DriversAssumption
<1>2. /\ new \in CallType /\ new.op = r.op /\ new.keys = r.keys
      /\ new.got = [k \in Ids |-> "unread"]
  <2> DEFINE x == [Dr!Idle EXCEPT !.op = r.op]
             y == [x EXCEPT !.keys = r.keys]
  <2>1. x = [op |-> r.op, keys |-> {}, ttl |-> 0, got |-> [k \in Ids |-> "unread"], end |-> "open"]
    BY DEF Dr!Idle, Dr!Contract!Idle
  <2> HIDE DEF x
  <2>2. y = [op |-> r.op, keys |-> r.keys, ttl |-> 0, got |-> [k \in Ids |-> "unread"], end |-> "open"]
    BY <2>1
  <2> HIDE DEF y
  <2>3. [y EXCEPT !.ttl = r.ttl] =
          [op |-> r.op, keys |-> r.keys, ttl |-> r.ttl, got |-> [k \in Ids |-> "unread"], end |-> "open"]
    BY <2>2
  <2>4. new = [y EXCEPT !.ttl = r.ttl]
    BY DEF x, y
  <2> HIDE DEF new
  <2> QED
    BY <1>1, <2>3, <2>4 DEF CallType
<1>3. command' = [command EXCEPT ![c] = new]
  OBVIOUS
<1> HIDE DEF new
<1>4. DrTypeOK'
  BY <1>2, <1>3 DEF DrTypeOK
<1>5. command'[c] = new /\ \A b \in Actors : b # c => command'[b] = command[b]
  BY <1>3 DEF DrTypeOK
<1>6. Dr!Unread(c)' = command'[c].keys
  BY <1>1, <1>2, <1>5 DEF Dr!Unread
<1>7. "idle" \notin Operations
  BY DEF Operations, Dr!Contract!Reads, Dr!Contract!Bulk
<1>8. Asked'
  BY <1>1, <1>2, <1>5, <1>6, <1>7, OneAsks
<1>9. Dr!Contract!Begin(c, r)
  BY <1>3 DEF Dr!Contract!Begin, Dr!CanBegin, Dr!Idle, new
<1> QED
  BY <1>4, <1>8, <1>9

\* A call ends: with an answer about every key, or with an error.
LEMMA CallEnds ==
  ASSUME DrInv, NEW c \in Actors, command[c].op # "idle", command[c].end = "open", NEW end \in {"ok", "error"},
         end = "ok" => Dr!Unread(c) = {}, Dr!End(c, end), held' \subseteq held,
         UNCHANGED <<backend, slot, now, commands, open>>
  PROVE  DrInv' /\ Dr!Contract!Finish(c)
<1> USE DEF DrInv
<1>1. command' = [command EXCEPT ![c] = [command[c] EXCEPT !.end = end]]
  BY DEF Dr!End
<1>2. [command[c] EXCEPT !.end = end] \in CallType
  BY CallShape, CallTypes
<1>3. \A x \in CallType : /\ [x EXCEPT !.end = end].op = x.op /\ [x EXCEPT !.end = end].keys = x.keys
                      /\ [x EXCEPT !.end = end].got = x.got
  BY DEF CallType
<1>4. /\ command'[c].op = command[c].op /\ command'[c].keys = command[c].keys /\ command'[c].got = command[c].got
      /\ \A b \in Actors : b # c => command'[b] = command[b]
  BY <1>1, <1>3, CallShape DEF DrTypeOK
<1>5. DrTypeOK'
  BY <1>1, <1>2 DEF DrTypeOK
<1>6. Dr!Unread(c)' = Dr!Unread(c)
  BY <1>4 DEF Dr!Unread
<1>7. Asked'
  BY <1>4, <1>6, OneAsks DEF Asked
<1>8. end = "ok" => \A k \in command[c].keys : command[c].got[k] # "unread"
  BY DEF Dr!Unread
<1>9. Dr!Contract!Finish(c)
  BY <1>8 DEF Dr!Contract!Finish, Dr!End
<1> QED
  BY <1>5, <1>7, <1>9

\* A command that has run: what is left is the connection.
LEMMA CommandStep ==
  ASSUME Dr!DriversAssumption, DrInv, NEW c \in Actors, NEW some, NEW result,
         command[c].end = "open", some # {}, some \subseteq Dr!Unread(c), backend = "memory" => some = Dr!Unread(c),
         DOMAIN result = some, Dr!Settle(c, result), UNCHANGED <<backend, now, commands, open>>,
         held' \subseteq held,
         \A k \in some : Yields(c, command[c].op, command[c].ttl, slot[k], result[k])
  PROVE  DrInv' /\ \E s \in SUBSET Ids : Dr!Contract!Apply(c, s)
<1> USE DEF DrInv
<1>1. /\ Dr!Contract!Apply(c, some)
      /\ slot' \in [Ids -> Slot] /\ command' \in [Actors -> CallType]
      /\ \A b \in Actors : b # c => command'[b] = command[b]
      /\ command'[c].op = command[c].op /\ command'[c].keys = command[c].keys
      /\ Dr!Unread(c)' = Dr!Unread(c) \ some
  BY SettleRefines
<1>2. some \in SUBSET Ids
  BY CallShape
<1>3. DrTypeOK'
  BY <1>1 DEF DrTypeOK
<1>4. Asked'
  BY <1>1, OneAsks DEF Asked
<1> QED
  BY <1>1, <1>2, <1>3, <1>4

LEMMA Working ==
  ASSUME DrInv, NEW c \in Actors, Dr!Unread(c) # {}
  PROVE  /\ command[c].op \in Operations /\ Dr!Supported(command[c].op) /\ command[c].ttl \in Nat
         /\ \A k \in Dr!Unread(c) : k \in Ids /\ slot[k] \in Slot
<1>1. command[c].op # "idle"
  BY DEF DrInv, Asked, Dr!Unread
<1> QED
  BY <1>1, CallShape DEF DrInv, Asked, DrTypeOK

LEMMA MemRefines ==
  ASSUME Dr!DriversAssumption, DrInv, NEW c \in Actors, Dr!MemStep(c)
  PROVE  DrInv' /\ \E s \in SUBSET Ids : Dr!Contract!Apply(c, s)
<1> DEFINE result == [k \in command[c].keys |-> Dr!MemRun(c, command[c].op, command[c].ttl, slot[k])]
<1>1. /\ backend = "memory" /\ command[c].end = "open" /\ Dr!Unread(c) # {} /\ Dr!Settle(c, result)
      /\ UNCHANGED <<backend, now, commands, open, held>>
  BY DEF Dr!MemStep, Dr!Results
<1>2. Dr!Unread(c) = command[c].keys
  BY <1>1 DEF DrInv, Asked
<1>3. \A k \in command[c].keys : Yields(c, command[c].op, command[c].ttl, slot[k], Dr!MemRun(c, command[c].op, command[c].ttl, slot[k]))
  BY <1>1, <1>2, Working, MemYields DEF DrInv, DrTypeOK
<1>4. DOMAIN result = command[c].keys /\ \A k \in command[c].keys : Yields(c, command[c].op, command[c].ttl, slot[k], result[k])
  BY <1>3
<1> HIDE DEF result
<1> QED
  BY <1>1, <1>2, <1>4, CommandStep

LEMMA RespRefines ==
  ASSUME Dr!DriversAssumption, DrInv, NEW c \in Actors, Dr!RespStep(c)
  PROVE  DrInv' /\ \E s \in SUBSET Ids : Dr!Contract!Apply(c, s)
<1> DEFINE result(some) == [k \in some |-> Dr!RespRun(c, command[c].op, command[c].ttl, Dr!Present(slot[k]))]
<1>1. PICK some : /\ some \in IF command[c].op \in Dr!Contract!Bulk THEN {{k} : k \in Dr!Unread(c)} ELSE {Dr!Unread(c)}
                  /\ some # {} /\ Dr!Settle(c, result(some))
  BY DEF Dr!RespStep, Dr!Results
<1>2. some \subseteq Dr!Unread(c) /\ some # {}
  BY <1>1
<1>3. backend = "resp" /\ command[c].end = "open" /\ UNCHANGED <<backend, now, commands, open, held>>
  BY DEF Dr!RespStep
<1>4. \A k \in some : Yields(c, command[c].op, command[c].ttl, slot[k], Dr!RespRun(c, command[c].op, command[c].ttl, Dr!Present(slot[k])))
  BY <1>2, Working, RespYields DEF DrInv, DrTypeOK
<1> DEFINE out == result(some)
<1>5. DOMAIN out = some /\ \A k \in some : Yields(c, command[c].op, command[c].ttl, slot[k], out[k])
  BY <1>4
<1>6. Dr!Settle(c, out)
  BY <1>1
<1> HIDE DEF out
<1> QED
  BY <1>2, <1>3, <1>5, <1>6, CommandStep

\* One meta command, which leaves the connection or ends its use.
LEMMA McRefines ==
  ASSUME Dr!DriversAssumption, DrInv, NEW c \in Actors, Dr!McStep(c) \/ Dr!McDeleteStep(c)
  PROVE  DrInv' /\ \E s \in SUBSET Ids : Dr!Contract!Apply(c, s)
<1> DEFINE result(some) == [k \in some |-> Dr!McRun(c, command[c].op, command[c].ttl, Dr!Present(slot[k]))]
<1>1. PICK u \in Dr!Unread(c) : Dr!Settle(c, result({u}))
  BY DEF Dr!McStep, Dr!McDeleteStep, Dr!Results
<1>2. /\ backend = "memcached" /\ command[c].end = "open" /\ UNCHANGED <<backend, now, commands, open>>
      /\ held' \subseteq held
  BY DEF Dr!McStep, Dr!McDeleteStep
<1>3. command[c].op \in Operations \ {"ttl", "delete_if"}
  BY <1>1, <1>2, Working DEF Dr!Supported
<1>4. Yields(c, command[c].op, command[c].ttl, slot[u], Dr!McRun(c, command[c].op, command[c].ttl, Dr!Present(slot[u])))
  BY <1>1, <1>3, Working, McYields DEF DrInv, DrTypeOK
<1> DEFINE out == result({u})
           some == {u}
<1>5. DOMAIN out = some /\ \A k \in some : Yields(c, command[c].op, command[c].ttl, slot[k], out[k])
  BY <1>4
<1>6. Dr!Settle(c, out) /\ some # {} /\ some \subseteq Dr!Unread(c)
  BY <1>1
<1> HIDE DEF out, some
<1> QED
  BY <1>2, <1>5, <1>6, CommandStep

LEMMA ConnectionSteps ==
  ASSUME DrInv, NEW c \in Actors, Dr!Snapshot(c) \/ Dr!Fail(c) \/ Dr!Finish(c)
  PROVE  DrInv' /\ (Dr!Contract!Finish(c) \/ UNCHANGED <<slot, now, command, commands>>)
<1>1. CASE Dr!Fail(c)
  <2>1. command[c].op # "idle"
    BY <1>1 DEF Dr!Fail, DrInv, Asked
  <2> QED
    BY <1>1, <2>1, CallEnds DEF Dr!Fail
<1>2. CASE Dr!Finish(c)
  BY <1>2, CallEnds DEF Dr!Finish
<1>3. CASE Dr!Snapshot(c) /\ ~open
  <2>1. Dr!End(c, "error") /\ UNCHANGED held
    BY <1>3 DEF Dr!Snapshot
  <2> QED
    BY <1>3, <2>1, CallEnds DEF Dr!Snapshot
<1>4. CASE Dr!Snapshot(c) /\ open
  <2>1. held' = held \cup {c} /\ command[c].op # "idle" /\ UNCHANGED <<backend, slot, now, command, commands, open>>
    BY <1>4 DEF Dr!Snapshot
  <2>2. DrTypeOK'
    BY <2>1 DEF DrInv, DrTypeOK
  <2>3. Dr!Unread(c)' = Dr!Unread(c)
    BY <2>1 DEF Dr!Unread
  <2>4. Asked'
    BY <2>1, <2>3, OneAsks DEF DrInv, Asked
  <2> QED
    BY <2>1, <2>2, <2>4 DEF DrInv
<1> QED
  BY <1>1, <1>2, <1>3, <1>4

LEMMA TickStep == ASSUME Dr!DriversAssumption, DrInv, Dr!Tick PROVE DrInv' /\ Dr!Contract!Tick
<1> USE DEF DrInv, Dr!Tick
<1>1. DrTypeOK'
  BY DEF DrTypeOK
<1>2. \A c \in Actors : Dr!Unread(c)' = Dr!Unread(c)
  BY DEF Dr!Unread
<1>3. Asked'
  BY <1>2 DEF Asked, Dr!Supported
<1>4. ASSUME NEW k \in Ids
      PROVE  Stored'[k] = IF Dr!Contract!Live(Stored[k], now + 1) THEN Stored[k] ELSE None
  <2>1. slot'[k] = slot[k] /\ now' = now + 1 /\ now \in Nat /\ slot[k] \in Slot
    BY DEF DrTypeOK
  <2>2. slot[k] # None => slot[k].until \in Int
    BY <2>1, EntryShape
  <2> QED
    BY <2>1, <2>2 DEF Stored, Dr!Contract!Live, Dr!Contract!Forever
<1>5. Stored' = [k \in Ids |-> IF Dr!Contract!Live(Stored[k], now + 1) THEN Stored[k] ELSE None]
  BY <1>4 DEF Stored
<1> QED
  BY <1>1, <1>3, <1>5 DEF Dr!Contract!Tick, Stored

LEMMA StillRefines ==
  ASSUME DrInv, UNCHANGED <<backend, slot, now, command, commands, held>>, open' \in BOOLEAN
  PROVE  DrInv' /\ UNCHANGED Dr!Contract!vars
<1>1. DrTypeOK'
  BY DEF DrInv, DrTypeOK
<1>2. \A c \in Actors : Dr!Unread(c)' = Dr!Unread(c)
  BY DEF Dr!Unread
<1>3. Asked'
  BY <1>2 DEF DrInv, Asked, Dr!Supported
<1> QED
  BY <1>1, <1>3 DEF DrInv, Dr!Contract!vars

LEMMA StepRefines ==
  ASSUME Dr!DriversAssumption, DrInv, [Dr!Next]_Dr!vars
  PROVE  DrInv' /\ [Dr!Contract!Next]_(Dr!Contract!vars)
<1>1. ASSUME NEW c \in Actors, Dr!CanBegin(c), NEW r \in Dr!Contract!Request, Dr!Begin(c, r)
      PROVE  DrInv' /\ Dr!Contract!Next
  BY <1>1, BeginRefines DEF Dr!Contract!Next
<1>2. ASSUME NEW c \in Actors, Dr!MemStep(c) \/ Dr!RespStep(c) \/ Dr!McStep(c) \/ Dr!McDeleteStep(c)
      PROVE  DrInv' /\ Dr!Contract!Next
  BY <1>2, MemRefines, RespRefines, McRefines DEF Dr!Contract!Next
<1>3. ASSUME NEW c \in Actors, Dr!Snapshot(c) \/ Dr!Fail(c) \/ Dr!Finish(c)
      PROVE  DrInv' /\ [Dr!Contract!Next]_(Dr!Contract!vars)
  BY <1>3, ConnectionSteps DEF Dr!Contract!Next, Dr!Contract!vars
<1>4. CASE Dr!Close
  BY <1>4, StillRefines DEF Dr!Close
<1>5. CASE Dr!Tick
  BY <1>5, TickStep DEF Dr!Contract!Next
<1>6. CASE UNCHANGED Dr!vars
  BY <1>6, StillRefines DEF Dr!vars, DrInv, DrTypeOK
<1> QED
  BY <1>1, <1>2, <1>3, <1>4, <1>5, <1>6 DEF Dr!Next

-----------------------------------------------------------------------------
(* The theorems *)

LEMMA Invariance == ASSUME Dr!DriversAssumption PROVE Dr!Spec => []DrInv
<1>1. Dr!Init => DrInv
  BY InitRefines
<1>2. DrInv /\ [Dr!Next]_Dr!vars => DrInv'
  BY StepRefines
<1> QED
  BY <1>1, <1>2, PTL DEF Dr!Spec

\* The variables keep their types, for any keys, callers and leases
\* (memory_driver.rs, redis.rs, memcached.rs).
THEOREM DriversTyped == ASSUME Dr!DriversAssumption PROVE Dr!Spec => []DrTypeOK
<1>1. DrInv => DrTypeOK
  BY DEF DrInv
<1> QED
  BY <1>1, Invariance, PTL

\* The memory, RESP and memcached backends implement the contract of Driver: one atomic map
\* with leases, whatever the keys, callers, leases and clock units (memory_driver.rs,
\* redis.rs, memcached.rs).
THEOREM Implementation == ASSUME Dr!DriversAssumption PROVE Dr!Spec => Dr!ImplementsDriver
<1>1. Dr!Init => Dr!Contract!Init
  BY InitRefines
<1>2. DrInv /\ [Dr!Next]_Dr!vars => [Dr!Contract!Next]_(Dr!Contract!vars)
  BY StepRefines
<1> QED
  BY <1>1, <1>2, Invariance, PTL DEF Dr!Spec, Dr!ImplementsDriver, Dr!Contract!Spec
-----------------------------------------------------------------------------
(* The run: one part moves, the others stand still *)

PartInv == part = "indexed" => IxInv

\* Whatever part a behaviour runs, an indexed entry is found under the fields it was written
\* with and, once deleted, under none (indexed.rs).
THEOREM IndexAgreesHolds == MCSpec => []IndexAgrees
<1>1. MCInit => PartInv
  BY InitIx, IndexedInstance DEF MCInit, PartInv
<1>2. PartInv /\ [MCNext]_mcVars => PartInv'
  <2> SUFFICES ASSUME PartInv, [MCNext]_mcVars, part' = "indexed" PROVE IxInv'
    BY DEF PartInv
  <2>1. part' = part
    BY DEF MCNext, Still, mcVars
  <2>2. IxInv
    BY <2>1 DEF PartInv
  <2>3. [Ix!Next]_Ix!vars
    BY <2>1 DEF MCNext, Still, mcVars, ixVars, Ix!vars
  <2> QED
    BY <2>2, <2>3, NextIx, IndexedInstance
<1>3. PartInv => IndexAgrees
  BY IxInvAgrees, IndexedInstance DEF PartInv, IndexAgrees
<1> QED
  BY <1>1, <1>2, <1>3, PTL DEF MCSpec

\* Whatever part a behaviour runs, the backends implement the contract of Driver
\* (memory_driver.rs, redis.rs, memcached.rs).
THEOREM ImplementsDriverHolds == MCSpec => ImplementsDriver
<1>1. MCInit => Dr!Init
  BY DEF MCInit
<1>2. [MCNext]_mcVars => [Dr!Next]_Dr!vars
  BY DEF MCNext, Still, mcVars, drVars, Dr!vars
<1>3. MCSpec => Dr!Spec
  BY <1>1, <1>2, PTL DEF MCSpec, Dr!Spec
<1>4. Dr!Spec => Dr!ImplementsDriver
  BY Implementation, DriversInstance
<1> QED
  BY <1>3, <1>4 DEF ImplementsDriver
=============================================================================
