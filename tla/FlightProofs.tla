---------------------------- MODULE FlightProofs ----------------------------
(***************************************************************************)
(* Proofs about Flight, for any callers, keys, task names and budget.      *)
(***************************************************************************)
EXTENDS Flight, FiniteSetTheorems, TLAPS

-----------------------------------------------------------------------------
(* The inductive invariant.  None of TypeOK, SingleExecution and           *)
(* CallsAreJoinable is inductive alone.                                    *)

\* TypeOK without the upper bound of permits, which is a consequence of
\* BudgetConserved and not of the types.
WeakType ==
  /\ calls \in [Keys -> Tasks \cup {None}]
  /\ permits \in Nat
  /\ task \in [Tasks -> TaskStates]
  /\ key \in [Tasks -> Keys \cup {None}]
  /\ outcome \in [Tasks -> Results \cup {"none"}]
  /\ channel \in [Tasks -> Results \cup {"empty", "closed"}]
  /\ joined \in [Callers -> Tasks \cup {None}]
  /\ answer \in [Callers -> Answers]

\* A task that has finished its work has a result to send.
Ready == \A t \in Tasks : task[t] \in {"finished", "removed"} => outcome[t] \in Results

\* A task whose execution can be joined is the one its key's entry names:
\* this is why the lookup under the lock keeps executions apart.
Registered ==
  \A t \in Tasks : task[t] \in JoinableStates =>
    /\ key[t] \in Keys
    /\ calls[key[t]] = t

IInv == WeakType /\ Ready /\ Registered /\ BudgetConserved

LEMMA BudgetType == Budget \in Nat \ {0}
BY FlightAssumption DEF Budget

\* The holders of a permit are finitely many.
LEMMA HoldersFinite == IsFiniteSet(Holders) /\ Cardinality(Holders) \in Nat
<1>1. Holders \subseteq Tasks
  BY DEF Holders
<1>2. IsFiniteSet(Holders)
  BY <1>1, FS_Subset, FlightAssumption
<1> QED
  BY <1>2, FS_CardinalityType

LEMMA InitIInv == Init => IInv
<1> SUFFICES ASSUME Init PROVE IInv
  OBVIOUS
<1>1. WeakType
  BY BudgetType DEF Init, WeakType, TaskStates, Results, Answers
<1>2. Ready /\ Registered
  BY DEF Init, Ready, Registered, JoinableStates
<1>3. Holders = {}
  BY DEF Init, Holders, HoldingStates
<1>4. BudgetConserved
  BY <1>3, FS_EmptySet, BudgetType DEF Init, BudgetConserved
<1> QED
  BY <1>1, <1>2, <1>4 DEF IInv

-----------------------------------------------------------------------------
(* Each conjunct is preserved. *)

LEMMA WeakTypeStep == ASSUME WeakType, Ready, [Next]_vars PROVE WeakType'
<1> USE DEF WeakType, TaskStates, Answers, Results
<1>1. ASSUME NEW c \in Callers, NEW k \in Keys, Join(c, k) PROVE WeakType'
  BY <1>1 DEF Join
<1>2. ASSUME NEW c \in Callers, NEW k \in Keys, Reject(c, k) PROVE WeakType'
  BY <1>2 DEF Reject
<1>3. ASSUME NEW c \in Callers, NEW k \in Keys, NEW t \in Tasks, Start(c, k, t)
      PROVE WeakType'
  BY <1>3 DEF Start
<1>4. ASSUME NEW t \in Tasks, NEW r \in Results, Finish(t, r) PROVE WeakType'
  BY <1>4 DEF Finish
<1>5. ASSUME NEW t \in Tasks, Panic(t) PROVE WeakType'
  BY <1>5 DEF Panic
<1>6. ASSUME NEW t \in Tasks, Remove(t) PROVE WeakType'
  BY <1>6 DEF Remove
<1>7. ASSUME NEW t \in Tasks, Send(t) PROVE WeakType'
  BY <1>7 DEF Send, Ready
<1>8. ASSUME NEW t \in Tasks, Release(t) PROVE WeakType'
  BY <1>8 DEF Release
<1>9. ASSUME NEW c \in Callers, Receive(c) PROVE WeakType'
  BY <1>9 DEF Receive
<1>10. ASSUME NEW c \in Callers, Cancel(c) PROVE WeakType'
  BY <1>10 DEF Cancel
<1>11. CASE UNCHANGED vars
  BY <1>11 DEF vars
<1> QED
  BY <1>1, <1>2, <1>3, <1>4, <1>5, <1>6, <1>7, <1>8, <1>9, <1>10, <1>11 DEF Next

LEMMA ReadyStep == ASSUME WeakType, Ready, [Next]_vars PROVE Ready'
BY DEF WeakType, Ready, Next, vars, Join, Reject, Start, Finish, Panic, Remove,
       Send, Release, Receive, Cancel

LEMMA RegisteredStep == ASSUME WeakType, Registered, [Next]_vars PROVE Registered'
<1> USE DEF WeakType, Registered, JoinableStates
<1>1. ASSUME NEW c \in Callers, NEW k \in Keys, NEW t \in Tasks, Start(c, k, t)
      PROVE Registered'
  BY <1>1, FlightAssumption DEF Start, Unreferenced
<1>2. ASSUME NEW t \in Tasks, Remove(t) PROVE Registered'
  BY <1>2 DEF Remove
<1>3. ASSUME NEW t \in Tasks, NEW r \in Results, Finish(t, r) PROVE Registered'
  BY <1>3 DEF Finish
<1>4. ASSUME NEW t \in Tasks, Panic(t) \/ Send(t) \/ Release(t) PROVE Registered'
  BY <1>4 DEF Panic, Send, Release
<1>5. ASSUME NEW c \in Callers, NEW k \in Keys, Join(c, k) \/ Reject(c, k)
      PROVE Registered'
  BY <1>5 DEF Join, Reject
<1>6. ASSUME NEW c \in Callers, Receive(c) \/ Cancel(c) PROVE Registered'
  BY <1>6 DEF Receive, Cancel
<1>7. CASE UNCHANGED vars
  BY <1>7 DEF vars
<1> QED
  BY <1>1, <1>2, <1>3, <1>4, <1>5, <1>6, <1>7 DEF Next

\* Start and Release move one permit; no other step changes the holders.
LEMMA BudgetStep ==
  ASSUME WeakType, BudgetConserved, [Next]_vars PROVE BudgetConserved'
<1> USE DEF WeakType
<1>1. ASSUME NEW c \in Callers, NEW k \in Keys, NEW t \in Tasks, Start(c, k, t)
      PROVE BudgetConserved'
  <2>1. t \notin Holders /\ Holders' = Holders \cup {t}
    BY <1>1 DEF Start, Holders, HoldingStates, TaskStates
  <2>2. Cardinality(Holders') = Cardinality(Holders) + 1
    BY <2>1, HoldersFinite, FS_AddElement
  <2> QED
    BY <1>1, <2>2, HoldersFinite, BudgetType DEF Start, BudgetConserved
<1>2. ASSUME NEW t \in Tasks, Release(t) PROVE BudgetConserved'
  <2>1. t \in Holders /\ Holders' = Holders \ {t}
    BY <1>2 DEF Release, Holders, HoldingStates, TaskStates
  <2>2. Cardinality(Holders') = Cardinality(Holders) - 1
    BY <2>1, HoldersFinite, FS_RemoveElement
  <2> QED
    BY <1>2, <2>2, HoldersFinite, BudgetType DEF Release, BudgetConserved
<1>3. ASSUME permits' = permits, Holders' = Holders PROVE BudgetConserved'
  BY <1>3 DEF BudgetConserved
<1>4. ASSUME NEW t \in Tasks,
             Panic(t) \/ Remove(t) \/ Send(t) \/ \E r \in Results : Finish(t, r)
      PROVE BudgetConserved'
  <2>1. permits' = permits /\ Holders' = Holders
    BY <1>4 DEF Panic, Remove, Send, Finish, Holders, HoldingStates, TaskStates
  <2> QED
    BY <2>1, <1>3
<1>5. ASSUME UNCHANGED <<permits, task>> PROVE BudgetConserved'
  BY <1>5, <1>3 DEF Holders
<1> QED
  BY <1>1, <1>2, <1>4, <1>5
  DEF Next, vars, Join, Reject, Receive, Cancel

LEMMA IInvStep == IInv /\ [Next]_vars => IInv'
BY WeakTypeStep, ReadyStep, RegisteredStep, BudgetStep DEF IInv

LEMMA IInvHolds == Spec => []IInv
BY InitIInv, IInvStep, PTL DEF Spec

-----------------------------------------------------------------------------
(* Theorems *)

\* The variables of Flight keep their types; in particular permits never
\* exceeds the budget.
THEOREM TypeCorrect == Spec => []TypeOK
<1>1. IInv => TypeOK
  BY HoldersFinite, BudgetType DEF IInv, WeakType, TypeOK, BudgetConserved
<1> QED
  BY <1>1, IInvHolds, PTL

\* Two joinable executions of one key never exist, panics included.
THEOREM SingleExecutionHolds == Spec => []SingleExecution
<1>1. IInv => SingleExecution
  BY DEF IInv, Registered, SingleExecution
<1> QED
  BY <1>1, IInvHolds, PTL

\* Capacity is neither lost nor invented, panics included.
THEOREM BudgetConservation == Spec => []BudgetConserved
<1>1. IInv => BudgetConserved
  BY DEF IInv
<1> QED
  BY <1>1, IInvHolds, PTL

-----------------------------------------------------------------------------
(* Work that may panic: what becomes of the entry it leaves.               *)

\* A task whose entry is in the map was neither removed nor has it sent.
Lost ==
  \A k \in Keys : calls[k] # None =>
    /\ key[calls[k]] = k
    /\ task[calls[k]] \notin JoinableStates =>
         task[calls[k]] \in {"settled", "ended"} /\ channel[calls[k]] = "closed"

LEMMA LostStep ==
  ASSUME WeakType, Registered, Lost, [Next]_vars PROVE Lost'
<1> USE FlightAssumption DEF WeakType, Lost, JoinableStates
<1>1. ASSUME NEW c \in Callers, NEW k \in Keys, NEW t \in Tasks, Start(c, k, t)
      PROVE Lost'
  BY <1>1 DEF Start, Unreferenced
<1>2. ASSUME NEW t \in Tasks, Remove(t) PROVE Lost'
  BY <1>2 DEF Remove, Registered
<1>3. ASSUME NEW t \in Tasks, NEW r \in Results, Finish(t, r) PROVE Lost'
  BY <1>3 DEF Finish
<1>4. ASSUME NEW t \in Tasks, Panic(t) PROVE Lost'
  BY <1>4 DEF Panic
<1>5. ASSUME NEW t \in Tasks, Send(t) \/ Release(t) PROVE Lost'
  BY <1>5 DEF Send, Release
<1>6. ASSUME UNCHANGED <<calls, task, key, channel>> PROVE Lost'
  BY <1>6
<1> QED
  BY <1>1, <1>2, <1>3, <1>4, <1>5, <1>6 DEF Next, vars, Join, Reject, Receive, Cancel

\* Whatever panics, an entry of the map is its own ID's, and the channel of lost
\* work is closed: a panic costs the callers of that ID an error and nobody else
\* anything.
THEOREM LostIsClosedHolds == Spec => []LostIsClosed
<1>1. Init => Lost
  BY DEF Init, Lost
<1>2. IInv /\ Lost /\ [Next]_vars => Lost'
  BY LostStep DEF IInv
<1>3. Lost => LostIsClosed
  BY DEF Lost, LostIsClosed
<1> QED
  BY <1>1, <1>2, <1>3, IInvHolds, PTL DEF Spec

-----------------------------------------------------------------------------
(* Work that does not panic.  The rest of the inductive invariant: what    *)
(* the map, the channels and the waiting callers say of each other.        *)

Channels ==
  \A t \in Tasks :
    /\ task[t] \in {"working", "finished", "removed"} => channel[t] = "empty"
    /\ task[t] = "settled" => channel[t] \in Results

\* A caller that waits has no answer yet, and if its task has ended the
\* channel holds the result.
Waits ==
  \A c \in Callers : joined[c] # None =>
    /\ answer[c] = "none"
    /\ key[joined[c]] \in Keys
    /\ task[joined[c]] = "ended" => channel[joined[c]] \in Results

CalmInv == CallsAreJoinable /\ Channels /\ Waits

LEMMA CalmInit == Init => CalmInv
BY DEF Init, CalmInv, CallsAreJoinable, Channels, Waits

LEMMA CallsAreJoinableStep ==
  ASSUME ~MayPanic, WeakType, Registered, CallsAreJoinable, [Next]_vars
  PROVE  CallsAreJoinable'
<1> USE DEF WeakType, CallsAreJoinable, JoinableStates
<1>1. ASSUME NEW c \in Callers, NEW k \in Keys, NEW t \in Tasks, Start(c, k, t)
      PROVE CallsAreJoinable'
  BY <1>1, FlightAssumption DEF Start, Unreferenced
<1>2. ASSUME NEW t \in Tasks, Remove(t) PROVE CallsAreJoinable'
  BY <1>2, FlightAssumption DEF Remove, Registered
<1>3. ASSUME NEW t \in Tasks, NEW r \in Results, Finish(t, r)
      PROVE CallsAreJoinable'
  BY <1>3, FlightAssumption DEF Finish
<1>4. ASSUME NEW t \in Tasks, Panic(t) \/ Send(t) \/ Release(t)
      PROVE CallsAreJoinable'
  BY <1>4, FlightAssumption DEF Panic, Send, Release
<1>5. ASSUME UNCHANGED <<calls, task, key>> PROVE CallsAreJoinable'
  BY <1>5
<1> QED
  BY <1>1, <1>2, <1>3, <1>4, <1>5 DEF Next, vars, Join, Reject, Receive, Cancel

LEMMA ChannelsStep ==
  ASSUME ~MayPanic, WeakType, Ready, Channels, [Next]_vars PROVE Channels'
BY DEF WeakType, Ready, Channels, Next, vars, Join, Reject, Start, Finish, Panic,
       Remove, Send, Release, Receive, Cancel, Results

LEMMA WaitsStep ==
  ASSUME ~MayPanic, WeakType, CalmInv, [Next]_vars PROVE Waits'
<1> USE FlightAssumption DEF WeakType, CalmInv, Waits
<1>1. ASSUME NEW c \in Callers, NEW k \in Keys, NEW t \in Tasks, Start(c, k, t)
      PROVE Waits'
  BY <1>1 DEF Start, Unreferenced
<1>2. ASSUME NEW c \in Callers, NEW k \in Keys, Join(c, k) PROVE Waits'
  BY <1>2 DEF Join, CallsAreJoinable, JoinableStates
<1>3. ASSUME NEW c \in Callers, NEW k \in Keys, Reject(c, k) PROVE Waits'
  BY <1>3 DEF Reject
<1>4. ASSUME NEW t \in Tasks, Release(t) PROVE Waits'
  BY <1>4 DEF Release, Channels
<1>5. ASSUME NEW t \in Tasks, Send(t) PROVE Waits'
  BY <1>5 DEF Send
<1>6. ASSUME NEW t \in Tasks,
             Panic(t) \/ Remove(t) \/ \E r \in Results : Finish(t, r)
      PROVE Waits'
  BY <1>6 DEF Panic, Remove, Finish
<1>7. ASSUME NEW c \in Callers, Receive(c) \/ Cancel(c) PROVE Waits'
  BY <1>7 DEF Receive, Cancel
<1>8. CASE UNCHANGED vars
  BY <1>8 DEF vars
<1> QED
  BY <1>1, <1>2, <1>3, <1>4, <1>5, <1>6, <1>7, <1>8 DEF Next

LEMMA CalmHolds == ASSUME ~MayPanic PROVE Spec => [](IInv /\ CalmInv)
<1>1. Init => IInv /\ CalmInv
  BY InitIInv, CalmInit
<1>2. IInv /\ CalmInv /\ [Next]_vars => (IInv /\ CalmInv)'
  BY IInvStep, CallsAreJoinableStep, ChannelsStep, WaitsStep DEF IInv, CalmInv
<1> QED
  BY <1>1, <1>2, PTL DEF Spec

\* Without panics the map never keeps an entry for work that has ended, so no
\* ID is left unloadable.
THEOREM CallsStayJoinable == ASSUME ~MayPanic PROVE Spec => []CallsAreJoinable
<1>1. IInv /\ CalmInv => CallsAreJoinable
  BY DEF CalmInv
<1> QED
  BY <1>1, CalmHolds, PTL

-----------------------------------------------------------------------------
(* Flight implements SingleFlight. *)

LEMMA RefinesInit == Init => Abstract!Init
<1> SUFFICES ASSUME Init PROVE Abstract!Init
  OBVIOUS
<1>1. Loading = {}
  BY DEF Init, Loading, JoinableStates
<1>2. Status = [c \in Callers |-> Abstract!Idle]
  BY DEF Init, Status, Abstract!Idle
<1>3. Answered = {}
  BY DEF Init, Answered, Results
<1> QED
  BY <1>1, <1>2, <1>3 DEF Abstract!Init

\* The executions that can be joined are no more than the permits taken.
LEMMA LoadingBounded ==
  ASSUME WeakType, BudgetConserved, permits > 0
  PROVE  Cardinality(Loading) < Budget
<1> DEFINE J == {u \in Tasks : task[u] \in JoinableStates}
<1>1. J \subseteq Holders
  BY DEF Holders, HoldingStates, JoinableStates, TaskStates
<1>2. IsFiniteSet(J) /\ Cardinality(J) <= Cardinality(Holders)
  BY <1>1, HoldersFinite, FS_Subset
<1>3. Loading = {key[t] : t \in J}
  BY DEF Loading
<1> HIDE DEF J
<1>4. [t \in J |-> key[t]] \in Surjection(J, Loading)
  BY <1>3 DEF Surjection
<1>5. IsFiniteSet(Loading) /\ Cardinality(Loading) <= Cardinality(J)
  BY <1>2, <1>4, FS_Surjection
<1> QED
  BY <1>2, <1>5, HoldersFinite, BudgetType, FS_CardinalityType
  DEF BudgetConserved, WeakType

LEMMA StartRefines ==
  ASSUME IInv, CalmInv, NEW c \in Callers, NEW k \in Keys, NEW t \in Tasks,
         Start(c, k, t)
  PROVE  Abstract!Start(c, k)
<1> USE FlightAssumption DEF IInv, CalmInv, WeakType
<1>1. Cardinality(Loading) < Budget
  BY LoadingBounded DEF Start
<1>2. k \notin Loading
  BY DEF Start, Loading, Registered
<1>3. Loading' = Loading \cup {k}
  BY DEF Start, Loading, JoinableStates
<1>4. Status[c] = Abstract!Idle
  BY DEF Start, Status, Abstract!Idle
<1>5. Status' = [Status EXCEPT ![c] = Abstract!Waiting(k)]
  BY DEF Start, Unreferenced, Status, Abstract!Waiting, JoinableStates
<1>6. Answered' = Answered \ {c}
  BY DEF Start, Answered, Results
<1> QED
  BY <1>1, <1>2, <1>3, <1>4, <1>5, <1>6 DEF Abstract!Start, Abstract!Cardinality, Cardinality

LEMMA JoinRefines ==
  ASSUME IInv, CalmInv, NEW c \in Callers, NEW k \in Keys, Join(c, k)
  PROVE  Abstract!Join(c, k)
<1> USE FlightAssumption DEF IInv, CalmInv, WeakType
<1>1. calls[k] \in Tasks /\ task[calls[k]] \in JoinableStates /\ key[calls[k]] = k
  BY DEF Join, CallsAreJoinable
<1>2. k \in Loading /\ Loading' = Loading
  BY <1>1 DEF Join, Loading
<1>3. Status[c] = Abstract!Idle
  BY DEF Join, Status, Abstract!Idle
<1>4. Status' = [Status EXCEPT ![c] = Abstract!Waiting(k)]
  BY <1>1 DEF Join, Status, Abstract!Waiting
<1>5. Answered' = Answered \ {c}
  BY DEF Join, Answered, Results
<1> QED
  BY <1>2, <1>3, <1>4, <1>5 DEF Abstract!Join

\* Removing the entry is where the execution ends for the callers.
LEMMA RemoveRefines ==
  ASSUME IInv, CalmInv, NEW t \in Tasks, Remove(t)
  PROVE  key[t] \in Keys /\ Abstract!End(key[t])
<1> USE FlightAssumption DEF IInv, CalmInv, WeakType
<1>1. key[t] \in Keys /\ key[t] \in Loading
  BY DEF Remove, Registered, Loading, JoinableStates
<1>2. \A u \in Tasks : task[u] \in JoinableStates /\ key[u] = key[t] => u = t
  BY DEF Remove, Registered, JoinableStates
<1>3. Loading' = Loading \ {key[t]}
  BY <1>2 DEF Remove, Loading, JoinableStates
<1>4. ASSUME NEW c \in Callers
      PROVE Status'[c] = IF Status[c] = Abstract!Waiting(key[t])
                         THEN Abstract!Served(key[t]) ELSE Status[c]
  <2>1. CASE joined[c] = None
    BY <2>1 DEF Remove, Status, Abstract!Waiting
  <2>2. CASE joined[c] = t
    BY <2>2 DEF Remove, Status, Abstract!Waiting, Abstract!Served, JoinableStates
  <2>3. CASE joined[c] # None /\ joined[c] # t
    <3>1. Status'[c] = Status[c]
      BY <2>3 DEF Remove, Status, JoinableStates
    <3>2. Status[c] # Abstract!Waiting(key[t])
      BY <2>3, <1>2 DEF Status, Abstract!Waiting
    <3> QED
      BY <3>1, <3>2
  <2> QED
    BY <2>1, <2>2, <2>3
<1>5. Status' = [c \in Callers |-> IF Status[c] = Abstract!Waiting(key[t])
                                   THEN Abstract!Served(key[t]) ELSE Status[c]]
  BY <1>4 DEF Status
<1>6. Answered' = Answered
  BY DEF Remove, Answered
<1> QED
  BY <1>1, <1>3, <1>5, <1>6 DEF Abstract!End

\* Finishing the work, sending and releasing are invisible to the callers.
LEMMA TaskStutters ==
  ASSUME IInv, CalmInv, NEW t \in Tasks,
         Send(t) \/ Release(t) \/ \E r \in Results : Finish(t, r)
  PROVE  UNCHANGED Abstract!absVars
<1> USE FlightAssumption DEF IInv, CalmInv, WeakType
<1>1. \A u \in Tasks : task'[u] \in JoinableStates <=> task[u] \in JoinableStates
  BY DEF Send, Release, Finish, JoinableStates
<1>2. UNCHANGED <<key, joined, answer>>
  BY DEF Send, Release, Finish
<1>3. Loading' = Loading /\ Answered' = Answered
  BY <1>1, <1>2 DEF Loading, Answered
<1>4. Status' = Status
  BY <1>1, <1>2 DEF Status
<1> QED
  BY <1>3, <1>4 DEF Abstract!absVars

LEMMA ReceiveRefines ==
  ASSUME IInv, CalmInv, NEW c \in Callers, Receive(c)
  PROVE  Abstract!Answer(c)
<1> USE FlightAssumption DEF IInv, CalmInv, WeakType
<1>1. joined[c] \in Tasks /\ key[joined[c]] \in Keys
  BY DEF Receive, Waits
<1>2. task[joined[c]] \notin JoinableStates /\ channel[joined[c]] \in Results
  BY <1>1 DEF Receive, Waits, Channels, JoinableStates, TaskStates
<1>3. Status[c] = Abstract!Served(key[joined[c]])
  BY <1>1, <1>2 DEF Receive, Status, Abstract!Served
<1>4. Status' = [Status EXCEPT ![c] = Abstract!Idle]
  BY DEF Receive, Status, Abstract!Idle
<1>5. answer'[c] \in Results
  BY <1>2 DEF Receive, Results
<1>6. Loading' = Loading /\ Answered' = Answered \cup {c}
  BY <1>5 DEF Receive, Loading, Answered
<1> QED
  BY <1>1, <1>3, <1>4, <1>6 DEF Abstract!Answer

LEMMA CancelRefines ==
  ASSUME IInv, CalmInv, NEW c \in Callers, Cancel(c)
  PROVE  Abstract!Abandon(c)
<1> USE FlightAssumption DEF IInv, CalmInv, WeakType
<1>1. Status[c] # Abstract!Idle
  BY DEF Cancel, Status, Abstract!Idle
<1>2. Status' = [Status EXCEPT ![c] = Abstract!Idle]
  BY DEF Cancel, Status, Abstract!Idle
<1>3. Loading' = Loading /\ Answered' = Answered
  BY DEF Cancel, Loading, Answered, Waits, Results
<1> QED
  BY <1>1, <1>2, <1>3 DEF Abstract!Abandon

LEMMA RejectRefines ==
  ASSUME WeakType, NEW c \in Callers, NEW k \in Keys, Reject(c, k)
  PROVE  Abstract!Reject(c)
BY DEF WeakType, Reject, Status, Loading, Answered, Results, Abstract!Reject,
       Abstract!Idle

LEMMA StepRefines ==
  ASSUME ~MayPanic, IInv, CalmInv, [Next]_vars
  PROVE  [Abstract!Next]_(Abstract!absVars)
<1>1. ASSUME NEW t \in Tasks, Panic(t) PROVE FALSE
  BY <1>1 DEF Panic
<1>2. ASSUME UNCHANGED vars PROVE UNCHANGED Abstract!absVars
  BY <1>2 DEF vars, Abstract!absVars, Loading, Status, Answered
<1> QED
  BY <1>1, <1>2, StartRefines, JoinRefines, RemoveRefines, TaskStutters,
     ReceiveRefines, CancelRefines, RejectRefines
  DEF Next, Abstract!Next, IInv

\* Every behaviour of Flight whose work does not panic is a behaviour of
\* SingleFlight: callers of one key share one execution, at most Budget keys
\* execute, and a result reaches only calls made before its execution ended.
THEOREM Refinement == ASSUME ~MayPanic PROVE Spec => ImplementsSingleFlight
<1>1. IInv /\ CalmInv /\ [Next]_vars => [Abstract!Next]_(Abstract!absVars)
  BY StepRefines
<1> QED
  BY <1>1, RefinesInit, CalmHolds, PTL
  DEF Spec, ImplementsSingleFlight, Abstract!Spec
=============================================================================
