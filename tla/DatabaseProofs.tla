--------------------------- MODULE DatabaseProofs ---------------------------
(***************************************************************************)
(* Proofs about Database and the Refresher in it, for any readers, IDs,    *)
(* task names, callers of close and limit.                                 *)
(***************************************************************************)
EXTENDS Database, FiniteSetTheorems, TLAPS

-----------------------------------------------------------------------------
(* The refresher's part of the inductive invariant *)

\* RefresherTypeOK without the upper bound of slots, which the ledgers give.
RefresherType ==
  /\ closed \in BOOLEAN
  /\ running \in Nat
  /\ slots \in Nat
  /\ work \in [Tasks -> WorkStates]
  /\ drain \in [Drainers -> DrainStates]
  /\ woken \in [Drainers -> BOOLEAN]

\* A drain closes admission first.
DrainCloses == \A d \in Drainers : drain[d] # "new" => closed

RefresherInv ==
  RefresherType /\ Ledgers /\ DrainCloses /\ DrainedStaysQuiet /\ NoMissedWakeup

LEMMA SlotCountType == SlotCount \in Nat \ {0}
BY RefresherAssumption DEF SlotCount

\* The tasks the ledgers count are finitely many.
LEMMA Counted ==
  ASSUME NEW S \in SUBSET Tasks
  PROVE  /\ IsFiniteSet(S) /\ Cardinality(S) \in Nat
         /\ Cardinality(S) = 0 <=> S = {}
         /\ \A t : /\ t \notin S => Cardinality(S \cup {t}) = Cardinality(S) + 1
                   /\ t \in S => Cardinality(S \ {t}) = Cardinality(S) - 1
<1>1. IsFiniteSet(S)
  BY FS_Subset, RefresherAssumption
<1>2. Cardinality(S) \in Nat
  BY <1>1, FS_CardinalityType
<1>3. Cardinality(S) = 0 <=> S = {}
  BY <1>1, FS_EmptySet
<1>4. ASSUME NEW t PROVE /\ t \notin S => Cardinality(S \cup {t}) = Cardinality(S) + 1
                         /\ t \in S => Cardinality(S \ {t}) = Cardinality(S) - 1
  BY <1>1, FS_AddElement, FS_RemoveElement
<1> QED
  BY <1>1, <1>2, <1>3, <1>4

LEMMA Sets == Admitted \in SUBSET Tasks /\ SlotHolders \in SUBSET Tasks
BY DEF Admitted, SlotHolders

LEMMA RefresherInitInv == RefresherInit => RefresherInv
<1> SUFFICES ASSUME RefresherInit PROVE RefresherInv
  OBVIOUS
<1>1. RefresherType
  BY SlotCountType DEF RefresherInit, RefresherType, WorkStates, DrainStates
<1>2. Admitted = {} /\ SlotHolders = {}
  BY DEF RefresherInit, Admitted, SlotHolders
<1>3. Ledgers
  BY <1>2, FS_EmptySet, SlotCountType DEF RefresherInit, Ledgers
<1>4. DrainCloses /\ DrainedStaysQuiet /\ NoMissedWakeup
  BY DEF RefresherInit, DrainCloses, DrainedStaysQuiet, NoMissedWakeup
<1> QED
  BY <1>1, <1>3, <1>4 DEF RefresherInv

LEMMA GoStep == ASSUME RefresherInv, NEW t \in Tasks, Go(t) PROVE RefresherInv'
<1> USE DEF RefresherInv
<1>1. RefresherType'
  BY DEF Go, RefresherType, WorkStates
<1>2. /\ Admitted' = Admitted \cup {t} /\ t \notin Admitted
      /\ SlotHolders' = SlotHolders \cup {t} /\ t \notin SlotHolders
  BY DEF Go, RefresherType, Admitted, SlotHolders
<1>3. Ledgers'
  <2>1. Cardinality(Admitted') = Cardinality(Admitted) + 1
    BY <1>2, Sets, Counted
  <2>2. Cardinality(SlotHolders') = Cardinality(SlotHolders) + 1 /\ Cardinality(SlotHolders) \in Nat
    BY <1>2, Sets, Counted
  <2> QED
    BY <2>1, <2>2 DEF Go, RefresherType, Ledgers
<1>4. DrainCloses' /\ DrainedStaysQuiet'
  BY DEF Go, DrainCloses, DrainedStaysQuiet
<1>5. NoMissedWakeup'
  BY DEF Go, NoMissedWakeup, RefresherType
<1> QED
  BY <1>1, <1>3, <1>4, <1>5

LEMMA WorkEndsStep == ASSUME RefresherInv, NEW t \in Tasks, WorkEnds(t) PROVE RefresherInv'
<1> USE DEF RefresherInv
<1>1. RefresherType'
  BY DEF WorkEnds, RefresherType, WorkStates
<1>2. Admitted' = Admitted /\ SlotHolders' = SlotHolders
  BY DEF WorkEnds, RefresherType, Admitted, SlotHolders
<1>3. Ledgers' /\ DrainCloses' /\ DrainedStaysQuiet'
  BY <1>2 DEF WorkEnds, Ledgers, DrainCloses, DrainedStaysQuiet
<1>4. NoMissedWakeup'
  BY DEF WorkEnds, NoMissedWakeup, RefresherType
<1> QED
  BY <1>1, <1>3, <1>4

\* The task that is accounted for was counted, so saturating_sub subtracts.
LEMMA AccountStep == ASSUME RefresherInv, NEW t \in Tasks, Account(t) PROVE RefresherInv'
<1> USE DEF RefresherInv
<1>1. t \in Admitted /\ Cardinality(Admitted \ {t}) = Cardinality(Admitted) - 1
  BY Sets, Counted DEF Account, Admitted
<1>2. running > 0 /\ running' = running - 1
  <2>1. Cardinality(Admitted) # 0
    BY <1>1, Sets, Counted
  <2> QED
    BY <2>1 DEF Account, RefresherType, Ledgers
<1>3. /\ work' = [work EXCEPT ![t] = IF running' = 0 THEN "last" ELSE "counted"]
      /\ closed' = closed /\ slots' = slots /\ drain' = drain /\ woken' = woken
      /\ work[t] = "done"
  BY DEF Account
<1>4. RefresherType'
  BY <1>2, <1>3 DEF RefresherType, WorkStates
<1>5. Admitted' = Admitted \ {t} /\ SlotHolders' = SlotHolders
  BY <1>3 DEF RefresherType, Admitted, SlotHolders
<1>6. Ledgers'
  BY <1>1, <1>2, <1>3, <1>5 DEF Ledgers
<1>7. DrainCloses' /\ DrainedStaysQuiet'
  BY <1>2, <1>3 DEF DrainCloses, DrainedStaysQuiet
<1>8. NoMissedWakeup'
  <2>1. CASE running' = 0
    BY <1>3, <2>1 DEF NoMissedWakeup, RefresherType
  <2>2. CASE running' # 0
    <3>1. Admitted' # {}
      BY <1>1, <1>2, <1>5, <2>2, Sets, Counted DEF Ledgers
    <3>2. \E u \in Tasks : work'[u] \in {"working", "done"}
      BY <3>1 DEF Admitted
    <3> QED
      BY <3>2 DEF NoMissedWakeup
  <2> QED
    BY <2>1, <2>2
<1> QED
  BY <1>4, <1>6, <1>7, <1>8

LEMMA ReturnSlotStep ==
  ASSUME RefresherInv, NEW t \in Tasks, ReturnSlot(t) PROVE RefresherInv'
<1> USE DEF RefresherInv
<1>1. RefresherType'
  BY DEF ReturnSlot, RefresherType, WorkStates
<1>2. /\ Admitted' = Admitted
      /\ SlotHolders' = SlotHolders \ {t} /\ t \in SlotHolders
  BY DEF ReturnSlot, RefresherType, Admitted, SlotHolders
<1>3. Ledgers'
  <2>1. Cardinality(SlotHolders') = Cardinality(SlotHolders) - 1 /\ Cardinality(SlotHolders) \in Nat
    BY <1>2, Sets, Counted
  <2> QED
    BY <1>2, <2>1 DEF ReturnSlot, RefresherType, Ledgers
<1>4. DrainCloses' /\ DrainedStaysQuiet'
  BY DEF ReturnSlot, DrainCloses, DrainedStaysQuiet
<1>5. NoMissedWakeup'
  BY DEF ReturnSlot, NoMissedWakeup, RefresherType
<1> QED
  BY <1>1, <1>3, <1>4, <1>5

LEMMA NotifyStep == ASSUME RefresherInv, NEW t \in Tasks, Notify(t) PROVE RefresherInv'
<1> USE DEF RefresherInv
<1>1. RefresherType'
  BY DEF Notify, RefresherType, WorkStates
<1>2. Admitted' = Admitted /\ SlotHolders' = SlotHolders
  BY DEF Notify, RefresherType, Admitted, SlotHolders
<1>3. Ledgers' /\ DrainCloses' /\ DrainedStaysQuiet'
  BY <1>2 DEF Notify, Ledgers, DrainCloses, DrainedStaysQuiet
<1>4. NoMissedWakeup'
  BY DEF Notify, NoMissedWakeup, RefresherType
<1> QED
  BY <1>1, <1>3, <1>4

\* A drain changes its own progress, and closes admission.
LEMMA DrainAnyStep ==
  ASSUME RefresherInv, NEW d \in Drainers,
         DrainBegin(d) \/ DrainStep(d) \/ DrainTimeout(d)
  PROVE  RefresherInv'
<1> USE DEF RefresherInv
<1>1. RefresherType'
  <2>1. CASE DrainBegin(d) \/ DrainTimeout(d)
    BY <2>1 DEF DrainBegin, DrainTimeout, RefresherType, DrainStates
  <2>2. CASE DrainStep(d)
    BY <2>2 DEF DrainStep, Register, Check, Await, Wake, RefresherType, DrainStates
  <2> QED
    BY <2>1, <2>2
<1>2. running' = running /\ slots' = slots /\ work' = work
  BY DEF DrainBegin, DrainStep, DrainTimeout, Register, Check, Await, Wake
<1>3. Ledgers'
  BY <1>2 DEF Ledgers, Admitted, SlotHolders
<1>4. DrainCloses'
  BY DEF DrainBegin, DrainStep, DrainTimeout, Register, Check, Await, Wake, DrainCloses,
         RefresherType
<1>5. DrainedStaysQuiet'
  BY DEF DrainBegin, DrainStep, DrainTimeout, Register, Check, Await, Wake, DrainCloses,
         DrainedStaysQuiet, RefresherType
<1>6. NoMissedWakeup'
  <2>1. CASE Check(d) /\ running # 0
    <3>1. Admitted # {}
      BY <2>1, Sets, Counted DEF Ledgers
    <3>2. \E t \in Tasks : work[t] \in {"working", "done"}
      BY <3>1 DEF Admitted
    <3> QED
      BY <1>2, <3>2 DEF NoMissedWakeup
  <2>2. CASE Check(d) /\ running = 0
    BY <1>2, <2>2 DEF Check, NoMissedWakeup, RefresherType
  <2>3. CASE DrainBegin(d) \/ DrainTimeout(d) \/ Register(d)
    BY <1>2, <2>3 DEF DrainBegin, DrainTimeout, Register, NoMissedWakeup, RefresherType
  <2>4. CASE Await(d) \/ Wake(d)
    BY <1>2, <2>4 DEF Await, Wake, NoMissedWakeup, RefresherType
  <2> QED
    BY <2>1, <2>2, <2>3, <2>4 DEF DrainStep
<1> QED
  BY <1>1, <1>3, <1>4, <1>5, <1>6

-----------------------------------------------------------------------------
(* Claims.  Cardinalities are no good for an induction over steps: what    *)
(* OneRemover counts is stated by who may hold a claim beside whom.        *)

ClaimType ==
  /\ refreshing \subseteq Ids
  /\ claiming \in [Readers -> Ids \cup {None}]
  /\ owner \in [Tasks -> Ids \cup {None}]
  /\ cleanup \subseteq Ids

\* A task owns a claim exactly while its work runs.
OwnersWork ==
  \A t \in Tasks : owner[t] # None <=> work[t] = "working"

\* Whoever will remove an ID finds it in the set...
RemoversClaim ==
  /\ \A r \in Readers : claiming[r] # None => claiming[r] \in refreshing
  /\ \A t \in Tasks : owner[t] # None => owner[t] \in refreshing
  /\ cleanup \subseteq refreshing

\* ... nobody else will remove it...
RemoversApart ==
  /\ \A r, s \in Readers : claiming[r] # None /\ claiming[r] = claiming[s] => r = s
  /\ \A t, u \in Tasks : owner[t] # None /\ owner[t] = owner[u] => t = u
  /\ \A r \in Readers, t \in Tasks : claiming[r] # None => claiming[r] # owner[t]
  /\ \A r \in Readers : claiming[r] \notin cleanup
  /\ \A t \in Tasks : owner[t] \notin cleanup

\* ... and somebody will.
ClaimsHaveRemover ==
  \A id \in refreshing :
    \/ \E r \in Readers : claiming[r] = id
    \/ \E t \in Tasks : owner[t] = id
    \/ id \in cleanup

ClaimInv == ClaimType /\ OwnersWork /\ RemoversClaim /\ RemoversApart /\ ClaimsHaveRemover

\* Counting the removers gives OneRemover.
LEMMA RemoversCount == ASSUME ClaimInv PROVE OneRemover /\ OneRefreshPerId
<1> USE DEF ClaimInv
<1>1. ASSUME NEW id \in Ids, id \notin refreshing PROVE Cardinality(Removers(id)) = 0
  <2>1. id # None
    BY DatabaseAssumption
  <2>2. Removers(id) = {}
    BY <1>1, <2>1 DEF Removers, RemoversClaim
  <2> QED
    BY <2>2, FS_EmptySet
<1>2. ASSUME NEW id \in Ids, id \in refreshing PROVE Cardinality(Removers(id)) = 1
  <2>1. id # None
    BY DatabaseAssumption
  <2>2. CASE \E r \in Readers : claiming[r] = id
    <3>1. PICK r \in Readers : claiming[r] = id
      BY <2>2
    <3>2. {x \in Readers : claiming[x] = id} = {r}
      BY <2>1, <3>1 DEF RemoversApart
    <3>3. {x \in Tasks : owner[x] = id} = {} /\ id \notin cleanup
      BY <2>1, <3>1 DEF RemoversApart
    <3>4. Removers(id) = {<<"reader", r>>}
      BY <3>2, <3>3 DEF Removers
    <3> QED
      BY <3>4, FS_Singleton
  <2>3. CASE \E t \in Tasks : owner[t] = id
    <3>1. PICK t \in Tasks : owner[t] = id
      BY <2>3
    <3>2. {x \in Tasks : owner[x] = id} = {t}
      BY <2>1, <3>1 DEF RemoversApart
    <3>3. {x \in Readers : claiming[x] = id} = {} /\ id \notin cleanup
      BY <2>1, <3>1 DEF RemoversApart
    <3>4. Removers(id) = {<<"task", t>>}
      BY <3>2, <3>3 DEF Removers
    <3> QED
      BY <3>4, FS_Singleton
  <2>4. CASE id \in cleanup
    <3>1. {x \in Readers : claiming[x] = id} = {} /\ {x \in Tasks : owner[x] = id} = {}
      BY <2>4 DEF RemoversApart
    <3>2. Removers(id) = {<<"cleanup", id>>}
      BY <2>4, <3>1 DEF Removers
    <3> QED
      BY <3>2, FS_Singleton
  <2> QED
    BY <1>2, <2>2, <2>3, <2>4 DEF ClaimsHaveRemover
<1>3. OneRemover
  BY <1>1, <1>2 DEF OneRemover
<1>4. OneRefreshPerId
  BY DEF RemoversApart, OneRefreshPerId
<1> QED
  BY <1>3, <1>4

LEMMA ClaimStep ==
  ASSUME ClaimInv, NEW r \in Readers, NEW id \in Ids, Claim(r, id) PROVE ClaimInv'
<1> USE DatabaseAssumption DEF ClaimInv, ClaimType
<1>1. ClaimType' /\ OwnersWork'
  BY DEF Claim, OwnersWork, refresherVars
<1>2. RemoversClaim'
  BY DEF Claim, RemoversClaim
<1>3. RemoversApart'
  BY DEF Claim, RemoversClaim, RemoversApart
<1>4. ClaimsHaveRemover'
  BY DEF Claim, ClaimsHaveRemover
<1> QED
  BY <1>1, <1>2, <1>3, <1>4

LEMMA AdmitStep ==
  ASSUME ClaimInv, RefresherType, NEW r \in Readers, NEW t \in Tasks, Admit(r, t)
  PROVE  ClaimInv'
<1> USE DatabaseAssumption DEF ClaimInv, ClaimType
<1>1. /\ work[t] = "ended" /\ work' = [work EXCEPT ![t] = "working"]
      /\ claiming[r] # None /\ owner' = [owner EXCEPT ![t] = claiming[r]]
      /\ claiming' = [claiming EXCEPT ![r] = None]
      /\ refreshing' = refreshing /\ cleanup' = cleanup
  BY DEF Admit, Go
<1>2. owner[t] = None
  BY <1>1 DEF OwnersWork
<1>3. ClaimType' /\ OwnersWork'
  BY <1>1 DEF OwnersWork, RefresherType
<1>4. RemoversClaim'
  BY <1>1 DEF RemoversClaim
<1>5. RemoversApart'
  BY <1>1, <1>2 DEF RemoversApart
<1>6. ClaimsHaveRemover'
  BY <1>1, <1>2 DEF ClaimsHaveRemover
<1> QED
  BY <1>3, <1>4, <1>5, <1>6

LEMMA DeclineStep == ASSUME ClaimInv, NEW r \in Readers, Decline(r) PROVE ClaimInv'
<1> USE DatabaseAssumption DEF ClaimInv, ClaimType
<1>1. ClaimType' /\ OwnersWork'
  BY DEF Decline, OwnersWork, refresherVars
<1>2. RemoversClaim'
  BY DEF Decline, RemoversClaim
<1>3. RemoversApart'
  BY DEF Decline, RemoversApart
<1>4. ClaimsHaveRemover'
  BY DEF Decline, ClaimsHaveRemover
<1> QED
  BY <1>1, <1>2, <1>3, <1>4

LEMMA EndRefreshStep ==
  ASSUME ClaimInv, RefresherType, NEW t \in Tasks, EndRefresh(t) PROVE ClaimInv'
<1> USE DatabaseAssumption DEF ClaimInv, ClaimType
<1>1. /\ work[t] = "working" /\ work' = [work EXCEPT ![t] = "done"]
      /\ owner' = [owner EXCEPT ![t] = None] /\ claiming' = claiming
      /\ \/ refreshing' = refreshing \ {owner[t]} /\ cleanup' = cleanup
         \/ cleanup' = cleanup \cup {owner[t]} /\ refreshing' = refreshing
  BY DEF EndRefresh, WorkEnds
<1>2. owner[t] \in Ids
  BY <1>1 DEF OwnersWork
<1>3. ClaimType' /\ OwnersWork'
  BY <1>1, <1>2 DEF OwnersWork, RefresherType
<1>4. RemoversClaim'
  BY <1>1, <1>2 DEF RemoversClaim, RemoversApart
<1>5. RemoversApart'
  BY <1>1, <1>2 DEF RemoversApart
<1>6. ClaimsHaveRemover'
  BY <1>1, <1>2 DEF ClaimsHaveRemover
<1> QED
  BY <1>3, <1>4, <1>5, <1>6

LEMMA CleanupStep == ASSUME ClaimInv, NEW id \in Ids, Cleanup(id) PROVE ClaimInv'
<1> USE DatabaseAssumption DEF ClaimInv, ClaimType
<1>1. ClaimType' /\ OwnersWork'
  BY DEF Cleanup, OwnersWork, refresherVars
<1>2. RemoversClaim'
  BY DEF Cleanup, RemoversClaim, RemoversApart
<1>3. RemoversApart'
  BY DEF Cleanup, RemoversApart
<1>4. ClaimsHaveRemover'
  BY DEF Cleanup, ClaimsHaveRemover
<1> QED
  BY <1>1, <1>2, <1>3, <1>4

\* Steps that leave claims alone and start or end no work.
LEMMA ClaimsUntouched ==
  ASSUME ClaimInv, UNCHANGED claimVars,
         \A t \in Tasks : work'[t] = "working" <=> work[t] = "working"
  PROVE  ClaimInv'
BY DEF ClaimInv, claimVars, ClaimType, OwnersWork, RemoversClaim, RemoversApart,
       ClaimsHaveRemover

-----------------------------------------------------------------------------
(* Close *)

CloseType ==
  /\ receiver \in BOOLEAN
  /\ release \in {"kept", "ok", "failed", "panicked"}
  /\ result \in CloseResults \cup {"none", "closed"}
  /\ closing \in [Closers -> {"idle", "waiting", "closed"} \cup CloseResults]

\* The result is published once, after the release, and Ok only if the drain
\* and the release both were.
ResultStands ==
  /\ result # "none" => release # "kept"
  /\ result = "ok" => drain[CloseTask] = "ok" /\ release = "ok"

\* A caller that returned has the published result.
CallersHaveResult ==
  \A c \in Closers : closing[c] \notin {"idle", "waiting"} =>
    result # "none" /\ closing[c] = result

CloseInv == CloseType /\ ResultStands /\ CallersHaveResult

\* A drain that returned Ok has returned for good.
LEMMA DrainFinal ==
  ASSUME RefresherType, NEW d \in Drainers, drain[d] = "ok",
         DrainBegin(d) \/ DrainStep(d) \/ DrainTimeout(d)
  PROVE  FALSE
BY DEF DrainBegin, DrainStep, DrainTimeout, Register, Check, Await, Wake

LEMMA CloseUntouched ==
  ASSUME CloseInv, UNCHANGED closeVars, drain[CloseTask] = "ok" => drain'[CloseTask] = "ok"
  PROVE  CloseInv'
BY DEF CloseInv, closeVars, CloseType, ResultStands, CallersHaveResult

LEMMA CallerStep ==
  ASSUME CloseInv, NEW c \in Closers, Close(c) \/ CloseReturns(c) \/ CancelClose(c)
  PROVE  CloseInv'
<1> USE DEF CloseInv, CloseType
<1>1. result' = result /\ release' = release /\ drain' = drain
  BY DEF Close, CloseReturns, CancelClose, refresherVars
<1>2. CASE Close(c)
  BY <1>1, <1>2 DEF Close, ResultStands, CallersHaveResult
<1>3. CASE CloseReturns(c)
  BY <1>1, <1>3 DEF CloseReturns, ResultStands, CallersHaveResult
<1>4. CASE CancelClose(c)
  BY <1>1, <1>4 DEF CancelClose, ResultStands, CallersHaveResult
<1> QED
  BY <1>2, <1>3, <1>4

LEMMA ReleaseStep == ASSUME CloseInv, Release PROVE CloseInv'
BY DEF CloseInv, CloseType, Release, ResultStands, CallersHaveResult, refresherVars

LEMMA PublishStep == ASSUME CloseInv, Publish PROVE CloseInv'
<1> USE DEF CloseInv, CloseType
<1>1. Combined \in CloseResults
  BY DEF Combined, CloseResults
<1>2. Combined = "ok" => drain[CloseTask] = "ok" /\ release = "ok"
  BY DEF Combined
<1>3. /\ release # "kept" /\ result = "none" /\ result' \in {"closed", Combined}
      /\ release' = release /\ receiver' = receiver /\ closing' = closing /\ drain' = drain
  BY DEF Publish, refresherVars
<1>4. result' # "none"
  BY <1>1, <1>3 DEF CloseResults
<1>5. CloseType' /\ ResultStands'
  BY <1>1, <1>2, <1>3, <1>4 DEF ResultStands
<1>6. CallersHaveResult'
  BY <1>3 DEF CallersHaveResult
<1> QED
  BY <1>5, <1>6

-----------------------------------------------------------------------------
(* All of it *)

IInv == RefresherInv /\ ClaimInv /\ CloseInv

LEMMA InitIInv == Init => IInv
<1> SUFFICES ASSUME Init PROVE IInv
  OBVIOUS
<1>1. RefresherInv
  BY RefresherInitInv DEF Init
<1>2. ClaimInv
  BY DEF Init, RefresherInit, ClaimInv, ClaimType, OwnersWork, RemoversClaim,
         RemoversApart, ClaimsHaveRemover
<1>3. CloseInv
  BY DEF Init, CloseInv, CloseType, ResultStands, CallersHaveResult, CloseResults
<1> QED
  BY <1>1, <1>2, <1>3 DEF IInv

LEMMA RefresherUntouched == ASSUME RefresherInv, UNCHANGED refresherVars PROVE RefresherInv'
BY DEF refresherVars, RefresherInv, RefresherType, Ledgers, Admitted, SlotHolders,
       DrainCloses, DrainedStaysQuiet, NoMissedWakeup

LEMMA IInvStep == ASSUME IInv, [Next]_vars PROVE IInv'
<1> USE DEF IInv
<1>0. CloseTask \in Drainers /\ RefresherType
  BY DatabaseAssumption DEF RefresherInv
<1>1. ASSUME NEW r \in Readers, NEW id \in Ids, Claim(r, id) PROVE IInv'
  BY <1>1, ClaimStep, RefresherUntouched, CloseUntouched DEF Claim, refresherVars
<1>2. ASSUME NEW r \in Readers, Decline(r) PROVE IInv'
  BY <1>2, DeclineStep, RefresherUntouched, CloseUntouched DEF Decline, refresherVars
<1>3. ASSUME NEW r \in Readers, NEW t \in Tasks, Admit(r, t) PROVE IInv'
  BY <1>0, <1>3, AdmitStep, GoStep, CloseUntouched DEF Admit, Go
<1>4. ASSUME NEW t \in Tasks, EndRefresh(t) PROVE IInv'
  BY <1>0, <1>4, EndRefreshStep, WorkEndsStep, CloseUntouched DEF EndRefresh, WorkEnds
<1>5. ASSUME NEW t \in Tasks, FinishTask(t) PROVE IInv'
  <2>1. RefresherInv'
    BY <1>5, AccountStep, ReturnSlotStep, NotifyStep DEF FinishTask, TaskTail
  <2>2. drain' = drain /\ \A u \in Tasks : work'[u] = "working" <=> work[u] = "working"
    BY <1>0, <1>5
       DEF FinishTask, TaskTail, Account, ReturnSlot, Notify, RefresherType
  <2> QED
    BY <1>5, <2>1, <2>2, ClaimsUntouched, CloseUntouched DEF FinishTask
<1>6. ASSUME NEW id \in Ids, Cleanup(id) PROVE IInv'
  BY <1>6, CleanupStep, RefresherUntouched, CloseUntouched DEF Cleanup, refresherVars
<1>7. CASE Drain \/ GiveUpDrain \/ BeginDrain
  <2>1. /\ UNCHANGED claimVars /\ UNCHANGED closeVars
        /\ DrainBegin(CloseTask) \/ DrainStep(CloseTask) \/ DrainTimeout(CloseTask)
    BY <1>7 DEF Drain, GiveUpDrain, BeginDrain
  <2>2. RefresherInv' /\ drain[CloseTask] # "ok"
    BY <1>0, <2>1, DrainAnyStep, DrainFinal
  <2>3. work' = work
    BY <2>1 DEF DrainBegin, DrainStep, DrainTimeout, Register, Check, Await, Wake
  <2> QED
    BY <2>1, <2>2, <2>3, ClaimsUntouched, CloseUntouched
<1>8. CASE Release \/ Publish
  <2>1. CloseInv'
    BY <1>8, ReleaseStep, PublishStep
  <2>2. UNCHANGED refresherVars /\ UNCHANGED claimVars
    BY <1>8 DEF Release, Publish
  <2> QED
    BY <2>1, <2>2, RefresherUntouched, ClaimsUntouched DEF refresherVars
<1>9. ASSUME NEW c \in Closers, Close(c) \/ CloseReturns(c) \/ CancelClose(c) PROVE IInv'
  <2>1. CloseInv'
    BY <1>9, CallerStep
  <2>2. UNCHANGED refresherVars /\ UNCHANGED claimVars
    BY <1>9 DEF Close, CloseReturns, CancelClose
  <2> QED
    BY <2>1, <2>2, RefresherUntouched, ClaimsUntouched DEF refresherVars
<1>10. CASE UNCHANGED vars
  BY <1>10, RefresherUntouched, ClaimsUntouched, CloseUntouched DEF vars, refresherVars
<1> QED
  BY <1>1, <1>2, <1>3, <1>4, <1>5, <1>6, <1>7, <1>8, <1>9, <1>10 DEF Next, CloseTaskStep

LEMMA Inductive == Spec => []IInv
<1>1. IInv /\ [Next]_vars => IInv'
  BY IInvStep
<1> QED
  BY <1>1, InitIInv, PTL DEF Spec

-----------------------------------------------------------------------------
(* Theorems *)

\* Every variable keeps its type; the slots never exceed the refresher's limit.
THEOREM TypeCorrect == Spec => []TypeOK
<1>1. IInv => TypeOK
  <2> SUFFICES ASSUME IInv PROVE TypeOK
    OBVIOUS
  <2>1. Cardinality(SlotHolders) \in Nat
    BY Sets, Counted
  <2>2. slots \in 0 .. SlotCount
    BY <2>1, SlotCountType DEF IInv, RefresherInv, RefresherType, Ledgers
  <2> QED
    BY <2>2 DEF IInv, RefresherInv, RefresherType, ClaimInv, ClaimType, CloseInv, CloseType,
                TypeOK, RefresherTypeOK
<1> QED
  BY <1>1, Inductive, PTL

\* The refresher's count and its semaphore agree with the tasks there are.
THEOREM LedgersAgree == Spec => []Ledgers
<1>1. IInv => Ledgers
  BY DEF IInv, RefresherInv
<1> QED
  BY <1>1, Inductive, PTL

\* A drain that sleeps has a wake-up coming.
THEOREM WakeupsAreNotMissed == Spec => []NoMissedWakeup
<1>1. IInv => NoMissedWakeup
  BY DEF IInv, RefresherInv
<1> QED
  BY <1>1, Inductive, PTL

\* A claimed ID has exactly one party that will remove it, an unclaimed none.
THEOREM OneRemoverHolds == Spec => []OneRemover
<1>1. IInv => OneRemover
  BY RemoversCount DEF IInv
<1> QED
  BY <1>1, Inductive, PTL

\* A close reported as Ok released after the last refresh, and none follows.
THEOREM CleanCloseHolds == Spec => []CleanCloseIsQuiet
<1>1. IInv => CleanCloseIsQuiet
  <2> SUFFICES ASSUME IInv, result = "ok" PROVE release = "ok" /\ closed /\ Admitted = {}
    BY DEF CleanCloseIsQuiet
  <2>1. drain[CloseTask] = "ok" /\ release = "ok"
    BY DEF IInv, CloseInv, ResultStands
  <2>2. closed /\ running = 0
    BY <2>1, DatabaseAssumption DEF IInv, RefresherInv, DrainedStaysQuiet
  <2>3. Admitted = {}
    BY <2>2, Sets, Counted DEF IInv, RefresherInv, Ledgers
  <2> QED
    BY <2>1, <2>2, <2>3
<1> QED
  BY <1>1, Inductive, PTL

\* Callers of close that returned were all told the same.
THEOREM CallersAgreeHolds == Spec => []CallersAgree
<1>1. IInv => CallersAgree
  BY DEF IInv, CloseInv, CallersHaveResult, CallersAgree
<1> QED
  BY <1>1, Inductive, PTL

\* A drain that reported Ok left the refresher closed, with nothing running.
THEOREM DrainedStaysQuietHolds == Spec => []DrainedStaysQuiet
<1>1. IInv => DrainedStaysQuiet
  BY DEF IInv, RefresherInv
<1> QED
  BY <1>1, Inductive, PTL

\* No two admitted refreshes are for the same ID.
THEOREM OneRefreshPerIdHolds == Spec => []OneRefreshPerId
<1>1. IInv => OneRefreshPerId
  BY RemoversCount DEF IInv
<1> QED
  BY <1>1, Inductive, PTL
=============================================================================
