------------------------------ MODULE Database ------------------------------
(***************************************************************************)
(* One selected database: the stale refreshes its Aside views admit        *)
(* (AsideImpl::refresh_in_background, cache/src/strategies/aside.rs) and   *)
(* its close sequence (DB::close, cache/src/core/database.rs), both over   *)
(* the Refresher they share.                                               *)
(*                                                                         *)
(* The close task is the one caller of Refresher::drain; a released        *)
(* database may still be read, so readers go on after close.               *)
(***************************************************************************)
EXTENDS Refresher

CONSTANTS
  Readers,      \* concurrent readers that found a stale value
  Ids,          \* the IDs they read
  Closers,      \* concurrent callers of DB::close
  CloseTask,    \* the detached task of the first close
  None          \* no ID

ASSUME DatabaseAssumption == Drainers = {CloseTask} /\ None \notin Ids

VARIABLES
  refreshing,   \* the view's set of IDs with a refresh claim
  claiming,     \* claiming[r]: the ID reader r inserted, before go returned
  owner,        \* owner[t]: the ID whose RefreshClaim the work of t holds
  cleanup,      \* the IDs a detached cleanup task still has to remove
  receiver,     \* CloseState::receiver is present: close has begun
  release,      \* CloseState::release and what became of it
  result,       \* the watch channel of the close task
  closing       \* closing[c]: how caller c of close stands

claimVars == <<refreshing, claiming, owner, cleanup>>
closeVars == <<receiver, release, result, closing>>
vars == <<refresherVars, claimVars, closeVars>>

CloseResults == {"ok", "drain", "release", "both"}

Init ==
  /\ RefresherInit
  /\ refreshing = {}
  /\ claiming = [r \in Readers |-> None]
  /\ owner = [t \in Tasks |-> None]
  /\ cleanup = {}
  /\ receiver = FALSE
  /\ release = "kept"
  /\ result = "none"
  /\ closing = [c \in Closers |-> "idle"]

-----------------------------------------------------------------------------
(* AsideImpl::refresh_in_background *)

\* Mutant: the result of the insertion is ignored.
ClaimTwice(r, id) ==
  /\ claiming[r] = None
  /\ refreshing' = refreshing \cup {id}
  /\ claiming' = [claiming EXCEPT ![r] = id]
  /\ UNCHANGED <<owner, cleanup, refresherVars, closeVars>>

\* The ID is inserted.  A reader that finds it there, or the set locked,
\* returns without a trace.
Claim(r, id) ==
  /\ claiming[r] = None
  /\ id \notin refreshing
  /\ refreshing' = refreshing \cup {id}
  /\ claiming' = [claiming EXCEPT ![r] = id]
  /\ UNCHANGED <<owner, cleanup, refresherVars, closeVars>>

\* refresher.go admits the work, which takes the claim over.
Admit(r, t) ==
  /\ claiming[r] # None
  /\ Go(t)
  /\ owner' = [owner EXCEPT ![t] = claiming[r]]
  /\ claiming' = [claiming EXCEPT ![r] = None]
  /\ UNCHANGED <<refreshing, cleanup, closeVars>>

\* Mutant: the claim of declined work is forgotten.
DeclineForgets(r) ==
  /\ claiming[r] # None
  /\ claiming' = [claiming EXCEPT ![r] = None]
  /\ UNCHANGED <<refreshing, owner, cleanup, refresherVars, closeVars>>

\* It declines (closed, full, or its lock is contended): cleanup is detached.
Decline(r) ==
  /\ claiming[r] # None
  /\ cleanup' = cleanup \cup {claiming[r]}
  /\ claiming' = [claiming EXCEPT ![r] = None]
  /\ UNCHANGED <<refreshing, owner, refresherVars, closeVars>>

\* The work future is dropped, finished or timed out, and RefreshClaim with
\* it: the ID is removed here when the set's lock is free, detached otherwise.
EndRefresh(t) ==
  /\ WorkEnds(t)
  /\ owner' = [owner EXCEPT ![t] = None]
  /\ \/ refreshing' = refreshing \ {owner[t]} /\ UNCHANGED cleanup
     \/ cleanup' = cleanup \cup {owner[t]} /\ UNCHANGED refreshing
  /\ UNCHANGED <<claiming, closeVars>>

\* A detached cleanup task takes the lock and removes its ID.
Cleanup(id) ==
  /\ id \in cleanup
  /\ refreshing' = refreshing \ {id}
  /\ cleanup' = cleanup \ {id}
  /\ UNCHANGED <<claiming, owner, refresherVars, closeVars>>

\* The rest of a refresh task and of the drain leave claims and close alone.
FinishTask(t) == TaskTail(t) /\ UNCHANGED <<claimVars, closeVars>>
Drain == DrainStep(CloseTask) /\ UNCHANGED <<claimVars, closeVars>>
GiveUpDrain == DrainTimeout(CloseTask) /\ UNCHANGED <<claimVars, closeVars>>

-----------------------------------------------------------------------------
(* DB::close *)

\* Mutant: a caller that finds the release callback taken reports success.
CloseShortcut(c) ==
  /\ closing[c] = "idle"
  /\ receiver' = TRUE
  /\ closing' = [closing EXCEPT ![c] = IF release = "kept" THEN "waiting" ELSE "ok"]
  /\ UNCHANGED <<release, result, refresherVars, claimVars>>

\* The first caller spawns the close task; the others share its receiver.
Close(c) ==
  /\ closing[c] = "idle"
  /\ receiver' = TRUE
  /\ closing' = [closing EXCEPT ![c] = "waiting"]
  /\ UNCHANGED <<release, result, refresherVars, claimVars>>

\* Mutant: the close runs in its caller and ends when that is dropped.
DrainInCaller ==
  /\ \E c \in Closers : closing[c] = "waiting"
  /\ DrainBegin(CloseTask)
  /\ UNCHANGED <<claimVars, closeVars>>

\* refresher.drain(DRAIN_TIMEOUT) begins.
BeginDrain ==
  /\ receiver
  /\ DrainBegin(CloseTask)
  /\ UNCHANGED <<claimVars, closeVars>>

\* release().await, whatever the drain returned: it succeeds, fails or panics.
Release ==
  /\ drain[CloseTask] \in {"ok", "timedout"}
  /\ release = "kept"
  /\ release' \in {"ok", "failed", "panicked"}
  /\ UNCHANGED <<receiver, result, closing, refresherVars, claimVars>>

\* combine_close_results
Combined ==
  CASE drain[CloseTask] = "ok"       /\ release = "ok"     -> "ok"
    [] drain[CloseTask] = "timedout" /\ release = "ok"     -> "drain"
    [] drain[CloseTask] = "ok"       /\ release = "failed" -> "release"
    [] OTHER                                               -> "both"

\* Mutant: the error of the drain is dropped.
PublishReleaseOnly ==
  /\ release \notin {"kept", "panicked"}
  /\ result = "none"
  /\ result' = IF release = "ok" THEN "ok" ELSE "release"
  /\ UNCHANGED <<receiver, release, closing, refresherVars, claimVars>>

\* The sender publishes; a panicking release drops it instead.
Publish ==
  /\ release # "kept"
  /\ result = "none"
  /\ result' = IF release = "panicked" THEN "closed" ELSE Combined
  /\ UNCHANGED <<receiver, release, closing, refresherVars, claimVars>>

\* A waiting caller reads the stored result.
CloseReturns(c) ==
  /\ closing[c] = "waiting"
  /\ result # "none"
  /\ closing' = [closing EXCEPT ![c] = result]
  /\ UNCHANGED <<receiver, release, result, refresherVars, claimVars>>

\* A caller may be dropped while it waits, and call again.
CancelClose(c) ==
  /\ closing[c] = "waiting"
  /\ closing' = [closing EXCEPT ![c] = "idle"]
  /\ UNCHANGED <<receiver, release, result, refresherVars, claimVars>>

CloseTaskStep == BeginDrain \/ Release \/ Publish

Next ==
  \/ \E r \in Readers, id \in Ids : Claim(r, id)
  \/ \E r \in Readers : Decline(r) \/ \E t \in Tasks : Admit(r, t)
  \/ \E t \in Tasks : EndRefresh(t) \/ FinishTask(t)
  \/ \E id \in Ids : Cleanup(id)
  \/ Drain \/ GiveUpDrain \/ CloseTaskStep
  \/ \E c \in Closers : Close(c) \/ CloseReturns(c) \/ CancelClose(c)

Spec == Init /\ [][Next]_vars

\* Detached tasks are scheduled, refreshes are bounded by their timeout, and
\* the release callback returns.  Readers finish the synchronous call they are
\* in.  No fairness for GiveUpDrain: a drain must not need its timeout.
Fairness ==
  /\ \A t \in Tasks : WF_vars(EndRefresh(t)) /\ WF_vars(FinishTask(t))
  /\ WF_vars(Drain)
  /\ \A id \in Ids : WF_vars(Cleanup(id))
  /\ \A r \in Readers : WF_vars(Decline(r) \/ \E t \in Tasks : Admit(r, t))
  /\ WF_vars(CloseTaskStep)
  /\ \A c \in Closers : WF_vars(CloseReturns(c))

FairSpec == Spec /\ Fairness

-----------------------------------------------------------------------------
(* Properties *)

TypeOK ==
  /\ RefresherTypeOK
  /\ refreshing \subseteq Ids
  /\ claiming \in [Readers -> Ids \cup {None}]
  /\ owner \in [Tasks -> Ids \cup {None}]
  /\ cleanup \subseteq Ids
  /\ receiver \in BOOLEAN
  /\ release \in {"kept", "ok", "failed", "panicked"}
  /\ result \in CloseResults \cup {"none", "closed"}
  /\ closing \in [Closers -> {"idle", "waiting", "closed"} \cup CloseResults]

\* The parties that will remove id from the set: the reader between its claim
\* and the answer of go, the admitted work, and a detached cleanup.
Removers(id) ==
  {<<"reader", r>> : r \in {x \in Readers : claiming[x] = id}}
    \cup {<<"task", t>> : t \in {x \in Tasks : owner[x] = id}}
    \cup {<<"cleanup", i>> : i \in cleanup \cap {id}}

\* A claimed ID has exactly one party that will remove it, and an unclaimed
\* one has none.  With two, a late removal would drop a younger claim and the
\* burst of stale readers would spend more than one slot on it; with none, the
\* ID could never be refreshed again.
OneRemover ==
  \A id \in Ids : Cardinality(Removers(id)) = IF id \in refreshing THEN 1 ELSE 0

\* Refreshes of one ID never occupy two slots, whatever declines, timeouts
\* and contended cleanups came before.
OneRefreshPerId ==
  \A t, u \in Tasks : owner[t] # None /\ owner[t] = owner[u] => t = u

\* A close reported as Ok released after every admitted refresh had ended,
\* and none is admitted later.
CleanCloseIsQuiet == result = "ok" => release = "ok" /\ closed /\ Admitted = {}

\* "Concurrent or repeated callers observe the same stored result."
CallersAgree ==
  \A c, d \in Closers :
    {closing[c], closing[d]} \cap {"idle", "waiting"} = {} => closing[c] = closing[d]

\* Once close is called, cleanup happens, even if every caller is dropped.
CleanupHappens == receiver ~> release # "kept"

\* No ID stays claimed for ever.
ClaimsEnd == \A id \in Ids : id \in refreshing ~> id \notin refreshing
=============================================================================
