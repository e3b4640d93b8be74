------------------------------- MODULE Flight -------------------------------
(***************************************************************************)
(* In-process single-flight coordination: cache/src/strategies/flight.rs.  *)
(*                                                                         *)
(* `Flight::run` either joins the execution registered for its key in      *)
(* `calls`, or takes a permit, registers a watch channel and spawns a      *)
(* detached task.  The section under the `calls` lock has no await, so it  *)
(* is one step here; after it the task and every caller interleave.  The   *)
(* task's tail (remove the entry, send the result, drop the permit) is     *)
(* three steps, because callers on other worker threads run between them.  *)
(*                                                                         *)
(* A task name stands for one spawned task and its watch channel.  It is   *)
(* reused once the task has ended and nobody holds a receiver.             *)
(***************************************************************************)
EXTENDS Integers, FiniteSets

CONSTANTS
  Callers,      \* concurrent calls of Flight::run
  Keys,         \* the IDs being loaded
  Tasks,        \* names for spawned tasks
  Concurrency,  \* the argument of Flight::new
  MayPanic,     \* whether the work given to run may panic
  None          \* no task

ASSUME FlightAssumption ==
  /\ Concurrency \in Nat
  /\ MayPanic \in BOOLEAN
  /\ IsFiniteSet(Tasks)
  /\ None \notin Tasks

VARIABLES
  calls,        \* calls[k]: the task whose receiver the map holds, or None
  permits,      \* permits left in the semaphore
  task,         \* task[t]: the task's progress
  key,          \* key[t]: the ID it was spawned for
  outcome,      \* outcome[t]: what its work returned, until it is sent
  channel,      \* channel[t]: the watch state; "closed" once the sender is dropped
  joined,       \* joined[c]: the task whose receiver call c awaits, or None
  answer        \* answer[c]: how c's last call ended

vars == <<calls, permits, task, key, outcome, channel, joined, answer>>

\* Flight::new: a zero setting still permits one load.
Budget == IF Concurrency = 0 THEN 1 ELSE Concurrency

\* A timeout is an error: CacheError::Internal("cache load timed out").
Results == {"value", "error"}
TaskStates == {"ended", "working", "finished", "removed", "settled"}
Answers == Results \cup {"none", "overloaded", "internal", "cancelled"}

\* The states in which the map entry of a task is meant to exist.
JoinableStates == {"working", "finished"}
\* The states in which the task owns a semaphore permit.
HoldingStates == TaskStates \ {"ended"}
Holders == {t \in Tasks : task[t] \in HoldingStates}

Init ==
  /\ calls = [k \in Keys |-> None]
  /\ permits = Budget
  /\ task = [t \in Tasks |-> "ended"]
  /\ key = [t \in Tasks |-> None]
  /\ outcome = [t \in Tasks |-> "none"]
  /\ channel = [t \in Tasks |-> "closed"]
  /\ joined = [c \in Callers |-> None]
  /\ answer = [c \in Callers |-> "none"]

\* No receiver of t's channel is left, in the map or in a caller.
Unreferenced(t) ==
  /\ \A k \in Keys : calls[k] # t
  /\ \A c \in Callers : joined[c] # t

-----------------------------------------------------------------------------
(* Flight::run, the section under the lock *)

\* Mutant: joiners acquire capacity too.
JoinTakesPermit(c, k) ==
  /\ joined[c] = None
  /\ calls[k] # None
  /\ permits > 0
  /\ permits' = permits - 1
  /\ joined' = [joined EXCEPT ![c] = calls[k]]
  /\ answer' = [answer EXCEPT ![c] = "none"]
  /\ UNCHANGED <<calls, task, key, outcome, channel>>

\* The key has an entry: clone its receiver.  No permit is consulted.
Join(c, k) ==
  /\ joined[c] = None
  /\ calls[k] # None
  /\ joined' = [joined EXCEPT ![c] = calls[k]]
  /\ answer' = [answer EXCEPT ![c] = "none"]
  /\ UNCHANGED <<calls, permits, task, key, outcome, channel>>

\* Mutant: the lock is not held from the lookup to the insertion.
StartAfterStaleLookup(c, k, t) ==
  /\ joined[c] = None
  /\ permits > 0
  /\ task[t] = "ended" /\ Unreferenced(t)
  /\ permits' = permits - 1
  /\ calls' = [calls EXCEPT ![k] = t]
  /\ task' = [task EXCEPT ![t] = "working"]
  /\ key' = [key EXCEPT ![t] = k]
  /\ channel' = [channel EXCEPT ![t] = "empty"]
  /\ joined' = [joined EXCEPT ![c] = t]
  /\ answer' = [answer EXCEPT ![c] = "none"]
  /\ UNCHANGED outcome

\* The key has none: claim a permit, register the channel, spawn the task.
Start(c, k, t) ==
  /\ joined[c] = None
  /\ calls[k] = None
  /\ permits > 0
  /\ task[t] = "ended" /\ Unreferenced(t)
  /\ permits' = permits - 1
  /\ calls' = [calls EXCEPT ![k] = t]
  /\ task' = [task EXCEPT ![t] = "working"]
  /\ key' = [key EXCEPT ![t] = k]
  /\ channel' = [channel EXCEPT ![t] = "empty"]
  /\ joined' = [joined EXCEPT ![c] = t]
  /\ answer' = [answer EXCEPT ![c] = "none"]
  /\ UNCHANGED outcome

\* No entry and no permit: refused, and nothing is left in the map.
Reject(c, k) ==
  /\ joined[c] = None
  /\ calls[k] = None
  /\ permits = 0
  /\ answer' = [answer EXCEPT ![c] = "overloaded"]
  /\ UNCHANGED <<calls, permits, task, key, outcome, channel, joined>>

-----------------------------------------------------------------------------
(* The detached task *)

\* The work returns, or the timeout drops it; either way a result exists.
Finish(t, r) ==
  /\ task[t] = "working"
  /\ task' = [task EXCEPT ![t] = "finished"]
  /\ outcome' = [outcome EXCEPT ![t] = r]
  /\ UNCHANGED <<calls, permits, key, channel, joined, answer>>

\* Mutant: the permit is forgotten by a task that unwinds.
PanicKeepsPermit(t) ==
  /\ MayPanic
  /\ task[t] = "working"
  /\ task' = [task EXCEPT ![t] = "ended"]
  /\ channel' = [channel EXCEPT ![t] = "closed"]
  /\ UNCHANGED <<calls, permits, key, outcome, joined, answer>>

\* The work panics: tokio drops the task's future, and with it the sender.
\* Nothing after the await runs, so the map keeps the entry.
Panic(t) ==
  /\ MayPanic
  /\ task[t] = "working"
  /\ task' = [task EXCEPT ![t] = "settled"]
  /\ channel' = [channel EXCEPT ![t] = "closed"]
  /\ UNCHANGED <<calls, permits, key, outcome, joined, answer>>

\* Mutant: the result is sent while the entry is still joinable.
RemoveAfterSend(t) ==
  /\ task[t] = "finished"
  /\ task' = [task EXCEPT ![t] = "removed"]
  /\ channel' = [channel EXCEPT ![t] = outcome[t]]
  /\ UNCHANGED <<calls, permits, key, outcome, joined, answer>>

\* calls.lock().await.remove(&key)
Remove(t) ==
  /\ task[t] = "finished"
  /\ task' = [task EXCEPT ![t] = "removed"]
  /\ calls' = [calls EXCEPT ![key[t]] = None]
  /\ UNCHANGED <<permits, key, outcome, channel, joined, answer>>

\* Mutant: only a success is published, the sender outliving a failure.
SendOnlySuccess(t) ==
  /\ task[t] = "removed"
  /\ task' = [task EXCEPT ![t] = "settled"]
  /\ channel' = [channel EXCEPT ![t] = IF outcome[t] = "value" THEN "value" ELSE @]
  /\ outcome' = [outcome EXCEPT ![t] = "none"]
  /\ UNCHANGED <<calls, permits, key, joined, answer>>

\* sender.send(Some(result))
Send(t) ==
  /\ task[t] = "removed"
  /\ task' = [task EXCEPT ![t] = "settled"]
  /\ channel' = [channel EXCEPT ![t] = outcome[t]]
  /\ outcome' = [outcome EXCEPT ![t] = "none"]
  /\ UNCHANGED <<calls, permits, key, joined, answer>>

\* Mutant: the permit is returned only by work that succeeded.
ReleaseOnSuccess(t) ==
  /\ task[t] = "settled"
  /\ channel[t] = "value"
  /\ task' = [task EXCEPT ![t] = "ended"]
  /\ permits' = permits + 1
  /\ UNCHANGED <<calls, key, outcome, channel, joined, answer>>

\* Mutant: the permit is given back by hand and dropped as well.
ReleaseTwice(t) ==
  /\ task[t] = "settled"
  /\ task' = [task EXCEPT ![t] = "ended"]
  /\ permits' = permits + 2
  /\ UNCHANGED <<calls, key, outcome, channel, joined, answer>>

\* drop(permit), last whether the task ran to its end or unwound.
Release(t) ==
  /\ task[t] = "settled"
  /\ task' = [task EXCEPT ![t] = "ended"]
  /\ permits' = permits + 1
  /\ UNCHANGED <<calls, key, outcome, channel, joined, answer>>

-----------------------------------------------------------------------------
(* Flight::run, the wait *)

\* borrow() holds a result, or changed() reports a sender that is gone.
Receive(c) ==
  /\ joined[c] # None
  /\ channel[joined[c]] # "empty"
  /\ joined' = [joined EXCEPT ![c] = None]
  /\ answer' = [answer EXCEPT
       ![c] = IF channel[joined[c]] = "closed" THEN "internal"
                                               ELSE channel[joined[c]]]
  /\ UNCHANGED <<calls, permits, task, key, outcome, channel>>

\* The caller's future is dropped while it waits; the task is not told.
Cancel(c) ==
  /\ joined[c] # None
  /\ joined' = [joined EXCEPT ![c] = None]
  /\ answer' = [answer EXCEPT ![c] = "cancelled"]
  /\ UNCHANGED <<calls, permits, task, key, outcome, channel>>

Next ==
  \/ \E c \in Callers, k \in Keys :
       Join(c, k) \/ Reject(c, k) \/ \E t \in Tasks : Start(c, k, t)
  \/ \E t \in Tasks :
       \/ \E r \in Results : Finish(t, r)
       \/ Panic(t) \/ Remove(t) \/ Send(t) \/ Release(t)
  \/ \E c \in Callers : Receive(c) \/ Cancel(c)

Spec == Init /\ [][Next]_vars

\* Every await of a task ends: the work by the timeout, the lock because its
\* critical sections do not await.  A caller that is not dropped is polled
\* again when its channel changes.
Fairness ==
  /\ \A t \in Tasks :
       /\ WF_vars(Panic(t) \/ \E r \in Results : Finish(t, r))
       /\ WF_vars(Remove(t)) /\ WF_vars(Send(t)) /\ WF_vars(Release(t))
  /\ \A c \in Callers : WF_vars(Receive(c))

FairSpec == Spec /\ Fairness

-----------------------------------------------------------------------------
(* Properties *)

TypeOK ==
  /\ calls \in [Keys -> Tasks \cup {None}]
  /\ permits \in 0 .. Budget
  /\ task \in [Tasks -> TaskStates]
  /\ key \in [Tasks -> Keys \cup {None}]
  /\ outcome \in [Tasks -> Results \cup {"none"}]
  /\ channel \in [Tasks -> Results \cup {"empty", "closed"}]
  /\ joined \in [Callers -> Tasks \cup {None}]
  /\ answer \in [Callers -> Answers]

\* Concurrent callers of one ID share one execution: no two tasks whose work
\* may still be running, or whose result may still be joined, have one key.
SingleExecution ==
  \A t, u \in Tasks :
    /\ task[t] \in JoinableStates
    /\ task[u] \in JoinableStates
    /\ key[t] = key[u]
    => t = u

\* "Per-ID receivers for work that is currently joinable": an entry of the
\* map belongs to a task that will still publish a result.  A stale entry
\* makes every later call of its ID fail, without any work being done.
CallsAreJoinable ==
  \A k \in Keys : calls[k] # None =>
    /\ task[calls[k]] \in JoinableStates
    /\ key[calls[k]] = k

\* What a panic leaves behind: an entry whose work is lost belongs to its own ID
\* and its channel is closed, so a caller that joins it gets an error and never
\* the value of another load.
LostIsClosed ==
  \A k \in Keys : calls[k] # None =>
    /\ key[calls[k]] = k
    /\ task[calls[k]] \notin JoinableStates => channel[calls[k]] = "closed"

\* Every permit is in the semaphore or with one running task: no path through
\* run, joining, refusal, timeout or panic loses or invents capacity.
BudgetConserved == permits + Cardinality(Holders) = Budget

\* A call that waits gets an answer, whatever becomes of the caller that
\* started the work.
WaiterAnswered == \A c \in Callers : joined[c] # None ~> joined[c] = None

\* A permit that was taken comes back, so overload ends.
CapacityReturns == \A t \in Tasks : task[t] # "ended" ~> task[t] = "ended"

-----------------------------------------------------------------------------
(* The promise of SingleFlight *)

\* The keys whose execution can still be joined.
Loading == {key[t] : t \in {u \in Tasks : task[u] \in JoinableStates}}

\* A call waits while its execution is joinable, and is served after that.
Status ==
  [c \in Callers |->
     IF joined[c] = None THEN [at |-> "idle"]
     ELSE [at  |-> IF task[joined[c]] \in JoinableStates THEN "waiting"
                                                          ELSE "served",
           key |-> key[joined[c]]]]

Answered == {c \in Callers : answer[c] \in Results}

Abstract == INSTANCE SingleFlight WITH
  loading <- Loading, status <- Status, answered <- Answered

\* Work that does not panic is single-flight: a call is answered only by an
\* execution of its own key that had not ended when the call arrived.
ImplementsSingleFlight == Abstract!Spec
=============================================================================
