----------------------------- MODULE Refresher ------------------------------
(***************************************************************************)
(* Bounded, drainable background work: cache/src/strategies/refresher.rs.  *)
(*                                                                         *)
(* Every section under the state lock is free of awaits, so it is one      *)
(* step.  A task's tail (account, return the slot, notify) and a drain's   *)
(* loop (register, check, await) are separate steps: between any two of    *)
(* them other threads run, which is what the order of the loop is about.   *)
(* Database.tla composes these actions with their callers.                 *)
(*                                                                         *)
(* The work never panics here: AsideImpl, the only caller of `go`, awaits  *)
(* a flight in it, and a panicking load surfaces there as an error.        *)
(***************************************************************************)
EXTENDS Integers, FiniteSets

CONSTANTS
  Tasks,      \* names for spawned tasks
  Drainers,   \* concurrent calls of Refresher::drain
  Limit       \* the argument of Refresher::new

ASSUME RefresherAssumption == Limit \in Nat /\ IsFiniteSet(Tasks)

VARIABLES
  closed,     \* State::closed
  running,    \* State::running
  slots,      \* permits left in the semaphore
  work,       \* work[t]: the task's progress
  drain,      \* drain[d]: where the call of drain stands
  woken       \* woken[d]: notify_waiters reached its Notified future

refresherVars == <<closed, running, slots, work, drain, woken>>

\* Refresher::new: a zero limit is normalized to one.
SlotCount == IF Limit = 0 THEN 1 ELSE Limit

\* "last" and "counted" are a task past its accounting, with is_idle true and
\* false; "silent" has returned its slot and still has to notify.
WorkStates == {"ended", "working", "done", "last", "counted", "silent"}
DrainStates == {"new", "loop", "registered", "checked", "waiting", "ok", "timedout"}

\* The tasks the running count stands for, and those with a slot.
Admitted == {t \in Tasks : work[t] \in {"working", "done"}}
SlotHolders == {t \in Tasks : work[t] \in {"working", "done", "last", "counted"}}

RefresherInit ==
  /\ closed = FALSE
  /\ running = 0
  /\ slots = SlotCount
  /\ work = [t \in Tasks |-> "ended"]
  /\ drain = [d \in Drainers |-> "new"]
  /\ woken = [d \in Drainers |-> FALSE]

-----------------------------------------------------------------------------
(* Refresher::go and the task it spawns *)

\* Mutant: the closed flag is not consulted.
GoWhileClosed(t) ==
  /\ slots > 0
  /\ work[t] = "ended"
  /\ slots' = slots - 1
  /\ running' = running + 1
  /\ work' = [work EXCEPT ![t] = "working"]
  /\ UNCHANGED <<closed, drain, woken>>

\* go admits: open, and a slot is free.
Go(t) ==
  /\ ~closed
  /\ slots > 0
  /\ work[t] = "ended"
  /\ slots' = slots - 1
  /\ running' = running + 1
  /\ work' = [work EXCEPT ![t] = "working"]
  /\ UNCHANGED <<closed, drain, woken>>

\* The work returns or its timeout drops it.
WorkEnds(t) ==
  /\ work[t] = "working"
  /\ work' = [work EXCEPT ![t] = "done"]
  /\ UNCHANGED <<closed, running, slots, drain, woken>>

\* Mutant: the accounting returns the slot that drop(permit) returns too.
AccountReturnsSlot(t) ==
  /\ work[t] = "done"
  /\ running' = IF running > 0 THEN running - 1 ELSE 0
  /\ slots' = slots + 1
  /\ work' = [work EXCEPT ![t] = IF running' = 0 THEN "last" ELSE "counted"]
  /\ UNCHANGED <<closed, drain, woken>>

\* The completion section under the lock.
Account(t) ==
  /\ work[t] = "done"
  /\ running' = IF running > 0 THEN running - 1 ELSE 0
  /\ work' = [work EXCEPT ![t] = IF running' = 0 THEN "last" ELSE "counted"]
  /\ UNCHANGED <<closed, slots, drain, woken>>

\* Mutant: only the task that found others running gives its slot back.
ReturnSlotUnlessLast(t) ==
  /\ work[t] \in {"last", "counted"}
  /\ slots' = IF work[t] = "last" THEN slots ELSE slots + 1
  /\ work' = [work EXCEPT ![t] = IF @ = "last" THEN "silent" ELSE "ended"]
  /\ UNCHANGED <<closed, running, drain, woken>>

\* drop(permit)
ReturnSlot(t) ==
  /\ work[t] \in {"last", "counted"}
  /\ slots' = slots + 1
  /\ work' = [work EXCEPT ![t] = IF @ = "last" THEN "silent" ELSE "ended"]
  /\ UNCHANGED <<closed, running, drain, woken>>

\* Mutant: a Notified future is reached only once it has been polled.
NotifyPolledOnly(t) ==
  /\ work[t] = "silent"
  /\ work' = [work EXCEPT ![t] = "ended"]
  /\ woken' = [d \in Drainers |-> woken[d] \/ drain[d] = "waiting"]
  /\ UNCHANGED <<closed, running, slots, drain>>

\* idle.notify_waiters(): every Notified future created so far.
Notify(t) ==
  /\ work[t] = "silent"
  /\ work' = [work EXCEPT ![t] = "ended"]
  /\ woken' = [d \in Drainers |-> woken[d] \/ drain[d] \in {"registered", "checked", "waiting"}]
  /\ UNCHANGED <<closed, running, slots, drain>>

-----------------------------------------------------------------------------
(* Refresher::drain *)

\* Stop admission; return at once when nothing runs.
DrainBegin(d) ==
  /\ drain[d] = "new"
  /\ closed' = TRUE
  /\ drain' = [drain EXCEPT ![d] = IF running = 0 THEN "ok" ELSE "loop"]
  /\ UNCHANGED <<running, slots, work, woken>>

\* let notified = idle.notified()
Register(d) ==
  /\ drain[d] = "loop"
  /\ drain' = [drain EXCEPT ![d] = "registered"]
  /\ woken' = [woken EXCEPT ![d] = FALSE]
  /\ UNCHANGED <<closed, running, slots, work>>

\* Read the count under the lock...
Check(d) ==
  /\ drain[d] = "registered"
  /\ drain' = [drain EXCEPT ![d] = IF running = 0 THEN "ok" ELSE "checked"]
  /\ UNCHANGED <<closed, running, slots, work, woken>>

\* ... and begin to await when work remains.
Await(d) ==
  /\ drain[d] = "checked"
  /\ drain' = [drain EXCEPT ![d] = "waiting"]
  /\ UNCHANGED <<closed, running, slots, work, woken>>

\* notified.await returns; look again.
Wake(d) ==
  /\ drain[d] = "waiting"
  /\ woken[d]
  /\ drain' = [drain EXCEPT ![d] = "loop"]
  /\ UNCHANGED <<closed, running, slots, work, woken>>

\* The limit passes first.
DrainTimeout(d) ==
  /\ drain[d] \in {"loop", "registered", "checked", "waiting"}
  /\ drain' = [drain EXCEPT ![d] = "timedout"]
  /\ UNCHANGED <<closed, running, slots, work, woken>>

TaskTail(t) == Account(t) \/ ReturnSlot(t) \/ Notify(t)
DrainStep(d) == Register(d) \/ Check(d) \/ Await(d) \/ Wake(d)

-----------------------------------------------------------------------------
(* Properties *)

RefresherTypeOK ==
  /\ closed \in BOOLEAN
  /\ running \in Nat
  /\ slots \in 0 .. SlotCount
  /\ work \in [Tasks -> WorkStates]
  /\ drain \in [Drainers -> DrainStates]
  /\ woken \in [Drainers -> BOOLEAN]

\* The two ledgers agree with the tasks that exist: running with the admitted
\* work that is not accounted for (so saturating_sub never saturates), and the
\* semaphore with the slots still held.
Ledgers ==
  /\ running = Cardinality(Admitted)
  /\ slots + Cardinality(SlotHolders) = SlotCount

\* "Completion between the check and await cannot become a missed
\* notification": a drain asleep without a wake-up pending has one coming,
\* from admitted work or from a task that saw the count reach zero.
NoMissedWakeup ==
  \A d \in Drainers : drain[d] \in {"checked", "waiting"} /\ ~woken[d] =>
    \E t \in Tasks : work[t] \in {"working", "done", "last", "silent"}

\* A drain that returned Ok left no admitted work behind, then and ever after.
DrainedStaysQuiet == \A d \in Drainers : drain[d] = "ok" => closed /\ running = 0

\* A drain returns without its timeout when admitted work ends.
DrainEnds == \A d \in Drainers : drain[d] = "loop" ~> drain[d] \in {"ok", "timedout"}
=============================================================================
