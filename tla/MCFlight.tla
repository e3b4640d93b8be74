------------------------------ MODULE MCFlight ------------------------------
(***************************************************************************)
(* Two instances of Flight, one per behaviour: `calm`, two permits and     *)
(* work that does not panic, and `wild`, a concurrency setting of zero and *)
(* work that may.  The variables of the part that does not run stay as     *)
(* they begin.                                                             *)
(*                                                                         *)
(* When Start is enabled in the calm part, at most one task is live and    *)
(* the other callers hold two receivers of ended ones; in the wild part no *)
(* task is live, and the map may hold one more for the other key.  Four    *)
(* names never block it.                                                   *)
(***************************************************************************)
EXTENDS Flight, TLC

CONSTANT WildConcurrency   \* the setting of the wild part

ASSUME WildAssumption == WildConcurrency \in Nat

VARIABLES
  part,         \* the instance that runs
  wCalls, wPermits, wTask, wKey, wOutcome, wChannel, wJoined, wAnswer

wildVars ==
  <<wCalls, wPermits, wTask, wKey, wOutcome, wChannel, wJoined, wAnswer>>

W == INSTANCE Flight WITH
  Concurrency <- WildConcurrency, MayPanic <- TRUE,
  calls <- wCalls, permits <- wPermits, task <- wTask, key <- wKey,
  outcome <- wOutcome, channel <- wChannel, joined <- wJoined, answer <- wAnswer

\* Callers, keys and task names are interchangeable: safety runs only.
Symmetry == Permutations(Callers) \cup Permutations(Keys) \cup Permutations(Tasks)

MCInit == part \in {"calm", "wild"} /\ Init /\ W!Init

MCNext ==
  \/ part = "calm" /\ Next /\ UNCHANGED <<part, wildVars>>
  \/ part = "wild" /\ W!Next /\ UNCHANGED <<part, vars>>

MCSpec == MCInit /\ [][MCNext]_<<part, vars, wildVars>>

\* A panic costs no more than its own ID: permits are conserved when a task
\* unwinds, one task per ID still runs, and the entry that is left stale
\* belongs to work of that ID that was lost, so a caller that joins it gets an
\* error and never the value of another load.
PanicsContained == W!BudgetConserved /\ W!SingleExecution /\ W!LostIsClosed
=============================================================================
