--------------------------- MODULE MCFlightProofs ---------------------------
(***************************************************************************)
(* Work that panics beside work that does not: what a panic costs, for any *)
(* callers, keys, task names and concurrency.  The theorems of FlightProofs *)
(* are used for the part whose work may panic.                             *)
(***************************************************************************)
EXTENDS MCFlight, TLAPS

Wild == INSTANCE FlightProofs WITH
  Concurrency <- WildConcurrency, MayPanic <- TRUE,
  calls <- wCalls, permits <- wPermits, task <- wTask, key <- wKey,
  outcome <- wOutcome, channel <- wChannel, joined <- wJoined, answer <- wAnswer

LEMMA WildFacts ==
  /\ Wild!Spec => []Wild!BudgetConserved
  /\ Wild!Spec => []Wild!SingleExecution
  /\ Wild!Spec => []Wild!LostIsClosed
<1>0. Wild!IsFiniteSet(Tasks)
  BY FlightAssumption DEF IsFiniteSet, Wild!IsFiniteSet
<1>1. Wild!Spec => []Wild!BudgetConserved
  BY <1>0, FlightAssumption, WildAssumption, Wild!BudgetConservation
<1>2. Wild!Spec => []Wild!SingleExecution
  BY <1>0, FlightAssumption, WildAssumption, Wild!SingleExecutionHolds
<1>3. Wild!Spec => []Wild!LostIsClosed
  BY <1>0, FlightAssumption, WildAssumption, Wild!LostIsClosedHolds
<1> QED
  BY <1>1, <1>2, <1>3

-----------------------------------------------------------------------------
(* W and Wild are the same module with the same substitution. *)

LEMMA WildSteps ==
  /\ W!Init => Wild!Init
  /\ [W!Next]_wildVars => [Wild!Next]_Wild!vars
<1>1. W!Init => Wild!Init
  BY DEF W!Init, Wild!Init, W!Budget, Wild!Budget
<1>2. W!Next => Wild!Next
  BY DEF W!Next, Wild!Next, W!Join, Wild!Join, W!Start, Wild!Start, W!Reject, Wild!Reject, W!Finish,
     Wild!Finish, W!Panic, Wild!Panic, W!Remove, Wild!Remove, W!Send, Wild!Send, W!Release,
     Wild!Release, W!Receive, Wild!Receive, W!Cancel, Wild!Cancel, W!Unreferenced,
     Wild!Unreferenced, W!Results, Wild!Results
<1> QED
  BY <1>1, <1>2 DEF wildVars, Wild!vars

LEMMA WildProperties ==
  /\ Wild!BudgetConserved <=> W!BudgetConserved
  /\ Wild!SingleExecution <=> W!SingleExecution
  /\ Wild!LostIsClosed <=> W!LostIsClosed
<1>1. Wild!BudgetConserved <=> W!BudgetConserved
  <2>1. \A S : W!Cardinality(S) = Wild!Cardinality(S)
    BY DEF W!Cardinality, Wild!Cardinality, W!IsFiniteSet, Wild!IsFiniteSet
  <2>2. W!Holders = Wild!Holders /\ W!Budget = Wild!Budget
    BY DEF W!Holders, Wild!Holders, W!HoldingStates, Wild!HoldingStates, W!TaskStates,
           Wild!TaskStates, W!Budget, Wild!Budget
  <2> QED
    BY <2>1, <2>2 DEF W!BudgetConserved, Wild!BudgetConserved
<1>2. Wild!SingleExecution <=> W!SingleExecution
  BY DEF W!SingleExecution, Wild!SingleExecution, W!JoinableStates, Wild!JoinableStates
<1>3. Wild!LostIsClosed <=> W!LostIsClosed
  BY DEF W!LostIsClosed, Wild!LostIsClosed, W!JoinableStates, Wild!JoinableStates
<1> QED
  BY <1>1, <1>2, <1>3

\* A panic costs no more than its own ID: permits are conserved when a task unwinds, one
\* task per ID still runs, and a stale entry belongs to work of that ID that was lost
\* (flight.rs).
THEOREM PanicsContainedHolds == MCSpec => []PanicsContained
<1>1. MCInit => Wild!Init
  BY WildSteps DEF MCInit
<1>2. [MCNext]_<<part, vars, wildVars>> => [Wild!Next]_Wild!vars
  BY WildSteps DEF MCNext, wildVars, Wild!vars
<1>3. MCSpec => Wild!Spec
  BY <1>1, <1>2, PTL DEF MCSpec, Wild!Spec
<1> QED
  BY <1>3, WildFacts, WildProperties, PTL DEF PanicsContained
=============================================================================
