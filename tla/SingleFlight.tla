---------------------------- MODULE SingleFlight ----------------------------
(***************************************************************************)
(* What Flight promises its callers, with the map, the watch channel, the  *)
(* semaphore and the detached tasks taken away (the comments on `Flight`   *)
(* and `Flight::run` in cache/src/strategies/flight.rs):                   *)
(*                                                                         *)
(*   - at most one execution per key is joinable at a time;                *)
(*   - at most Budget keys are being executed at a time;                   *)
(*   - a call is answered only by an execution of its own key that was     *)
(*     still joinable when the call arrived.                               *)
(*                                                                         *)
(* Flight.tla is shown to implement this module.                           *)
(***************************************************************************)
EXTENDS Integers, FiniteSets

CONSTANTS Callers,   \* concurrent calls of Flight::run
          Keys,      \* the IDs being loaded
          Budget     \* distinct executions admitted at once

VARIABLES loading,   \* the keys with a joinable execution
          status,    \* status[c]: where call c stands
          answered   \* the callers whose last call an execution answered

absVars == <<loading, status, answered>>

Idle       == [at |-> "idle"]
Waiting(k) == [at |-> "waiting", key |-> k]
Served(k)  == [at |-> "served", key |-> k]

Init ==
  /\ loading = {}
  /\ status = [c \in Callers |-> Idle]
  /\ answered = {}

\* A call that finds its key's execution joinable waits for that execution.
Join(c, k) ==
  /\ status[c] = Idle
  /\ k \in loading
  /\ status' = [status EXCEPT ![c] = Waiting(k)]
  /\ answered' = answered \ {c}
  /\ UNCHANGED loading

\* A call that finds none starts one when the budget allows it.
Start(c, k) ==
  /\ status[c] = Idle
  /\ k \notin loading
  /\ Cardinality(loading) < Budget
  /\ loading' = loading \cup {k}
  /\ status' = [status EXCEPT ![c] = Waiting(k)]
  /\ answered' = answered \ {c}

\* A call may be turned away.
Reject(c) ==
  /\ status[c] = Idle
  /\ answered' = answered \ {c}
  /\ UNCHANGED <<loading, status>>

\* The execution stops being joinable, and exactly its waiters are served.
End(k) ==
  /\ k \in loading
  /\ loading' = loading \ {k}
  /\ status' = [c \in Callers |-> IF status[c] = Waiting(k) THEN Served(k)
                                                            ELSE status[c]]
  /\ UNCHANGED answered

\* Only a served call is answered.
Answer(c) ==
  /\ \E k \in Keys : status[c] = Served(k)
  /\ status' = [status EXCEPT ![c] = Idle]
  /\ answered' = answered \cup {c}
  /\ UNCHANGED loading

\* The caller's future is dropped before its answer.
Abandon(c) ==
  /\ status[c] # Idle
  /\ status' = [status EXCEPT ![c] = Idle]
  /\ UNCHANGED <<loading, answered>>

Next ==
  \/ \E c \in Callers, k \in Keys : Join(c, k) \/ Start(c, k)
  \/ \E k \in Keys : End(k)
  \/ \E c \in Callers : Reject(c) \/ Answer(c) \/ Abandon(c)

Spec == Init /\ [][Next]_absVars
=============================================================================
