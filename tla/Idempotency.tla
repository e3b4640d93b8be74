---------------------------- MODULE Idempotency -----------------------------
(***************************************************************************)
(* AIP-155 request ids: the interceptor of grpc/src/idempotency/mod.rs     *)
(* over a shared Store, for one (method, request_id).                      *)
(*                                                                         *)
(* Callers retry with the same id, on any replica.  Every store call is an *)
(* await and one step.  `AgeClaim` is the clock passing stale_after; it    *)
(* respects what Options::stale_after promises, that a claim this old does *)
(* not belong to a handler still working.                                  *)
(***************************************************************************)
EXTENDS Integers, FiniteSets

CONSTANTS
  Calls,        \* concurrent callers that use one request_id
  OneReclaimer, \* whether retries clear a stale claim one at a time
  None

ASSUME IdempotencyAssumption == OneReclaimer \in BOOLEAN /\ None \notin Calls

VARIABLES
  key,        \* the store's record of the name
  call,       \* call[c]: where the interceptor stands
  reply       \* reply[c]: what c's last call was told

vars == <<key, call, reply>>

\* A key is absent, claimed by a call, or done with a call's response.
NoKey == [state |-> "absent", by |-> None, stale |-> FALSE]
InFlight(c) == [state |-> "in_flight", by |-> c, stale |-> FALSE]
Done(c) == [state |-> "done", by |-> c, stale |-> FALSE]

\* The calls that own the right to run the handler, until they give it up.
Owning == {"handling", "settling", "releasing"}

Init ==
  /\ key = NoKey
  /\ call = [c \in Calls |-> "idle"]
  /\ reply = [c \in Calls |-> "none"]

-----------------------------------------------------------------------------
(* intercept: claim the key *)

\* Mutant: the create does not fail on a duplicate name.
CreateOverwrites(c) ==
  /\ call[c] = "idle"
  /\ key' = InFlight(c)
  /\ call' = [call EXCEPT ![c] = "handling"]
  /\ reply' = [reply EXCEPT ![c] = "none"]

\* store.create wins the unique name.
Create(c) ==
  /\ call[c] = "idle"
  /\ key = NoKey
  /\ key' = InFlight(c)
  /\ call' = [call EXCEPT ![c] = "handling"]
  /\ reply' = [reply EXCEPT ![c] = "none"]

\* It lost, or failed; a failing create may still have claimed the name.
CreateFails(c) ==
  /\ call[c] = "idle"
  /\ UNCHANGED key \/ (key = NoKey /\ key' = InFlight(c))
  /\ call' = [call EXCEPT ![c] = "replay"]
  /\ reply' = [reply EXCEPT ![c] = "none"]

-----------------------------------------------------------------------------
(* replay: read the key that explains the lost claim *)

\* Mutant: the record is replayed without looking at its state.
ReplayBlindly(c) ==
  /\ call[c] = "replay"
  /\ reply' = [reply EXCEPT ![c] = key.by]
  /\ call' = [call EXCEPT ![c] = "idle"]
  /\ UNCHANGED key

\* The first call's response, or the refusals; a stale claim comes next.
Replay(c) ==
  /\ call[c] = "replay"
  /\ \/ /\ key = NoKey
        /\ reply' = [reply EXCEPT ![c] = "error"]
        /\ call' = [call EXCEPT ![c] = "idle"]
     \/ /\ key.state = "done"
        /\ reply' = [reply EXCEPT ![c] = key.by]
        /\ call' = [call EXCEPT ![c] = "idle"]
     \/ /\ key.state = "in_flight" /\ key.stale
        /\ OneReclaimer => \A d \in Calls : call[d] # "reclaim"
        /\ call' = [call EXCEPT ![c] = "reclaim"]
        /\ UNCHANGED reply
     \/ /\ key.state = "in_flight" /\ ~key.stale
        /\ reply' = [reply EXCEPT ![c] = "aborted"]
        /\ call' = [call EXCEPT ![c] = "idle"]
  /\ UNCHANGED key

\* Mutant: an abandoned claim is reported and left in place.
ReclaimNothing(c) ==
  /\ call[c] = "reclaim"
  /\ reply' = [reply EXCEPT ![c] = "aborted"]
  /\ call' = [call EXCEPT ![c] = "idle"]
  /\ UNCHANGED key

\* store.delete(name): whatever the name holds by now.
Reclaim(c) ==
  /\ call[c] = "reclaim"
  /\ key' = NoKey
  /\ reply' = [reply EXCEPT ![c] = "aborted"]
  /\ call' = [call EXCEPT ![c] = "idle"]

\* store.get fails, or that delete does, which may have happened all the same:
\* the caller's error.
ReplayFails(c) ==
  /\ \/ call[c] = "replay" /\ UNCHANGED key
     \/ call[c] = "reclaim" /\ key' \in {key, NoKey}
  /\ reply' = [reply EXCEPT ![c] = "error"]
  /\ call' = [call EXCEPT ![c] = "idle"]

-----------------------------------------------------------------------------
(* intercept: the handler, then settle or release *)

HandlerSucceeds(c) ==
  /\ call[c] = "handling"
  /\ call' = [call EXCEPT ![c] = "settling"]
  /\ UNCHANGED <<key, reply>>

HandlerFails(c) ==
  /\ call[c] = "handling"
  /\ call' = [call EXCEPT ![c] = "releasing"]
  /\ UNCHANGED <<key, reply>>

\* store.settle writes the key of that name; without one it fails, which is
\* logged.  The caller gets its response either way.
Settle(c) ==
  /\ call[c] = "settling"
  /\ key' = IF key = NoKey THEN key ELSE Done(c)
  /\ reply' = [reply EXCEPT ![c] = c]
  /\ call' = [call EXCEPT ![c] = "idle"]

\* store.settle, or encoding the response, fails.
SettleFails(c) ==
  /\ call[c] = "settling"
  /\ reply' = [reply EXCEPT ![c] = c]
  /\ call' = [call EXCEPT ![c] = "idle"]
  /\ UNCHANGED key

\* store.delete after a handler error; its own failure is logged.
Release(c) ==
  /\ call[c] = "releasing"
  /\ key' \in {NoKey, key}
  /\ reply' = [reply EXCEPT ![c] = "error"]
  /\ call' = [call EXCEPT ![c] = "idle"]

\* The call's future is dropped, or its process dies, at any await.
Abandon(c) ==
  /\ call[c] # "idle"
  /\ call' = [call EXCEPT ![c] = "idle"]
  /\ UNCHANGED <<key, reply>>

\* stale_after passes over a claim whose handler is gone.
AgeClaim ==
  /\ key.state = "in_flight" /\ ~key.stale
  /\ call[key.by] \notin Owning
  /\ key' = [key EXCEPT !.stale = TRUE]
  /\ UNCHANGED <<call, reply>>

-----------------------------------------------------------------------------
Attempt(c) == Create(c) \/ CreateFails(c)
Run(c) == HandlerSucceeds(c) \/ HandlerFails(c) \/ Settle(c) \/ SettleFails(c) \/ Release(c)

Next ==
  \/ \E c \in Calls : Attempt(c) \/ Replay(c) \/ Reclaim(c) \/ ReplayFails(c)
                     \/ Run(c) \/ Abandon(c)
  \/ AgeClaim

Spec == Init /\ [][Next]_vars

\* Callers told to retry do, and the clock moves; no handler need answer.  Some
\* retry is not dropped and its store calls succeed: strong fairness, because
\* every await may be the last.
Fairness ==
  /\ \A c \in Calls :
       /\ WF_vars(Attempt(c))
       /\ SF_vars(Replay(c)) /\ SF_vars(Reclaim(c))
  /\ WF_vars(AgeClaim)

FairSpec == Spec /\ Fairness

-----------------------------------------------------------------------------
(* Properties *)

TypeOK ==
  /\ key \in [state : {"absent", "in_flight", "done"}, by : Calls \cup {None},
              stale : BOOLEAN]
  /\ call \in [Calls -> {"idle", "replay", "reclaim"} \cup Owning]
  /\ reply \in [Calls -> {"none", "aborted", "error"} \cup Calls]

\* "Two callers replaying the same id race on the store's unique name and
\* exactly one wins"; a cleared claim "will run once": no two calls of one id
\* run the handler at a time.
SingleHandler == \A c, d \in Calls : call[c] \in Owning /\ call[d] \in Owning => c = d

\* A recorded response is what every later retry gets: it is never removed
\* or replaced.
DoneIsFinal == [][key.state = "done" => key' = key]_key

\* A claim whose call died does not wedge its id: it is cleared or settled.
NotWedged ==
  key.state = "in_flight" /\ call[key.by] \notin Owning ~> key.state # "in_flight"
=============================================================================
