------------------------- MODULE IdempotencyProofs --------------------------
(***************************************************************************)
(* Proofs about the run of MCIdempotency.  First Idempotency itself, for   *)
(* any set of callers, when retries clear a stale claim one at a time;     *)
(* then the parts beside it, each with the inductive invariant it needs:   *)
(* the WebSocket and network clients, the socket file, the CORS headers,   *)
(* tasks, errors, hosted MCP services, A2A cards and the assembly of a     *)
(* server.  The last section puts them together for the run's properties.  *)
(***************************************************************************)
EXTENDS MCIdempotency, Sequences, FiniteSetTheorems, SequenceTheorems, WellFoundedInduction, TLAPS

-----------------------------------------------------------------------------
(* The inductive invariant.  SingleHandler is not inductive: it says       *)
(* nothing of the key, whose unique name is what keeps two calls apart.    *)

\* A call that may run the handler is the one its claim names, and the claim
\* is not stale.
OwnersHoldKey == \A c \in Calls : call[c] \in Owning => key = InFlight(c)

\* A call about to clear a claim still faces the stale claim it judged: since
\* then nobody settled it, cleared it or claimed the name anew.
ReclaimersFaceStale ==
  \A c \in Calls : call[c] = "reclaim" => key.state = "in_flight" /\ key.stale

\* One retry at a time clears a stale claim.
LoneReclaimer ==
  \A c, d \in Calls : call[c] = "reclaim" /\ call[d] = "reclaim" => c = d

\* A claim and a recorded response have a call they belong to.
KeyNamed == key.state # "absent" => key.by \in Calls

KeyInv == OwnersHoldKey /\ ReclaimersFaceStale /\ LoneReclaimer
IInv == TypeOK /\ KeyNamed /\ KeyInv

\* The records a store may hold.
KeyType == [state : {"absent", "in_flight", "done"}, by : Calls \cup {None},
            stale : BOOLEAN]

\* They are told apart by their states.
LEMMA KeyShapes ==
  /\ NoKey \in KeyType /\ NoKey.state = "absent"
  /\ \A c \in Calls :
       /\ InFlight(c) \in KeyType /\ Done(c) \in KeyType
       /\ InFlight(c).state = "in_flight" /\ InFlight(c).by = c
       /\ InFlight(c).stale = FALSE
       /\ Done(c).state = "done" /\ Done(c).by = c
BY DEF NoKey, InFlight, Done, KeyType

LEMMA InitIInv == Init => IInv
<1> SUFFICES ASSUME Init PROVE IInv
  OBVIOUS
<1>1. TypeOK
  BY KeyShapes DEF Init, TypeOK, KeyType
<1>2. KeyNamed /\ KeyInv
  BY KeyShapes DEF Init, KeyNamed, KeyInv, OwnersHoldKey, ReclaimersFaceStale,
                   LoneReclaimer, Owning
<1> QED
  BY <1>1, <1>2 DEF IInv

-----------------------------------------------------------------------------
(* Types *)

\* What a step writes to the store.
KeyWrites ==
  \/ key' = key
  \/ key' = NoKey
  \/ \E c \in Calls : key' = InFlight(c) \/ key' = Done(c)
  \/ key.state = "in_flight" /\ key' = [key EXCEPT !.stale = TRUE]

LEMMA EveryKeyWrite == ASSUME [Next]_vars PROVE KeyWrites
<1>1. ASSUME NEW c \in Calls, Attempt(c) PROVE KeyWrites
  BY <1>1 DEF Attempt, Create, CreateFails, KeyWrites
<1>2. ASSUME NEW c \in Calls, Replay(c) \/ Abandon(c) PROVE KeyWrites
  BY <1>2 DEF Replay, Abandon, KeyWrites
<1>3. ASSUME NEW c \in Calls, Reclaim(c) \/ ReplayFails(c) PROVE KeyWrites
  BY <1>3 DEF Reclaim, ReplayFails, KeyWrites
<1>4. ASSUME NEW c \in Calls, Run(c) PROVE KeyWrites
  BY <1>4 DEF Run, HandlerSucceeds, HandlerFails, Settle, SettleFails, Release, KeyWrites
<1>5. ASSUME AgeClaim PROVE KeyWrites
  BY <1>5 DEF AgeClaim, KeyWrites
<1>6. CASE UNCHANGED vars
  BY <1>6 DEF vars, KeyWrites
<1> QED
  BY <1>1, <1>2, <1>3, <1>4, <1>5, <1>6 DEF Next

LEMMA KeyStep ==
  ASSUME key \in KeyType, KeyNamed, [Next]_vars PROVE key' \in KeyType /\ KeyNamed'
<1>1. KeyWrites
  BY EveryKeyWrite
<1>2. CASE key' = key
  BY <1>2 DEF KeyNamed
<1>3. CASE key' = NoKey
  BY <1>3, KeyShapes DEF KeyNamed
<1>4. ASSUME NEW c \in Calls, key' = InFlight(c) \/ key' = Done(c)
      PROVE key' \in KeyType /\ KeyNamed'
  BY <1>4, KeyShapes DEF KeyNamed
<1>5. CASE key.state = "in_flight" /\ key' = [key EXCEPT !.stale = TRUE]
  BY <1>5 DEF KeyNamed, KeyType
<1> QED
  BY <1>1, <1>2, <1>3, <1>4, <1>5 DEF KeyWrites

LEMMA TypeStep == ASSUME TypeOK, KeyNamed, [Next]_vars PROVE TypeOK' /\ KeyNamed'
<1> DEFINE CallType == call \in [Calls -> {"idle", "replay", "reclaim"} \cup Owning]
           ReplyType == reply \in [Calls -> {"none", "aborted", "error"} \cup Calls]
<1>1. key' \in KeyType /\ KeyNamed'
  BY KeyStep DEF TypeOK, KeyType
<1> SUFFICES CallType' /\ ReplyType'
  BY <1>1 DEF TypeOK, KeyType
<1>2. CallType /\ ReplyType
  BY DEF TypeOK
<1> USE <1>2 DEF Owning
<1>3. ASSUME NEW c \in Calls, Attempt(c) PROVE CallType' /\ ReplyType'
  BY <1>3 DEF Attempt, Create, CreateFails
<1>4. ASSUME NEW c \in Calls, Replay(c) PROVE CallType' /\ ReplyType'
  BY <1>4 DEF Replay, KeyNamed
<1>5. ASSUME NEW c \in Calls, Reclaim(c) \/ ReplayFails(c) PROVE CallType' /\ ReplyType'
  BY <1>5 DEF Reclaim, ReplayFails
<1>6. ASSUME NEW c \in Calls, Run(c) PROVE CallType' /\ ReplyType'
  BY <1>6 DEF Run, HandlerSucceeds, HandlerFails, Settle, SettleFails, Release
<1>7. ASSUME NEW c \in Calls, Abandon(c) PROVE CallType' /\ ReplyType'
  BY <1>7 DEF Abandon
<1>8. CASE AgeClaim \/ UNCHANGED vars
  BY <1>8 DEF AgeClaim, vars
<1> QED
  BY <1>3, <1>4, <1>5, <1>6, <1>7, <1>8 DEF Next

-----------------------------------------------------------------------------
(* The claim and its holders *)

\* An absent or settled key has neither an owner nor a reclaimer: a fresh
\* claim is made alone, and a recorded response has nobody left to touch it.
LEMMA Unheld ==
  ASSUME KeyInv, key.state # "in_flight", NEW c \in Calls
  PROVE  call[c] \notin Owning /\ call[c] # "reclaim"
BY KeyShapes DEF KeyInv, OwnersHoldKey, ReclaimersFaceStale

\* While one call owns the key, nobody is about to clear it.
LEMMA OwnedIsSafe ==
  ASSUME KeyInv, NEW c \in Calls, call[c] \in Owning, NEW d \in Calls
  PROVE  call[d] # "reclaim" /\ (call[d] \in Owning => d = c)
<1>1. key = InFlight(c)
  BY DEF KeyInv, OwnersHoldKey
<1>2. call[d] # "reclaim"
  BY <1>1, KeyShapes DEF KeyInv, ReclaimersFaceStale
<1>3. call[d] \in Owning => d = c
  BY <1>1, KeyShapes DEF KeyInv, OwnersHoldKey
<1> QED
  BY <1>2, <1>3

LEMMA KeyInvStep == ASSUME OneReclaimer, IInv, [Next]_vars PROVE KeyInv'
<1> USE DEF KeyInv, OwnersHoldKey, ReclaimersFaceStale, LoneReclaimer
<1>0. KeyInv /\ call \in [Calls -> {"idle", "replay", "reclaim"} \cup Owning]
  BY DEF IInv, TypeOK
<1>1. ASSUME NEW c \in Calls, Attempt(c) PROVE KeyInv'
  <2>1. CASE Create(c)
    <3>1. \A d \in Calls : call[d] \notin Owning /\ call[d] # "reclaim"
      BY <1>0, <2>1, Unheld, KeyShapes DEF Create
    <3> QED
      BY <1>0, <2>1, <3>1 DEF Create, Owning
  <2>2. CASE CreateFails(c) /\ key' = key
    BY <1>0, <2>2 DEF CreateFails, Owning
  <2>3. CASE CreateFails(c) /\ key = NoKey
    <3>1. \A d \in Calls : call[d] \notin Owning /\ call[d] # "reclaim"
      BY <1>0, <2>3, Unheld, KeyShapes
    <3> QED
      BY <1>0, <2>3, <3>1 DEF CreateFails, Owning
  <2> QED
    BY <1>1, <2>1, <2>2, <2>3 DEF Attempt, CreateFails
<1>2. ASSUME NEW c \in Calls, Replay(c) PROVE KeyInv'
  BY <1>0, <1>2 DEF Replay, Owning
<1>3. ASSUME NEW c \in Calls, Reclaim(c) \/ ReplayFails(c) PROVE KeyInv'
  <2>1. CASE call[c] = "reclaim"
    <3>1. \A d \in Calls : call[d] \notin Owning
      BY <1>0, <2>1, OwnedIsSafe
    <3>2. \A d \in Calls : d # c => call[d] # "reclaim"
      BY <1>0, <2>1
    <3> QED
      BY <1>0, <1>3, <3>1, <3>2 DEF Reclaim, ReplayFails, Owning
  <2>2. CASE call[c] # "reclaim"
    BY <1>0, <1>3, <2>2 DEF Reclaim, ReplayFails, Owning
  <2> QED
    BY <2>1, <2>2
<1>4. ASSUME NEW c \in Calls, Run(c) PROVE KeyInv'
  <2>1. call[c] \in Owning
    BY <1>4 DEF Run, HandlerSucceeds, HandlerFails, Settle, SettleFails, Release, Owning
  <2>2. \A d \in Calls : call[d] # "reclaim" /\ (call[d] \in Owning => d = c)
    BY <1>0, <2>1, OwnedIsSafe
  <2>3. CASE HandlerSucceeds(c) \/ HandlerFails(c)
    BY <1>0, <2>1, <2>2, <2>3 DEF HandlerSucceeds, HandlerFails, Owning
  <2>4. CASE Settle(c) \/ SettleFails(c) \/ Release(c)
    BY <1>0, <2>2, <2>4 DEF Settle, SettleFails, Release, Owning
  <2> QED
    BY <1>4, <2>3, <2>4 DEF Run
<1>5. ASSUME NEW c \in Calls, Abandon(c) PROVE KeyInv'
  BY <1>0, <1>5 DEF Abandon, Owning
<1>6. CASE AgeClaim
  <2>1. \A d \in Calls : call[d] \notin Owning
    BY <1>0, <1>6, KeyShapes DEF AgeClaim
  <2>2. key' = [key EXCEPT !.stale = TRUE] /\ key.state = "in_flight" /\ call' = call
    BY <1>6 DEF AgeClaim
  <2>3. key'.state = "in_flight" /\ key'.stale = TRUE
    BY <2>2 DEF IInv, TypeOK
  <2> QED
    BY <1>0, <2>1, <2>2, <2>3
<1>7. CASE UNCHANGED vars
  BY <1>0, <1>7 DEF vars
<1> QED
  BY <1>1, <1>2, <1>3, <1>4, <1>5, <1>6, <1>7 DEF Next

-----------------------------------------------------------------------------
(* Theorems *)

\* The interceptor's state keeps its types, however many retries clear a
\* stale claim at a time; in particular a replayed response is some call's.
THEOREM TypeCorrect == Spec => []TypeOK
<1> DEFINE Inv == TypeOK /\ KeyNamed
<1>1. Init => Inv
  BY InitIInv DEF IInv
<1>2. Inv /\ [Next]_vars => Inv'
  BY TypeStep
<1> QED
  BY <1>1, <1>2, PTL DEF Spec

LEMMA Inductive == ASSUME OneReclaimer PROVE Spec => []IInv
<1>1. IInv /\ [Next]_vars => IInv'
  BY TypeStep, KeyInvStep DEF IInv
<1> QED
  BY <1>1, InitIInv, PTL DEF Spec

\* When retries clear a stale claim one at a time, no two calls of one
\* request_id run the handler at a time, whatever store calls fail and
\* whichever calls are dropped.
THEOREM SingleHandlerHolds == ASSUME OneReclaimer PROVE Spec => []SingleHandler
<1>1. IInv => SingleHandler
  BY OwnedIsSafe DEF IInv, SingleHandler
<1> QED
  BY <1>1, Inductive, PTL

\* Under the same condition a recorded response is never removed or replaced:
\* every later retry is answered with it.
THEOREM ResponseIsFinal == ASSUME OneReclaimer PROVE Spec => DoneIsFinal
<1>1. ASSUME IInv, [Next]_vars PROVE [key.state = "done" => key' = key]_key
  <2> SUFFICES ASSUME key.state = "done" PROVE key' = key
    OBVIOUS
  <2>1. \A c \in Calls : call[c] \notin Owning /\ call[c] # "reclaim"
    BY <1>1, Unheld DEF IInv
  <2>2. key # NoKey
    BY KeyShapes
  <2>3. ASSUME NEW c \in Calls, Attempt(c) \/ Replay(c) \/ Abandon(c) PROVE key' = key
    BY <2>2, <2>3 DEF Attempt, Create, CreateFails, Replay, Abandon
  <2>4. ASSUME NEW c \in Calls, Reclaim(c) \/ ReplayFails(c) PROVE key' = key
    BY <2>1, <2>4 DEF Reclaim, ReplayFails
  <2>5. ASSUME NEW c \in Calls, Run(c) PROVE key' = key
    BY <2>1, <2>5 DEF Run, HandlerSucceeds, HandlerFails, Settle, SettleFails, Release,
                      Owning
  <2>6. ~AgeClaim
    BY DEF AgeClaim
  <2>7. CASE UNCHANGED vars
    BY <2>7 DEF vars
  <2> QED
    BY <1>1, <2>3, <2>4, <2>5, <2>6, <2>7 DEF Next
<1> QED
  BY <1>1, Inductive, PTL DEF Spec, DoneIsFinal

-----------------------------------------------------------------------------
(* The client's side (module WebSocket), for any users, listeners and      *)
(* connections.                                                            *)

Steps == {"idle", "dial", "install", "setSink", "setStream", "close", "takeSink",
          "closing", "clearStream", "reconnect", "send", "sending", "token", "lock", "wait",
          "ended"}

WebTypes ==
  /\ user \in [Ws!Procs -> [pc : Steps, then : {"return", "dial"}, conn : Nat]]
  /\ known \in [token : Nat, connected : BOOLEAN, auto : BOOLEAN]
  /\ tokens \subseteq Nat
  /\ dialled \in Nat

\* An operation that has written the state and not yet both halves.
Halfway == {"setSink", "setStream", "takeSink", "closing", "clearStream"}

\* A connection that is about to be installed is nobody else's: no token of it was given
\* out or cancelled; so the token of a connected client is live.
Fresh ==
  /\ known.token <= dialled
  /\ \A c \in tokens : c <= dialled
  /\ known.connected => known.token \notin tokens
  /\ \A p \in Ws!Procs : user[p].pc = "install" =>
       /\ user[p].conn \in 1..dialled /\ user[p].conn \notin tokens
       /\ user[p].conn # known.token
       /\ \A q \in Ws!Procs \ {p} : user[q].pc = "install" => user[q].conn # user[p].conn

Agree ==
  IF known.connected
  THEN sink = known.token /\ half = known.token /\ known.token \in pings \cup hungup
  ELSE sink = 0 /\ half = 0

\* What the operation that is halfway has done.
Begun(p) ==
  /\ user[p].pc \in {"setSink", "setStream"} => known.connected /\ known.token = user[p].conn
  /\ user[p].pc = "setStream" => sink = known.token
  /\ user[p].pc \in {"takeSink", "closing", "clearStream"} => ~known.connected
  /\ user[p].pc \in {"closing", "clearStream"} => sink = 0

\* Without a race one operation is halfway at a time, and the parts agree if none is.
InStep ==
  ~wsRaced =>
    /\ \A p, q \in Ws!Procs : user[p].pc \in Halfway /\ user[q].pc \in Halfway => p = q
    /\ \A p \in Ws!Procs : Begun(p)
    /\ (\A p \in Ws!Procs : user[p].pc \notin Halfway) => Agree

WebInv == WebTypes /\ Fresh /\ InStep

\* A ping goes to the half that is stored: its task holds the lock over it.
Frames == sending.by \in Ws!Conns => sending.on = sink

ClientInv == WebInv /\ Frames

Places == [pc : Steps, then : {"return", "dial"}, conn : Nat]

\* What a process does between operations, and the steps of one that write nothing.
LEMMA PlainKeeps ==
  ASSUME WebInv, NEW p \in Ws!Procs, NEW to \in Places,
         UNCHANGED <<known, tokens, sink, half, dialled, hungup, pings, wsRaced>>,
         user' = [user EXCEPT ![p] = to],
         user[p].pc \notin Halfway, to.pc \notin Halfway \cup {"install"}
  PROVE  WebInv'
<1> USE DEF WebInv
<1>1. WebTypes'
  BY DEF WebTypes, Places
<1>2. \A q \in Ws!Procs : q # p => user'[q] = user[q]
  BY DEF WebTypes
<1>3. user'[p] = to
  BY DEF WebTypes
<1>4. Fresh'
  <2>1. \A q \in Ws!Procs : user'[q].pc = "install" => q # p
    BY <1>3
  <2> QED
    BY <1>2, <2>1 DEF Fresh
<1>5. InStep'
  <2>1. \A q \in Ws!Procs : user'[q].pc \in Halfway => q # p
    BY <1>3
  <2> SUFFICES ASSUME ~wsRaced
               PROVE  /\ \A q, r \in Ws!Procs :
                           user'[q].pc \in Halfway /\ user'[r].pc \in Halfway => q = r
                      /\ \A q \in Ws!Procs : Begun(q)'
                      /\ (\A q \in Ws!Procs : user'[q].pc \notin Halfway) => Agree'
    BY DEF InStep
  <2>2. \A q \in Ws!Procs : Begun(q)'
    <3> SUFFICES ASSUME NEW q \in Ws!Procs, user'[q].pc \in Halfway PROVE Begun(q)'
      BY DEF Begun, Halfway
    <3>1. user'[q] = user[q] /\ Begun(q)
      BY <1>2, <2>1 DEF InStep
    <3> QED
      BY <3>1 DEF Begun
  <2>3. (\A q \in Ws!Procs : user'[q].pc \notin Halfway) => Agree'
    BY <1>2 DEF InStep, Agree
  <2> QED
    BY <1>2, <2>1, <2>2, <2>3 DEF InStep
<1> QED
  BY <1>1, <1>4, <1>5

\* Where an operation ends, or goes on to dial.
LEMMA Ends ==
  ASSUME NEW p \in Ws!Procs
  PROVE  /\ \A ok \in BOOLEAN : Ws!Return(p, ok) =>
              \E to \in Places : user' = [user EXCEPT ![p] = to] /\ to.pc \in {"idle", "token", "ended"}
         /\ [Ws!Idle EXCEPT !.pc = "dial"] \in Places /\ [Ws!Idle EXCEPT !.pc = "dial"].pc = "dial"
<1>1. /\ Ws!Idle \in Places /\ Ws!Idle.pc = "idle"
      /\ \A q \in {"dial", "token", "ended"} :
           [Ws!Idle EXCEPT !.pc = q] \in Places /\ [Ws!Idle EXCEPT !.pc = q].pc = q
  BY DEF Places, Steps, Ws!Idle
<1>2. ASSUME NEW ok \in BOOLEAN, Ws!Return(p, ok)
      PROVE  \E to \in Places : /\ user' = [user EXCEPT ![p] = to]
                                /\ to.pc \in {"idle", "token", "ended"}
  <2>1. CASE p \in Users
    BY <1>1, <1>2, <2>1 DEF Ws!Return
  <2>2. CASE p \notin Users /\ ok
    BY <1>1, <1>2, <2>2 DEF Ws!Return
  <2>3. CASE p \notin Users /\ ~ok
    BY <1>1, <1>2, <2>3 DEF Ws!Return
  <2> QED
    BY <2>1, <2>2, <2>3
<1> QED
  BY <1>1, <1>2

LEMMA PlainSteps ==
  ASSUME WebInv, NEW p \in Ws!Procs,
         \/ Ws!Call(p) \/ Ws!Reconnect(p) \/ Ws!Listen(p) \/ Ws!ReadToken(p)
         \/ Ws!LockStream(p) \/ Ws!Received(p) \/ Ws!StopListening(p)
         \/ Ws!LockSink(p)
         \/ Ws!Written(p) /\ user[p].pc = "sending"
         \/ Ws!Dial(p) /\ dialled' = dialled
  PROVE  WebInv'
<1>1. user[p] \in Places /\ known.token \in Nat
  BY DEF WebInv, WebTypes, Places
<1>2. UNCHANGED <<known, tokens, sink, half, dialled, hungup, pings, wsRaced>>
  BY DEF Ws!Call, Ws!Reconnect, Ws!Listen, Ws!ReadToken, Ws!LockStream, Ws!Received,
         Ws!StopListening, Ws!LockSink, Ws!Written, Ws!Dial, Ws!netVars
<1>3. \A q \in {"dial", "close", "reconnect", "send", "sending", "token", "lock", "wait", "ended"} :
        [user[p] EXCEPT !.pc = q] \in Places
  BY <1>1 DEF Places, Steps
<1>4. /\ Ws!Idle \in Places /\ Ws!Idle.pc = "idle"
      /\ [Ws!Idle EXCEPT !.pc = "dial"] \in Places
      /\ [Ws!Idle EXCEPT !.pc = "token"] \in Places
      /\ [Ws!Idle EXCEPT !.pc = "ended"] \in Places
  BY DEF Places, Steps, Ws!Idle
<1>5. PICK to \in Places :
        /\ user' = [user EXCEPT ![p] = to]
        /\ to.pc \in {"idle", "dial", "close", "reconnect", "send", "sending", "token", "lock",
                      "wait", "ended"}
        /\ user[p].pc \notin Halfway
  <2>1. ASSUME NEW q \in {"dial", "close", "reconnect", "send", "sending", "token", "lock", "wait", "ended"},
               Ws!Goto(p, q), user[p].pc \notin Halfway
        PROVE  \E to \in Places :
                 /\ user' = [user EXCEPT ![p] = to]
                 /\ to.pc \in {"idle", "dial", "close", "reconnect", "send", "sending", "token",
                               "lock", "wait", "ended"}
                 /\ user[p].pc \notin Halfway
    <3>1. user' = [user EXCEPT ![p] = [user[p] EXCEPT !.pc = q]]
      BY <2>1 DEF Ws!Goto
    <3>2. [user[p] EXCEPT !.pc = q].pc = q
      BY <1>1 DEF Places
    <3> QED
      BY <1>3, <2>1, <3>1, <3>2
  <2>2. CASE Ws!Call(p)
    BY <2>1, <2>2 DEF Ws!Call, Halfway
  <2>3. CASE Ws!Listen(p) \/ Ws!LockStream(p) \/ Ws!Received(p) \/ Ws!StopListening(p)
    BY <2>1, <2>3
       DEF Ws!Listen, Ws!LockStream, Ws!Received, Ws!StopListening, Ws!Failed, Halfway
  <2>4. CASE Ws!ReadToken(p)
    <3> DEFINE to == [user[p] EXCEPT !.pc = "lock", !.conn = known.token]
    <3>1. user' = [user EXCEPT ![p] = to] /\ user[p].pc \notin Halfway
      BY <2>4 DEF Ws!ReadToken, Halfway
    <3>2. to \in Places /\ to.pc = "lock"
      BY <1>1 DEF Places, Steps
    <3> QED
      BY <3>1, <3>2
  <2>5. CASE Ws!Reconnect(p)
    <3> DEFINE to == IF known.connected THEN [pc |-> "close", then |-> "dial", conn |-> 0]
                                         ELSE [Ws!Idle EXCEPT !.pc = "dial"]
    <3>1. user' = [user EXCEPT ![p] = to] /\ user[p].pc \notin Halfway
      BY <2>5 DEF Ws!Reconnect, Halfway
    <3>2. to \in Places /\ to.pc \in {"close", "dial"}
      <4>1. CASE known.connected
        BY <4>1 DEF Places, Steps
      <4>2. CASE ~known.connected
        BY <4>2, <1>4 DEF Ws!Idle
      <4> QED
        BY <4>1, <4>2
    <3> QED
      BY <3>1, <3>2
  <2>6. CASE Ws!Dial(p) /\ dialled' = dialled
    <3> DEFINE to == IF p \in Users THEN Ws!Idle ELSE [Ws!Idle EXCEPT !.pc = "ended"]
    <3>1. user[p].pc \notin Halfway /\ dialled \in Nat /\ dialled' = dialled
      BY <2>6 DEF Ws!Dial, Halfway, WebInv, WebTypes
    <3>2. user' = [user EXCEPT ![p] = to]
      BY <2>6, <3>1 DEF Ws!Dial, Ws!Return
    <3>3. to \in Places /\ to.pc \in {"idle", "ended"}
      BY DEF Places, Steps, Ws!Idle
    <3> QED
      BY <3>1, <3>2, <3>3
  <2>7. CASE Ws!LockSink(p)
    <3>1. user[p].pc \notin Halfway /\ (Ws!Return(p, TRUE) \/ Ws!Goto(p, "sending"))
      BY <2>7 DEF Ws!LockSink, Halfway
    <3> QED
      BY <2>1, <3>1, Ends
  <2>8. CASE Ws!Written(p) /\ user[p].pc = "sending"
    <3>1. user[p].pc \notin Halfway /\ Ws!Return(p, TRUE)
      BY <2>8 DEF Ws!Written, Halfway
    <3> QED
      BY <3>1, Ends
  <2> QED
    BY <2>2, <2>3, <2>4, <2>5, <2>6, <2>7, <2>8
<1>6. to.pc \notin Halfway \cup {"install"}
  BY <1>5 DEF Halfway
<1> QED
  BY <1>2, <1>5, <1>6, PlainKeeps

\* A new connection has a number that nobody has.
LEMMA DialKeeps ==
  ASSUME WebInv, NEW p \in Ws!Procs, Ws!Dial(p), dialled' # dialled
  PROVE  WebInv'
<1> USE DEF WebInv
<1> DEFINE to == [user[p] EXCEPT !.pc = "install", !.conn = dialled + 1]
<1>1. /\ user[p].pc = "dial" /\ dialled' = dialled + 1
      /\ user' = [user EXCEPT ![p] = to]
      /\ UNCHANGED <<known, tokens, sink, half, hungup, pings, wsRaced>>
  BY DEF Ws!Dial, Ws!netVars
<1>2. to \in Places /\ to.pc = "install" /\ to.conn = dialled + 1
  <2>1. user[p] \in Places /\ dialled + 1 \in Nat /\ "install" \in Steps
    BY DEF WebTypes, Places, Steps
  <2> QED
    BY <2>1 DEF Places
<1> HIDE DEF to
<1>3. user'[p] = to /\ \A q \in Ws!Procs : q # p => user'[q] = user[q]
  BY <1>1 DEF WebTypes
<1>4. WebTypes'
  BY <1>1, <1>2 DEF WebTypes, Places
<1>5. Fresh'
  <2>1. /\ known'.token <= dialled' /\ \A c \in tokens' : c <= dialled'
        /\ known'.connected => known'.token \notin tokens'
    BY <1>1 DEF Fresh, WebTypes
  <2>2. /\ to.conn \in 1..dialled' /\ to.conn \notin tokens /\ to.conn # known.token
    BY <1>1, <1>2 DEF Fresh, WebTypes
  <2>3. \A q \in Ws!Procs : q # p /\ user[q].pc = "install" => user[q].conn < to.conn
    BY <1>2 DEF Fresh, WebTypes
  <2>4. ASSUME NEW q \in Ws!Procs, user'[q].pc = "install"
        PROVE  /\ user'[q].conn \in 1..dialled' /\ user'[q].conn \notin tokens'
               /\ user'[q].conn # known'.token
               /\ \A r \in Ws!Procs \ {q} : user'[r].pc = "install" => user'[r].conn # user'[q].conn
    <3>1. CASE q = p
      BY <1>1, <1>2, <1>3, <2>2, <2>3, <3>1 DEF WebTypes
    <3>2. CASE q # p
      <4>1. user'[q] = user[q] /\ user[q].conn < to.conn /\ user[q].conn \in 1..dialled
        BY <1>3, <2>3, <2>4, <3>2 DEF Fresh
      <4>2. user'[q].conn \in 1..dialled' /\ user'[p].conn # user'[q].conn
        BY <1>1, <1>2, <1>3, <4>1 DEF WebTypes
      <4> QED
        BY <1>1, <1>3, <2>4, <4>1, <4>2 DEF Fresh
    <3> QED
      BY <3>1, <3>2
  <2> QED
    BY <2>1, <2>4 DEF Fresh
<1>6. InStep'
  <2> SUFFICES ASSUME ~wsRaced
               PROVE  /\ \A q, r \in Ws!Procs :
                           user'[q].pc \in Halfway /\ user'[r].pc \in Halfway => q = r
                      /\ \A q \in Ws!Procs : Begun(q)'
                      /\ (\A q \in Ws!Procs : user'[q].pc \notin Halfway) => Agree'
    BY <1>1 DEF InStep
  <2>1. \A q \in Ws!Procs : user'[q].pc \in Halfway => q # p /\ user'[q] = user[q]
    BY <1>2, <1>3 DEF Halfway
  <2>2. \A q \in Ws!Procs : Begun(q)'
    <3> SUFFICES ASSUME NEW q \in Ws!Procs, user'[q].pc \in Halfway PROVE Begun(q)'
      BY DEF Begun, Halfway
    <3> QED
      BY <1>1, <2>1 DEF InStep, Begun
  <2>3. user[p].pc \notin Halfway
    BY <1>1 DEF Halfway
  <2>4. (\A q \in Ws!Procs : user'[q].pc \notin Halfway) => Agree'
    BY <1>1, <1>3, <2>3 DEF InStep, Agree
  <2> QED
    BY <2>1, <2>2, <2>4 DEF InStep
<1> QED
  BY <1>4, <1>5, <1>6

\* A step of the operation p that writes the state, or goes on with it: from here on p is
\* the one that is halfway, unless there was a race.
Alone(p) == \A q \in Ws!Procs \ {p} : user[q].pc \notin Halfway

LEMMA AloneOrRaced ==
  ASSUME WebInv, NEW p \in Ws!Procs
  PROVE  /\ ~wsRaced /\ user[p].pc \in Halfway => Alone(p) /\ Begun(p)
         /\ (\A q \in Ws!Procs \ {p} : ~Ws!Busy(q)) => Alone(p)
<1>1. \A q \in Ws!Procs : user[q].pc \in Halfway => Ws!Busy(q)
  BY DEF Ws!Busy, Halfway
<1> QED
  BY <1>1 DEF WebInv, InStep, Alone

\* What such a step has to establish.
LEMMA HalfwayKeeps ==
  ASSUME WebInv, NEW p \in Ws!Procs, NEW to \in Places,
         user' = [user EXCEPT ![p] = to], WebTypes', Fresh',
         ~wsRaced' => Alone(p) /\ Begun(p)' /\ (to.pc \notin Halfway => Agree')
  PROVE  WebInv'
<1>1. user'[p] = to /\ \A q \in Ws!Procs : q # p => user'[q] = user[q]
  BY DEF WebInv, WebTypes
<1>2. ASSUME ~wsRaced', NEW q \in Ws!Procs, user'[q].pc \in Halfway PROVE q = p
  BY <1>1, <1>2 DEF Alone
<1>3. ~wsRaced' => \A q \in Ws!Procs : Begun(q)'
  <2> SUFFICES ASSUME ~wsRaced', NEW q \in Ws!Procs, user'[q].pc \in Halfway PROVE Begun(q)'
    BY DEF Begun, Halfway
  <2> QED
    BY <1>2
<1>4. InStep'
  BY <1>1, <1>2, <1>3 DEF InStep
<1> QED
  BY <1>4 DEF WebInv

LEMMA InstallKeeps ==
  ASSUME WebInv, NEW p \in Ws!Procs, Ws!Install(p)
  PROVE  WebInv'
<1> DEFINE to == [user[p] EXCEPT !.pc = "setSink"]
           c == user[p].conn
<1>1. /\ user[p].pc = "install" /\ user' = [user EXCEPT ![p] = to]
      /\ known' = [known EXCEPT !.token = c, !.connected = TRUE]
      /\ wsRaced' = (wsRaced \/ \E q \in Ws!Procs \ {p} : Ws!Busy(q))
      /\ UNCHANGED <<tokens, sink, half, dialled, hungup, pings>>
  BY DEF Ws!Install, Ws!Goto, Ws!netVars
<1>2. to \in Places /\ to.pc = "setSink" /\ to.conn = c /\ c \in Nat
  BY DEF WebInv, WebTypes, Places, Steps
<1>3. /\ c \in 1..dialled /\ c \notin tokens /\ c # known.token
      /\ \A q \in Ws!Procs \ {p} : user[q].pc = "install" => user[q].conn # c
  BY <1>1 DEF WebInv, Fresh
<1> HIDE DEF to, c
<1>4. known'.token = c /\ known'.connected
  BY <1>1 DEF WebInv, WebTypes
<1>5. user'[p] = to /\ \A q \in Ws!Procs : q # p => user'[q] = user[q]
  BY <1>1 DEF WebInv, WebTypes
<1>6. WebTypes'
  BY <1>1, <1>2 DEF WebInv, WebTypes, Places
<1>7. Fresh'
  <2>1. \A q \in Ws!Procs : user'[q].pc = "install" => q # p /\ user'[q] = user[q]
    BY <1>2, <1>5
  <2>2. known'.token <= dialled'
    BY <1>1, <1>3, <1>4 DEF WebInv, WebTypes
  <2> QED
    BY <1>1, <1>3, <1>4, <2>1, <2>2 DEF WebInv, Fresh
<1>8. ~wsRaced' => Alone(p)
  BY <1>1, AloneOrRaced
<1>9. Begun(p)'
  BY <1>2, <1>4, <1>5 DEF Begun
<1>10. to.pc \in Halfway
  BY <1>2 DEF Halfway
<1> QED
  BY <1>1, <1>2, <1>6, <1>7, <1>8, <1>9, <1>10, HalfwayKeeps

LEMMA CloseStateKeeps ==
  ASSUME WebInv, NEW p \in Ws!Procs, Ws!CloseState(p)
  PROVE  WebInv'
<1> DEFINE to == [user[p] EXCEPT !.pc = "takeSink"]
<1>1. /\ user[p].pc = "close" /\ user' = [user EXCEPT ![p] = to]
      /\ known' = [known EXCEPT !.connected = FALSE]
      /\ tokens' = tokens \cup {known.token}
      /\ wsRaced' = (wsRaced \/ \E q \in Ws!Procs \ {p} : Ws!Busy(q))
      /\ UNCHANGED <<sink, half, dialled, hungup, pings>>
  BY DEF Ws!CloseState, Ws!Goto, Ws!netVars
<1>2. to \in Places /\ to.pc = "takeSink"
  BY DEF WebInv, WebTypes, Places, Steps
<1> HIDE DEF to
<1>3. known'.token = known.token /\ ~known'.connected
  BY <1>1 DEF WebInv, WebTypes
<1>4. user'[p] = to /\ \A q \in Ws!Procs : q # p => user'[q] = user[q]
  BY <1>1 DEF WebInv, WebTypes
<1>5. WebTypes'
  BY <1>1, <1>2 DEF WebInv, WebTypes, Places
<1>6. Fresh'
  <2>1. \A q \in Ws!Procs : user'[q].pc = "install" => q # p /\ user'[q] = user[q]
    BY <1>2, <1>4
  <2> QED
    BY <1>1, <1>3, <2>1 DEF WebInv, Fresh
<1>7. ~wsRaced' => Alone(p)
  BY <1>1, AloneOrRaced
<1>8. Begun(p)'
  BY <1>2, <1>3, <1>4 DEF Begun
<1>9. to.pc \in Halfway
  BY <1>2 DEF Halfway
<1> QED
  BY <1>1, <1>2, <1>5, <1>6, <1>7, <1>8, <1>9, HalfwayKeeps

\* The steps that write a half: what they leave of the types and of the connections' numbers.
LEMMA HalfTypes ==
  ASSUME WebInv, NEW p \in Ws!Procs, NEW to \in Places,
         UNCHANGED <<known, tokens, dialled, wsRaced>>,
         user' = [user EXCEPT ![p] = to], to.pc # "install"
  PROVE  /\ WebTypes' /\ Fresh'
         /\ user'[p] = to /\ \A q \in Ws!Procs : q # p => user'[q] = user[q]
<1>1. user'[p] = to /\ \A q \in Ws!Procs : q # p => user'[q] = user[q]
  BY DEF WebInv, WebTypes
<1>2. WebTypes'
  BY DEF WebInv, WebTypes, Places
<1>3. \A q \in Ws!Procs : user'[q].pc = "install" => q # p /\ user'[q] = user[q]
  BY <1>1
<1>4. Fresh'
  BY <1>3 DEF WebInv, Fresh
<1> QED
  BY <1>1, <1>2, <1>4

LEMMA HalvesKeep ==
  ASSUME WebInv, NEW p \in Ws!Procs,
         \/ Ws!SetSink(p) \/ Ws!SetStream(p) \/ Ws!TakeSink(p) \/ Ws!ClearStream(p)
         \/ Ws!Written(p) /\ user[p].pc = "closing"
  PROVE  WebInv'
<1>1. UNCHANGED <<known, tokens, dialled, wsRaced, hungup>>
  BY DEF Ws!SetSink, Ws!SetStream, Ws!TakeSink, Ws!ClearStream, Ws!Written, Ws!netVars
<1>2. ~wsRaced /\ user[p].pc \in Halfway => Alone(p) /\ Begun(p)
  BY AloneOrRaced
<1>3. CASE Ws!SetSink(p)
  <2> DEFINE to == [user[p] EXCEPT !.pc = "setStream"]
  <2>1. /\ user[p].pc = "setSink" /\ user' = [user EXCEPT ![p] = to]
        /\ sink' = user[p].conn
    BY <1>3 DEF Ws!SetSink, Ws!Goto
  <2>2. to \in Places /\ to.pc = "setStream" /\ to.conn = user[p].conn
    BY DEF WebInv, WebTypes, Places, Steps
  <2> HIDE DEF to
  <2>3. WebTypes' /\ Fresh' /\ user'[p] = to
    BY <1>1, <2>1, <2>2, HalfTypes
  <2>4. ~wsRaced' => Alone(p) /\ Begun(p)'
    BY <1>1, <1>2, <2>1, <2>2, <2>3 DEF Begun, Halfway
  <2> QED
    BY <2>1, <2>2, <2>3, <2>4, HalfwayKeeps DEF Halfway
<1>4. CASE Ws!TakeSink(p)
  <2> DEFINE to == [user[p] EXCEPT !.pc = IF sink = 0 THEN "clearStream" ELSE "closing"]
  <2>1. user[p].pc = "takeSink" /\ user' = [user EXCEPT ![p] = to] /\ sink' = 0
    BY <1>4 DEF Ws!TakeSink, Ws!Goto
  <2>2. to \in Places /\ to.pc \in {"closing", "clearStream"}
    BY DEF WebInv, WebTypes, Places, Steps
  <2> HIDE DEF to
  <2>3. WebTypes' /\ Fresh' /\ user'[p] = to
    BY <1>1, <2>1, <2>2, HalfTypes
  <2>4. ~wsRaced' => Alone(p) /\ Begun(p)'
    BY <1>1, <1>2, <2>1, <2>2, <2>3 DEF Begun, Halfway
  <2> QED
    BY <2>1, <2>2, <2>3, <2>4, HalfwayKeeps DEF Halfway
<1>5. CASE Ws!SetStream(p)
  <2>1. /\ user[p].pc = "setStream" /\ half' = user[p].conn /\ sink' = sink
        /\ pings' = pings \cup {user[p].conn} /\ Ws!Return(p, TRUE)
    BY <1>5 DEF Ws!SetStream
  <2>2. PICK to \in Places :
          user' = [user EXCEPT ![p] = to] /\ to.pc \in {"idle", "token", "ended"}
    BY <2>1, Ends
  <2>3. WebTypes' /\ Fresh' /\ user'[p] = to
    BY <1>1, <2>2, HalfTypes
  <2>4. ~wsRaced' => Alone(p) /\ Begun(p)' /\ Agree'
    BY <1>1, <1>2, <2>1, <2>2, <2>3 DEF Begun, Halfway, Agree
  <2> QED
    BY <2>2, <2>3, <2>4, HalfwayKeeps
<1>6. CASE Ws!ClearStream(p)
  <2>1. /\ user[p].pc = "clearStream" /\ half' = 0 /\ sink' = sink
        /\ \/ Ws!Return(p, TRUE)
           \/ user' = [user EXCEPT ![p] = [Ws!Idle EXCEPT !.pc = "dial"]]
    BY <1>6 DEF Ws!ClearStream
  <2>2. PICK to \in Places :
          user' = [user EXCEPT ![p] = to] /\ to.pc \in {"idle", "token", "ended", "dial"}
    BY <2>1, Ends
  <2>3. WebTypes' /\ Fresh' /\ user'[p] = to
    BY <1>1, <2>2, HalfTypes
  <2>4. ~wsRaced' => Alone(p) /\ Begun(p)' /\ Agree'
    BY <1>1, <1>2, <2>1, <2>2, <2>3 DEF Begun, Halfway, Agree
  <2> QED
    BY <2>2, <2>3, <2>4, HalfwayKeeps
<1>7. CASE Ws!Written(p) /\ user[p].pc = "closing"
  <2> DEFINE to == [user[p] EXCEPT !.pc = "clearStream"]
  <2>1. user[p].pc = "closing" /\ user' = [user EXCEPT ![p] = to] /\ sink' = sink
    BY <1>7 DEF Ws!Written, Ws!Goto
  <2>2. to \in Places /\ to.pc = "clearStream"
    BY DEF WebInv, WebTypes, Places, Steps
  <2> HIDE DEF to
  <2>3. WebTypes' /\ Fresh' /\ user'[p] = to
    BY <1>1, <2>1, <2>2, HalfTypes
  <2>4. ~wsRaced' => Alone(p) /\ Begun(p)'
    BY <1>1, <1>2, <2>1, <2>2, <2>3 DEF Begun, Halfway
  <2> QED
    BY <2>1, <2>2, <2>3, <2>4, HalfwayKeeps DEF Halfway
<1> QED
  BY <1>3, <1>4, <1>5, <1>6, <1>7

\* The peers, a ping task that ends, and the option: a ping task of the current connection
\* ends only if that connection was hung up.
LEMMA EnvironmentKeeps ==
  ASSUME Ws!WebSocketAssumption, ClientInv,
         \/ \E on \in BOOLEAN : Ws!set_auto_reconnect(on)
         \/ \E c \in Ws!Conns : \/ Ws!Ping(c) \/ Ws!PingEnds(c) \/ Ws!PingStops(c)
                               \/ Ws!PeerSends(c) \/ Ws!PeerHangsUp(c)
  PROVE  WebInv'
<1> USE DEF ClientInv
<1>1. /\ UNCHANGED <<user, tokens, sink, half, dialled, wsRaced>> /\ hungup \subseteq hungup'
      /\ known'.token = known.token /\ known'.connected = known.connected
      /\ known' \in [token : Nat, connected : BOOLEAN, auto : BOOLEAN]
  BY DEF Ws!set_auto_reconnect, Ws!Ping, Ws!PingEnds, Ws!PingStops, Ws!PeerSends,
         Ws!PeerHangsUp, Ws!netVars, WebInv, WebTypes
<1>2. WebTypes' /\ Fresh'
  BY <1>1 DEF WebInv, WebTypes, Fresh
<1>3. \A q \in Ws!Procs : Begun(q) => Begun(q)'
  BY <1>1 DEF Begun
<1>4. Agree => Agree'
  <2> SUFFICES ASSUME Agree PROVE Agree'
    OBVIOUS
  <2>1. CASE ~known.connected
    BY <1>1, <2>1 DEF Agree
  <2>2. CASE known.connected
    <3>1. /\ sink = known.token /\ half = known.token
          /\ known.token \in pings \cup hungup /\ known.token \notin tokens
      BY <2>2 DEF Agree, WebInv, Fresh
    <3>2. known.token \in pings' \cup hungup'
      <4>1. CASE \E c \in Ws!Conns : pings' = pings \ {c} /\ (Ws!PingEnds(c) \/ Ws!PingStops(c))
        <5>1. PICK c \in Ws!Conns :
                pings' = pings \ {c} /\ (Ws!PingEnds(c) \/ Ws!PingStops(c))
          BY <4>1
        <5>2. c # 0
          BY DEF Ws!Conns, Ws!WebSocketAssumption
        <5>3. c \in tokens \/ sink = 0 \/ sink \in hungup \/ pings' = pings
          BY <5>1 DEF Ws!PingEnds, Ws!PingStops, Frames
        <5> QED
          BY <1>1, <3>1, <5>1, <5>2, <5>3
      <4>2. CASE pings' = pings
        BY <1>1, <3>1, <4>2
      <4> QED
        BY <4>1, <4>2 DEF Ws!set_auto_reconnect, Ws!Ping, Ws!PingEnds, Ws!PingStops,
                          Ws!PeerSends, Ws!PeerHangsUp
    <3> QED
      BY <1>1, <2>2, <3>1, <3>2 DEF Agree
  <2> QED
    BY <2>1, <2>2
<1>5. InStep'
  BY <1>1, <1>3, <1>4 DEF WebInv, InStep
<1> QED
  BY <1>2, <1>5 DEF WebInv

\* Who writes a half has to get its lock first: no ping is on its way then.
LEMMA FramesStay ==
  ASSUME Ws!WebSocketAssumption, Frames, [Ws!Next]_(Ws!wsVars)
  PROVE  Frames'
<1>1. /\ None \notin Ws!Conns /\ \A p \in Ws!Procs : p \notin Ws!Conns
      /\ Ws!Free.by = None
  BY DEF Ws!WebSocketAssumption, Ws!Free
<1>2. CASE sink' = sink /\ (sending' = sending \/ sending' = Ws!Free)
  BY <1>1, <1>2 DEF Frames
<1>3. CASE \E p \in Ws!Procs : sending' = [by |-> p, on |-> sink]
  BY <1>1, <1>3 DEF Frames
<1>4. CASE sink' = sink /\ \E c \in Ws!Conns : sending' = [by |-> c, on |-> sink]
  BY <1>4 DEF Frames
<1>5. CASE sending' = Ws!Free
  BY <1>1, <1>5 DEF Frames
<1>6. ASSUME NEW p \in Ws!Procs, Ws!Operate(p) \/ Ws!Written(p) PROVE Frames'
  BY <1>2, <1>3, <1>5, <1>6
     DEF Ws!Operate, Ws!Dial, Ws!Install, Ws!SetSink, Ws!SetStream, Ws!CloseState, Ws!TakeSink,
         Ws!ClearStream, Ws!Reconnect, Ws!LockSink, Ws!Written
<1>7. ASSUME NEW u \in Users, Ws!Call(u) PROVE Frames'
  BY <1>2, <1>7 DEF Ws!Call
<1>8. ASSUME NEW l \in Listeners, Ws!Listen(l) \/ Ws!Receive(l) \/ Ws!StopListening(l)
      PROVE  Frames'
  BY <1>2, <1>8 DEF Ws!Listen, Ws!Receive, Ws!ReadToken, Ws!LockStream, Ws!Received,
                    Ws!StopListening
<1>9. ASSUME NEW on \in BOOLEAN, Ws!set_auto_reconnect(on) PROVE Frames'
  BY <1>2, <1>9 DEF Ws!set_auto_reconnect
<1>10. ASSUME NEW c \in Ws!Conns, \/ Ws!Ping(c) \/ Ws!PingEnds(c) \/ Ws!PingStops(c)
                                 \/ Ws!PeerSends(c) \/ Ws!PeerHangsUp(c)
       PROVE  Frames'
  BY <1>2, <1>4, <1>10 DEF Ws!Ping, Ws!PingEnds, Ws!PingStops, Ws!PeerSends, Ws!PeerHangsUp
<1>11. CASE UNCHANGED Ws!wsVars
  BY <1>2, <1>11 DEF Ws!wsVars
<1> QED
  BY <1>6, <1>7, <1>8, <1>9, <1>10, <1>11 DEF Ws!Next

LEMMA WebStarts ==
  ASSUME Ws!WebSocketAssumption
  PROVE  Ws!Init => ClientInv
<1> SUFFICES ASSUME Ws!Init PROVE ClientInv
  OBVIOUS
<1>0. Frames
  BY DEF Frames, Ws!Init, Ws!Free, Ws!WebSocketAssumption
<1>1. \A p \in Ws!Procs : user[p].pc = "idle"
  BY DEF Ws!Init, Ws!Idle
<1>2. WebTypes
  <2>1. user \in [Ws!Procs -> Places]
    BY DEF Ws!Init, Ws!Idle, Places, Steps
  <2> QED
    BY <2>1 DEF WebTypes, Places, Ws!Init
<1>3. Fresh
  BY <1>1 DEF Fresh, Ws!Init
<1>4. InStep
  BY <1>1 DEF InStep, Ws!Init, Begun, Halfway, Agree
<1> QED
  BY <1>0, <1>2, <1>3, <1>4 DEF WebInv, ClientInv

LEMMA WebStays ==
  ASSUME Ws!WebSocketAssumption
  PROVE  ClientInv /\ [Ws!Next]_(Ws!wsVars) => ClientInv'
<1> SUFFICES ASSUME ClientInv, [Ws!Next]_(Ws!wsVars) PROVE WebInv'
  BY FramesStay DEF ClientInv
<1>0. WebInv
  BY DEF ClientInv
<1>1. CASE UNCHANGED Ws!wsVars
  BY <1>0, <1>1 DEF Ws!wsVars, WebInv, WebTypes, Fresh, InStep, Begun, Agree
<1>2. ASSUME NEW p \in Ws!Procs, Ws!Operate(p) \/ Ws!Written(p) PROVE WebInv'
  <2>1. ASSUME Ws!Written(p) PROVE WebInv'
    BY <1>0, <2>1, PlainSteps, HalvesKeep DEF Ws!Written
  <2> QED
    BY <1>0, <1>2, <2>1, PlainSteps, DialKeeps, InstallKeeps, CloseStateKeeps, HalvesKeep
       DEF Ws!Operate
<1>3. ASSUME NEW u \in Users, Ws!Call(u) PROVE WebInv'
  BY <1>0, <1>3, PlainSteps DEF Ws!Procs
<1>4. ASSUME NEW l \in Listeners, Ws!Listen(l) \/ Ws!Receive(l) \/ Ws!StopListening(l)
      PROVE  WebInv'
  BY <1>0, <1>4, PlainSteps DEF Ws!Procs, Ws!Receive
<1> QED
  BY <1>1, <1>2, <1>3, <1>4, EnvironmentKeeps DEF Ws!Next

LEMMA WebShows ==
  ASSUME Ws!WebSocketAssumption
  PROVE  ClientInv => Ws!PartsAgree
<1>1. \A p \in Ws!Procs : user[p].pc \in Halfway => Ws!Busy(p)
  BY DEF Halfway, Ws!Busy
<1> QED
  BY <1>1 DEF ClientInv, WebInv, InStep, Agree, Ws!PartsAgree

\* Unless two operations raced for the state, whenever none is in progress a client that
\* says it is connected holds both halves of one connection, kept alive with pings or hung
\* up by the peer, and one that says it is not holds neither (connect.rs, websocket/mod.rs).
THEOREM PartsAgreeHolds ==
  ASSUME Ws!WebSocketAssumption
  PROVE  Ws!Spec => []Ws!PartsAgree
<1>1. Ws!Init => ClientInv
  BY WebStarts
<1>2. ClientInv /\ [Ws!Next]_(Ws!wsVars) => ClientInv'
  BY WebStays
<1>3. ClientInv => Ws!PartsAgree
  BY WebShows
<1> QED
  BY <1>1, <1>2, <1>3, PTL DEF Ws!Spec

-----------------------------------------------------------------------------
(* The socket of a local listener (module LocalSocket), for any number of  *)
(* processes that bind and drop at one path.                               *)

Spots == {"off", "check", "connect", "remove", "bind", "stat", "chmod", "listening", "closed",
          "unlink"}
Where == [pc : Spots, id : Nat \cup {None}, kept : Nat \cup {None}]

\* A process that has made the file it remembers, and one that has looked it up.
Holding == {"stat", "chmod", "listening", "closed", "unlink"}
LookedUp == {"chmod", "listening", "closed", "unlink"}

SockTypes ==
  /\ proc \in [Peers -> Where]
  /\ made \in Nat /\ file \in Nat \cup {None}

\* Every file has its own inode.
Inodes ==
  \A p \in Peers : proc[p].pc \in Holding =>
    /\ proc[p].id \in Nat /\ proc[p].id <= made
    /\ \A q \in Peers \ {p} : proc[q].pc \in Holding => proc[q].id # proc[p].id

\* Without a race one process at a time is between its checks and its calls; it removes
\* only what nobody answers on, or its own file, the one it looked up.
Undisturbed ==
  ~raced =>
    /\ \A p, q \in Peers : So!Critical(p) /\ So!Critical(q) => p = q
    /\ \A p \in Peers : proc[p].pc \in So!Bound => file = proc[p].id
    /\ \A p \in Peers : proc[p].pc \in LookedUp => proc[p].kept = proc[p].id
    /\ \A p \in Peers : proc[p].pc = "remove" => \A q \in Peers : proc[q].pc # "listening"
    /\ \A p \in Peers : proc[p].pc = "unlink" => file = proc[p].id

SockInv == SockTypes /\ Inodes /\ Undisturbed

\* A process that goes on is the only critical one, unless there was a race.
LEMMA BecomesAlone ==
  ASSUME SockInv, NEW p \in Peers, NEW r \in Where, So!Become(p, r)
  PROVE  /\ proc'[p] = r
         /\ \A q \in Peers : q # p => proc'[q] = proc[q]
         /\ proc' \in [Peers -> Where]
         /\ ~raced' => ~raced /\ \A q \in Peers \ {p} : ~So!Critical(q)
BY DEF SockInv, SockTypes, So!Become

\* The steps that leave the file: what they have to say of the place they go to.
LEMMA BecomeKeeps ==
  ASSUME SockInv, NEW p \in Peers, NEW r \in Where, So!Become(p, r),
         UNCHANGED <<file, made>>,
         r.id = proc[p].id,
         r.pc \in Holding => proc[p].pc \in Holding,
         ~raced => /\ r.pc \in So!Bound \cup {"unlink"} => file = r.id
                   /\ r.pc \in LookedUp => r.kept = r.id
                   /\ r.pc = "remove" => \A q \in Peers : proc[q].pc # "listening"
  PROVE  SockInv'
<1>1. /\ proc'[p] = r
      /\ \A q \in Peers : q # p => proc'[q] = proc[q]
      /\ proc' \in [Peers -> Where]
      /\ ~raced' => ~raced /\ \A q \in Peers \ {p} : ~So!Critical(q)
  BY BecomesAlone
<1>2. SockTypes'
  BY <1>1 DEF SockInv, SockTypes
<1>3. \A q \in Peers : proc'[q].pc \in Holding => proc[q].pc \in Holding /\ proc'[q].id = proc[q].id
  BY <1>1
<1>4. Inodes'
  BY <1>3 DEF SockInv, Inodes
<1>5. Undisturbed'
  <2> SUFFICES ASSUME ~raced' PROVE Undisturbed'
    BY DEF Undisturbed
  <2>1. ~raced /\ \A q \in Peers \ {p} : ~So!Critical(q)
    BY <1>1
  <2>2. \A q \in Peers : So!Critical(q)' => q = p
    BY <1>1, <2>1 DEF So!Critical
  <2>3. \A q \in Peers : q # p => proc'[q].pc \notin {"remove", "unlink"}
    BY <2>2 DEF So!Critical
  <2>4. \A q \in Peers : proc'[q].pc \in So!Bound => file' = proc'[q].id
    BY <1>1, <2>1 DEF SockInv, Undisturbed
  <2>5. \A q \in Peers : proc'[q].pc \in LookedUp => proc'[q].kept = proc'[q].id
    BY <1>1, <2>1 DEF SockInv, Undisturbed
  <2>6. ASSUME NEW q \in Peers, proc'[q].pc = "remove"
        PROVE  \A s \in Peers : proc'[s].pc # "listening"
    <3>1. q = p
      BY <2>3, <2>6
    <3> QED
      BY <1>1, <2>1, <2>6, <3>1
  <2>7. \A q \in Peers : proc'[q].pc = "unlink" => file' = proc'[q].id
    BY <1>1, <2>1, <2>3
  <2> QED
    BY <2>2, <2>4, <2>5, <2>6, <2>7 DEF Undisturbed
<1> QED
  BY <1>2, <1>4, <1>5 DEF SockInv

LEMMA GoIs ==
  ASSUME SockInv, NEW p \in Peers, NEW to \in Spots, So!Go(p, to)
  PROVE  \E r \in Where : So!Become(p, r) /\ r.pc = to /\ r.id = proc[p].id /\ r.kept = proc[p].kept
<1> DEFINE r == [proc[p] EXCEPT !.pc = to]
<1>1. r \in Where /\ r.pc = to /\ r.id = proc[p].id /\ r.kept = proc[p].kept
  BY DEF SockInv, SockTypes, Where
<1>2. So!Become(p, r)
  BY DEF So!Go
<1> QED
  BY <1>1, <1>2

LEMMA GoKeeps ==
  ASSUME SockInv, NEW p \in Peers, NEW to \in Spots, So!Go(p, to),
         UNCHANGED <<file, made>>,
         to \in Holding => proc[p].pc \in Holding,
         ~raced => /\ to \in So!Bound \cup {"unlink"} => file = proc[p].id
                   /\ to \in LookedUp => proc[p].kept = proc[p].id
                   /\ to = "remove" => \A q \in Peers : proc[q].pc # "listening"
  PROVE  SockInv'
<1>1. PICK r \in Where : So!Become(p, r) /\ r.pc = to /\ r.id = proc[p].id /\ r.kept = proc[p].kept
  BY GoIs
<1> QED
  BY <1>1, BecomeKeeps

\* The steps that remove the file: nobody else listens on it.
LEMMA RemovalKeeps ==
  ASSUME SockInv, NEW p \in Peers, NEW to \in {"off", "bind"}, So!Go(p, to),
         made' = made, file' = None,
         ~raced => \A q \in Peers \ {p} : proc[q].pc # "listening"
  PROVE  SockInv'
<1>0. to \in Spots
  BY DEF Spots
<1>1. /\ proc'[p].pc = to
      /\ \A q \in Peers : q # p => proc'[q] = proc[q]
      /\ proc' \in [Peers -> Where]
      /\ ~raced' => ~raced /\ \A q \in Peers \ {p} : ~So!Critical(q)
  BY <1>0, GoIs, BecomesAlone
<1>2. SockTypes'
  BY <1>1 DEF SockInv, SockTypes
<1>3. \A q \in Peers : proc'[q].pc \in Holding => proc[q].pc \in Holding /\ proc'[q].id = proc[q].id
  BY <1>1 DEF Holding
<1>4. Inodes'
  BY <1>3 DEF SockInv, Inodes
<1>5. Undisturbed'
  <2> SUFFICES ASSUME ~raced' PROVE Undisturbed'
    BY DEF Undisturbed
  <2>1. ~raced /\ \A q \in Peers \ {p} : ~So!Critical(q)
    BY <1>1
  <2>2. \A q \in Peers : So!Critical(q)' => q = p
    BY <1>1, <2>1 DEF So!Critical
  <2>3. \A q \in Peers : proc'[q].pc \notin Holding
    BY <1>1, <2>1, <2>2 DEF So!Critical, Holding
  <2>4. \A q \in Peers : proc'[q].pc # "remove"
    BY <1>1, <2>2 DEF So!Critical
  <2> QED
    BY <2>2, <2>3, <2>4 DEF Undisturbed, Holding, LookedUp, So!Bound
<1> QED
  BY <1>2, <1>4, <1>5 DEF SockInv

LEMMA BindKeeps ==
  ASSUME So!LocalSocketAssumption, SockInv, NEW p \in Peers, So!BindFile(p)
  PROVE  SockInv'
<1>1. CASE So!Go(p, "off") /\ UNCHANGED <<file, made>>
  BY <1>1, GoKeeps DEF Spots, Holding, LookedUp, So!Bound
<1>2. CASE /\ file = None /\ made' = made + 1 /\ file' = made + 1
           /\ So!Become(p, [pc |-> "stat", id |-> made + 1, kept |-> None])
  <2> DEFINE spot == [pc |-> "stat", id |-> made + 1, kept |-> None]
  <2>0. spot \in Where /\ spot.pc = "stat" /\ spot.id = made + 1
    BY DEF SockInv, SockTypes, Where, Spots
  <2> HIDE DEF spot
  <2>00. So!Become(p, spot)
    BY <1>2 DEF spot
  <2>1. /\ proc'[p].pc = "stat" /\ proc'[p].id = made + 1
        /\ \A q \in Peers : q # p => proc'[q] = proc[q]
        /\ proc' \in [Peers -> Where]
        /\ ~raced' => ~raced /\ \A q \in Peers \ {p} : ~So!Critical(q)
    BY <2>0, <2>00, BecomesAlone
  <2>2. SockTypes'
    BY <1>2, <2>1 DEF SockInv, SockTypes
  <2>3. made \in Nat /\ made' = made + 1
    BY <1>2 DEF SockInv, SockTypes
  <2>4. \A q \in Peers : q # p /\ proc[q].pc \in Holding => proc[q].id \in Nat /\ proc[q].id <= made
    BY DEF SockInv, Inodes
  <2>5. Inodes'
    <3>1. ASSUME NEW q \in Peers, proc'[q].pc \in Holding
          PROVE  /\ proc'[q].id \in Nat /\ proc'[q].id <= made'
                 /\ \A r \in Peers \ {q} : proc'[r].pc \in Holding => proc'[r].id # proc'[q].id
      <4>1. CASE q = p
        BY <2>1, <2>3, <2>4, <4>1
      <4>2. CASE q # p
        <5>1. proc'[q] = proc[q] /\ proc[q].id \in Nat /\ proc[q].id <= made
          BY <2>1, <2>4, <3>1, <4>2
        <5>2. proc'[p].id # proc[q].id
          BY <2>1, <2>3, <5>1
        <5>3. \A r \in Peers \ {q} : r # p /\ proc[r].pc \in Holding => proc[r].id # proc[q].id
          BY <3>1, <5>1 DEF SockInv, Inodes
        <5> QED
          BY <2>1, <2>3, <5>1, <5>2, <5>3
      <4> QED
        BY <4>1, <4>2
    <3> QED
      BY <3>1 DEF Inodes
  <2>6. Undisturbed'
    <3> SUFFICES ASSUME ~raced' PROVE Undisturbed'
      BY DEF Undisturbed
    <3>1. ~raced /\ \A q \in Peers \ {p} : ~So!Critical(q)
      BY <2>1
    <3>2. \A q \in Peers : So!Critical(q)' => q = p
      BY <2>1, <3>1 DEF So!Critical
    <3>3. \A q \in Peers : proc[q].pc # "listening"
      BY <1>2, <3>1
         DEF SockInv, Undisturbed, Inodes, Holding, So!Bound, So!LocalSocketAssumption
    <3>4. \A q \in Peers : q # p => proc'[q].pc \notin Holding
      BY <2>1, <3>1, <3>3 DEF So!Critical, Holding
    <3>5. \A q \in Peers : proc'[q].pc \notin LookedUp \cup {"remove", "unlink", "listening"}
      BY <2>1, <3>2, <3>4 DEF So!Critical, Holding, LookedUp
    <3>6. \A q \in Peers : proc'[q].pc \in So!Bound => file' = proc'[q].id
      BY <1>2, <2>1, <3>4 DEF So!Bound, Holding
    <3> QED
      BY <3>2, <3>5, <3>6 DEF Undisturbed
  <2> QED
    BY <2>2, <2>5, <2>6 DEF SockInv
<1> QED
  BY <1>1, <1>2 DEF So!BindFile

LEMMA SockStep ==
  ASSUME So!LocalSocketAssumption, SockInv, [So!Next]_(So!vars)
  PROVE  SockInv'
<1>1. CASE UNCHANGED So!vars
  BY <1>1
     DEF So!vars, SockInv, SockTypes, Inodes, Undisturbed, So!Critical
<1>2. ASSUME NEW p \in Peers, So!BindBegin(p) PROVE SockInv'
  BY <1>2, GoKeeps DEF So!BindBegin, Spots, Holding, LookedUp, So!Bound
<1>3. ASSUME NEW p \in Peers, So!Inspect(p) PROVE SockInv'
  BY <1>3, GoKeeps DEF So!Inspect, Spots, Holding, LookedUp, So!Bound
<1>4. ASSUME NEW p \in Peers, So!Connect(p) PROVE SockInv'
  <2>1. PICK to \in {"off", "remove"} : So!Go(p, to) /\ (to = "remove" => ~So!Answers)
    BY <1>4 DEF So!Connect
  <2>2. ~So!Answers /\ ~raced => \A q \in Peers : proc[q].pc # "listening"
    BY DEF SockInv, Undisturbed, So!Bound, So!Answers
  <2> QED
    BY <1>4, <2>1, <2>2, GoKeeps DEF So!Connect, Spots, Holding, LookedUp, So!Bound
<1>5. ASSUME NEW p \in Peers, So!Remove(p) PROVE SockInv'
  <2>1. PICK to \in {"off", "bind"} : So!Go(p, to)
    BY <1>5 DEF So!Remove
  <2>2. ~raced => \A q \in Peers \ {p} : proc[q].pc # "listening"
    BY <1>5 DEF So!Remove, SockInv, Undisturbed
  <2> QED
    BY <1>5, <2>1, <2>2, RemovalKeeps DEF So!Remove
<1>6. ASSUME NEW p \in Peers, So!Unlink(p) PROVE SockInv'
  <2>1. ASSUME ~raced, NEW q \in Peers \ {p} PROVE proc[q].pc # "listening"
    BY <1>6, <2>1 DEF So!Unlink, SockInv, Undisturbed, Inodes, Holding, So!Bound
  <2> QED
    BY <1>6, <2>1, RemovalKeeps DEF So!Unlink
<1>7. ASSUME NEW p \in Peers, So!Close(p) PROVE SockInv'
  <2>1. ~raced => proc[p].kept = proc[p].id
    BY <1>7 DEF So!Close, SockInv, Undisturbed, LookedUp
  <2> QED
    BY <1>7, <2>1, GoKeeps DEF So!Close, Spots, Holding, LookedUp, So!Bound
<1>8. ASSUME NEW p \in Peers, So!DropCheck(p) PROVE SockInv'
  <2>1. ~raced => proc[p].kept = proc[p].id
    BY <1>8 DEF So!DropCheck, SockInv, Undisturbed, LookedUp
  <2> QED
    BY <1>8, <2>1, GoKeeps DEF So!DropCheck, So!Ours, Spots, Holding, LookedUp, So!Bound
<1>9. ASSUME NEW p \in Peers, So!Crash(p) PROVE SockInv'
  <2>1. /\ UNCHANGED <<file, made, raced>> /\ proc[p].pc = "listening"
        /\ proc' = [proc EXCEPT ![p] = So!Off]
        /\ So!Off \in Where /\ So!Off.pc = "off"
    BY <1>9 DEF So!Crash, So!Off, Where, Spots
  <2>2. proc'[p].pc = "off" /\ \A q \in Peers : q # p => proc'[q] = proc[q]
    BY <2>1 DEF SockInv, SockTypes
  <2>3. SockTypes'
    BY <2>1 DEF SockInv, SockTypes
  <2>4. Inodes'
    BY <2>1, <2>2 DEF SockInv, Inodes, Holding
  <2>5. Undisturbed'
    BY <2>1, <2>2 DEF SockInv, Undisturbed, So!Critical, So!Bound, LookedUp
  <2> QED
    BY <2>3, <2>4, <2>5 DEF SockInv
<1>10. ASSUME NEW p \in Peers, So!Metadata(p) PROVE SockInv'
  <2>1. CASE So!Go(p, "off")
    BY <1>10, <2>1, GoKeeps DEF So!Metadata, Spots, Holding, LookedUp, So!Bound
  <2>2. CASE So!Become(p, [proc[p] EXCEPT !.pc = "chmod", !.kept = file])
    <3> DEFINE r == [proc[p] EXCEPT !.pc = "chmod", !.kept = file]
    <3>1. r \in Where /\ r.pc = "chmod" /\ r.id = proc[p].id /\ r.kept = file
      BY DEF SockInv, SockTypes, Where, Spots
    <3>2. So!Become(p, r)
      BY <2>2
    <3>3. proc[p].pc = "stat" /\ UNCHANGED <<file, made>>
      BY <1>10 DEF So!Metadata
    <3>4. ~raced => file = r.id
      BY <3>1, <3>3 DEF SockInv, Undisturbed, So!Bound
    <3> HIDE DEF r
    <3> QED
      BY <3>1, <3>2, <3>3, <3>4, BecomeKeeps DEF Holding, LookedUp, So!Bound
  <2> QED
    BY <1>10, <2>1, <2>2 DEF So!Metadata
<1>11. ASSUME NEW p \in Peers, So!SetPermissions(p) PROVE SockInv'
  <2>1. PICK to \in {"closed", "listening"} : So!Go(p, to)
    BY <1>11 DEF So!SetPermissions
  <2>2. ~raced => proc[p].kept = proc[p].id /\ file = proc[p].id
    BY <1>11 DEF So!SetPermissions, SockInv, Undisturbed, LookedUp, So!Bound
  <2> QED
    BY <1>11, <2>1, <2>2, GoKeeps DEF So!SetPermissions, Spots, Holding, LookedUp, So!Bound
<1> QED
  BY <1>1, <1>2, <1>3, <1>4, <1>5, <1>6, <1>7, <1>8, <1>9, <1>10, <1>11, BindKeeps DEF So!Next

LEMMA SockStarts ==
  ASSUME So!LocalSocketAssumption
  PROVE  So!Init => SockInv
<1> SUFFICES ASSUME So!Init PROVE SockInv
  OBVIOUS
<1>1. proc = [p \in Peers |-> So!Off] /\ So!Off.pc = "off"
      /\ So!Off \in Where
  BY DEF So!Init, So!Off, Where, Spots
<1>2. SockTypes
  BY <1>1 DEF SockTypes, So!Init
<1>3. \A p \in Peers : proc[p].pc = "off"
  BY <1>1
<1> QED
  BY <1>2, <1>3 DEF SockInv, Inodes, Undisturbed, Holding, LookedUp, So!Bound, So!Critical

LEMMA SockStays ==
  ASSUME So!LocalSocketAssumption
  PROVE  SockInv /\ [So!Next]_(So!vars) => SockInv'
BY SockStep

LEMMA SockShows ==
  ASSUME So!LocalSocketAssumption
  PROVE  SockInv => So!ReachableUnlessRaced
BY DEF SockInv, Undisturbed, So!Bound, So!Reachable, So!ReachableUnlessRaced

\* A listening server stays reachable at its path as long as no two processes bind or drop
\* there at once, whatever crashed before and however often (unix.rs).
THEOREM ReachableHolds ==
  ASSUME So!LocalSocketAssumption
  PROVE  So!Spec => []So!ReachableUnlessRaced
<1>1. So!Init => SockInv
  BY SockStarts
<1>2. SockInv /\ [So!Next]_(So!vars) => SockInv'
  BY SockStays
<1>3. SockInv => So!ReachableUnlessRaced
  BY SockShows
<1> QED
  BY <1>1, <1>2, <1>3, PTL DEF So!Spec

-----------------------------------------------------------------------------
(* The CORS layer (module Cors), for any sites and number of visits.       *)

\* What a response to a site says follows from the policy, and a response that was kept is
\* found only by the site it was for.
Grants ==
  /\ policy.credentials \in BOOLEAN
  /\ accepted = Co!Validated(policy)
  /\ \A e \in cache : "Origin" \in e.vary /\ e.resp = Co!decorate(policy, e.origin)

CorsInv == Grants /\ Co!CorsExact

\* A page may read the response of the layer exactly when the policy lets its site, and
\* credentials with them if it sent any.
LEMMA GrantedIfAllowed ==
  ASSUME Co!CorsAssumption, Grants, accepted, NEW site \in Sites, NEW cred \in BOOLEAN,
         NEW r, r.ok, r.origin = Co!allow_origin(policy, site),
         r.credentials = policy.credentials
  PROVE  Co!allowed(policy, site) =>
           (Co!Granted(r, site, cred) <=> (cred => policy.credentials))
<1>1. Co!Any \in policy.origins => ~policy.credentials
  BY DEF Grants, Co!Validated
<1> QED
  BY <1>1 DEF Grants, Co!Granted, Co!allowed, Co!allow_origin

LEMMA SilentGrantsNothing ==
  ASSUME Co!CorsAssumption, NEW site \in Sites, NEW cred \in BOOLEAN
  PROVE  ~Co!Granted(Co!Silent, site, cred)
BY DEF Co!CorsAssumption, Co!Granted, Co!Silent

LEMMA AskedIfListed ==
  ASSUME Co!CorsAssumption, Grants, accepted, NEW site \in Sites,
         NEW method \in Co!Methods, NEW header \in {None, "x-own", "authorization"},
         NEW cred \in BOOLEAN, Co!NeedsPreflight(method, header)
  PROVE  Co!Asked(site, method, header, cred) <=>
           /\ Co!allowed(policy, site) /\ (cred => policy.credentials)
           /\ method \in Co!AllowMethods(policy)
           /\ header = None \/ Co!AllowHeaders(policy) \cap {header, "*"} # {}
<1> DEFINE r == Co!preflight(policy, site, method, header)
<1>1. CASE ~Co!allowed(policy, site) \/ method \notin Co!AllowMethods(policy)
  <2>1. r = [Co!Silent EXCEPT !.ok = FALSE]
    BY <1>1 DEF Co!preflight
  <2>2. ~r.ok
    BY <2>1 DEF Co!Silent
  <2> QED
    BY <1>1, <2>2 DEF Co!Asked, Co!Granted
<1>2. CASE Co!allowed(policy, site) /\ method \in Co!AllowMethods(policy)
  <2>1. /\ r.origin = Co!allow_origin(policy, site) /\ r.credentials = policy.credentials
        /\ r.methods = Co!AllowMethods(policy) /\ r.ok
        /\ r.headers = IF "*" \notin Co!AllowHeaders(policy) THEN Co!AllowHeaders(policy)
                       ELSE IF header = None THEN {} ELSE {header}
    BY <1>2 DEF Co!preflight
  <2>2. Co!Asked(site, method, header, cred) <=>
          /\ Co!Granted(r, site, cred)
          /\ method \in r.methods \cup {"GET", "HEAD"}
          /\ header = None \/ header \in r.headers
    BY DEF Co!Asked
  <2> HIDE DEF r
  <2>3. Co!Granted(r, site, cred) <=> (cred => policy.credentials)
    BY <1>2, <2>1, GrantedIfAllowed
  <2>4. header # None => (header \in r.headers <=>
                            Co!AllowHeaders(policy) \cap {header, "*"} # {})
    BY <2>1
  <2> QED
    BY <1>2, <2>1, <2>2, <2>3, <2>4
<1> QED
  BY <1>1, <1>2

LEMMA VisitKeeps ==
  ASSUME Co!CorsAssumption, CorsInv, NEW site \in Sites \cup {None},
         NEW method \in Co!Methods, NEW header \in {None, "x-own", "authorization"},
         NEW cred \in BOOLEAN, Co!Visit(site, method, header, cred)
  PROVE  CorsInv'
<1> DEFINE first == site = None \/ ~Co!NeedsPreflight(method, header)
                      \/ Co!Asked(site, method, header, cred)
           fresh == [origin |-> site, vary |-> Co!Vary(policy, site),
                     resp |-> Co!decorate(policy, site)]
<1>1. /\ accepted /\ UNCHANGED <<policy, accepted>>
      /\ \E e \in (IF method = "GET" /\ Co!Hits(site) # {} THEN Co!Hits(site) ELSE {fresh}) :
           /\ last' = [site |-> site, method |-> method, header |-> header, cred |-> cred,
                       ran |-> first,
                       read |-> first /\ (site # None => Co!Granted(e.resp, site, cred))]
           /\ cache' = IF first /\ method = "GET" THEN cache \cup {e} ELSE cache
  BY DEF Co!Visit
<1>2. fresh.origin = site /\ "Origin" \in fresh.vary /\ fresh.resp = Co!decorate(policy, site)
  BY DEF Co!Vary
<1> HIDE DEF first, fresh
<1>3. \A e \in Co!Hits(site) : e \in cache /\ e.origin = site
  BY DEF CorsInv, Grants, Co!Hits
<1>4. PICK e :
        /\ e.origin = site /\ "Origin" \in e.vary /\ e.resp = Co!decorate(policy, site)
        /\ last' = [site |-> site, method |-> method, header |-> header, cred |-> cred,
                    ran |-> first,
                    read |-> first /\ (site # None => Co!Granted(e.resp, site, cred))]
        /\ cache' \in {cache, cache \cup {e}}
  BY <1>1, <1>2, <1>3 DEF CorsInv, Grants
<1>5. Grants'
  BY <1>1, <1>4 DEF CorsInv, Grants
<1>6. ASSUME site # None PROVE Co!CorsExact'
  <2> DEFINE may == Co!allowed(policy, site) /\ (cred => policy.credentials)
             listed == /\ method \in Co!AllowMethods(policy)
                       /\ \/ header = None
                          \/ Co!AllowHeaders(policy) \cap {header, "*"} # {}
             needs == Co!NeedsPreflight(method, header)
  <2>1. site \in Sites /\ Grants
    BY <1>6 DEF CorsInv
  <2>2. Co!Granted(e.resp, site, cred) <=> may
    <3>1. CASE Co!allowed(policy, site)
      <4>1. /\ e.resp.ok /\ e.resp.origin = Co!allow_origin(policy, site)
            /\ e.resp.credentials = policy.credentials
        BY <1>4, <1>6, <3>1 DEF Co!decorate, Co!Silent
      <4> QED
        BY <1>1, <2>1, <3>1, <4>1, GrantedIfAllowed
    <3>2. CASE ~Co!allowed(policy, site)
      <4>1. e.resp = Co!Silent
        BY <1>4, <3>2 DEF Co!decorate
      <4> QED
        BY <2>1, <3>2, <4>1, SilentGrantsNothing
    <3> QED
      BY <3>1, <3>2
  <2>3. needs => (Co!Asked(site, method, header, cred) <=> may /\ listed)
    BY <1>1, <2>1, AskedIfListed
  <2>4. first <=> (needs => may /\ listed)
    BY <1>6, <2>3 DEF first
  <2>5. /\ last'.site = site /\ last'.method = method /\ last'.header = header
        /\ last'.cred = cred /\ last'.ran = first
        /\ last'.read = (first /\ (site # None => Co!Granted(e.resp, site, cred)))
    BY <1>4
  <2> HIDE DEF may, listed, needs
  <2>6. last'.read <=> may /\ (needs => listed)
    BY <1>6, <2>2, <2>4, <2>5
  <2>7. last'.ran /\ needs => may /\ listed
    BY <2>4, <2>5
  <2> QED
    BY <1>1, <2>5, <2>6, <2>7 DEF Co!CorsExact, may, listed, needs, Co!allowed,
       Co!AllowMethods, Co!AllowHeaders, Co!NeedsPreflight, Co!Origins
<1>7. ASSUME site = None PROVE Co!CorsExact'
  <2>1. last'.site = None
    BY <1>4, <1>7
  <2> QED
    BY <2>1 DEF Co!CorsExact
<1> QED
  BY <1>5, <1>6, <1>7 DEF CorsInv

LEMMA CorsStarts ==
  ASSUME Co!CorsAssumption
  PROVE  Co!Init => CorsInv
BY DEF Co!Init, CorsInv, Grants, Co!CorsExact, Co!Policies

LEMMA CorsStays ==
  ASSUME Co!CorsAssumption
  PROVE  CorsInv /\ [Co!Next]_(Co!rvars) => CorsInv'
<1>1. CorsInv /\ Co!Next => CorsInv'
  BY VisitKeeps DEF Co!Next
<1>2. CorsInv /\ UNCHANGED Co!rvars => CorsInv'
  BY DEF Co!rvars, CorsInv, Grants, Co!CorsExact
<1> QED
  BY <1>1, <1>2

LEMMA CorsShows ==
  ASSUME Co!CorsAssumption
  PROVE  CorsInv => Co!CorsExact
BY DEF CorsInv

\* A page reads a response exactly when the policy lets its site read it, whatever a cache
\* kept for other pages, and what a browser asks about first runs only if the policy allows
\* it, for any policy and visits (cors.rs preflight, decorate and the Vary header).
THEOREM CorsExactHolds ==
  ASSUME Co!CorsAssumption
  PROVE  Co!Spec => []Co!CorsExact
<1>1. Co!Init => CorsInv
  BY CorsStarts
<1>2. CorsInv /\ [Co!Next]_(Co!rvars) => CorsInv'
  BY CorsStays
<1>3. CorsInv => Co!CorsExact
  BY CorsShows
<1> QED
  BY <1>1, <1>2, <1>3, PTL DEF Co!Spec

-----------------------------------------------------------------------------
(* Numbers and lists.                                                      *)

LEMMA LeastOf ==
  ASSUME NEW S \in SUBSET Nat, S # {}
  PROVE  \E x \in S : \A j \in S : x <= j
<1>1. PICK x \in S : \A y \in S : ~(<<y, x>> \in OpToRel(<, Nat))
  BY NatLessThanWellFounded, WFMin
<1>2. \A j \in S : ~(j < x)
  BY <1>1 DEF OpToRel
<1> QED
  BY <1>2

LEMMA Concatenated ==
  ASSUME NEW T, NEW s \in Seq(T), NEW t \in Seq(T)
  PROVE  /\ s \o t \in Seq(T) /\ Len(s \o t) = Len(s) + Len(t)
         /\ \A i \in 1..Len(s) : (s \o t)[i] = s[i]
         /\ \A i \in 1..Len(t) : (s \o t)[Len(s) + i] = t[i]
<1>1. Len(s) \in Nat /\ Len(t) \in Nat
  BY LenProperties
<1>2. /\ s \o t \in Seq(T) /\ Len(s \o t) = Len(s) + Len(t)
      /\ \A i \in 1..(Len(s) + Len(t)) : (s \o t)[i] = IF i <= Len(s) THEN s[i] ELSE t[i - Len(s)]
  BY ConcatProperties
<1>3. \A i \in 1..Len(s) : (s \o t)[i] = s[i]
  BY <1>1, <1>2
<1>4. ASSUME NEW i \in 1..Len(t) PROVE (s \o t)[Len(s) + i] = t[i]
  <2>1. Len(s) + i \in 1..(Len(s) + Len(t)) /\ ~(Len(s) + i <= Len(s)) /\ Len(s) + i - Len(s) = i
    BY <1>1
  <2> QED
    BY <1>2, <2>1
<1> QED
  BY <1>2, <1>3, <1>4

LEMMA Single == ASSUME NEW S, NEW c \in S PROVE <<c>> \in Seq(S) /\ Len(<<c>>) = 1 /\ <<c>>[1] = c
OBVIOUS

\* Hidden behind a name: the SMT backend has no empty string.
Blank == ""

-----------------------------------------------------------------------------
(* A2A tasks (module Tasks), for any tasks, requests, codes and scripts.   *)

TaskTypes ==
  /\ builds \in 0..MaxBuilds
  /\ store \in [0..MaxBuilds -> [TaskIds -> Ta!States \cup {None}]]
  /\ exec \in [TaskIds -> Seq(Ta!States) \cup {None}]
  /\ said \in [TaskIds -> {None} \cup {[code |-> c, event |-> Ta!handle_error(c)] : c \in Codes}]
  /\ ended \in [TaskIds -> Nat]

\* There are requests only while a server runs, and one that concerns a task names it.
Asks ==
  /\ DOMAIN asked = ReqNames
  /\ handler = None => \A r \in ReqNames : asked[r] = None
  /\ \A r \in ReqNames : asked[r] # None =>
       \E ox, k, at_, seen : /\ asked[r] = [op |-> ox, task |-> k, pc |-> at_, seen |-> seen]
                             /\ ox \in {"send", "cancel"} => k \in TaskIds

\* A server keeps its tasks in the store it was built with, and nothing ends before one is.
Keeps ==
  /\ handler # None => builds > 0 /\ handler.store \in 0..MaxBuilds
  /\ handler # None /\ decl.taskStore => handler.store = 0
  /\ builds = 0 => \A t \in TaskIds : ended[t] = 0
  /\ decl.taskStore => \A t \in TaskIds : ended[t] > 0 => store[0][t] # None

TaskInv == TaskTypes /\ Asks /\ Keeps /\ Ta!OneOutcome

\* The stores in which task t has ended.
EndedIn(t) == {k \in 0..MaxBuilds : store[k][t] \in Ta!Final}

LEMMA EndsCounted ==
  ASSUME NEW t
  PROVE  Ta!Cardinality({k \in 0..MaxBuilds : store[k][t] \in Ta!Final}) = Cardinality(EndedIn(t))
BY DEF Ta!Cardinality, Cardinality, EndedIn

\* The two arguments of a code's event tell codes apart.
LEMMA EventsDiffer ==
  ASSUME NEW c, NEW d, Ta!handle_error(c) = Ta!handle_error(d)
  PROVE  c = d
<1>1. Ta!handle_error(c).text = Ta!handle_error(d).text
  OBVIOUS
<1>2. \A e : Ta!handle_error(e).text = IF e = None THEN <<>>
                                      ELSE IF e = "Unknown" THEN <<"message">>
                                      ELSE <<e, "message">>
  BY DEF Ta!handle_error, Ta!error_text
<1> HIDE DEF Ta!handle_error
<1>3. \A e, f : <<e, "message">> = <<f, "message">> => e = f
  OBVIOUS
<1>4. \A e : <<e, "message">> # <<>> /\ <<e, "message">> # <<"message">>
  OBVIOUS
<1>5. <<"message">> # <<>>
  OBVIOUS
<1>6. CASE c = None
  BY <1>1, <1>2, <1>4, <1>5, <1>6, Zenon
<1>7. CASE c # None /\ c = "Unknown"
  BY <1>1, <1>2, <1>4, <1>5, <1>7, Zenon
<1>8. CASE c # None /\ c # "Unknown"
  <2>1. Ta!handle_error(c).text = <<c, "message">>
    BY <1>2, <1>8, Zenon
  <2>2. Ta!handle_error(d).text = <<d, "message">>
    BY <1>1, <1>2, <1>4, <2>1, Zenon
  <2> QED
    BY <1>1, <1>3, <2>1, <2>2, Zenon
<1> QED
  BY <1>6, <1>7, <1>8, Zenon

LEMMA EventStates ==
  ASSUME NEW c
  PROVE  Ta!handle_error(c).state \in Ta!States
<1>1. Ta!state_for_code(c) \in {"canceled", "rejected", "failed"}
  BY DEF Ta!state_for_code
<1> HIDE DEF Ta!state_for_code
<1>2. Ta!handle_error(c).state \in {"completed", "failed", Ta!state_for_code(c)}
  BY DEF Ta!handle_error
<1> HIDE DEF Ta!handle_error
<1> QED
  BY <1>1, <1>2 DEF Ta!States, Ta!Final

\* Storing a state of a task that has not ended where it is kept.
LEMMA PutKeeps ==
  ASSUME Ta!TasksAssumption, TaskInv, handler # None, NEW t \in TaskIds, NEW s \in Ta!States,
         Ta!Kept[t] \notin Ta!Final, Ta!Put(t, s),
         UNCHANGED <<decl, handler, builds>>
  PROVE  /\ store' \in [0..MaxBuilds -> [TaskIds -> Ta!States \cup {None}]]
         /\ ended' \in [TaskIds -> Nat]
         /\ Keeps' /\ Ta!OneOutcome'
<1> DEFINE h == handler.store
<1>1. h \in 0..MaxBuilds /\ store[h][t] \notin Ta!Final /\ builds > 0
  BY DEF TaskInv, Keeps, Ta!Kept
<1>2. store' = [store EXCEPT ![h] = [store[h] EXCEPT ![t] = s]]
  BY DEF Ta!Put
<1> DEFINE more == IF s \in Ta!Final THEN 1 ELSE 0
<1>3. ended' = [ended EXCEPT ![t] = @ + more]
  BY DEF Ta!Put
<1>14. more \in Nat /\ more = IF s \in Ta!Final THEN 1 ELSE 0
  OBVIOUS
<1> HIDE DEF more
<1> HIDE DEF h
<1>4. store \in [0..MaxBuilds -> [TaskIds -> Ta!States \cup {None}]]
      /\ ended \in [TaskIds -> Nat]
  BY DEF TaskInv, TaskTypes
<1> DEFINE g == [store[h] EXCEPT ![t] = s]
<1>12. /\ g \in [TaskIds -> Ta!States \cup {None}]
      /\ \A u \in TaskIds : g[u] = IF u = t THEN s ELSE store[h][u]
  <2>1. store[h] \in [TaskIds -> Ta!States \cup {None}]
    BY <1>1, <1>4
  <2> QED
    BY <2>1
<1>13. store' = [store EXCEPT ![h] = g]
  BY <1>2
<1> HIDE DEF g
<1>5. store' \in [0..MaxBuilds -> [TaskIds -> Ta!States \cup {None}]]
  BY <1>1, <1>12, <1>13, <1>4
<1>6. ended' \in [TaskIds -> Nat]
  BY <1>3, <1>14, <1>4
<1>7. \A k \in 0..MaxBuilds, u \in TaskIds :
        store'[k][u] = IF k = h /\ u = t THEN s ELSE store[k][u]
  <2>1. \A k \in 0..MaxBuilds : store'[k] = IF k = h THEN g ELSE store[k]
    BY <1>1, <1>13, <1>4
  <2> QED
    BY <1>1, <1>12, <2>1
<1>8. \A u \in TaskIds : ended'[u] = IF u = t /\ s \in Ta!Final THEN ended[u] + 1 ELSE ended[u]
  <2>1. \A u \in TaskIds : ended'[u] = IF u = t THEN ended[u] + more ELSE ended[u]
    BY <1>3, <1>4
  <2>2. \A u \in TaskIds : ended[u] \in Nat
    BY <1>4
  <2> QED
    BY <1>14, <2>1, <2>2
<1>9. None \notin Ta!States /\ MaxBuilds \in Nat
  BY DEF Ta!TasksAssumption
<1>10. Keeps'
  <2>1. handler' # None => builds' > 0 /\ handler'.store \in 0..MaxBuilds
    BY DEF TaskInv, Keeps
  <2>2. handler' # None /\ decl'.taskStore => handler'.store = 0
    BY DEF TaskInv, Keeps
  <2>3. ASSUME decl'.taskStore, NEW u \in TaskIds, ended'[u] > 0
        PROVE  store'[0][u] # None
    <3>1. h = 0 /\ 0 \in 0..MaxBuilds
      BY <1>9, <2>3 DEF TaskInv, Keeps, h
    <3>2. CASE u = t
      BY <1>7, <1>9, <3>1, <3>2
    <3>3. CASE u # t
      BY <1>7, <1>8, <2>3, <3>1, <3>3 DEF TaskInv, Keeps
    <3> QED
      BY <3>2, <3>3
  <2> QED
    BY <1>1, <2>1, <2>2, <2>3 DEF Keeps
<1>11. Ta!OneOutcome'
  <2>1. ASSUME NEW u \in TaskIds
        PROVE  ended'[u] <= Cardinality(EndedIn(u)')
    <3>1. ended[u] <= Cardinality(EndedIn(u)) /\ ended[u] \in Nat
      BY <1>4, EndsCounted DEF TaskInv, Ta!OneOutcome
    <3>2. IsFiniteSet(EndedIn(u))
      <4>1. IsFiniteSet(0..MaxBuilds)
        BY <1>9, FS_Interval
      <4> QED
        BY <4>1, FS_Subset DEF EndedIn
    <3>3. CASE u = t /\ s \in Ta!Final
      <4>1. EndedIn(u)' = EndedIn(u) \cup {h} /\ h \notin EndedIn(u)
        BY <1>1, <1>7, <3>3 DEF EndedIn
      <4>2. Cardinality(EndedIn(u)') = Cardinality(EndedIn(u)) + 1
        BY <3>2, <4>1, FS_AddElement
      <4>3. Cardinality(EndedIn(u)) \in Nat
        BY <3>2, FS_CardinalityType
      <4> QED
        BY <1>8, <3>1, <3>3, <4>2, <4>3
    <3>4. CASE ~(u = t /\ s \in Ta!Final)
      <4>1. EndedIn(u)' = EndedIn(u)
        BY <1>1, <1>7, <3>4 DEF EndedIn
      <4> QED
        BY <1>8, <3>1, <3>4, <4>1
    <3> QED
      BY <3>3, <3>4
  <2>2. \A u : Ta!Cardinality({k \in 0..MaxBuilds : store'[k][u] \in Ta!Final})
                 = Cardinality(EndedIn(u)')
    BY DEF Ta!Cardinality, Cardinality, EndedIn
  <2> QED
    BY <2>1, <2>2 DEF Ta!OneOutcome
<1> QED
  BY <1>5, <1>6, <1>10, <1>11

LEMMA TaskNamed ==
  ASSUME Asks, NEW r \in ReqNames, NEW ox, Ta!At(r, ox)
  PROVE  handler # None /\ (ox \in {"send", "cancel"} => asked[r].task \in TaskIds)
<1>1. asked[r] # None /\ asked[r].op = ox
  BY DEF Ta!At
<1>2. PICK k, at_, seen : /\ asked[r] = [op |-> ox, task |-> k, pc |-> at_, seen |-> seen]
                          /\ ox \in {"send", "cancel"} => k \in TaskIds
  BY <1>1 DEF Asks
<1> QED
  BY <1>1, <1>2 DEF Asks

LEMMA Answered ==
  ASSUME Asks, NEW r \in ReqNames, asked[r] # None, Ta!Answer(r), UNCHANGED handler
  PROVE  Asks'
<1>1. PICK ox, k, at_, seen : /\ asked[r] = [op |-> ox, task |-> k, pc |-> at_, seen |-> seen]
                              /\ ox \in {"send", "cancel"} => k \in TaskIds
  BY DEF Asks
<1>2. [asked[r] EXCEPT !.pc = "done"] = [op |-> ox, task |-> k, pc |-> "done", seen |-> seen]
  BY <1>1
<1>3. asked' = [asked EXCEPT ![r] = [op |-> ox, task |-> k, pc |-> "done", seen |-> seen]]
  BY <1>2 DEF Ta!Answer
<1>4. /\ DOMAIN asked' = ReqNames /\ handler # None
      /\ asked'[r] = [op |-> ox, task |-> k, pc |-> "done", seen |-> seen]
      /\ \A q \in ReqNames \ {r} : asked'[q] = asked[q]
  BY <1>3 DEF Asks
<1>5. ASSUME NEW q \in ReqNames, asked'[q] # None
      PROVE  \E o1, k1, at1, seen1 :
               /\ asked'[q] = [op |-> o1, task |-> k1, pc |-> at1, seen |-> seen1]
               /\ o1 \in {"send", "cancel"} => k1 \in TaskIds
  <2>1. CASE q = r
    BY <1>1, <1>4, <2>1
  <2>2. CASE q # r
    BY <1>4, <1>5, <2>2 DEF Asks
  <2> QED
    BY <2>1, <2>2
<1> QED
  BY <1>4, <1>5 DEF Asks

\* A step that stores no state of a task.
LEMMA NothingStored ==
  ASSUME TaskInv, UNCHANGED <<decl, handler, builds, store, ended>>,
         exec' \in [TaskIds -> Seq(Ta!States) \cup {None}],
         said' \in [TaskIds -> {None} \cup {[code |-> c, event |-> Ta!handle_error(c)] :
                                              c \in Codes}],
         Asks'
  PROVE  TaskInv'
<1>1. TaskTypes'
  BY DEF TaskInv, TaskTypes
<1>2. Keeps'
  BY DEF TaskInv, Keeps
<1>3. Ta!OneOutcome'
  BY DEF TaskInv, Ta!OneOutcome
<1> QED
  BY <1>1, <1>2, <1>3 DEF TaskInv

LEMMA BeginStep ==
  ASSUME TaskInv, NEW r \in ReqNames, NEW ox, NEW k, Ta!Begin(r, ox, k),
         ox \in {"send", "cancel"} => k \in TaskIds
  PROVE  TaskInv'
<1> DEFINE seen == Ta!Passes(ox)
<1>1. /\ handler # None /\ UNCHANGED <<decl, handler, builds, store, exec, said, ended>>
      /\ asked' = [asked EXCEPT ![r] = [op |-> ox, task |-> k, pc |-> "in", seen |-> seen]]
  BY DEF Ta!Begin
<1> HIDE DEF seen
<1>2. /\ DOMAIN asked' = ReqNames
      /\ asked'[r] = [op |-> ox, task |-> k, pc |-> "in", seen |-> seen]
      /\ \A q \in ReqNames \ {r} : asked'[q] = asked[q]
  BY <1>1 DEF TaskInv, Asks
<1>3. ASSUME NEW q \in ReqNames, asked'[q] # None
      PROVE  \E o1, k1, at1, seen1 :
               /\ asked'[q] = [op |-> o1, task |-> k1, pc |-> at1, seen |-> seen1]
               /\ o1 \in {"send", "cancel"} => k1 \in TaskIds
  <2>1. CASE q = r
    BY <1>2, <2>1
  <2>2. CASE q # r
    BY <1>2, <1>3, <2>2 DEF TaskInv, Asks
  <2> QED
    BY <2>1, <2>2
<1>4. Asks'
  BY <1>1, <1>2, <1>3 DEF Asks
<1> QED
  BY <1>1, <1>4, NothingStored DEF TaskInv, TaskTypes

LEMMA LeaveStep ==
  ASSUME TaskInv, NEW r \in ReqNames, Ta!Leave(r)
  PROVE  TaskInv'
<1>1. /\ UNCHANGED <<decl, handler, builds, store, exec, said, ended>>
      /\ asked' = [asked EXCEPT ![r] = None]
  BY DEF Ta!Leave
<1>2. /\ DOMAIN asked' = ReqNames
      /\ \A q \in ReqNames : asked'[q] = IF q = r THEN None ELSE asked[q]
  BY <1>1 DEF TaskInv, Asks
<1>3. Asks'
  <2>1. ASSUME NEW q \in ReqNames, asked'[q] # None
        PROVE  \E o1, k1, at1, seen1 :
                 /\ asked'[q] = [op |-> o1, task |-> k1, pc |-> at1, seen |-> seen1]
                 /\ o1 \in {"send", "cancel"} => k1 \in TaskIds
    <3>1. asked'[q] = asked[q] /\ asked[q] # None
      BY <1>2, <2>1
    <3> QED
      BY <3>1 DEF TaskInv, Asks
  <2>2. handler' = None => \A q \in ReqNames : asked'[q] = None
    BY <1>1, <1>2 DEF TaskInv, Asks
  <2> QED
    BY <1>2, <2>1, <2>2 DEF Asks
<1> QED
  BY <1>1, <1>3, NothingStored DEF TaskInv, TaskTypes

\* Declaring, building and stopping a server.
LEMMA ServerStep ==
  ASSUME Ta!TasksAssumption, TaskInv,
         \/ \E f \in Ta!Options : Ta!Set(f)
         \/ Ta!AddLayer \/ Ta!new_request_handler \/ Ta!Shutdown
  PROVE  TaskInv'
<1>1. ASSUME NEW d, Ta!Declares(d)
      PROVE  TaskInv'
  <2>1. handler = None /\ builds = 0 /\ UNCHANGED <<handler, builds, store, exec, said, ended, asked>>
    BY <1>1 DEF Ta!Declares
  <2>2. TaskTypes' /\ Asks'
    BY <2>1 DEF TaskInv, TaskTypes, Asks
  <2>3. Keeps'
    BY <2>1 DEF TaskInv, Keeps
  <2>4. Ta!OneOutcome'
    BY <2>1 DEF TaskInv, Ta!OneOutcome
  <2> QED
    BY <2>2, <2>3, <2>4 DEF TaskInv
<1>2. ASSUME Ta!new_request_handler
      PROVE  TaskInv'
  <2>1. /\ handler = None /\ builds < MaxBuilds /\ builds' = builds + 1
        /\ UNCHANGED <<decl, store, exec, said, ended, asked>>
        /\ handler'.store = IF decl.taskStore THEN 0 ELSE builds + 1
    BY <1>2 DEF Ta!new_request_handler, Ta!StoreOf, Ta!config_for
  <2>2. builds \in Nat /\ MaxBuilds \in Nat
    BY DEF TaskInv, TaskTypes, Ta!TasksAssumption
  <2>3. builds' \in 0..MaxBuilds /\ builds' > 0 /\ handler'.store \in 0..MaxBuilds
    BY <2>1, <2>2
  <2>4. TaskTypes'
    BY <2>1, <2>3 DEF TaskInv, TaskTypes
  <2>5. Asks'
    BY <2>1 DEF TaskInv, Asks
  <2>6. Keeps'
    BY <2>1, <2>3 DEF TaskInv, Keeps
  <2>7. Ta!OneOutcome'
    BY <2>1 DEF TaskInv, Ta!OneOutcome
  <2> QED
    BY <2>4, <2>5, <2>6, <2>7 DEF TaskInv
<1>3. ASSUME Ta!Shutdown
      PROVE  TaskInv'
  <2>1. /\ handler' = None /\ UNCHANGED <<decl, builds, store, said, ended>>
        /\ exec' = [t \in TaskIds |-> None] /\ asked' = [r \in ReqNames |-> None]
    BY <1>3 DEF Ta!Shutdown
  <2>2. TaskTypes'
    BY <2>1 DEF TaskInv, TaskTypes
  <2>3. Asks'
    BY <2>1 DEF Asks
  <2>4. Keeps'
    BY <2>1 DEF TaskInv, Keeps
  <2>5. Ta!OneOutcome'
    BY <2>1 DEF TaskInv, Ta!OneOutcome
  <2> QED
    BY <2>2, <2>3, <2>4, <2>5 DEF TaskInv
<1> QED
  BY <1>1, <1>2, <1>3 DEF Ta!Set, Ta!AddLayer

\* A task is kept for the first time; what a text executor will report is recorded with it.
LEMMA SendTask ==
  ASSUME Ta!TasksAssumption, TaskInv, NEW r \in ReqNames, Ta!Send(r)
  PROVE  TaskInv'
<1> DEFINE t == asked[r].task
<1>1. /\ Ta!At(r, "send") /\ Ta!Kept[t] = None /\ Ta!Put(t, "submitted") /\ Ta!Answer(r)
      /\ UNCHANGED <<decl, handler, builds>>
  BY DEF Ta!Send
<1>2. t \in TaskIds /\ handler # None /\ asked[r] # None
  BY <1>1, TaskNamed DEF TaskInv, Ta!At
<1>3. /\ exec' \in [TaskIds -> Seq(Ta!States) \cup {None}]
      /\ said' \in [TaskIds -> {None} \cup {[code |-> c, event |-> Ta!handle_error(c)] :
                                              c \in Codes}]
  <2>1. /\ exec \in [TaskIds -> Seq(Ta!States) \cup {None}]
        /\ said \in [TaskIds -> {None} \cup {[code |-> c, event |-> Ta!handle_error(c)] :
                                               c \in Codes}]
    BY DEF TaskInv, TaskTypes
  <2>2. CASE decl.kind = "func" /\ said' = said
             /\ \E s \in Scripts : exec' = [exec EXCEPT ![t] = s]
    BY <2>1, <2>2 DEF Ta!TasksAssumption
  <2>3. ASSUME NEW c \in Codes,
               exec' = [exec EXCEPT ![t] = <<"working", Ta!handle_error(c).state>>],
               said' = [said EXCEPT ![t] = [code |-> c, event |-> Ta!handle_error(c)]]
        PROVE  /\ exec' \in [TaskIds -> Seq(Ta!States) \cup {None}]
               /\ said' \in [TaskIds -> {None} \cup
                               {[code |-> d, event |-> Ta!handle_error(d)] : d \in Codes}]
    <3> DEFINE e == Ta!handle_error(c)
    <3>1. e.state \in Ta!States /\ "working" \in Ta!States
      BY EventStates DEF Ta!States
    <3> HIDE DEF e
    <3>2. <<"working", e.state>> \in Seq(Ta!States)
      BY <3>1
    <3>3. exec' \in [TaskIds -> Seq(Ta!States) \cup {None}]
      BY <2>1, <2>3, <3>2 DEF e
    <3>4. [code |-> c, event |-> Ta!handle_error(c)]
            \in {[code |-> d, event |-> Ta!handle_error(d)] : d \in Codes}
      OBVIOUS
    <3> QED
      BY <2>1, <2>3, <3>3, <3>4
  <2> QED
    BY <2>2, <2>3 DEF Ta!Send
<1>4. Ta!Kept[t] \notin Ta!Final /\ "submitted" \in Ta!States
  BY <1>1 DEF Ta!TasksAssumption, Ta!States
<1>5. Asks'
  BY <1>1, <1>2, Answered DEF TaskInv
<1> HIDE DEF t
<1>6. /\ store' \in [0..MaxBuilds -> [TaskIds -> Ta!States \cup {None}]]
      /\ ended' \in [TaskIds -> Nat]
      /\ Keeps' /\ Ta!OneOutcome'
  BY <1>1, <1>2, <1>4, PutKeeps
<1>7. TaskTypes'
  BY <1>1, <1>3, <1>6 DEF TaskInv, TaskTypes
<1> QED
  BY <1>5, <1>6, <1>7 DEF TaskInv

\* An event is stored unless the task has ended.
LEMMA EventStep ==
  ASSUME Ta!TasksAssumption, TaskInv, NEW t \in TaskIds, Ta!Event(t)
  PROVE  TaskInv'
<1>1. /\ handler # None /\ exec[t] # None /\ UNCHANGED <<decl, handler, builds, said, asked>>
  BY DEF Ta!Event
<1>2. exec \in [TaskIds -> Seq(Ta!States) \cup {None}] /\ exec[t] \in Seq(Ta!States)
  BY <1>1 DEF TaskInv, TaskTypes
<1>3. Asks'
  BY <1>1 DEF TaskInv, Asks
<1>4. CASE exec[t] = <<>> \/ Ta!Over(t)
  <2>1. exec' = [exec EXCEPT ![t] = None] /\ UNCHANGED <<store, ended>>
    BY <1>4 DEF Ta!Event
  <2>2. exec' \in [TaskIds -> Seq(Ta!States) \cup {None}]
    BY <1>2, <2>1
  <2> QED
    BY <1>1, <1>3, <2>1, <2>2, NothingStored DEF TaskInv, TaskTypes
<1>5. CASE ~(exec[t] = <<>> \/ Ta!Over(t))
  <2> DEFINE s == Head(exec[t])
  <2>1. Ta!Put(t, s) /\ exec' = [exec EXCEPT ![t] = Tail(@)]
    BY <1>5 DEF Ta!Event
  <2>2. s \in Ta!States /\ Tail(exec[t]) \in Seq(Ta!States)
    BY <1>2, <1>5
  <2>3. Ta!Kept[t] \notin Ta!Final
    BY <1>5 DEF Ta!Over
  <2>4. exec' \in [TaskIds -> Seq(Ta!States) \cup {None}]
    BY <1>2, <2>1, <2>2
  <2> HIDE DEF s
  <2>5. /\ store' \in [0..MaxBuilds -> [TaskIds -> Ta!States \cup {None}]]
        /\ ended' \in [TaskIds -> Nat]
        /\ Keeps' /\ Ta!OneOutcome'
    BY <1>1, <2>1, <2>2, <2>3, PutKeeps
  <2>6. TaskTypes'
    BY <1>1, <2>4, <2>5 DEF TaskInv, TaskTypes
  <2> QED
    BY <1>3, <2>5, <2>6 DEF TaskInv
<1> QED
  BY <1>4, <1>5

\* A cancellation is stored unless the task has ended, in the same step.
LEMMA CancelStep ==
  ASSUME Ta!TasksAssumption, TaskInv, NEW r \in ReqNames, Ta!Cancel(r)
  PROVE  TaskInv'
<1> DEFINE t == asked[r].task
<1>1. /\ Ta!At(r, "cancel") /\ Ta!begin_cancel(r, t)
      /\ UNCHANGED <<decl, handler, builds, exec, said>>
  BY DEF Ta!Cancel
<1>2. t \in TaskIds /\ handler # None /\ asked[r] # None
  BY <1>1, TaskNamed DEF TaskInv, Ta!At
<1>3. Ta!Answer(r)
  BY <1>1 DEF Ta!begin_cancel
<1>4. Asks'
  BY <1>1, <1>2, <1>3, Answered DEF TaskInv
<1> HIDE DEF t
<1>5. CASE Ta!Kept[t] = None \/ Ta!Over(t)
  <2>1. UNCHANGED <<store, ended>>
    BY <1>1, <1>5 DEF Ta!begin_cancel
  <2> QED
    BY <1>1, <1>4, <2>1, NothingStored DEF TaskInv, TaskTypes
<1>6. CASE ~(Ta!Kept[t] = None \/ Ta!Over(t))
  <2>1. Ta!Put(t, "canceled")
    BY <1>1, <1>6 DEF Ta!begin_cancel
  <2>2. Ta!Kept[t] \notin Ta!Final /\ "canceled" \in Ta!States
    BY <1>6 DEF Ta!Over, Ta!States, Ta!Final
  <2>3. /\ store' \in [0..MaxBuilds -> [TaskIds -> Ta!States \cup {None}]]
        /\ ended' \in [TaskIds -> Nat]
        /\ Keeps' /\ Ta!OneOutcome'
    BY <1>1, <1>2, <2>1, <2>2, PutKeeps
  <2>4. TaskTypes'
    BY <1>1, <2>3 DEF TaskInv, TaskTypes
  <2> QED
    BY <1>4, <2>3, <2>4 DEF TaskInv
<1> QED
  BY <1>5, <1>6

LEMMA TasksStart ==
  ASSUME Ta!TasksAssumption, Ta!Init
  PROVE  TaskInv
<1>1. TaskTypes
  BY DEF Ta!TasksAssumption, Ta!Init, TaskTypes
<1>2. Asks
  BY DEF Ta!Init, Asks
<1>3. Keeps
  BY DEF Ta!Init, Keeps
<1>4. ASSUME NEW t \in TaskIds
      PROVE  ended[t] <= Cardinality(EndedIn(t))
  <2>1. EndedIn(t) = {}
    BY DEF EndedIn, Ta!Init, Ta!TasksAssumption, Ta!States
  <2>2. Cardinality(EndedIn(t)) = 0
    BY <2>1, FS_EmptySet
  <2> QED
    BY <2>2 DEF Ta!Init
<1>5. Ta!OneOutcome
  BY <1>4, EndsCounted DEF Ta!OneOutcome
<1> QED
  BY <1>1, <1>2, <1>3, <1>5 DEF TaskInv

LEMMA TaskStarts ==
  ASSUME Ta!TasksAssumption
  PROVE  Ta!Init => TaskInv
BY TasksStart

LEMMA TaskStays ==
  ASSUME Ta!TasksAssumption
  PROVE  TaskInv /\ [Ta!Next]_Ta!taskVars => TaskInv'
<1> SUFFICES ASSUME TaskInv, [Ta!Next]_Ta!taskVars
             PROVE  TaskInv'
  OBVIOUS
<1>1. ASSUME \/ \E f \in Ta!Options : Ta!Set(f)
             \/ Ta!AddLayer \/ Ta!new_request_handler \/ Ta!Shutdown
      PROVE  TaskInv'
  BY <1>1, ServerStep
<1>2. ASSUME NEW r \in ReqNames, NEW t \in TaskIds, NEW ox \in {"send", "cancel"},
             Ta!Begin(r, ox, t)
      PROVE  TaskInv'
  BY <1>2, BeginStep
<1>3. ASSUME NEW r \in ReqNames, NEW ox \in {"read", "card"}, Ta!Begin(r, ox, None)
      PROVE  TaskInv'
  BY <1>3, BeginStep
<1>4. ASSUME NEW r \in ReqNames, Ta!Reply(r) \/ Ta!Read(r)
      PROVE  TaskInv'
  <2>1. /\ asked[r] # None /\ Ta!Answer(r)
        /\ UNCHANGED <<decl, handler, builds, store, exec, said, ended>>
    BY <1>4 DEF Ta!Reply, Ta!Read, Ta!At
  <2>2. Asks'
    BY <2>1, Answered DEF TaskInv
  <2> QED
    BY <2>1, <2>2, NothingStored DEF TaskInv, TaskTypes
<1>5. ASSUME NEW r \in ReqNames, Ta!Send(r) \/ Ta!Cancel(r) \/ Ta!Leave(r)
      PROVE  TaskInv'
  BY <1>5, SendTask, CancelStep, LeaveStep
<1>6. ASSUME NEW t \in TaskIds, Ta!Event(t)
      PROVE  TaskInv'
  BY <1>6, EventStep
<1>7. ASSUME UNCHANGED Ta!taskVars
      PROVE  TaskInv'
  <2>1. UNCHANGED <<decl, handler, builds, store, exec, said, ended, asked>>
    BY <1>7 DEF Ta!taskVars
  <2>2. Asks'
    BY <2>1 DEF TaskInv, Asks
  <2> QED
    BY <2>1, <2>2, NothingStored DEF TaskInv, TaskTypes
<1> QED
  BY <1>1, <1>2, <1>3, <1>4, <1>5, <1>6, <1>7 DEF Ta!Next

LEMMA TaskShows ==
  ASSUME Ta!TasksAssumption
  PROVE  TaskInv => Ta!OneOutcome /\ Ta!TasksKept /\ Ta!CodeSurvives
<1> SUFFICES ASSUME TaskInv
             PROVE  Ta!TasksKept /\ Ta!CodeSurvives
  BY DEF TaskInv
<1>1. Ta!TasksKept
  BY DEF TaskInv, Keeps, Ta!TasksKept, Ta!Kept
<1>2. ASSUME NEW t \in TaskIds, said[t] # None
      PROVE  {c \in Codes : Ta!handle_error(c) = said[t].event} = {said[t].code}
  <2>1. PICK d \in Codes : said[t] = [code |-> d, event |-> Ta!handle_error(d)]
    BY <1>2 DEF TaskInv, TaskTypes
  <2>2. said[t].code = d /\ said[t].event = Ta!handle_error(d)
    BY <2>1
  <2>3. \A c : Ta!handle_error(c) = Ta!handle_error(d) => c = d
    BY EventsDiffer
  <2> QED
    BY <2>2, <2>3
<1> QED
  BY <1>1, <1>2 DEF Ta!CodeSurvives

\* The layers of a service, which are numbered as they were added.
Numbered(q) == q \in Seq(Nat) /\ \A i \in 1..Len(q) : q[i] = i
Inner == <<<<"card", 0>>, <<"sdk", 0>>>>
Names == {"layer", "card", "sdk"} \X Nat

\* What Around makes of the first k layers: they stand in the way, the last one first.
Coat(k) == [i \in 1..(k + 2) |-> IF i <= k THEN <<"layer", k + 1 - i>> ELSE Inner[i - k]]

LEMMA CoatIs ==
  ASSUME NEW k \in Nat
  PROVE  /\ Coat(k) \in Seq(Names) /\ Len(Coat(k)) = k + 2 /\ DOMAIN Coat(k) = 1..(k + 2)
         /\ \A i \in 1..k : Coat(k)[i] = <<"layer", k + 1 - i>>
         /\ Coat(k)[k + 1] = <<"card", 0>> /\ Coat(k)[k + 2] = <<"sdk", 0>>
<1>1. Inner[1] = <<"card", 0>> /\ Inner[2] = <<"sdk", 0>>
  BY DEF Inner
<1>2. ASSUME NEW i \in 1..(k + 2)
      PROVE  Coat(k)[i] = IF i <= k THEN <<"layer", k + 1 - i>> ELSE Inner[i - k]
  BY DEF Coat
<1>3. ASSUME NEW i \in 1..(k + 2) PROVE Coat(k)[i] \in Names
  <2>1. CASE i <= k
    <3>1. k + 1 - i \in Nat
      BY <2>1
    <3>2. Coat(k)[i] = <<"layer", k + 1 - i>>
      BY <1>2, <2>1
    <3> QED
      BY <3>1, <3>2 DEF Names
  <2>2. CASE ~(i <= k)
    <3>1. i - k \in {1, 2}
      BY <2>2
    <3>2. Coat(k)[i] = Inner[i - k]
      BY <1>2, <2>2
    <3>3. Inner[1] \in Names /\ Inner[2] \in Names
      BY <1>1 DEF Names
    <3> QED
      BY <3>1, <3>2, <3>3
  <2> QED
    BY <2>1, <2>2
<1>4. Coat(k) \in [1..(k + 2) -> Names]
  <2>1. Coat(k) = [i \in 1..(k + 2) |-> Coat(k)[i]]
    BY DEF Coat
  <2> DEFINE e == Coat(k)
  <2> HIDE DEF e
  <2> QED
    BY <1>3, <2>1 DEF e
<1>5. k + 2 \in Nat
  OBVIOUS
<1> DEFINE e == Coat(k)
<1>6. e \in Seq(Names) /\ Len(e) = k + 2 /\ DOMAIN e = 1..(k + 2)
  <2>1. e \in [1..(k + 2) -> Names]
    BY <1>4
  <2> HIDE DEF e
  <2> QED
    BY <1>5, <2>1, LenProperties
<1>7. \A i \in 1..k : i \in 1..(k + 2) /\ i <= k
  OBVIOUS
<1>8. k + 1 \in 1..(k + 2) /\ k + 2 \in 1..(k + 2) /\ ~(k + 1 <= k) /\ ~(k + 2 <= k)
      /\ (k + 1) - k = 1 /\ (k + 2) - k = 2
  OBVIOUS
<1> QED
  BY <1>1, <1>2, <1>6, <1>7, <1>8

\* One layer more.
LEMMA CoatGrows ==
  ASSUME NEW k \in Nat, k > 0
  PROVE  <<<<"layer", k>>>> \o Coat(k - 1) = Coat(k)
<1> DEFINE one == <<<<"layer", k>>>>
           e == Coat(k - 1)
           f == Coat(k)
           g == one \o e
<1>1. one \in Seq(Names) /\ Len(one) = 1 /\ one[1] = <<"layer", k>>
  <2>1. <<"layer", k>> \in Names
    BY DEF Names
  <2> QED
    BY <2>1, Single
<1>2. k - 1 \in Nat
  OBVIOUS
<1>3. /\ e \in Seq(Names) /\ Len(e) = k + 1
      /\ \A i \in 1..(k - 1) : e[i] = <<"layer", k - i>>
      /\ e[k] = <<"card", 0>> /\ e[k + 1] = <<"sdk", 0>>
  <2>1. (k - 1) + 2 = k + 1 /\ (k - 1) + 1 = k /\ \A i \in 1..(k - 1) : (k - 1) + 1 - i = k - i
    OBVIOUS
  <2> QED
    BY <1>2, <2>1, CoatIs
<1>4. /\ f \in Seq(Names) /\ Len(f) = k + 2
      /\ \A i \in 1..k : f[i] = <<"layer", k + 1 - i>>
      /\ f[k + 1] = <<"card", 0>> /\ f[k + 2] = <<"sdk", 0>>
  BY CoatIs
<1> HIDE DEF one, e, f
<1>5. /\ g \in Seq(Names) /\ Len(g) = k + 2
      /\ g[1] = <<"layer", k>> /\ \A i \in 1..(k + 1) : g[1 + i] = e[i]
  <2>1. /\ g \in Seq(Names) /\ Len(g) = Len(one) + Len(e)
        /\ \A i \in 1..Len(one) : g[i] = one[i]
        /\ \A i \in 1..Len(e) : g[Len(one) + i] = e[i]
    <3>1. ASSUME NEW A \in Seq(Names), NEW B \in Seq(Names)
          PROVE  /\ A \o B \in Seq(Names) /\ Len(A \o B) = Len(A) + Len(B)
                 /\ \A i \in 1..Len(A) : (A \o B)[i] = A[i]
                 /\ \A i \in 1..Len(B) : (A \o B)[Len(A) + i] = B[i]
      BY Concatenated
    <3>2. one \in Seq(Names) /\ e \in Seq(Names)
      BY <1>1, <1>3
    <3> QED
      BY <3>1, <3>2, Zenon
  <2> HIDE DEF g
  <2> QED
    BY <1>1, <1>3, <2>1
<1> HIDE DEF g
<1>6. ASSUME NEW i \in 1..(k + 2) PROVE g[i] = f[i]
  <2>1. CASE i = 1
    <3>1. 1 \in 1..k /\ k + 1 - 1 = k
      OBVIOUS
    <3> QED
      BY <1>4, <1>5, <2>1, <3>1
  <2>2. CASE i \in 2..k
    <3>1. i - 1 \in 1..(k - 1) /\ i - 1 \in 1..(k + 1) /\ 1 + (i - 1) = i /\ k - (i - 1) = k + 1 - i
          /\ i \in 1..k
      BY <2>2
    <3> QED
      BY <1>3, <1>4, <1>5, <3>1
  <2>3. CASE i = k + 1 \/ i = k + 2
    <3>1. k \in 1..(k + 1) /\ k + 1 \in 1..(k + 1) /\ 1 + k = k + 1 /\ 1 + (k + 1) = k + 2
      OBVIOUS
    <3> QED
      BY <1>3, <1>4, <1>5, <2>3, <3>1
  <2> QED
    BY <2>1, <2>2, <2>3
<1>7. g = f
  <2>1. DOMAIN g = 1..(k + 2) /\ DOMAIN f = 1..(k + 2)
    BY <1>4, <1>5, LenProperties
  <2>2. g = [i \in 1..(k + 2) |-> g[i]] /\ f = [i \in 1..(k + 2) |-> f[i]]
    BY <1>4, <1>5, <2>1
  <2> QED
    BY <1>6, <2>2
<1> QED
  BY <1>7 DEF g, one, e, f

IsAround(g, q) ==
  g = [n \in 0..Len(q) |-> IF n = 0 THEN Inner ELSE <<<<"layer", q[n]>>>> \o g[n - 1]]

\* Every layer that was added stands around the card and the SDK.
LEMMA AroundIs ==
  ASSUME NEW q, Numbered(q)
  PROVE  Ta!Around(q, Inner) = Coat(Len(q))
<1>0. Len(q) \in Nat
  BY LenProperties DEF Numbered
<1>1. Coat(0) = Inner
  <2>1. Coat(0) = [i \in 1..2 |-> Inner[i]]
    <3>1. Coat(0) = [i \in 1..2 |-> IF i <= 0 THEN <<"layer", 0 + 1 - i>> ELSE Inner[i - 0]]
      BY DEF Coat
    <3>2. ASSUME NEW i \in 1..2
          PROVE  (IF i <= 0 THEN <<"layer", 0 + 1 - i>> ELSE Inner[i - 0]) = Inner[i]
      <4>1. ~(i <= 0) /\ i - 0 = i
        OBVIOUS
      <4> QED
        BY <4>1
    <3> HIDE DEF Inner
    <3> QED
      BY <3>1, <3>2
  <2> QED
    BY <2>1 DEF Inner
<1>2. IsAround([n \in 0..Len(q) |-> Coat(n)], q)
  <2> DEFINE g == [n \in 0..Len(q) |-> Coat(n)]
  <2>1. ASSUME NEW n \in 0..Len(q)
        PROVE  g[n] = IF n = 0 THEN Inner ELSE <<<<"layer", q[n]>>>> \o g[n - 1]
    <3>1. CASE n = 0
      BY <1>1, <3>1
    <3>2. CASE n # 0
      <4>1. n \in Nat /\ n > 0 /\ n \in 1..Len(q) /\ n - 1 \in 0..Len(q)
        BY <1>0, <3>2
      <4>2. q[n] = n
        BY <4>1 DEF Numbered
      <4>3. g[n] = Coat(n) /\ g[n - 1] = Coat(n - 1)
        BY <4>1
      <4>4. <<<<"layer", n>>>> \o Coat(n - 1) = Coat(n)
        BY <4>1, CoatGrows
      <4> HIDE DEF g
      <4> QED
        BY <3>2, <4>2, <4>3, <4>4
    <3> QED
      BY <3>1, <3>2
  <2>2. g = [n \in 0..Len(q) |-> g[n]]
    OBVIOUS
  <2> HIDE DEF g
  <2>3. g = [n \in 0..Len(q) |-> IF n = 0 THEN Inner ELSE <<<<"layer", q[n]>>>> \o g[n - 1]]
    BY <2>1, <2>2
  <2> QED
    BY <2>3 DEF IsAround, g
<1> DEFINE g == CHOOSE h : IsAround(h, q)
<1>3. IsAround(g, q)
  BY <1>2
<1>4. Ta!Around(q, Inner) = g[Len(q)]
  BY DEF Ta!Around, IsAround
<1> HIDE DEF g
<1>5. \A n \in 0..Len(q) : g[n] = IF n = 0 THEN Inner ELSE <<<<"layer", q[n]>>>> \o g[n - 1]
  <2>1. g = [n \in 0..Len(q) |-> IF n = 0 THEN Inner ELSE <<<<"layer", q[n]>>>> \o g[n - 1]]
    BY <1>3 DEF IsAround
  <2> QED
    BY <2>1
<1>6. \A n \in 0..Len(q) : g[n] = Coat(n)
  <2> DEFINE Bad == {n \in 0..Len(q) : g[n] # Coat(n)}
  <2> SUFFICES ASSUME Bad # {} PROVE FALSE
    OBVIOUS
  <2>1. PICK x \in Bad : \A n \in Bad : x <= n
    <3>1. Bad \in SUBSET Nat
      BY <1>0
    <3> QED
      BY <3>1, LeastOf
  <2>2. x # 0
    <3>1. 0 \in 0..Len(q)
      BY <1>0
    <3>2. g[0] = Inner
      BY <1>5, <3>1
    <3> QED
      BY <1>1, <3>2
  <2>3. x \in Nat /\ x > 0 /\ x \in 0..Len(q) /\ x \in 1..Len(q) /\ x - 1 \in 0..Len(q) /\ ~(x <= x - 1)
    BY <1>0, <2>2
  <2>4. g[x - 1] = Coat(x - 1)
    BY <2>1, <2>3
  <2>5. g[x] = <<<<"layer", q[x]>>>> \o g[x - 1] /\ q[x] = x
    <3>1. q[x] = x
      BY <2>3 DEF Numbered
    <3> QED
      BY <1>5, <2>2, <2>3, <3>1, Zenon
  <2>6. g[x] = Coat(x)
    BY <2>3, <2>4, <2>5, CoatGrows
  <2> QED
    BY <2>6
<1> QED
  BY <1>0, <1>4, <1>6

Declarable == {"kind", "taskStore", "pushStore", "card", "layers"}

\* The server's handler is the one its service declares, and a request passes it.
LayerInv ==
  /\ DOMAIN decl = Declarable /\ Numbered(decl.layers)
  /\ handler # None => handler.stack = Ta!Wrapped(decl)
  /\ \A r \in ReqNames : asked[r] # None => asked[r].seen = Ta!Passes(asked[r].op)

LEMMA LayerStarts == Ta!Init => LayerInv
<1> SUFFICES ASSUME Ta!Init PROVE LayerInv
  OBVIOUS
<1>1. /\ decl.layers = <<>> /\ DOMAIN decl = Declarable
      /\ handler = None /\ \A r \in ReqNames : asked[r] = None
  BY DEF Ta!Init, Ta!with_inner, Declarable
<1>2. Numbered(<<>>)
  BY DEF Numbered
<1> QED
  BY <1>1, <1>2 DEF LayerInv

\* No step changes what a request in progress has passed.
LEMMA SameLayers ==
  ASSUME LayerInv, UNCHANGED <<decl, handler>>,
         \A r \in ReqNames : asked'[r] # None =>
           asked[r] # None /\ asked'[r].op = asked[r].op /\ asked'[r].seen = asked[r].seen
  PROVE  LayerInv'
<1>1. \A op : Ta!Passes(op)' = Ta!Passes(op)
  BY DEF Ta!Passes
<1>2. Numbered(decl.layers)' <=> Numbered(decl.layers)
  BY DEF Numbered
<1>3. Ta!Wrapped(decl)' = Ta!Wrapped(decl)
  BY DEF Ta!Wrapped
<1>4. ASSUME NEW r \in ReqNames, asked'[r] # None
      PROVE  asked'[r].seen = Ta!Passes(asked[r].op)
  BY <1>4 DEF LayerInv
<1>5. ASSUME NEW r \in ReqNames, asked'[r] # None
      PROVE  (asked[r].seen = Ta!Passes(asked[r].op))'
  <2>1. asked'[r].op = asked[r].op
    BY <1>5
  <2>2. asked'[r].seen = Ta!Passes(asked[r].op)
    BY <1>4, <1>5
  <2> QED
    BY <2>1, <2>2 DEF Ta!Passes
<1> QED
  BY <1>2, <1>3, <1>5 DEF LayerInv

LEMMA AnswerSame ==
  ASSUME Asks, NEW r \in ReqNames, asked[r] # None, Ta!Answer(r)
  PROVE  \A q \in ReqNames : asked'[q] # None =>
           asked[q] # None /\ asked'[q].op = asked[q].op /\ asked'[q].seen = asked[q].seen
<1>1. PICK ox, k, at_, seen : asked[r] = [op |-> ox, task |-> k, pc |-> at_, seen |-> seen]
  BY DEF Asks
<1>2. asked' = [asked EXCEPT ![r] = [op |-> ox, task |-> k, pc |-> "done", seen |-> seen]]
  <2>1. [asked[r] EXCEPT !.pc = "done"] = [op |-> ox, task |-> k, pc |-> "done", seen |-> seen]
    BY <1>1
  <2> QED
    BY <2>1 DEF Ta!Answer
<1>3. /\ asked'[r].op = ox /\ asked'[r].seen = seen
      /\ \A q \in ReqNames \ {r} : asked'[q] = asked[q]
  BY <1>2 DEF Asks
<1> QED
  BY <1>1, <1>3

LEMMA DeclareKeeps ==
  ASSUME Asks, LayerInv, NEW f \in Ta!Options, Ta!Set(f) \/ Ta!AddLayer
  PROVE  LayerInv'
<1>1. handler = None /\ UNCHANGED <<handler, asked>>
  BY DEF Ta!Set, Ta!AddLayer, Ta!Declares
<1>2. \A r \in ReqNames : asked'[r] = None
  BY <1>1 DEF Asks
<1>3. DOMAIN decl = {"kind", "taskStore", "pushStore", "card", "layers"}
  BY DEF LayerInv, Declarable
<1>4. DOMAIN decl' = DOMAIN decl /\ Numbered(decl'.layers)
  <2>1. CASE Ta!Set(f)
    <3>1. decl' = [decl EXCEPT ![f] = TRUE]
      BY <2>1 DEF Ta!Set, Ta!Declares
    <3>2. f # "layers"
      BY DEF Ta!Options
    <3>3. decl'.layers = decl.layers
      BY <1>3, <3>1, <3>2
    <3> QED
      BY <3>1, <3>3 DEF LayerInv
  <2>2. CASE Ta!AddLayer
    <3> DEFINE q == decl.layers
    <3>1. decl' = [decl EXCEPT !.layers = Append(decl.layers, Len(decl.layers) + 1)]
      BY <2>2 DEF Ta!AddLayer, Ta!Declares
    <3>2. decl'.layers = Append(q, Len(q) + 1)
      BY <1>3, <3>1
    <3>3. Numbered(q)
      BY DEF LayerInv
    <3> HIDE DEF q
    <3>4. Len(q) \in Nat /\ q \in Seq(Nat)
      BY <3>3, LenProperties DEF Numbered
    <3>5. Numbered(Append(q, Len(q) + 1))
      BY <3>3, <3>4, AppendProperties DEF Numbered
    <3> QED
      BY <3>1, <3>2, <3>5
  <2> QED
    BY <2>1, <2>2
<1> QED
  BY <1>1, <1>2, <1>4 DEF LayerInv

LEMMA LayerStays ==
  ASSUME Asks, Asks', LayerInv, [Ta!Next]_Ta!taskVars
  PROVE  LayerInv'
<1>1. ASSUME NEW f \in Ta!Options, Ta!Set(f) PROVE LayerInv'
  BY <1>1, DeclareKeeps
<1>2. CASE Ta!AddLayer
  <2>1. "card" \in Ta!Options
    BY DEF Ta!Options
  <2> QED
    BY <1>2, <2>1, DeclareKeeps
<1>3. CASE Ta!new_request_handler
  <2>1. /\ handler = None /\ UNCHANGED <<decl, asked>>
        /\ handler' = [stack |-> Ta!Wrapped(decl), store |-> Ta!StoreOf(decl),
                       push |-> decl.pushStore, card |-> Ta!build_card(decl)]
    BY <1>3, Zenon DEF Ta!new_request_handler, Ta!config_for
  <2>2. \A r \in ReqNames : asked'[r] = None
    BY <2>1 DEF Asks
  <2>3. handler'.stack = Ta!Wrapped(decl)
    BY <2>1
  <2>4. Ta!Wrapped(decl)' = Ta!Wrapped(decl)
    BY <2>1 DEF Ta!Wrapped
  <2> QED
    BY <2>1, <2>2, <2>3, <2>4 DEF LayerInv
<1>4. CASE Ta!Shutdown
  <2>1. handler' = None /\ UNCHANGED decl /\ asked' = [r \in ReqNames |-> None]
    BY <1>4 DEF Ta!Shutdown
  <2> QED
    BY <2>1 DEF LayerInv
<1>5. ASSUME NEW r \in ReqNames, NEW ox, NEW k, Ta!Begin(r, ox, k) PROVE LayerInv'
  <2> DEFINE seen == Ta!Passes(ox)
  <2>1. /\ UNCHANGED <<decl, handler>>
        /\ asked' = [asked EXCEPT ![r] = [op |-> ox, task |-> k, pc |-> "in", seen |-> seen]]
    BY <1>5 DEF Ta!Begin
  <2> HIDE DEF seen
  <2>2. /\ asked'[r].op = ox /\ asked'[r].seen = seen
        /\ \A q \in ReqNames \ {r} : asked'[q] = asked[q]
    BY <2>1 DEF Asks
  <2>3. \A op : Ta!Passes(op)' = Ta!Passes(op)
    BY <2>1 DEF Ta!Passes
  <2>4. ASSUME NEW q \in ReqNames, asked'[q] # None
        PROVE  (asked[q].seen = Ta!Passes(asked[q].op))'
    <3>1. asked'[q].seen = Ta!Passes(asked'[q].op)
      BY <2>2, <2>4 DEF LayerInv, seen
    <3> QED
      BY <2>1, <3>1 DEF Ta!Passes
  <2>5. Numbered(decl.layers)' /\ Ta!Wrapped(decl)' = Ta!Wrapped(decl)
    BY <2>1 DEF LayerInv, Numbered, Ta!Wrapped
  <2> QED
    BY <2>1, <2>4, <2>5 DEF LayerInv
<1>6. ASSUME NEW r \in ReqNames, Ta!Send(r) \/ Ta!Reply(r) \/ Ta!Cancel(r) \/ Ta!Read(r) PROVE LayerInv'
  <2>1. asked[r] # None /\ UNCHANGED <<decl, handler>>
    BY <1>6 DEF Ta!Send, Ta!Reply, Ta!Cancel, Ta!Read, Ta!At
  <2>2. Ta!Answer(r)
    BY <1>6 DEF Ta!Send, Ta!Reply, Ta!Cancel, Ta!begin_cancel, Ta!Read
  <2> QED
    BY <2>1, <2>2, AnswerSame, SameLayers
<1>7. ASSUME NEW r \in ReqNames, Ta!Leave(r) PROVE LayerInv'
  <2>1. UNCHANGED <<decl, handler>> /\ asked' = [asked EXCEPT ![r] = None]
    BY <1>7 DEF Ta!Leave
  <2>2. \A q \in ReqNames : asked'[q] # None => asked'[q] = asked[q]
    BY <2>1 DEF Asks
  <2> QED
    BY <2>1, <2>2, SameLayers
<1>8. ASSUME NEW t \in TaskIds, Ta!Event(t) PROVE LayerInv'
  <2>1. UNCHANGED <<decl, handler, asked>>
    BY <1>8 DEF Ta!Event
  <2> QED
    BY <2>1, SameLayers
<1>9. CASE UNCHANGED Ta!taskVars
  <2>1. UNCHANGED <<decl, handler, asked>>
    BY <1>9 DEF Ta!taskVars
  <2> QED
    BY <2>1, SameLayers
<1> QED
  BY <1>1, <1>2, <1>3, <1>4, <1>5, <1>6, <1>7, <1>8, <1>9 DEF Ta!Next

\* What a request passes, the one for the extended card no further than the card.
LEMMA LayersShown ==
  ASSUME Asks, LayerInv
  PROVE  Ta!LayersGuard /\ Ta!CardGuarded
<1> SUFFICES ASSUME NEW r \in ReqNames, asked[r] # None
             PROVE  /\ Len(decl.layers) <= Len(asked[r].seen)
                    /\ \A i \in DOMAIN asked[r].seen :
                         IF i <= Len(decl.layers)
                         THEN asked[r].seen[i] = <<"layer", Len(decl.layers) + 1 - i>>
                         ELSE asked[r].seen[i][1] # "layer"
                    /\ asked[r].op = "card" => asked[r].seen[Len(asked[r].seen)][1] = "card"
  BY DEF Ta!LayersGuard, Ta!CardGuarded
<1> DEFINE n == Len(decl.layers)
           s == handler.stack
           op == asked[r].op
           seen == asked[r].seen
           stops == {i \in DOMAIN s : s[i][1] = "card" /\ op = "card"}
<1>1. handler # None
  BY DEF Asks
<1>2. n \in Nat
  BY LenProperties DEF LayerInv, Numbered
<1>3. s = Coat(n)
  BY <1>1, AroundIs DEF LayerInv, Ta!Wrapped, Inner
<1>4. seen = IF stops = {} THEN s ELSE SubSeq(s, 1, CHOOSE i \in stops : TRUE)
  BY DEF LayerInv, Ta!Passes
<1> HIDE DEF n, op, seen, s
<1>5. /\ s \in Seq(Names) /\ Len(s) = n + 2 /\ DOMAIN s = 1..(n + 2)
      /\ \A i \in 1..n : s[i] = <<"layer", n + 1 - i>>
      /\ s[n + 1] = <<"card", 0>> /\ s[n + 2] = <<"sdk", 0>>
  BY <1>2, <1>3, CoatIs
<1>6. /\ s[n + 1][1] = "card" /\ s[n + 2][1] = "sdk" /\ \A i \in 1..n : s[i][1] = "layer"
  BY <1>5
<1>7. ASSUME NEW m \in {n + 1, n + 2}, Len(seen) = m, DOMAIN seen = 1..m,
             \A i \in 1..m : seen[i] = s[i]
      PROVE  /\ n <= Len(seen)
             /\ \A i \in DOMAIN seen :
                  IF i <= n THEN seen[i] = <<"layer", n + 1 - i>> ELSE seen[i][1] # "layer"
  <2>1. ASSUME NEW i \in 1..m
        PROVE  IF i <= n THEN seen[i] = <<"layer", n + 1 - i>> ELSE seen[i][1] # "layer"
    <3>1. CASE i <= n
      <4>1. i \in 1..n
        BY <1>2, <3>1
      <4> QED
        BY <1>5, <1>7, <3>1, <4>1
    <3>2. CASE ~(i <= n)
      <4>1. i = n + 1 \/ i = n + 2
        BY <1>2, <3>2
      <4>2. seen[i][1] \in {"card", "sdk"}
        BY <1>6, <1>7, <4>1
      <4> QED
        BY <3>2, <4>2
    <3> QED
      BY <3>1, <3>2
  <2> QED
    BY <1>2, <1>7, <2>1
<1>8. CASE op # "card"
  <2>1. seen = s
    BY <1>4, <1>8
  <2> QED
    BY <1>2, <1>5, <1>7, <1>8, <2>1 DEF n, seen, op
<1>9. CASE op = "card"
  <2>1. stops = {n + 1}
    <3>1. n + 1 \in stops
      BY <1>2, <1>5, <1>6, <1>9
    <3>2. ASSUME NEW i \in stops PROVE i = n + 1
      <4>1. i \in 1..(n + 2) /\ s[i][1] = "card"
        BY <1>5
      <4>2. i \notin 1..n /\ i # n + 2
        BY <1>6, <4>1
      <4> QED
        BY <1>2, <4>1, <4>2
    <3> QED
      BY <3>1, <3>2
  <2>2. seen = SubSeq(s, 1, n + 1)
    BY <1>4, <2>1
  <2>3. Len(seen) = n + 1 /\ DOMAIN seen = 1..(n + 1) /\ \A i \in 1..(n + 1) : seen[i] = s[i]
    <3>1. 1 \in 1..(n + 3) /\ n + 1 \in 0..(n + 2)
      BY <1>2
    <3>2. /\ SubSeq(s, 1, n + 1) \in Seq(Names)
          /\ Len(SubSeq(s, 1, n + 1)) = n + 1
          /\ \A i \in 1..(n + 1) : SubSeq(s, 1, n + 1)[i] = s[i]
      BY <1>2, <1>5
    <3> QED
      BY <2>2, <3>2, LenProperties
  <2>4. seen[Len(seen)] = s[n + 1]
    <3>1. n + 1 \in 1..(n + 1)
      BY <1>2
    <3> QED
      BY <2>3, <3>1
  <2> QED
    BY <1>2, <1>6, <1>7, <2>3, <2>4 DEF n, seen, op
<1> QED
  BY <1>8, <1>9

-----------------------------------------------------------------------------
(* Network: a request with its retries, and the updates of a subscription. *)

Outcomes == {"ok", "failed", "timeout", "not_connected", "cancelled"}
Replied == [status : {200, 404, 503}, errors : {"none", "empty", "some"}]

\* Every attempt that has ended ran at most once; a client without a pool runs nothing, and
\* it gets no pool while a request is in progress.
Tries ==
  /\ client \in [kind : {"http", "graphql"}, set : BOOLEAN, opts : {None, "given"}]
  /\ request_ \in [pc : {"idle", "attempt", "waiting", "done"}, attempt : Nat,
                told : Outcomes \cup {None}]
  /\ ran \in Seq(Replied)
  /\ request_.attempt <= Ne!Retries
  /\ request_.pc \in {"attempt", "waiting"} =>
       Len(ran) <= request_.attempt /\ (~client.set => Len(ran) = 0)
  /\ Ne!RequestHonest

LEMMA AnswersJudged ==
  /\ Ne!Answers \subseteq Replied
  /\ \A a \in Ne!Answers :
       /\ Ne!Outcome(a) \in Outcomes \ {"not_connected"}
       /\ Ne!Outcome(a) = "ok" =>
            a.errors # "some" /\ (a.status = 200 \/ a.errors = "empty")
<1>1. CASE client.kind = "http"
  <2>1. Ne!Answers = [status : {200, 404, 503}, errors : {"none"}]
    BY <1>1 DEF Ne!Answers
  <2>2. \A a : Ne!Outcome(a) = Ne!validate_status_code(a)
    BY <1>1 DEF Ne!Outcome
  <2> QED
    BY <2>1, <2>2 DEF Replied, Outcomes, Ne!validate_status_code
<1>2. CASE client.kind # "http"
  <2>1. Ne!Answers = [status : {200, 503}, errors : {"none", "empty", "some"}]
    BY <1>2 DEF Ne!Answers
  <2>2. \A a : Ne!Outcome(a) = Ne!payload_result(a)
    BY <1>2 DEF Ne!Outcome
  <2> QED
    BY <2>1, <2>2 DEF Replied, Outcomes, Ne!payload_result
<1> QED
  BY <1>1, <1>2

\* One attempt ends; the server ran it at most once.
LEMMA AttemptKeeps ==
  ASSUME Ne!NetworkAssumption, Tries, request_.pc = "attempt", NEW end \in Outcomes,
         Ne!AttemptEnds(end), UNCHANGED client,
         \/ ran' = ran
         \/ client.set /\ \E a \in Replied : ran' = Append(ran, a),
         end = "not_connected" => ~client.set /\ ran' = ran,
         end = "ok" => \E a \in Replied :
           /\ ran' = Append(ran, a)
           /\ a.errors # "some" /\ (a.status = 200 \/ a.errors = "empty")
  PROVE  Tries'
<1>1. Ne!Retries \in Nat /\ Ne!Retries' = Ne!Retries
  BY DEF Ne!NetworkAssumption, Ne!Retries
<1>2. /\ ran' \in Seq(Replied) /\ Len(ran') <= request_.attempt + 1
      /\ ~client.set => Len(ran') = 0
  BY DEF Tries
<1>3. request_.attempt \in Nat /\ request_.attempt <= Ne!Retries /\ request_.told \in Outcomes \cup {None}
  BY DEF Tries
<1>4. end = "ok" => ran' # <<>> /\ ran'[Len(ran')].errors # "some"
        /\ (ran'[Len(ran')].status = 200 \/ ran'[Len(ran')].errors = "empty")
  <2> SUFFICES ASSUME end = "ok"
               PROVE  /\ ran' # <<>> /\ ran'[Len(ran')].errors # "some"
                      /\ (ran'[Len(ran')].status = 200 \/ ran'[Len(ran')].errors = "empty")
    OBVIOUS
  <2>1. PICK a \in Replied : /\ ran' = Append(ran, a)
                              /\ a.errors # "some" /\ (a.status = 200 \/ a.errors = "empty")
    OBVIOUS
  <2>2. ran'[Len(ran')] = a /\ ran' # <<>>
    BY <2>1 DEF Tries
  <2> QED
    BY <2>1, <2>2
<1>5. CASE end = "ok" \/ request_.attempt = Ne!Retries
  <2>1. request_' = [request_ EXCEPT !.pc = "done", !.told = end]
    BY <1>5 DEF Ne!AttemptEnds
  <2>2. request_'.pc = "done" /\ request_'.told = end /\ request_'.attempt = request_.attempt
    BY <2>1 DEF Tries
  <2>3. request_' \in [pc : {"idle", "attempt", "waiting", "done"}, attempt : Nat,
                    told : Outcomes \cup {None}]
    BY <2>1 DEF Tries
  <2>4. end = "not_connected" => Len(ran') = 0
    BY <1>2
  <2>5. Len(ran') <= Ne!Retries + 1
    BY <1>1, <1>2, <1>3
  <2>6. Ne!RequestHonest'
    BY <1>1, <1>4, <2>2, <2>4, <2>5 DEF Ne!RequestHonest
  <2> QED
    BY <1>1, <1>2, <1>3, <2>2, <2>3, <2>6 DEF Tries
<1>6. CASE ~(end = "ok" \/ request_.attempt = Ne!Retries)
  <2> DEFINE n == request_.attempt + 1
  <2>1. request_' = [request_ EXCEPT !.pc = "waiting", !.attempt = n]
    BY <1>6 DEF Ne!AttemptEnds
  <2>7. n \in Nat /\ n = request_.attempt + 1
    BY <1>3
  <2> HIDE DEF n
  <2>2. request_'.pc = "waiting" /\ request_'.attempt = request_.attempt + 1
    BY <2>1, <2>7 DEF Tries
  <2>3. request_' \in [pc : {"idle", "attempt", "waiting", "done"}, attempt : Nat,
                    told : Outcomes \cup {None}]
    BY <2>1, <2>7 DEF Tries
  <2>4. request_'.attempt <= Ne!Retries
    BY <1>1, <1>3, <1>6, <2>2
  <2>5. Len(ran') <= Ne!Retries + 1
    BY <1>1, <1>2, <1>3, <1>6
  <2>6. Ne!RequestHonest'
    BY <1>1, <2>2, <2>5 DEF Ne!RequestHonest
  <2> QED
    BY <1>1, <1>2, <2>2, <2>3, <2>4, <2>6 DEF Tries
<1> QED
  BY <1>5, <1>6

LEMMA CancelledKeeps ==
  ASSUME Ne!NetworkAssumption, Tries, Ne!Cancelled
  PROVE  Tries'
<1>1. Ne!Retries \in Nat /\ Ne!Retries' = Ne!Retries
  BY DEF Ne!NetworkAssumption, Ne!Retries, Ne!Cancelled
<1>2. \/ ran' = ran
      \/ request_.pc = "attempt" /\ \E a \in Replied : ran' = Append(ran, a)
  BY AnswersJudged DEF Ne!Cancelled
<1>3. request_' = [request_ EXCEPT !.pc = "done", !.told = "cancelled"] /\ client' = client
      /\ request_.pc \in {"attempt", "waiting"}
  BY DEF Ne!Cancelled
<1>4. request_'.pc = "done" /\ request_'.told = "cancelled" /\ request_'.attempt = request_.attempt
  BY <1>3 DEF Tries
<1>5. request_' \in [pc : {"idle", "attempt", "waiting", "done"}, attempt : Nat,
                  told : Outcomes \cup {None}]
  BY <1>3 DEF Tries, Outcomes
<1>6. /\ ran' \in Seq(Replied) /\ Len(ran') <= request_.attempt + 1
  BY <1>2, <1>3 DEF Tries
<1>7. request_.attempt \in Nat /\ request_.attempt <= Ne!Retries
  BY DEF Tries
<1>8. Ne!RequestHonest'
  BY <1>1, <1>4, <1>6, <1>7 DEF Ne!RequestHonest
<1> QED
  BY <1>1, <1>3, <1>4, <1>5, <1>6, <1>7, <1>8 DEF Tries

LEMMA TriesKept ==
  ASSUME Tries, UNCHANGED <<request_, ran>>,
         client' \in [kind : {"http", "graphql"}, set : BOOLEAN, opts : {None, "given"}],
         client'.kind = client.kind, Ne!Free \/ client' = client
  PROVE  Tries'
<1>1. Ne!Retries' = Ne!Retries
  BY DEF Ne!Retries
<1>2. Ne!RequestHonest'
  BY <1>1 DEF Tries, Ne!RequestHonest
<1> QED
  BY <1>1, <1>2 DEF Tries, Ne!Free

LEMMA TriesStep ==
  ASSUME Ne!NetworkAssumption, Tries, [Ne!Next]_Ne!nvars
  PROVE  Tries'
<1>1. ASSUME Ne!Connect \/ Ne!ConnectRefused \/ Ne!Close \/ Ne!Reconnect
      PROVE  Tries'
  <2>1. /\ UNCHANGED <<request_, ran>>
        /\ client' \in [kind : {"http", "graphql"}, set : BOOLEAN, opts : {None, "given"}]
        /\ client'.kind = client.kind
        /\ Ne!Free
    BY <1>1 DEF Tries, Ne!Connect, Ne!ConnectRefused, Ne!Close, Ne!Reconnect, Ne!nvars, Ne!reqVars
  <2> QED
    BY <2>1, TriesKept
<1>2. ASSUME Ne!Request
      PROVE  Tries'
  <2>1. request_' = [pc |-> "attempt", attempt |-> 0, told |-> None] /\ ran' = <<>> /\ client' = client
    BY <1>2 DEF Ne!Request
  <2>2. Ne!Retries \in Nat /\ Ne!Retries' = Ne!Retries
    BY <2>1 DEF Ne!NetworkAssumption, Ne!Retries
  <2>3. Ne!RequestHonest'
    BY <2>1, <2>2 DEF Ne!RequestHonest
  <2> QED
    BY <2>1, <2>2, <2>3 DEF Tries
<1>3. ASSUME Ne!Attempt
      PROVE  Tries'
  <2>1. request_.pc = "attempt" /\ client' = client
    BY <1>3 DEF Ne!Attempt
  <2>2. CASE ~client.set
    <3>1. Ne!AttemptEnds("not_connected") /\ ran' = ran
      BY <1>3, <2>2 DEF Ne!Attempt
    <3> QED
      BY <2>1, <2>2, <3>1, AttemptKeeps DEF Outcomes
  <2>3. CASE client.set
    <3>1. PICK a \in Ne!Answers :
            \/ Ne!AttemptEnds(Ne!Outcome(a)) /\ ran' = Append(ran, a)
            \/ Ne!AttemptEnds("timeout") /\ ran' \in {ran, Append(ran, a)}
      BY <1>3, <2>3 DEF Ne!Attempt
    <3>2. CASE Ne!AttemptEnds(Ne!Outcome(a)) /\ ran' = Append(ran, a)
      BY <2>1, <2>3, <3>1, <3>2, AnswersJudged, AttemptKeeps
    <3>3. CASE Ne!AttemptEnds("timeout") /\ ran' \in {ran, Append(ran, a)}
      BY <2>1, <2>3, <3>1, <3>3, AnswersJudged, AttemptKeeps DEF Outcomes
    <3> QED
      BY <3>1, <3>2, <3>3
  <2> QED
    BY <2>2, <2>3
<1>4. ASSUME Ne!Retry
      PROVE  Tries'
  <2>1. /\ request_.pc = "waiting" /\ request_' = [request_ EXCEPT !.pc = "attempt"]
        /\ UNCHANGED <<client, ran>>
    BY <1>4 DEF Ne!Retry
  <2>2. /\ request_'.pc = "attempt" /\ request_'.attempt = request_.attempt
        /\ request_' \in [pc : {"idle", "attempt", "waiting", "done"}, attempt : Nat,
                       told : Outcomes \cup {None}]
    BY <2>1 DEF Tries
  <2>3. Ne!Retries' = Ne!Retries
    BY <2>1 DEF Ne!Retries
  <2>4. Ne!RequestHonest'
    BY <2>1, <2>2, <2>3 DEF Tries, Ne!RequestHonest
  <2> QED
    BY <2>1, <2>2, <2>3, <2>4 DEF Tries
<1>5. ASSUME Ne!Cancelled
      PROVE  Tries'
  BY <1>5, CancelledKeeps
<1>6. ASSUME \/ Ne!Cancel \/ Ne!Subscribe \/ Ne!SubscribeFails \/ Ne!ServerSends
             \/ Ne!TaskSteps \/ Ne!Consume \/ Ne!Stop \/ Ne!StopReturns \/ Ne!DropHandle
             \/ UNCHANGED Ne!nvars
      PROVE  Tries'
  <2>1. UNCHANGED <<client, request_, ran>>
    BY <1>6 DEF Ne!Cancel, Ne!Subscribe, Ne!SubscribeFails, Ne!ServerSends, Ne!TaskSteps,
         Ne!TaskTakes, Ne!Deliver, Ne!TaskCancelled, Ne!Consume, Ne!Stop, Ne!StopReturns,
         Ne!DropHandle, Ne!nvars, Ne!reqVars
  <2> QED
    BY <2>1, TriesKept DEF Tries
<1> QED
  BY <1>1, <1>2, <1>3, <1>4, <1>5, <1>6 DEF Ne!Next, Ne!RequestSteps

-----------------------------------------------------------------------------
(* A subscription: nothing is lost between the server and its consumer. *)

Messages == Ne!Updates \cup {<<"ping">>, <<"complete">>, <<"close">>}
Carried == Ne!Updates \cup {Ne!Stopped}

TaskRecords ==
  [pc : {"none", "run", "sending", "closing", "over"}, item : Carried \cup {None}]

FlowTypes ==
  /\ sent \in Seq(Ne!Updates) /\ Len(sent) <= MaxMessages
  /\ wire \in Seq(Messages) /\ ch \in Seq(Carried) /\ got \in Seq(Carried)
  /\ task \in TaskRecords
  /\ task.pc = "sending" => task.item \in Ne!Updates
  /\ task.pc = "closing" => task.item = Ne!Stopped
  /\ task.pc \notin {"sending", "closing"} => task.item = None
  /\ subscription = "none" => task.pc = "none"

\* What the consumer took, what waits for it and what the task holds.
Hand == IF task.item = None THEN <<>> ELSE <<task.item>>
Passed == got \o ch \o Hand

Begins(s, t) == Len(s) <= Len(t) /\ \A i \in 1..Len(s) : s[i] = t[i]

\* The updates still on the wire are those after the n-th, in their order.
Follow(w, s, n) ==
  /\ \A j \in 1..Len(w) : w[j] \in Ne!Updates =>
       w[j][2] \in n..(Len(s) - 1) /\ w[j] = s[w[j][2] + 1]
  /\ \A i, j \in 1..Len(w) :
       i < j /\ w[i] \in Ne!Updates /\ w[j] \in Ne!Updates => w[i][2] < w[j][2]
  /\ \A k \in n..(Len(s) - 1) : \E j \in 1..Len(w) : w[j] \in Ne!Updates /\ w[j][2] = k

Ordered ==
  \/ Begins(Passed, sent)
  \/ \E p \in Seq(Carried) : Begins(p, sent) /\ Passed = Append(p, Ne!Stopped)

InStepWithServer ==
  subscription \in {"held", "stopping", "stopped"} =>
    /\ Ordered
    /\ task.pc \in {"run", "sending"} =>
         Begins(Passed, sent) /\ Follow(wire, sent, Len(Passed))

FlowInv == FlowTypes /\ InStepWithServer

\* The messages are told apart by their kinds, and the updates carry their number.
LEMMA MessageShapes ==
  ASSUME NEW m \in Messages
  PROVE  /\ m[1] \in {"next", "error", "garbage"} <=> m \in Ne!Updates
         /\ m \in Ne!Updates => m[2] \in 0..MaxMessages
         /\ m[1] = "close" => m \notin Ne!Updates
<1>1. CASE m \in Ne!Updates
  BY <1>1 DEF Ne!Updates
<1>2. CASE m \in {<<"ping">>, <<"complete">>, <<"close">>}
  <2>1. m[1] \in {"ping", "complete", "close"}
    BY <1>2
  <2>2. m \notin Ne!Updates
    BY <2>1 DEF Ne!Updates
  <2> QED
    BY <2>1, <2>2
<1> QED
  BY <1>1, <1>2 DEF Messages

LEMMA PrefixIs ==
  ASSUME NEW S, NEW s \in Seq(S), NEW t \in Seq(S), Begins(s, t)
  PROVE  Len(s) \in 0..Len(t) /\ SubSeq(t, 1, Len(s)) = s
<1>1. Len(s) \in 0..Len(t)
  BY DEF Begins
<1>2. /\ SubSeq(t, 1, Len(s)) \in Seq(S)
      /\ Len(SubSeq(t, 1, Len(s))) = Len(s)
      /\ \A i \in 1..Len(s) : SubSeq(t, 1, Len(s))[i] = t[i]
  BY <1>1
<1> QED
  BY <1>1, <1>2, SeqEqual DEF Begins

\* The property in terms of Passed.
LEMMA OrderIs ==
  ASSUME FlowTypes
  PROVE  /\ Passed \in Seq(Carried)
         /\ Ordered => Ne!UpdatesInOrder
<1>1. Hand \in Seq(Carried)
  BY DEF FlowTypes, Hand, TaskRecords
<1>2. Passed \in Seq(Carried) /\ sent \in Seq(Carried)
  BY <1>1 DEF FlowTypes, Passed, Carried
<1>3. ASSUME NEW p \in Seq(Carried), Begins(p, sent), Passed \in {p, Append(p, Ne!Stopped)}
      PROVE  Ne!UpdatesInOrder
  <2>1. Len(p) \in 0..Len(sent) /\ SubSeq(sent, 1, Len(p)) = p
    BY <1>2, <1>3, PrefixIs
  <2> QED
    BY <1>3, <2>1 DEF Ne!UpdatesInOrder, Passed, Hand
<1> QED
  BY <1>2, <1>3 DEF Ordered

\* What leaves the flow as it is.
LEMMA SameFlow ==
  ASSUME FlowInv, UNCHANGED <<wire, sent>>, Passed' = Passed, FlowTypes',
         subscription' \in {"held", "stopping", "stopped"} =>
           subscription \in {"held", "stopping", "stopped"},
         task'.pc \in {"run", "sending"} => task.pc \in {"run", "sending"}
  PROVE  FlowInv'
<1>1. Ordered => Ordered'
  BY DEF Ordered
<1>2. InStepWithServer'
  BY <1>1 DEF FlowInv, InStepWithServer
<1> QED
  BY <1>2 DEF FlowInv

LEMMA QuietKeeps ==
  ASSUME Ne!NetworkAssumption, FlowInv,
         Ne!Stop \/ Ne!StopReturns \/ Ne!DropHandle \/ Ne!TaskCancelled \/ UNCHANGED Ne!subVars
  PROVE  FlowInv'
<1>1. UNCHANGED <<wire, ch, got, sent>>
  BY DEF Ne!Stop, Ne!StopReturns, Ne!DropHandle, Ne!TaskCancelled, Ne!subVars
<1>2. \/ task' = task
      \/ task.pc = "run" /\ task' = [pc |-> "over", item |-> None] /\ subscription' = subscription
         /\ subscription = "stopping"
  BY DEF Ne!Stop, Ne!StopReturns, Ne!DropHandle, Ne!TaskCancelled, Ne!subVars
<1>3. /\ subscription' \in {"held", "stopping", "stopped"} => subscription \in {"held", "stopping", "stopped"}
      /\ subscription' = "none" => subscription = "none"
  BY DEF Ne!Stop, Ne!StopReturns, Ne!DropHandle, Ne!TaskCancelled, Ne!subVars
<1>4. /\ task'.item = task.item /\ task' \in TaskRecords
      /\ \/ task'.pc = task.pc
         \/ task'.pc = "over" /\ task'.item = None /\ subscription' = "stopping"
  <2>1. CASE task' = task
    <3>1. task \in TaskRecords
      BY DEF FlowInv, FlowTypes
    <3>2. task'.item = task.item /\ task'.pc = task.pc
      BY <2>1
    <3>3. task' \in TaskRecords
      BY <2>1, <3>1
    <3> QED
      BY <3>2, <3>3
  <2>2. CASE /\ task.pc = "run" /\ task' = [pc |-> "over", item |-> None]
             /\ subscription' = subscription /\ subscription = "stopping"
    <3>1. task.item = None
      BY <2>2 DEF FlowInv, FlowTypes
    <3> QED
      BY <2>2, <3>1 DEF TaskRecords
  <2> QED
    BY <1>2, <2>1, <2>2
<1>5. FlowTypes'
  BY <1>1, <1>3, <1>4 DEF FlowInv, FlowTypes
<1>6. Passed' = Passed
  BY <1>1, <1>4 DEF Passed, Hand
<1> QED
  BY <1>1, <1>3, <1>4, <1>5, <1>6, SameFlow

LEMMA SubscribeKeeps ==
  ASSUME Ne!NetworkAssumption, Ne!Subscribe
  PROVE  FlowInv'
<1>1. /\ wire' = <<>> /\ ch' = <<>> /\ got' = <<>> /\ sent' = <<>> /\ subscription' = "held"
      /\ task' = [pc |-> "run", item |-> None]
  BY DEF Ne!Subscribe
<1>2. FlowTypes'
  BY <1>1 DEF FlowTypes, Ne!NetworkAssumption, TaskRecords
<1>3. Passed' = <<>>
  BY <1>1 DEF Passed, Hand
<1>4. Begins(Passed', sent') /\ Follow(wire', sent', Len(Passed'))
  BY <1>1, <1>3 DEF Begins, Follow
<1> QED
  BY <1>2, <1>4 DEF FlowInv, InStepWithServer, Ordered

LEMMA ServerSendsKeeps ==
  ASSUME Ne!NetworkAssumption, FlowInv, Ne!ServerSends
  PROVE  FlowInv'
<1> USE DEF FlowInv
<1>1. UNCHANGED <<ch, got, task, subscription>> /\ Len(sent) < MaxMessages /\ task.pc # "none"
  BY DEF Ne!ServerSends
<1>2. PICK k \in {"next", "error", "garbage", "ping", "complete", "close"} :
        /\ wire' = Append(wire, IF k \in {"next", "error", "garbage"} THEN <<k, Len(sent)>> ELSE <<k>>)
        /\ sent' = IF k \in {"next", "error", "garbage"} THEN Append(sent, <<k, Len(sent)>>) ELSE sent
  BY DEF Ne!ServerSends
<1>3. Passed' = Passed /\ Passed \in Seq(Carried)
  BY <1>1, OrderIs DEF Passed, Hand
<1>4. Len(sent) \in 0..MaxMessages /\ Len(sent) + 1 <= MaxMessages
  BY <1>1 DEF FlowTypes, Ne!NetworkAssumption
<1>5. CASE k \in {"next", "error", "garbage"}
  <2> DEFINE m == <<k, Len(sent)>>
  <2>1. m \in Ne!Updates /\ m[2] = Len(sent)
    BY <1>4, <1>5 DEF Ne!Updates
  <2>2. wire' = Append(wire, m) /\ sent' = Append(sent, m)
    BY <1>2, <1>5
  <2> HIDE DEF m
  <2>3. /\ sent' \in Seq(Ne!Updates) /\ Len(sent') = Len(sent) + 1
        /\ sent'[Len(sent) + 1] = m /\ \A i \in 1..Len(sent) : sent'[i] = sent[i]
    BY <2>1, <2>2 DEF FlowTypes
  <2>4. /\ wire' \in Seq(Messages) /\ Len(wire') = Len(wire) + 1
        /\ wire'[Len(wire) + 1] = m /\ \A i \in 1..Len(wire) : wire'[i] = wire[i]
    BY <2>1, <2>2 DEF FlowTypes, Messages
  <2>5. FlowTypes'
    BY <1>1, <1>4, <2>3, <2>4 DEF FlowTypes
  <2>6. \A p \in Seq(Carried) : Begins(p, sent) => Begins(p, sent')
    BY <2>3 DEF Begins, FlowTypes
  <2>7. Ordered => Ordered'
    BY <1>3, <2>6 DEF Ordered
  <2>8. ASSUME Begins(Passed, sent), Follow(wire, sent, Len(Passed))
        PROVE  Follow(wire', sent', Len(Passed))
    <3> DEFINE n == Len(Passed)
    <3>1. n \in Nat /\ n <= Len(sent) /\ Len(sent) \in Nat /\ Len(wire) \in Nat
      BY <1>3, <2>8 DEF Begins, FlowTypes
    <3> HIDE DEF n
    <3>2. \A j \in 1..Len(wire) : wire[j] \in Ne!Updates =>
            wire[j][2] \in n..(Len(sent) - 1) /\ wire[j] = sent[wire[j][2] + 1]
      BY <2>8 DEF Follow, n
    <3>6. \A i, j \in 1..Len(wire) :
            i < j /\ wire[i] \in Ne!Updates /\ wire[j] \in Ne!Updates => wire[i][2] < wire[j][2]
      BY <2>8 DEF Follow, n
    <3>7. \A q \in n..(Len(sent) - 1) :
            \E j \in 1..Len(wire) : wire[j] \in Ne!Updates /\ wire[j][2] = q
      BY <2>8 DEF Follow, n
    <3>3. ASSUME NEW j \in 1..Len(wire'), wire'[j] \in Ne!Updates
          PROVE  wire'[j][2] \in n..(Len(sent') - 1) /\ wire'[j] = sent'[wire'[j][2] + 1]
      <4>1. CASE j <= Len(wire)
        <5> DEFINE w == wire[j][2]
        <5>1. wire'[j] = wire[j] /\ w \in n..(Len(sent) - 1) /\ wire[j] = sent[w + 1]
          BY <2>4, <3>1, <3>2, <3>3, <4>1
        <5>2. wire'[j][2] = w
          BY <5>1
        <5> HIDE DEF w
        <5>3. w + 1 \in 1..Len(sent)
          BY <3>1, <5>1
        <5> QED
          BY <2>3, <3>1, <5>1, <5>2, <5>3
      <4>2. CASE j = Len(wire) + 1
        BY <2>1, <2>3, <2>4, <3>1, <4>2
      <4> QED
        BY <2>4, <3>1, <4>1, <4>2
    <3>4. ASSUME NEW i \in 1..Len(wire'), NEW j \in 1..Len(wire'), i < j,
                 wire'[i] \in Ne!Updates, wire'[j] \in Ne!Updates
          PROVE  wire'[i][2] < wire'[j][2]
      <4>1. i <= Len(wire) /\ wire'[i] = wire[i]
        BY <2>4, <3>1, <3>4
      <4>2. CASE j <= Len(wire)
        <5>1. i \in 1..Len(wire) /\ j \in 1..Len(wire) /\ wire'[j] = wire[j]
          BY <2>4, <3>1, <3>4, <4>1, <4>2
        <5> QED
          BY <3>4, <3>6, <4>1, <5>1
      <4>3. CASE j = Len(wire) + 1
        <5>1. wire[i][2] \in n..(Len(sent) - 1)
          BY <3>1, <3>2, <3>4, <4>1
        <5> QED
          BY <2>1, <2>4, <3>1, <4>1, <4>3, <5>1
      <4> QED
        BY <2>4, <3>1, <4>2, <4>3
    <3>5. ASSUME NEW q \in n..(Len(sent') - 1)
          PROVE  \E j \in 1..Len(wire') : wire'[j] \in Ne!Updates /\ wire'[j][2] = q
      <4>1. CASE q < Len(sent)
        <5>1. PICK j \in 1..Len(wire) : wire[j] \in Ne!Updates /\ wire[j][2] = q
          <6>1. q \in n..(Len(sent) - 1)
            BY <2>3, <3>1, <4>1
          <6> QED
            BY <3>7, <6>1
        <5> QED
          BY <2>4, <3>1, <5>1
      <4>2. CASE q = Len(sent)
        BY <2>1, <2>4, <3>1, <4>2
      <4> QED
        BY <2>3, <3>1, <4>1, <4>2
    <3> QED
      BY <3>3, <3>4, <3>5 DEF Follow, n
  <2> QED
    BY <1>1, <1>3, <2>5, <2>6, <2>7, <2>8 DEF InStepWithServer
<1>6. CASE k \notin {"next", "error", "garbage"}
  <2> DEFINE m == <<k>>
  <2>1. m \in Messages
    BY <1>6 DEF Messages
  <2>2. m \notin Ne!Updates
    <3>1. m[1] = k
      OBVIOUS
    <3> HIDE DEF m
    <3> QED
      BY <1>6, <2>1, <3>1, MessageShapes
  <2>3. wire' = Append(wire, m) /\ sent' = sent
    BY <1>2, <1>6
  <2> HIDE DEF m
  <2>4. /\ wire' \in Seq(Messages) /\ Len(wire') = Len(wire) + 1 /\ Len(wire) \in Nat
        /\ wire'[Len(wire) + 1] = m /\ \A i \in 1..Len(wire) : wire'[i] = wire[i]
    BY <2>1, <2>3 DEF FlowTypes
  <2>5. FlowTypes'
    BY <1>1, <2>3, <2>4 DEF FlowTypes
  <2>6. ASSUME Follow(wire, sent, Len(Passed))
        PROVE  Follow(wire', sent, Len(Passed))
    <3>1. \A j \in 1..Len(wire') : wire'[j] \in Ne!Updates => j \in 1..Len(wire) /\ wire'[j] = wire[j]
      BY <2>2, <2>4
    <3> DEFINE n == Len(Passed)
    <3>2. /\ \A j \in 1..Len(wire) : wire[j] \in Ne!Updates =>
               wire[j][2] \in n..(Len(sent) - 1) /\ wire[j] = sent[wire[j][2] + 1]
          /\ \A i, j \in 1..Len(wire) :
               i < j /\ wire[i] \in Ne!Updates /\ wire[j] \in Ne!Updates => wire[i][2] < wire[j][2]
          /\ \A ox \in n..(Len(sent) - 1) :
               \E j \in 1..Len(wire) : wire[j] \in Ne!Updates /\ wire[j][2] = ox
      BY <2>6 DEF Follow
    <3> HIDE DEF n
    <3>3. \A j \in 1..Len(wire') : wire'[j] \in Ne!Updates =>
            wire'[j][2] \in n..(Len(sent) - 1) /\ wire'[j] = sent[wire'[j][2] + 1]
      BY <3>1, <3>2
    <3>4. \A i, j \in 1..Len(wire') :
            i < j /\ wire'[i] \in Ne!Updates /\ wire'[j] \in Ne!Updates => wire'[i][2] < wire'[j][2]
      BY <3>1, <3>2
    <3>5. \A j \in 1..Len(wire) : j \in 1..Len(wire') /\ wire'[j] = wire[j]
      BY <2>4
    <3>6. \A ox \in n..(Len(sent) - 1) :
            \E j \in 1..Len(wire') : wire'[j] \in Ne!Updates /\ wire'[j][2] = ox
      BY <3>2, <3>5
    <3> QED
      BY <3>3, <3>4, <3>6 DEF Follow, n
  <2>7. Ordered => Ordered'
    BY <1>3, <2>3 DEF Ordered
  <2> QED
    BY <1>1, <1>3, <2>3, <2>5, <2>6, <2>7 DEF InStepWithServer
<1> QED
  BY <1>5, <1>6

\* The next update on the wire is the one after those that were passed on.
LEMMA HeadFollows ==
  ASSUME NEW n \in Nat, NEW w \in Seq(Messages), NEW s \in Seq(Ne!Updates), w # <<>>,
         Follow(w, s, n)
  PROVE  /\ Head(w) \in Ne!Updates => n < Len(s) /\ Head(w) = s[n + 1] /\ Follow(Tail(w), s, n + 1)
         /\ Head(w) \notin Ne!Updates => Follow(Tail(w), s, n)
<1>1. /\ Head(w) = w[1] /\ 1 \in 1..Len(w) /\ Len(w) \in Nat /\ Len(s) \in Nat
      /\ Tail(w) \in Seq(Messages) /\ Len(Tail(w)) = Len(w) - 1
      /\ \A j \in 1..Len(Tail(w)) : Tail(w)[j] = w[j + 1]
  OBVIOUS
<1>2. \A j \in 1..Len(w) : w[j] \in Ne!Updates =>
        w[j][2] \in n..(Len(s) - 1) /\ w[j] = s[w[j][2] + 1]
  BY DEF Follow
<1>3. \A i, j \in 1..Len(w) :
        i < j /\ w[i] \in Ne!Updates /\ w[j] \in Ne!Updates => w[i][2] < w[j][2]
  BY DEF Follow
<1>4. \A q \in n..(Len(s) - 1) : \E j \in 1..Len(w) : w[j] \in Ne!Updates /\ w[j][2] = q
  BY DEF Follow
<1> DEFINE t == Tail(w)
<1>5. Len(t) \in Nat /\ \A j \in 1..Len(t) : j + 1 \in 1..Len(w) /\ 1 < j + 1 /\ t[j] = w[j + 1]
  BY <1>1
<1>6. \A j \in 1..Len(w) : j = 1 \/ (j - 1 \in 1..Len(t) /\ t[j - 1] = w[j])
  <2> TAKE j \in 1..Len(w)
  <2>1. CASE j # 1
    <3>1. j - 1 \in 1..Len(t) /\ (j - 1) + 1 = j
      BY <1>1, <2>1
    <3> QED
      BY <1>5, <3>1
  <2> QED
    BY <2>1
<1> HIDE DEF t
<1>7. \A i, j \in 1..Len(t) :
        i < j /\ t[i] \in Ne!Updates /\ t[j] \in Ne!Updates => t[i][2] < t[j][2]
  <2> SUFFICES ASSUME NEW i \in 1..Len(t), NEW j \in 1..Len(t), i < j,
                      t[i] \in Ne!Updates, t[j] \in Ne!Updates
               PROVE  t[i][2] < t[j][2]
    OBVIOUS
  <2>1. /\ i + 1 \in 1..Len(w) /\ t[i] = w[i + 1]
        /\ j + 1 \in 1..Len(w) /\ t[j] = w[j + 1] /\ i + 1 < j + 1
    BY <1>5
  <2> QED
    BY <1>3, <2>1
<1>8. ASSUME w[1] \in Ne!Updates
      PROVE  n < Len(s) /\ w[1] = s[n + 1] /\ Follow(t, s, n + 1)
  <2> DEFINE m == w[1][2]
  <2>1. m \in n..(Len(s) - 1) /\ w[1] = s[m + 1]
    BY <1>1, <1>2, <1>8
  <2>2. m = n
    <3>1. n \in n..(Len(s) - 1)
      BY <1>1, <2>1
    <3>2. PICK j \in 1..Len(w) : w[j] \in Ne!Updates /\ w[j][2] = n
      BY <1>4, <3>1
    <3>3. CASE j = 1
      BY <3>2, <3>3
    <3>4. CASE j # 1
      <4>1. 1 < j
        BY <3>4
      <4>2. m < n
        BY <1>1, <1>3, <1>8, <3>2, <4>1
      <4> QED
        BY <2>1, <4>2
    <3> QED
      BY <3>3, <3>4
  <2>3. ASSUME NEW j \in 1..Len(t), t[j] \in Ne!Updates
        PROVE  t[j][2] \in (n + 1)..(Len(s) - 1) /\ t[j] = s[t[j][2] + 1]
    <3>1. j + 1 \in 1..Len(w) /\ 1 < j + 1 /\ t[j] = w[j + 1]
      BY <1>5
    <3>2. t[j][2] \in n..(Len(s) - 1) /\ t[j] = s[t[j][2] + 1]
      BY <1>2, <2>3, <3>1
    <3>3. n < t[j][2]
      BY <1>1, <1>3, <1>8, <2>2, <2>3, <3>1
    <3> QED
      BY <1>1, <3>2, <3>3
  <2>4. ASSUME NEW q \in (n + 1)..(Len(s) - 1)
        PROVE  \E j \in 1..Len(t) : t[j] \in Ne!Updates /\ t[j][2] = q
    <3>1. q \in n..(Len(s) - 1) /\ q # n
      BY <1>1
    <3>2. PICK j \in 1..Len(w) : w[j] \in Ne!Updates /\ w[j][2] = q
      BY <1>4, <3>1
    <3>3. j # 1
      BY <2>2, <3>1, <3>2
    <3> QED
      BY <1>6, <3>2, <3>3
  <2>5. Follow(t, s, n + 1)
    BY <1>7, <2>3, <2>4 DEF Follow
  <2> QED
    BY <1>1, <2>1, <2>2, <2>5
<1>9. ASSUME w[1] \notin Ne!Updates
      PROVE  Follow(t, s, n)
  <2>1. \A j \in 1..Len(t) : t[j] \in Ne!Updates =>
          t[j][2] \in n..(Len(s) - 1) /\ t[j] = s[t[j][2] + 1]
    BY <1>2, <1>5
  <2>2. ASSUME NEW q \in n..(Len(s) - 1)
        PROVE  \E j \in 1..Len(t) : t[j] \in Ne!Updates /\ t[j][2] = q
    <3>1. PICK j \in 1..Len(w) : w[j] \in Ne!Updates /\ w[j][2] = q
      BY <1>4
    <3>2. j # 1
      BY <1>9, <3>1
    <3> QED
      BY <1>6, <3>1, <3>2
  <2> QED
    BY <1>7, <2>1, <2>2 DEF Follow
<1> QED
  BY <1>1, <1>8, <1>9 DEF t

LEMMA TaskTakesKeeps ==
  ASSUME Ne!NetworkAssumption, FlowInv, Ne!TaskTakes
  PROVE  FlowInv'
<1>1. /\ FlowTypes /\ InStepWithServer
      /\ task.pc = "run" /\ wire # <<>> /\ wire' = Tail(wire) /\ UNCHANGED <<ch, got, subscription, sent>>
  BY DEF FlowInv, Ne!TaskTakes
<1> DEFINE m == Head(wire)
<1>2. m \in Messages /\ wire' \in Seq(Messages)
  BY <1>1 DEF FlowTypes
<1>3. task' = CASE m[1] \in {"next", "error", "garbage"} -> [pc |-> "sending", item |-> m]
                [] m[1] = "close" -> [pc |-> "closing", item |-> Ne!Stopped]
                [] m[1] = "complete" -> [pc |-> "over", item |-> None]
                [] OTHER -> task
  BY DEF Ne!TaskTakes
<1>4. task.item = None /\ Passed \in Seq(Carried) /\ Passed = got \o ch \o <<>> /\ Len(Passed) \in Nat
  <2>1. task.item = None /\ Passed \in Seq(Carried)
    BY <1>1, OrderIs DEF FlowTypes
  <2> QED
    BY <2>1 DEF Passed, Hand
<1>5. None \notin Carried /\ Ne!Stopped \in Carried /\ Ne!Updates \subseteq Carried
  BY DEF Carried, Ne!NetworkAssumption
<1>6. /\ Head(wire) \in Ne!Updates =>
           \/ /\ Len(Passed) < Len(sent) /\ m = sent[Len(Passed) + 1]
              /\ Follow(wire', sent, Len(Passed) + 1)
           \/ ~Follow(wire, sent, Len(Passed))
      /\ Head(wire) \notin Ne!Updates =>
           Follow(wire', sent, Len(Passed)) \/ ~Follow(wire, sent, Len(Passed))
  BY <1>1, <1>4, HeadFollows DEF FlowTypes
<1>7. /\ m[1] \in {"next", "error", "garbage"} <=> m \in Ne!Updates
      /\ m[1] = "close" => m \notin Ne!Updates
  BY <1>2, MessageShapes
<1> HIDE DEF m
<1>8. CASE m \in Ne!Updates
  <2>1. task' = [pc |-> "sending", item |-> m]
    BY <1>3, <1>7, <1>8
  <2>2. task'.pc = "sending" /\ task'.item = m /\ m \in Carried /\ m # None
    BY <1>5, <1>8, <2>1
  <2>3. FlowTypes'
    BY <1>1, <1>2, <1>8, <2>1, <2>2 DEF FlowTypes, TaskRecords
  <2>4. Passed' = got \o ch \o <<m>>
    BY <1>1, <2>2 DEF Passed, Hand
  <2>5. Passed' = Append(Passed, m)
    BY <1>1, <1>4, <2>2, <2>4 DEF FlowTypes
  <2>6. ASSUME subscription \in {"held", "stopping", "stopped"}
        PROVE  Begins(Passed', sent) /\ Follow(wire', sent, Len(Passed'))
    <3>1. Begins(Passed, sent) /\ Follow(wire, sent, Len(Passed))
      BY <1>1, <2>6 DEF InStepWithServer
    <3>2. Len(Passed) < Len(sent) /\ m = sent[Len(Passed) + 1] /\ Follow(wire', sent, Len(Passed) + 1)
      BY <1>6, <1>8, <3>1 DEF m
    <3>3. /\ Len(Passed') = Len(Passed) + 1
          /\ \A i \in 1..Len(Passed') : Passed'[i] = IF i = Len(Passed) + 1 THEN m ELSE Passed[i]
      BY <1>4, <2>2, <2>5
    <3>4. Begins(Passed', sent)
      <4>1. Len(sent) \in Nat
        BY <1>1 DEF FlowTypes
      <4>2. /\ Len(Passed) <= Len(sent)
            /\ \A i \in 1..Len(Passed) : Passed[i] = sent[i]
        BY <3>1 DEF Begins
      <4>3. Len(Passed') <= Len(sent)
        BY <1>4, <3>2, <3>3, <4>1
      <4>4. ASSUME NEW i \in 1..Len(Passed')
            PROVE  Passed'[i] = sent[i]
        <5>1. CASE i = Len(Passed) + 1
          BY <3>2, <3>3, <5>1
        <5>2. CASE i # Len(Passed) + 1
          <6>1. i \in 1..Len(Passed)
            BY <1>4, <3>3, <5>2
          <6> QED
            BY <3>3, <4>2, <5>2, <6>1
        <5> QED
          BY <5>1, <5>2
      <4> QED
        BY <4>3, <4>4 DEF Begins
    <3> QED
      BY <3>2, <3>3, <3>4
  <2> QED
    BY <1>1, <2>3, <2>6 DEF FlowInv, InStepWithServer, Ordered
<1>9. CASE m[1] = "close"
  <2>1. task' = [pc |-> "closing", item |-> Ne!Stopped]
    BY <1>3, <1>7, <1>9
  <2>2. task'.pc = "closing" /\ task'.item = Ne!Stopped /\ Ne!Stopped # None
    BY <1>5, <2>1
  <2>3. FlowTypes'
    BY <1>1, <1>2, <1>5, <2>1, <2>2 DEF FlowTypes, TaskRecords
  <2>4. Passed' = got \o ch \o <<Ne!Stopped>>
    BY <1>1, <2>2 DEF Passed, Hand
  <2>5. Passed' = Append(Passed, Ne!Stopped)
    BY <1>1, <1>4, <1>5, <2>4 DEF FlowTypes
  <2>6. subscription \in {"held", "stopping", "stopped"} => Begins(Passed, sent)
    BY <1>1 DEF InStepWithServer
  <2> QED
    BY <1>1, <1>4, <2>2, <2>3, <2>5, <2>6 DEF FlowInv, InStepWithServer, Ordered
<1>10. CASE m \notin Ne!Updates /\ m[1] # "close"
  <2>1. \/ task' = [pc |-> "over", item |-> None]
        \/ task' = task
    BY <1>3, <1>7, <1>10
  <2>2. /\ task'.item = None /\ task'.pc \in {"over", "run"}
        /\ task' \in TaskRecords
    BY <1>1, <1>4, <2>1 DEF FlowTypes, TaskRecords
  <2>3. FlowTypes'
    BY <1>1, <1>2, <2>2 DEF FlowTypes
  <2>4. Passed' = Passed
    BY <1>1, <1>4, <2>2 DEF Passed, Hand
  <2>5. ASSUME subscription \in {"held", "stopping", "stopped"}
        PROVE  Begins(Passed, sent) /\ Follow(wire', sent, Len(Passed))
    <3>1. Begins(Passed, sent) /\ Follow(wire, sent, Len(Passed))
      BY <1>1, <2>5 DEF InStepWithServer
    <3> QED
      BY <1>6, <1>10, <3>1 DEF m
  <2> QED
    BY <1>1, <2>3, <2>4, <2>5 DEF FlowInv, InStepWithServer, Ordered
<1> QED
  BY <1>8, <1>9, <1>10

LEMMA DeliverKeeps ==
  ASSUME Ne!NetworkAssumption, FlowInv, Ne!Deliver
  PROVE  FlowInv'
<1>1. /\ FlowTypes /\ InStepWithServer /\ task.pc \in {"sending", "closing"}
      /\ UNCHANGED <<wire, got, subscription, sent>>
  BY DEF FlowInv, Ne!Deliver
<1>2. task.item \in Carried /\ None \notin Carried /\ task.item # None
  <2>1. task.item \in Carried
    BY <1>1 DEF FlowTypes, Carried
  <2> QED
    BY <2>1 DEF Carried, Ne!NetworkAssumption
<1>3. CASE /\ subscription # "dropped" /\ ch' = Append(ch, task.item)
           /\ task' = [pc |-> IF task.pc = "closing" THEN "over" ELSE "run", item |-> None]
  <2>1. task'.pc \in {"over", "run"} /\ task'.item = None /\ (task'.pc = "run" => task.pc = "sending")
    BY <1>1, <1>3
  <2>2. ch' \in Seq(Carried)
    BY <1>1, <1>2, <1>3 DEF FlowTypes
  <2>3. task' \in TaskRecords
    BY <1>3 DEF TaskRecords
  <2>4. FlowTypes'
    BY <1>1, <2>1, <2>2, <2>3 DEF FlowTypes
  <2>5. Passed = got \o ch \o <<task.item>>
    BY <1>2 DEF Passed, Hand
  <2>6. Passed' = got \o Append(ch, task.item) \o <<>>
    BY <1>1, <1>3, <2>1 DEF Passed, Hand
  <2> DEFINE i == task.item
  <2>7. i \in Carried
    BY <1>2
  <2> HIDE DEF i
  <2>8. got \o ch \o <<i>> = got \o Append(ch, i) \o <<>>
    <3> DEFINE x == got \o ch \o <<i>>
               y == got \o Append(ch, i) \o <<>>
    <3>1. got \in Seq(Carried) /\ ch \in Seq(Carried) /\ <<i>> \in Seq(Carried)
      BY <1>1, <2>7 DEF FlowTypes
    <3>2. got \o ch \in Seq(Carried) /\ Append(ch, i) \in Seq(Carried)
      BY <2>7, <3>1
    <3>3. /\ x \in Seq(Carried) /\ Len(x) = Len(got) + Len(ch) + 1
          /\ \A k \in 1..Len(x) : x[k] = IF k <= Len(got) THEN got[k]
                                      ELSE IF k <= Len(got) + Len(ch) THEN ch[k - Len(got)] ELSE i
      BY <3>1, <3>2
    <3>4. /\ y \in Seq(Carried) /\ Len(y) = Len(got) + Len(ch) + 1
          /\ \A k \in 1..Len(y) : y[k] = IF k <= Len(got) THEN got[k]
                                      ELSE IF k <= Len(got) + Len(ch) THEN ch[k - Len(got)] ELSE i
      BY <2>7, <3>1, <3>2
    <3> HIDE DEF x, y
    <3>5. x = y
      BY <3>3, <3>4, SeqEqual
    <3> QED
      BY <3>5 DEF x, y
  <2>9. Passed' = Passed
    BY <2>5, <2>6, <2>8 DEF i
  <2> QED
    BY <1>1, <2>1, <2>4, <2>9, SameFlow
<1>4. CASE subscription = "dropped" /\ ch' = ch /\ task' = [pc |-> "over", item |-> None]
  <2>1. FlowTypes'
    BY <1>1, <1>4 DEF FlowTypes, TaskRecords
  <2> QED
    BY <1>1, <1>4, <2>1 DEF FlowInv, InStepWithServer
<1> QED
  BY <1>3, <1>4 DEF Ne!Deliver

LEMMA ConsumeKeeps ==
  ASSUME Ne!NetworkAssumption, FlowInv, Ne!Consume
  PROVE  FlowInv'
<1>1. /\ FlowTypes /\ subscription = "held" /\ ch # <<>>
      /\ got' = Append(got, Head(ch)) /\ ch' = Tail(ch) /\ UNCHANGED <<wire, task, subscription, sent>>
  BY DEF FlowInv, Ne!Consume
<1>2. got' \in Seq(Carried) /\ ch' \in Seq(Carried) /\ Hand \in Seq(Carried)
  BY <1>1 DEF FlowTypes, Hand, TaskRecords
<1>3. FlowTypes'
  BY <1>1, <1>2 DEF FlowTypes
<1>4. got' \o ch' = got \o ch
  BY <1>1 DEF FlowTypes
<1>5. Passed' = Passed
  <2>1. Hand' = Hand
    BY <1>1 DEF Hand
  <2> QED
    BY <1>4, <2>1 DEF Passed
<1> QED
  BY <1>1, <1>3, <1>5, SameFlow

LEMMA FlowStep ==
  ASSUME Ne!NetworkAssumption, FlowInv, [Ne!Next]_Ne!nvars
  PROVE  FlowInv'
<1>1. ASSUME \/ Ne!Connect \/ Ne!ConnectRefused \/ Ne!Close \/ Ne!Reconnect \/ Ne!Request
             \/ Ne!Cancel \/ Ne!RequestSteps \/ Ne!SubscribeFails \/ UNCHANGED Ne!nvars
      PROVE  UNCHANGED Ne!subVars
  BY <1>1 DEF Ne!Connect, Ne!ConnectRefused, Ne!Close, Ne!Reconnect, Ne!Request, Ne!Cancel,
       Ne!RequestSteps, Ne!Attempt, Ne!Retry, Ne!Cancelled, Ne!SubscribeFails, Ne!nvars, Ne!subVars
<1> QED
  BY <1>1, QuietKeeps, SubscribeKeeps, ServerSendsKeeps, TaskTakesKeeps, DeliverKeeps,
     ConsumeKeeps DEF Ne!Next, Ne!TaskSteps

NetInv == Tries /\ FlowInv

LEMMA NetStarts ==
  ASSUME Ne!NetworkAssumption
  PROVE  Ne!Init => NetInv
<1> SUFFICES ASSUME Ne!Init PROVE NetInv
  OBVIOUS
<1>1. /\ request_ = [pc |-> "idle", attempt |-> 0, told |-> None] /\ ran = <<>>
      /\ client \in [kind : {"http", "graphql"}, set : {FALSE}, opts : {None}]
  BY DEF Ne!Init, Ne!Idle
<1>2. Ne!Retries \in Nat
  BY DEF Ne!NetworkAssumption, Ne!Retries
<1>3. Ne!RequestHonest
  BY <1>1, <1>2 DEF Ne!RequestHonest
<1>6. /\ request_ \in [pc : {"idle", "attempt", "waiting", "done"}, attempt : Nat,
                   told : Outcomes \cup {None}]
      /\ request_.pc = "idle" /\ request_.attempt = 0
  BY <1>1
<1>7. client \in [kind : {"http", "graphql"}, set : BOOLEAN, opts : {None, "given"}]
  BY <1>1
<1>4. Tries
  BY <1>1, <1>2, <1>3, <1>6, <1>7 DEF Tries
<1>5. FlowInv
  BY DEF Ne!Init, Ne!Quiet, FlowInv, FlowTypes, InStepWithServer, Ne!NetworkAssumption, TaskRecords
<1> QED
  BY <1>4, <1>5 DEF NetInv

LEMMA NetStays ==
  ASSUME Ne!NetworkAssumption
  PROVE  NetInv /\ [Ne!Next]_Ne!nvars => NetInv'
BY TriesStep, FlowStep DEF NetInv

LEMMA NetShows ==
  ASSUME Ne!NetworkAssumption
  PROVE  NetInv => Ne!RequestHonest /\ Ne!UpdatesInOrder
BY OrderIs DEF NetInv, Tries, FlowInv, InStepWithServer, Ne!UpdatesInOrder

\* What the run checks of the client: a request runs at most once for each attempt that is
\* allowed, what its caller is told is what the server answered last, and nothing is sent
\* without a pool (exec_with_retries); and the updates of a subscription reach its consumer
\* in order and unbroken, whatever the channel's capacity, with the notice that the stream
\* stopped after them (run_subscription).
THEOREM NetworkHolds ==
  ASSUME Ne!NetworkAssumption
  PROVE  Ne!Spec => [](Ne!RequestHonest /\ Ne!UpdatesInOrder)
<1>1. Ne!Init => NetInv
  BY NetStarts
<1>2. NetInv /\ [Ne!Next]_Ne!nvars => NetInv'
  BY NetStays
<1>3. NetInv => Ne!RequestHonest /\ Ne!UpdatesInOrder
  BY NetShows
<1> QED
  BY <1>1, <1>2, <1>3, PTL DEF Ne!Spec

-----------------------------------------------------------------------------
(* Errors: an error on its way to its caller.                              *)

Given == translator \in Er!Translators /\ err \in Er!Errs /\ request \in Er!Requests

\* What the handler's error is when it has crossed tonic.
Crossed ==
  CASE err.form = "problem" -> Er!Carried(err)
    [] err.form = "invalid" -> Er!validation_status(err.violations)
    [] OTHER -> IF err.typed.form = "status" THEN err.typed.status
                ELSE Er!St("Unknown", Er!to_string(err, 1), <<>>)

\* The stages are functions of the error and the request.
Pipeline ==
  /\ stage \in {"raised", "crossed", "translated", "hinted", "sent"}
  /\ stage = "crossed" => status = Crossed
  /\ stage = "translated" => status = Er!translate(Crossed)
  /\ stage \in {"hinted", "sent"} => status = Er!rewrite(Er!translate(Crossed))

ErrInv == Given /\ Pipeline

\* The forms an error may have.
LEMMA Forms ==
  ASSUME Er!ErrorsAssumption, err \in Er!Errs
  PROVE  \/ err.form = "problem" /\ err \in Er!Problems
         \/ /\ err.form = "chain" /\ err.msg \in Seq(Er!Segment) /\ err.msg # <<>>
            /\ err.typed \in Er!Typed /\ Er!IsChain(err) /\ err.links \subseteq DOMAIN err.msg
         \/ err.form = "invalid" /\ err.violations \in 1..2
<1>1. CASE err \in Er!Problems
  BY <1>1 DEF Er!Problems
<1>2. CASE err \in UNION {Er!Chains(n) : n \in 1..MaxSegments}
  <2>1. PICK n \in 1..MaxSegments : err \in Er!Chains(n)
    BY <1>2
  <2>2. n \in Nat /\ n # 0
    BY <2>1 DEF Er!ErrorsAssumption
  <2>3. /\ err.form = "chain" /\ err.msg \in [1..n -> Er!Segment] /\ err.links \in SUBSET (1..n)
        /\ err.typed \in Er!Typed /\ Er!IsChain(err)
    BY <2>1 DEF Er!Chains
  <2>4. err.msg \in Seq(Er!Segment) /\ Len(err.msg) = n /\ DOMAIN err.msg = 1..n
    BY <2>2, <2>3
  <2> QED
    BY <2>2, <2>3, <2>4
<1>3. CASE err \in [form : {"invalid"}, violations : 1..2]
  BY <1>3
<1> QED
  BY <1>1, <1>2, <1>3 DEF Er!Errs

LEMMA SomeIs == Er!Some \in Er!Problems
BY DEF Er!Some, Er!Problems

\* What a link of a chain may be.
LEMMA TypedIs ==
  ASSUME NEW t \in Er!Typed
  PROVE  /\ t.form \in {"plain", "ref", "problem", "status"} /\ t.problem = Er!Some
         /\ t.form = "status" => t.status \in Er!Statuses \cup {Er!Carried(Er!Some)}
BY DEF Er!Typed

LEMMA StatusIs ==
  ASSUME NEW s \in Er!Statuses
  PROVE  /\ s.code \in {"NotFound", "AlreadyExists", "Aborted", "Internal", "Unknown"}
         /\ s.msg \in {<<"nf">>, <<"x">>}
         /\ \E d : d.domain = "domain" /\ s.details = <<d>>
         /\ ~Er!IsCarrier(s)
<1>1. PICK r \in {"", "NOT_FOUND", "OWN"} : s.details = <<Er!Info(r, "domain", <<>>)>>
  BY DEF Er!Statuses
<1> DEFINE d == Er!Info(r, "domain", <<>>)
<1>2. d.domain = "domain"
  BY DEF Er!Info
<1> HIDE DEF d
<1>3. s.details = <<d>> /\ <<d>> # <<>> /\ <<d>>[1] = d
  BY <1>1 DEF d
<1>4. ~Er!IsCarrier(s)
  BY <1>2, <1>3 DEF Er!IsCarrier
<1> QED
  BY <1>2, <1>3, <1>4 DEF Er!Statuses

\* A problem comes out of its carrier as it went in.
LEMMA CarrierKeeps ==
  ASSUME NEW p \in Er!Problems
  PROVE  Er!IsCarrier(Er!Carried(p)) /\ Er!problem_status(Er!from_carrier(Er!Carried(p))) = Er!problem_status(p)
<1> DEFINE own == {<<"metadata", k>> : k \in p.meta}
           fields == {<<"kind">>, <<"reason">>, <<"field">>, <<"named">>}
           m == [k \in own \cup fields |->
                  CASE k = <<"kind">> -> p.kind [] k = <<"reason">> -> p.reason
                    [] k = <<"field">> -> (IF p.field THEN "f" ELSE "")
                    [] k = <<"named">> -> (IF p.named THEN "n" ELSE "") [] OTHER -> "v"]
           d == Er!Info("UNTRANSLATED", "carrier", m)
           q == Er!from_carrier(Er!Carried(p))
<1>1. Er!Carried(p).details = <<d>>
  BY DEF Er!Carried, Er!St
<1>2. d.domain = "carrier" /\ d.meta = m
  BY DEF Er!Info
<1>0. p.meta \in SUBSET {"kind", "x"} /\ p.field \in BOOLEAN /\ p.named \in BOOLEAN
      /\ p.kind \in {"", "nf", "odd"} /\ p.reason \in {"", "DECLARED", "OWN"}
  BY DEF Er!Problems
<1>3. /\ m[<<"kind">>] = p.kind /\ m[<<"reason">>] = p.reason
      /\ m[<<"field">>] = (IF p.field THEN "f" ELSE "")
      /\ m[<<"named">>] = (IF p.named THEN "n" ELSE "")
      /\ DOMAIN m = own \cup fields
  OBVIOUS
<1>4. {k[2] : k \in {k \in own \cup fields : Len(k) = 2}} = p.meta
  <2>1. \A k \in own : Len(k) = 2 /\ k[2] \in p.meta
    <3>1. \A x : Len(<<"metadata", x>>) = 2 /\ <<"metadata", x>>[2] = x
      OBVIOUS
    <3> QED
      BY <3>1, Zenon
  <2>2. \A k \in fields : Len(k) = 1
    OBVIOUS
  <2>3. \A x \in p.meta : <<"metadata", x>> \in own /\ <<"metadata", x>>[2] = x
    OBVIOUS
  <2> HIDE DEF own, fields
  <2> DEFINE two == {k \in own \cup fields : Len(k) = 2}
  <2>4. two = own
    BY <2>1, <2>2
  <2> HIDE DEF two
  <2>5. {k[2] : k \in two} \subseteq p.meta
    BY <2>1, <2>4
  <2>6. ASSUME NEW x \in p.meta
        PROVE  x \in {k[2] : k \in two}
    BY <2>3, <2>4
  <2> QED
    BY <2>5, <2>6 DEF two
<1> HIDE DEF m, d, own, fields
<1>5. Er!Carried(p).details[1] = d
  BY <1>1
<1>6. Er!IsCarrier(Er!Carried(p))
  BY <1>1, <1>2, <1>5 DEF Er!IsCarrier
<1>7. /\ q.kind = p.kind /\ q.reason = p.reason /\ q.meta = p.meta
      /\ (q.field <=> p.field) /\ (q.named <=> p.named)
  <2>1. /\ q.kind = m[<<"kind">>] /\ q.reason = m[<<"reason">>]
        /\ q.meta = {k[2] : k \in {k \in DOMAIN m : Len(k) = 2}}
        /\ (q.field <=> m[<<"field">>] # "") /\ (q.named <=> m[<<"named">>] # "")
    BY <1>2, <1>5 DEF Er!from_carrier
  <2> QED
    BY <1>3, <1>4, <2>1
<1> HIDE DEF q
<1>8. Er!problem_status(q) = Er!problem_status(p)
  BY <1>7, Zenon DEF Er!problem_status
<1> QED
  BY <1>6, <1>8 DEF q

\* Of a chain whose text hides nothing every link says an end of that text.
LEMMA ShownIs ==
  ASSUME NEW c, c.msg \in Seq(Er!Segment), c.hidden = {}, NEW i \in DOMAIN c.msg
  PROVE  Er!to_string(c, i) = SubSeq(c.msg, i, Len(c.msg))
<1> DEFINE Halts(j) == j = Len(c.msg) \/ j + 1 \in c.hidden
           Stops(j) == Halts(j) /\ \A k \in i..(j - 1) : ~Halts(k)
           upto == CHOOSE j \in i..Len(c.msg) : Stops(j)
<1>1. Len(c.msg) \in Nat /\ i \in 1..Len(c.msg)
  OBVIOUS
<1>2. Stops(Len(c.msg)) /\ Len(c.msg) \in i..Len(c.msg)
  BY <1>1
<1>3. \A j \in i..Len(c.msg) : Stops(j) => j = Len(c.msg)
  BY <1>1
<1>4. Er!to_string(c, i) = SubSeq(c.msg, i, upto)
  BY DEF Er!to_string
<1> HIDE DEF Stops
<1>5. upto = Len(c.msg)
  BY <1>2, <1>3
<1> QED
  BY <1>4, <1>5

\* The sentinels of its sources are therefore those of its text.
LEMMA ChainIs ==
  ASSUME NEW c, c.msg \in Seq(Er!Segment), c.msg # <<>>, c.hidden = {}, 1 \in c.links,
         c.links \subseteq DOMAIN c.msg, c.typed.form = "plain"
  PROVE  /\ Er!to_string(c, 1) = c.msg /\ Er!message_of(c, 1) = c.msg
         /\ Er!classify({Er!message_of(c, i) : i \in c.links}) = Er!classify_message(c.msg)
<1> DEFINE texts == {Er!message_of(c, i) : i \in c.links}
<1>1. \A i \in c.links : Er!message_of(c, i) = SubSeq(c.msg, i, Len(c.msg))
  BY ShownIs DEF Er!message_of
<1>2. SubSeq(c.msg, 1, Len(c.msg)) = c.msg /\ 1 \in DOMAIN c.msg
  OBVIOUS
<1>3. Er!to_string(c, 1) = c.msg /\ Er!message_of(c, 1) = c.msg
  BY <1>1, <1>2, ShownIs
<1>4. ASSUME NEW x
      PROVE  (\E m \in texts : Er!wraps(m, x)) <=> (\E m \in {c.msg} : Er!wraps(m, x))
  <2>1. ASSUME Er!wraps(c.msg, x)
        PROVE  \E m \in texts : Er!wraps(m, x)
    BY <1>3, <2>1
  <2>2. ASSUME NEW m \in texts, Er!wraps(m, x)
        PROVE  Er!wraps(c.msg, x)
    <3>1. PICK i \in DOMAIN c.msg : m = SubSeq(c.msg, i, Len(c.msg))
      BY <1>1
    <3>2. PICK j \in DOMAIN m : m[j] = x
      BY <2>2 DEF Er!wraps
    <3>3. i + j - 1 \in DOMAIN c.msg /\ c.msg[i + j - 1] = x
      BY <3>1, <3>2
    <3> QED
      BY <2>2, <3>3 DEF Er!wraps
  <2> QED
    BY <2>1, <2>2
<1> HIDE DEF texts
<1> DEFINE a == {i \in DOMAIN translator.kinds : \E m \in texts : Er!wraps(m, translator.kinds[i].sentinel)}
           bb == {i \in DOMAIN translator.kinds : \E m \in {c.msg} : Er!wraps(m, translator.kinds[i].sentinel)}
<1>6. a = bb
  BY <1>4
<1>7. Er!classify(texts) = IF a = {} THEN 0 ELSE CHOOSE i \in a : \A j \in a : i <= j
  BY DEF Er!classify
<1>8. Er!classify({c.msg}) = IF bb = {} THEN 0 ELSE CHOOSE i \in bb : \A j \in bb : i <= j
  BY DEF Er!classify
<1> HIDE DEF a, bb
<1>5. Er!classify(texts) = Er!classify({c.msg})
  BY <1>6, <1>7, <1>8
<1> QED
  BY <1>3, <1>5 DEF Er!classify_message, texts

LEMMA KindsAre ==
  ASSUME Given
  PROVE  /\ DOMAIN translator.kinds = 1..2
         /\ \A i \in 1..2 : translator.kinds[i] \in {Er!NF, Er!SO}
<1>1. translator.kinds = <<Er!NF, Er!SO>> \/ translator.kinds = <<Er!SO, Er!NF>>
  BY DEF Given, Er!Translators
<1> QED
  BY <1>1

\* Classifying finds the first kind that one of the texts wraps, if there is one.
LEMMA Classified ==
  ASSUME Given, NEW texts
  PROVE  \/ /\ Er!classify(texts) = 0
            /\ \A i \in 1..2 : \A m \in texts : ~Er!wraps(m, translator.kinds[i].sentinel)
         \/ /\ Er!classify(texts) \in 1..2
            /\ translator.kinds[Er!classify(texts)] \in {Er!NF, Er!SO}
            /\ \E m \in texts : Er!wraps(m, translator.kinds[Er!classify(texts)].sentinel)
<1> DEFINE hits == {i \in DOMAIN translator.kinds : \E m \in texts : Er!wraps(m, translator.kinds[i].sentinel)}
<1>1. hits \subseteq 1..2 /\ \A i \in 1..2 : i \in hits <=> \E m \in texts : Er!wraps(m, translator.kinds[i].sentinel)
  BY KindsAre
<1>2. Er!classify(texts) = IF hits = {} THEN 0 ELSE CHOOSE i \in hits : \A j \in hits : i <= j
  BY DEF Er!classify
<1> HIDE DEF hits
<1>3. CASE hits # {}
  <2>1. \E i \in hits : \A j \in hits : i <= j
    <3>1. CASE 1 \in hits
      <4>1. \A j \in hits : 1 <= j
        BY <1>1
      <4> QED
        BY <3>1, <4>1
    <3>2. CASE 1 \notin hits
      <4>1. \A j \in hits : j = 2
        BY <1>1, <3>2
      <4> QED
        BY <1>3, <4>1
    <3> QED
      BY <3>1, <3>2
  <2>2. (CHOOSE i \in hits : \A j \in hits : i <= j) \in hits
    BY <2>1
  <2>3. Er!classify(texts) \in hits
    BY <1>2, <1>3, <2>2
  <2> QED
    BY <1>1, <2>3, KindsAre
<1>4. CASE hits = {}
  BY <1>1, <1>2, <1>4
<1> QED
  BY <1>3, <1>4

\* What the handlers say.
LEMMA Handlers ==
  ASSUME Given, NEW e
  PROVE  Er!handled(e) \in {"", "ref", "busy"}
<1> DEFINE Knows(h) == (h = "ref" /\ Er!Refs(e)) \/ (h = "busy" /\ Er!Busy(e))
           hits == {i \in DOMAIN translator.handlers : Knows(translator.handlers[i])}
           first == CHOOSE i \in hits : \A j \in hits : i <= j
<1>1. translator.handlers = <<>> \/ translator.handlers = <<"busy", "ref">>
  BY DEF Given, Er!Translators
<1>2. Er!handled(e) = IF hits = {} THEN "" ELSE translator.handlers[first]
  BY DEF Er!handled
<1>3. hits \subseteq 1..2 /\ \A i \in hits : translator.handlers[i] \in {"ref", "busy"}
  BY <1>1
<1> HIDE DEF hits
<1>4. ASSUME hits # {}
      PROVE  first \in hits
  <2>1. CASE 1 \in hits
    <3>1. \A j \in hits : 1 <= j
      BY <1>3
    <3> QED
      BY <2>1, <3>1
  <2>2. CASE 1 \notin hits
    <3>1. \A j \in hits : j = 2
      BY <1>3, <2>2
    <3> QED
      BY <1>4, <3>1
  <2> QED
    BY <2>1, <2>2
<1> QED
  BY <1>2, <1>3, <1>4

\* A handler that knows a chain or a status knows its typed link.
LEMMA HandlerKnows ==
  ASSUME NEW e, e.typed.form \notin {"ref", "status"}
  PROVE  Er!handled(e) = ""
BY DEF Er!handled, Er!Refs, Er!Busy

\* What is told of a status that crossed tonic and is nothing the translator knows.
LEMMA UnknownIs ==
  ASSUME Given, NEW m, NEW s, s = Er!St("Unknown", m, <<>>)
  PROVE  Er!translate(s) =
           IF Er!classify_message(m) = 0 THEN Er!St("Internal", m, <<>>) ELSE Er!Of(Er!classify_message(m), m)
<1>1. s.code = "Unknown" /\ s.msg = m /\ s.details = <<>>
  BY DEF Er!St
<1>2. ~Er!IsCarrier(s)
  BY <1>1 DEF Er!IsCarrier
<1>3. Er!handled(Er!Alone(s)) = ""
  <2>1. ~Er!Refs(Er!Alone(s)) /\ ~Er!Busy(Er!Alone(s))
    BY <1>1 DEF Er!Refs, Er!Busy, Er!Alone
  <2> QED
    BY <2>1 DEF Er!handled
<1> QED
  BY <1>1, <1>2, <1>3, Zenon DEF Er!translate

\* Whichever way an error takes, its caller is told the same.
LEMMA PathsMeet ==
  ASSUME Er!ErrorsAssumption, Given, err.form = "problem" \/ Er!Plain(err) \/ Er!Meant(err)
  PROVE  Er!translate(Crossed) = Er!to_status(err)
<1>1. CASE err.form = "problem"
  <2>1. err \in Er!Problems
    BY <1>1, Forms DEF Given
  <2>2. Crossed = Er!Carried(err)
    BY <1>1 DEF Crossed
  <2> QED
    BY <1>1, <2>1, <2>2, CarrierKeeps DEF Er!translate, Er!to_status
<1>2. CASE Er!Plain(err)
  <2> DEFINE m == err.msg
             k == Er!classify_message(m)
             s == Er!St("Unknown", m, <<>>)
  <2>1. /\ m \in Seq(Er!Segment) /\ m # <<>> /\ err.form = "chain" /\ err.typed.form = "plain"
        /\ err.hidden = {} /\ 1 \in err.links /\ err.links \subseteq DOMAIN m
    BY <1>2, Forms DEF Given, Er!Plain, Er!IsChain
  <2>2. /\ Er!to_string(err, 1) = m /\ Er!message_of(err, 1) = m
        /\ Er!classify({Er!message_of(err, i) : i \in err.links}) = k
    BY <2>1, ChainIs
  <2>3. Crossed = s
    BY <2>1, <2>2 DEF Crossed
  <2>4. Er!handled(err) = ""
    BY <2>1, HandlerKnows
  <2>5. Er!translate(s) = IF k = 0 THEN Er!St("Internal", m, <<>>) ELSE Er!Of(k, m)
    BY UnknownIs
  <2>6. Er!to_status(err) = IF k = 0 THEN Er!St("Internal", m, <<>>) ELSE Er!Of(k, m)
    BY <2>1, <2>2, <2>4 DEF Er!to_status
  <2> QED
    BY <2>3, <2>5, <2>6
<1>3. CASE Er!Meant(err)
  <2> DEFINE s == err.typed.status
  <2>1. err.form = "chain" /\ err.typed.form = "status"
    BY <1>3 DEF Er!Meant
  <2>2. Crossed = s
    BY <2>1 DEF Crossed
  <2>3. CASE Er!IsCarrier(s)
    BY <2>1, <2>2, <2>3 DEF Er!translate, Er!to_status
  <2>4. CASE ~Er!IsCarrier(s)
    <3>1. /\ s.code # "Unknown" /\ Er!handled(err) = Er!handled(Er!Alone(s))
          /\ Er!handled(err) = "" => Er!classify({Er!message_of(err, i) : i \in err.links}) = 0
      BY <1>3, <2>4 DEF Er!Meant
    <3>2. CASE Er!handled(err) # ""
      BY <2>1, <2>2, <2>4, <3>1, <3>2 DEF Er!translate, Er!to_status
    <3>3. CASE Er!handled(err) = ""
      BY <2>1, <2>2, <2>4, <3>1, <3>3 DEF Er!translate, Er!to_status
    <3> QED
      BY <3>2, <3>3
  <2> QED
    BY <2>3, <2>4
<1> QED
  BY <1>1, <1>2, <1>3

\* What the translator makes of a kind, of a problem and of what a handler knows is
\* not internal.
LEMMA CodesOf ==
  ASSUME Given
  PROVE  /\ \A k, m : translator.kinds[k] \in {Er!NF, Er!SO} => Er!Of(k, m).code \in {"NotFound", "FailedPrecondition"}
         /\ \A p : Er!problem_status(p).code \in {"NotFound", "FailedPrecondition", "ResourceExhausted", "Unknown"}
         /\ \A h : Er!Reply(h).code \in {"FailedPrecondition", "Unavailable"}
<1>1. ASSUME NEW k, NEW m, translator.kinds[k] \in {Er!NF, Er!SO}
      PROVE  Er!Of(k, m).code \in {"NotFound", "FailedPrecondition"}
  BY <1>1 DEF Er!Of, Er!with_reason, Er!St, Er!NF, Er!SO
<1>2. ASSUME NEW p
      PROVE  Er!problem_status(p).code \in {"NotFound", "FailedPrecondition", "ResourceExhausted", "Unknown"}
  <2> DEFINE k == IF p.kind = "" THEN 0 ELSE Er!classify_message(<<p.kind>>)
             code == IF k # 0 THEN translator.kinds[k].code
                     ELSE IF p.reason = "DECLARED" THEN "ResourceExhausted" ELSE "Unknown"
  <2>1. k = 0 \/ translator.kinds[k] \in {Er!NF, Er!SO}
    BY Classified DEF Er!classify_message
  <2>2. Er!problem_status(p).code = code
    BY DEF Er!problem_status, Er!St
  <2> HIDE DEF k
  <2>3. Er!NF.code = "NotFound" /\ Er!SO.code = "FailedPrecondition"
    BY DEF Er!NF, Er!SO
  <2> QED
    BY <2>1, <2>2, <2>3
<1>3. \A h : Er!Reply(h).code \in {"FailedPrecondition", "Unavailable"}
  BY DEF Er!Reply, Er!St
<1> QED
  BY <1>1, <1>2, <1>3

\* What is internal when it is rendered is internal when it crosses tonic.
LEMMA NeverWorse ==
  ASSUME Er!ErrorsAssumption, Given, err.form # "invalid", Er!to_status(err).code = "Internal"
  PROVE  Er!translate(Crossed).code = "Internal"
<1>1. err.form # "problem"
  BY CodesOf DEF Er!to_status
<1> DEFINE s == err.typed.status
           t == err.typed.form
           texts == {Er!message_of(err, i) : i \in err.links}
           k == Er!classify(texts)
<1>2. /\ err.form = "chain" /\ err.typed \in Er!Typed /\ Er!IsChain(err)
  BY <1>1, Forms DEF Given
<1>3. t # "problem" /\ ~(t = "status" /\ Er!IsCarrier(s))
  BY <1>1, CodesOf DEF Er!to_status
<1>4. Er!handled(err) = ""
  BY <1>1, <1>3, CodesOf DEF Er!to_status
<1>5. k = 0
  <2> SUFFICES ASSUME k # 0 PROVE FALSE
    OBVIOUS
  <2>1. Er!to_status(err) = Er!Of(k, Er!message_of(err, 1))
    BY <1>1, <1>3, <1>4 DEF Er!to_status
  <2>2. translator.kinds[k] \in {Er!NF, Er!SO}
    BY Classified
  <2> QED
    BY <2>1, <2>2, CodesOf
<1>6. CASE t = "status"
  <2>1. Er!to_status(err) = s /\ Crossed = s
    BY <1>1, <1>2, <1>3, <1>4, <1>5, <1>6 DEF Er!to_status, Crossed
  <2>2. Er!handled(Er!Alone(s)) = ""
    <3>1. s.code = "Internal"
      BY <2>1
    <3>2. ~Er!Refs(Er!Alone(s)) /\ ~Er!Busy(Er!Alone(s))
      BY <3>1 DEF Er!Refs, Er!Busy, Er!Alone
    <3> QED
      BY <3>2 DEF Er!handled
  <2> QED
    BY <1>3, <1>6, <2>1, <2>2 DEF Er!translate
<1>7. CASE t # "status"
  <2> DEFINE m == Er!to_string(err, 1)
  <2>1. Crossed = Er!St("Unknown", m, <<>>)
    BY <1>2, <1>7 DEF Crossed
  <2>2. m \in texts
    BY <1>2, <1>7 DEF Er!message_of, Er!IsChain
  <2> HIDE DEF m, texts
  <2>3. \A i \in 1..2 : ~Er!wraps(m, translator.kinds[i].sentinel)
    BY <1>5, <2>2, Classified
  <2>4. Er!classify({m}) = 0
    BY <2>3, Classified
  <2>5. Er!translate(Crossed) = Er!St("Internal", m, <<>>)
    BY <2>1, <2>4, UnknownIs DEF Er!classify_message
  <2> QED
    BY <2>5 DEF Er!St
<1> QED
  BY <1>6, <1>7

-----------------------------------------------------------------------------
(* What the translator hands on: no carrier, and codes and texts of its own. *)

WireCodes == {"NotFound", "FailedPrecondition", "ResourceExhausted", "Unknown", "Internal",
           "AlreadyExists", "Aborted", "InvalidArgument", "Unavailable"}

\* Its details begin with one that is no carrier's; a status that is not the translator's
\* own for a failure nobody classified has some.
Translated(s) ==
  /\ s.code \in WireCodes /\ s.msg # <<"hint">>
  /\ s.code \notin {"Unknown", "Internal"} => s.details # <<>>
  /\ s.details # <<>> => s.details[1].domain # "carrier"
  /\ \E S : s.details \in Seq(S)

\* Stripped of its leading sentinels a message keeps at least its last segment.
LEMMA PlainIs ==
  ASSUME NEW msg \in Seq(Er!Segment), msg # <<>>
  PROVE  Er!plain_message(msg) # <<"hint">>
<1> DEFINE told == {translator.kinds[i].sentinel : i \in DOMAIN translator.kinds} \cup translator.strip
           Stays(i) == msg[i] \notin told \/ i = Len(msg)
           T == {i \in DOMAIN msg : Stays(i)}
<1>1. Len(msg) \in T /\ T \subseteq Nat /\ T # {}
  OBVIOUS
<1>2. PICK x \in T : \A y \in T : ~(<<y, x>> \in OpToRel(<, Nat))
  BY <1>1, NatLessThanWellFounded, WFMin
<1>3. \A j \in 1..(x - 1) : msg[j] \in told
  <2> SUFFICES ASSUME NEW j \in 1..(x - 1), msg[j] \notin told
               PROVE  FALSE
    OBVIOUS
  <2>1. j \in DOMAIN msg /\ j < x /\ j \in Nat /\ x \in Nat
    BY <1>1
  <2>2. j \in T
    BY <2>1
  <2>3. <<j, x>> \in OpToRel(<, Nat)
    BY <2>1 DEF OpToRel
  <2> QED
    BY <1>2, <2>2, <2>3
<1> DEFINE Keep(i) == (\A j \in 1..(i - 1) : msg[j] \in told) /\ (msg[i] \notin told \/ i = Len(msg))
           keep == CHOOSE i \in DOMAIN msg : Keep(i)
<1>4. x \in DOMAIN msg /\ Keep(x)
  BY <1>3
<1>5. Er!plain_message(msg) = SubSeq(msg, keep, Len(msg))
  BY DEF Er!plain_message
<1> HIDE DEF Keep
<1>6. keep \in DOMAIN msg
  BY <1>4
<1> HIDE DEF keep
<1>7. /\ SubSeq(msg, keep, Len(msg)) \in Seq(Er!Segment)
      /\ Len(SubSeq(msg, keep, Len(msg))) >= 1
  <2>1. keep \in 1..Len(msg) /\ Len(msg) \in Nat
    BY <1>6
  <2>2. \A i \in 1..Len(msg) :
          /\ SubSeq(msg, i, Len(msg)) \in Seq(Er!Segment)
          /\ Len(SubSeq(msg, i, Len(msg))) = Len(msg) - i + 1
    OBVIOUS
  <2> QED
    BY <2>1, <2>2
<1>8. SubSeq(msg, keep, Len(msg))[1] \in Er!Segment
  BY <1>7
<1>9. "hint" \notin Er!Segment
  BY DEF Er!Segment
<1>10. <<"hint">>[1] = "hint"
  OBVIOUS
<1> QED
  BY <1>5, <1>8, <1>9, <1>10

LEMMA ProblemStatusIs ==
  ASSUME Given, NEW p
  PROVE  Translated(Er!problem_status(p))
<1> DEFINE k == IF p.kind = "" THEN 0 ELSE Er!classify_message(<<p.kind>>)
           code == IF k # 0 THEN translator.kinds[k].code ELSE IF p.reason = "DECLARED" THEN "ResourceExhausted" ELSE "Unknown"
           reason == IF p.reason # "" THEN p.reason ELSE IF k # 0 THEN translator.kinds[k].reason ELSE ""
           extra == IF p.field THEN <<Er!Detail("bad_request", <<>>)>>
                    ELSE IF ~p.named THEN <<>>
                    ELSE IF code = "FailedPrecondition" THEN <<Er!Detail("precondition", <<>>)>>
                    ELSE <<Er!Detail("resource", <<>>)>>
           d == Er!Info(reason, "domain", [m \in p.meta |-> "v"])
<1>1. k = 0 \/ translator.kinds[k] \in {Er!NF, Er!SO}
  BY Classified DEF Er!classify_message
<1>2. Er!problem_status(p) = Er!St(code, <<"text">>, <<d>> \o extra)
  BY DEF Er!problem_status
<1>3. code \in {"NotFound", "FailedPrecondition", "ResourceExhausted", "Unknown"}
  <2> HIDE DEF k
  <2>1. Er!NF.code = "NotFound" /\ Er!SO.code = "FailedPrecondition"
    BY DEF Er!NF, Er!SO
  <2> QED
    BY <1>1, <2>1
<1>4. d.domain = "domain"
  BY DEF Er!Info
<1>5. \E x \in {<<>>, <<Er!Detail("bad_request", <<>>)>>, <<Er!Detail("precondition", <<>>)>>,
                <<Er!Detail("resource", <<>>)>>} : extra = x
  BY Zenon
<1> HIDE DEF code, d, extra
<1>6. <<d>> \o extra # <<>> /\ (<<d>> \o extra)[1] = d
  BY <1>5
<1>7. Er!problem_status(p).code = code /\ Er!problem_status(p).msg = <<"text">>
      /\ Er!problem_status(p).details = <<d>> \o extra
  BY <1>2 DEF Er!St
<1>8. <<"text">> # <<"hint">>
  OBVIOUS
<1>9. \E S : Er!problem_status(p).details \in Seq(S)
  <2> DEFINE a == Er!Detail("bad_request", <<>>)
             bb == Er!Detail("precondition", <<>>)
             c == Er!Detail("resource", <<>>)
             S == {d, a, bb, c}
  <2>3. extra \in {<<>>, <<a>>, <<bb>>, <<c>>}
    BY <1>5
  <2> HIDE DEF a, bb, c
  <2>4. a \in S /\ bb \in S /\ c \in S /\ d \in S
    OBVIOUS
  <2> HIDE DEF S
  <2>5. <<>> \in Seq(S) /\ \A x \in S : <<x>> \in Seq(S)
    OBVIOUS
  <2>1. extra \in Seq(S) /\ <<d>> \in Seq(S)
    BY <2>3, <2>4, <2>5, Zenon
  <2> HIDE DEF S
  <2>2. <<d>> \o extra \in Seq(S)
    BY <2>1, ConcatProperties
  <2> QED
    BY <1>7, <2>2
<1> QED
  BY <1>3, <1>4, <1>6, <1>7, <1>8, <1>9 DEF Translated, WireCodes

\* A message of an error is not a hint's.
LEMMA NoHint ==
  ASSUME NEW m \in Seq(Er!Segment), m # <<>>
  PROVE  m # <<"hint">>
<1>1. m[1] \in Er!Segment /\ <<"hint">>[1] = "hint" /\ "hint" \notin Er!Segment
  BY DEF Er!Segment
<1> QED
  BY <1>1

\* A link says a part of the message.
LEMMA TextIs ==
  ASSUME Er!ErrorsAssumption, Given, err.form = "chain"
  PROVE  Er!to_string(err, 1) \in Seq(Er!Segment) /\ Er!to_string(err, 1) # <<>>
<1> DEFINE m == err.msg
           Halts(j) == j = Len(m) \/ j + 1 \in err.hidden
           Stops(j) == Halts(j) /\ \A k \in 1..(j - 1) : ~Halts(k)
           upto == CHOOSE j \in 1..Len(m) : Stops(j)
           T == {j \in 1..Len(m) : Halts(j)}
<1>1. m \in Seq(Er!Segment) /\ m # <<>>
  BY Forms DEF Given
<1>2. Len(m) \in Nat /\ Len(m) # 0
  BY <1>1
<1>3. Er!to_string(err, 1) = SubSeq(m, 1, upto)
  BY DEF Er!to_string
<1>4. Len(m) \in T /\ T \subseteq Nat
  BY <1>2
<1>5. PICK x \in T : \A y \in T : ~(<<y, x>> \in OpToRel(<, Nat))
  BY <1>4, NatLessThanWellFounded, WFMin
<1>6. Stops(x)
  <2> SUFFICES ASSUME NEW k \in 1..(x - 1), Halts(k)
               PROVE  FALSE
    BY <1>5
  <2>1. k \in T /\ k < x /\ k \in Nat /\ x \in Nat
    BY <1>2, <1>4
  <2> QED
    BY <1>5, <2>1 DEF OpToRel
<1> HIDE DEF Stops
<1>7. upto \in 1..Len(m)
  BY <1>5, <1>6
<1> HIDE DEF upto, m
<1>8. \A j \in 1..Len(m) : SubSeq(m, 1, j) \in Seq(Er!Segment) /\ Len(SubSeq(m, 1, j)) = j
  BY <1>1
<1>9. SubSeq(m, 1, upto) \in Seq(Er!Segment) /\ Len(SubSeq(m, 1, upto)) # 0
  BY <1>7, <1>8
<1>10. Len(<<>>) = 0
  OBVIOUS
<1>11. SubSeq(m, 1, upto) # <<>>
  BY <1>9, <1>10
<1> QED
  BY <1>3, <1>9, <1>11

LEMMA OfIs ==
  ASSUME NEW k, translator.kinds[k] \in {Er!NF, Er!SO}, NEW m \in Seq(Er!Segment), m # <<>>
  PROVE  Translated(Er!Of(k, m))
<1> DEFINE d == Er!Info(translator.kinds[k].reason, "domain", <<>>)
<1>2. translator.kinds[k].code \in {"NotFound", "FailedPrecondition"}
  BY DEF Er!NF, Er!SO
<1>3. Er!plain_message(m) # <<"hint">>
  BY PlainIs
<1>4. Er!Of(k, m) = Er!St(translator.kinds[k].code, Er!plain_message(m), <<d>>)
  BY DEF Er!Of, Er!with_reason
<1>5. d.domain = "domain"
  BY DEF Er!Info
<1> HIDE DEF d
<1>6. /\ Er!Of(k, m).code = translator.kinds[k].code /\ Er!Of(k, m).details = <<d>>
      /\ Er!Of(k, m).msg = Er!plain_message(m)
  BY <1>4 DEF Er!St
<1>7. <<d>> \in Seq({d}) /\ <<d>>[1] = d
  OBVIOUS
<1>8. \E S : Er!Of(k, m).details \in Seq(S)
  BY <1>6, <1>7
<1> QED
  BY <1>2, <1>3, <1>5, <1>6, <1>7, <1>8 DEF Translated, WireCodes

LEMMA ReplyIs ==
  ASSUME NEW h
  PROVE  Translated(Er!Reply(h))
<1> DEFINE d == IF h = "ref" THEN Er!Info("REFERENCED", "store", <<>>) ELSE Er!Info("BUSY", "store", <<>>)
<1>1. d.domain = "store"
  BY DEF Er!Info
<1>2. Er!Reply(h) = Er!St(IF h = "ref" THEN "FailedPrecondition" ELSE "Unavailable", <<"text">>, <<d>>)
  BY DEF Er!Reply
<1> HIDE DEF d
<1>3. /\ Er!Reply(h).code \in {"FailedPrecondition", "Unavailable"} /\ Er!Reply(h).details = <<d>>
      /\ Er!Reply(h).msg = <<"text">>
  BY <1>2 DEF Er!St
<1>4. <<d>> \in Seq({d}) /\ <<d>>[1] = d /\ <<"text">> # <<"hint">>
  OBVIOUS
<1>5. \E S : Er!Reply(h).details \in Seq(S)
  BY <1>3, <1>4
<1> QED
  BY <1>1, <1>3, <1>4, <1>5 DEF Translated, WireCodes

LEMMA InternalIs ==
  ASSUME NEW m \in Seq(Er!Segment), m # <<>>
  PROVE  Translated(Er!St("Internal", m, <<>>))
<1>1. m # <<"hint">>
  BY NoHint
<1>2. <<>> \in Seq({})
  OBVIOUS
<1>3. \E S : Er!St("Internal", m, <<>>).details \in Seq(S)
  BY <1>2 DEF Er!St
<1> QED
  BY <1>1, <1>3 DEF Translated, Er!St, WireCodes

\* An error that crossed tonic, translated.
LEMMA TranslatedIs ==
  ASSUME Er!ErrorsAssumption, Given
  PROVE  /\ Translated(Er!translate(Crossed))
         /\ err.form = "invalid" =>
              /\ Er!translate(Crossed) = Er!validation_status(err.violations)
              /\ Er!translate(Crossed).code = "InvalidArgument"
<1>1. CASE err.form = "problem"
  <2>1. Crossed = Er!Carried(err) /\ err \in Er!Problems
    BY <1>1, Forms DEF Crossed, Given
  <2>2. Er!translate(Crossed) = Er!problem_status(Er!from_carrier(Crossed))
    BY <2>1, CarrierKeeps DEF Er!translate
  <2>3. Translated(Er!problem_status(Er!from_carrier(Crossed)))
    BY ProblemStatusIs
  <2> QED
    BY <1>1, <2>2, <2>3
<1>2. CASE err.form = "chain" /\ err.typed.form # "status"
  <2> DEFINE m == Er!to_string(err, 1)
             k == Er!classify_message(m)
  <2>1. m \in Seq(Er!Segment) /\ m # <<>>
    BY <1>2, TextIs
  <2>2. Crossed = Er!St("Unknown", m, <<>>)
    BY <1>2 DEF Crossed
  <2> HIDE DEF m
  <2>3. Er!translate(Crossed) = IF k = 0 THEN Er!St("Internal", m, <<>>) ELSE Er!Of(k, m)
    BY <2>2, UnknownIs
  <2>4. k # 0 => translator.kinds[k] \in {Er!NF, Er!SO}
    BY Classified DEF Er!classify_message
  <2> QED
    BY <1>2, <2>1, <2>3, <2>4, OfIs, InternalIs
<1>3. CASE err.form = "chain" /\ err.typed.form = "status"
  <2> DEFINE s == err.typed.status
             h == Er!handled(Er!Alone(s))
             k == Er!classify_message(s.msg)
  <2>1. Crossed = s /\ s \in Er!Statuses \cup {Er!Carried(Er!Some)}
    BY <1>3, Forms, TypedIs DEF Crossed, Given
  <2>2. CASE Er!IsCarrier(s)
    <3>1. Er!translate(Crossed) = Er!problem_status(Er!from_carrier(s))
      BY <2>1, <2>2 DEF Er!translate
    <3> QED
      BY <1>3, <3>1, ProblemStatusIs
  <2>3. CASE ~Er!IsCarrier(s) /\ h # ""
    <3>1. Er!translate(Crossed) = Er!Reply(h)
      BY <2>1, <2>3 DEF Er!translate
    <3> QED
      BY <1>3, <3>1, ReplyIs
  <2>4. CASE ~Er!IsCarrier(s) /\ h = ""
    <3>1. s \in Er!Statuses
      BY <2>1, <2>4, CarrierKeeps, SomeIs
    <3>2. PICK d : d.domain = "domain" /\ s.details = <<d>>
      BY <3>1, StatusIs
    <3>3. /\ s.code \in {"NotFound", "AlreadyExists", "Aborted", "Internal", "Unknown"}
          /\ s.msg \in {<<"nf">>, <<"x">>}
      BY <3>1, StatusIs
    <3>4. s.msg \in Seq(Er!Segment) /\ s.msg # <<>>
      <4>1. \A x \in {"nf", "x"} : <<x>> \in Seq(Er!Segment) /\ <<x>> # <<>>
        BY DEF Er!Segment
      <4> QED
        BY <3>3, <4>1
    <3> HIDE DEF s, h, k
    <3>5. CASE s.code # "Unknown"
      <4>1. Er!translate(Crossed) = s
        BY <2>1, <2>4, <3>5 DEF Er!translate, h
      <4>2. <<d>> \in Seq({d}) /\ <<d>>[1] = d
        OBVIOUS
      <4>3. \E S : s.details \in Seq(S)
        BY <3>2, <4>2
      <4>4. s.msg # <<"hint">>
        BY <3>4, NoHint
      <4>5. s.code \in WireCodes /\ s.details # <<>> /\ s.details[1].domain # "carrier"
        BY <3>2, <3>3, <4>2 DEF WireCodes
      <4>6. Translated(s)
        BY <4>3, <4>4, <4>5 DEF Translated
      <4> QED
        BY <1>3, <4>1, <4>6
    <3>6. CASE s.code = "Unknown"
      <4>1. Er!translate(Crossed) = IF k = 0 THEN Er!St("Internal", s.msg, <<>>) ELSE Er!Of(k, s.msg)
        BY <2>1, <2>4, <3>6, Zenon DEF Er!translate, h, k
      <4>2. k # 0 => translator.kinds[k] \in {Er!NF, Er!SO}
        BY Classified DEF Er!classify_message, k
      <4> QED
        BY <1>3, <3>4, <4>1, <4>2, OfIs, InternalIs
    <3> QED
      BY <3>5, <3>6
  <2> QED
    BY <2>2, <2>3, <2>4
<1>4. CASE err.form = "invalid"
  <2> DEFINE n == err.violations
             each == [i \in 1..n |-> Er!Detail("bad_request", <<>>)]
             all == each \o <<Er!Info("INVALID_REQUEST_FIELDS", "", <<>>)>>
  <2>1. n \in 1..2
    BY <1>4, Forms DEF Given
  <2>2. Crossed = Er!validation_status(n)
    BY <1>4 DEF Crossed
  <2>3. Er!validation_status(n) = Er!St("InvalidArgument", <<"text">>, all)
    BY DEF Er!validation_status
  <2>4. all # <<>> /\ all[1].domain = "" /\ \E S : all \in Seq(S)
    <3> DEFINE D == {Er!Detail("bad_request", <<>>)}
               c == Er!Detail("bad_request", <<>>)
    <3>1. c.domain = ""
      BY DEF Er!Detail
    <3> HIDE DEF c
    <3>2. each = [i \in 1..n |-> c]
      BY DEF c
    <3> HIDE DEF each
    <3>3. each \in Seq({c}) /\ Len(each) = n /\ each[1] = c
      BY <2>1, <3>2
    <3> DEFINE e == Er!Info("INVALID_REQUEST_FIELDS", "", <<>>)
    <3> HIDE DEF e
    <3>5. each \in Seq({c, e}) /\ <<e>> \in Seq({c, e}) /\ Len(<<e>>) = 1
      BY <3>3
    <3>4. /\ each \o <<e>> # <<>> /\ (each \o <<e>>)[1] = c
          /\ each \o <<e>> \in Seq({c, e})
      BY <2>1, <3>3, <3>5, ConcatProperties
    <3> QED
      BY <3>1, <3>4 DEF e
  <2> HIDE DEF all
  <2>5. Crossed.code = "InvalidArgument" /\ Crossed.msg = <<"text">> /\ Crossed.details = all
    BY <2>2, <2>3 DEF Er!St
  <2>6. Er!translate(Crossed) = Crossed
    <3>1. ~Er!IsCarrier(Crossed)
      BY <2>4, <2>5 DEF Er!IsCarrier
    <3>2. ~Er!Refs(Er!Alone(Crossed)) /\ ~Er!Busy(Er!Alone(Crossed))
      BY <2>5 DEF Er!Refs, Er!Busy, Er!Alone
    <3>3. Er!handled(Er!Alone(Crossed)) = ""
      BY <3>2 DEF Er!handled
    <3> QED
      BY <2>5, <3>1, <3>3 DEF Er!translate
  <2>7. <<"text">> # <<"hint">>
    OBVIOUS
  <2> QED
    BY <2>2, <2>4, <2>5, <2>6, <2>7 DEF Translated, WireCodes
<1> QED
  BY <1>1, <1>2, <1>3, <1>4, Forms DEF Given

-----------------------------------------------------------------------------
(* Hints *)

\* The name a hint gives is the one the request was about, and it has a type.
LEMMA NamesFit ==
  ASSUME NEW name \in Er!Names
  PROVE  /\ Er!lookup(name) \in {"Shelf", "Book"}
         /\ Er!lookup(name) = (IF Len(name) = 4 THEN "Book" ELSE "Shelf")
         /\ name # <<>>
<1> DEFINE fits == {k \in DOMAIN Er!Patterns : Len(Er!Patterns[k]) = Len(name)
                     /\ \A i \in DOMAIN name : Er!Patterns[k][i] \in {"*", name[i]}}
<1>1. Er!lookup(name) = IF fits = {} THEN "" ELSE CHOOSE k \in fits : TRUE
  BY DEF Er!lookup
<1>2. /\ DOMAIN Er!Patterns = {"Shelf", "Book"}
      /\ Er!Patterns["Shelf"] = <<"shelves", "*">>
      /\ Er!Patterns["Book"] = <<"shelves", "*", "books", "*">>
  BY DEF Er!Patterns
<1>3. CASE name = <<"shelves", "s">> \/ name = <<"shelves", "books">>
  <2>1. "Shelf" \in fits /\ "Book" \notin fits /\ Len(name) = 2
    BY <1>2, <1>3
  <2>2. fits = {"Shelf"}
    BY <1>2, <2>1
  <2> HIDE DEF fits
  <2>3. Er!lookup(name) = "Shelf"
    BY <1>1, <2>2
  <2> QED
    BY <2>1, <2>3
<1>4. CASE name = <<"shelves", "s", "books", "b">>
  <2>1. "Book" \in fits /\ "Shelf" \notin fits /\ Len(name) = 4
    BY <1>2, <1>4
  <2>2. fits = {"Book"}
    BY <1>2, <2>1
  <2> HIDE DEF fits
  <2>3. Er!lookup(name) = "Book"
    BY <1>1, <2>2
  <2> QED
    BY <2>1, <2>3
<1> QED
  BY <1>3, <1>4 DEF Er!Names

LEMMA NameShapes ==
  ASSUME NEW a \in Er!Names
  PROVE  /\ a \in Seq({"shelves", "s", "books", "b"}) /\ Len(a) >= 2
         /\ Len(Er!Patterns[Er!lookup(a)]) = Len(a)
         /\ Er!Patterns[Er!lookup(a)][Len(a) - 1] = a[Len(a) - 1]
<1>1. CASE a = <<"shelves", "s">>
  <2>1. Er!lookup(a) = "Shelf"
    BY <1>1, NamesFit
  <2>2. Er!Patterns[Er!lookup(a)] = <<"shelves", "*">>
    BY <2>1 DEF Er!Patterns
  <2> QED
    BY <1>1, <2>2
<1>2. CASE a = <<"shelves", "books">>
  <2>1. Er!lookup(a) = "Shelf"
    BY <1>2, NamesFit
  <2>2. Er!Patterns[Er!lookup(a)] = <<"shelves", "*">>
    BY <2>1 DEF Er!Patterns
  <2> QED
    BY <1>2, <2>2
<1>3. CASE a = <<"shelves", "s", "books", "b">>
  <2>1. Er!lookup(a) = "Book"
    BY <1>3, NamesFit
  <2>2. Er!Patterns[Er!lookup(a)] = <<"shelves", "*", "books", "*">>
    BY <2>1 DEF Er!Patterns
  <2> QED
    BY <1>3, <2>2
<1> QED
  BY <1>1, <1>2, <1>3 DEF Er!Names

LEMMA PairAtEnd ==
  ASSUME NEW S, NEW a \in Seq(S), Len(a) >= 2
  PROVE  SubSeq(a, 1, Len(a) - 2) \o <<a[Len(a) - 1], a[Len(a)]>> = a
<1> DEFINE f == SubSeq(a, 1, Len(a) - 2)
           e == <<a[Len(a) - 1], a[Len(a)]>>
<1>6. Len(a) \in Nat /\ \A i \in 1..Len(a) : a[i] \in S
  OBVIOUS
<1>1. f \in Seq(S) /\ Len(f) = Len(a) - 2 /\ \A i \in 1..Len(f) : f[i] = a[i]
  <2> DEFINE n == Len(a) - 2
  <2>1. n \in Nat /\ n <= Len(a) /\ n \in Int
    BY <1>6
  <2>2. \A i \in 1..n : a[i] \in S
    BY <1>6, <2>1
  <2> HIDE DEF n
  <2>3. /\ SubSeq(a, 1, n) \in Seq(S)
        /\ Len(SubSeq(a, 1, n)) = IF 1 <= n THEN n - 1 + 1 ELSE 0
        /\ \A i \in 1..(n - 1 + 1) : SubSeq(a, 1, n)[i] = a[1 + i - 1]
    BY <2>1, <2>2, SubSeqProperties
  <2>4. Len(SubSeq(a, 1, n)) = n /\ \A i \in 1..n : SubSeq(a, 1, n)[i] = a[i]
    BY <2>1, <2>3
  <2> QED
    BY <2>3, <2>4 DEF n
<1>2. e \in Seq(S) /\ Len(e) = 2 /\ e[1] = a[Len(a) - 1] /\ e[2] = a[Len(a)]
  <2>1. a[Len(a) - 1] \in S /\ a[Len(a)] \in S
    BY <1>6
  <2> QED
    BY <2>1
<1> HIDE DEF f, e
<1> DEFINE bb == f \o e
<1>7. /\ bb \in Seq(S) /\ Len(bb) = Len(f) + Len(e)
      /\ \A i \in 1..(Len(f) + Len(e)) : bb[i] = IF i <= Len(f) THEN f[i] ELSE e[i - Len(f)]
  BY <1>1, <1>2, ConcatProperties
<1>3. bb \in Seq(S) /\ Len(bb) = Len(a)
  BY <1>1, <1>2, <1>6, <1>7
<1> HIDE DEF bb
<1>4. ASSUME NEW i \in 1..Len(a)
      PROVE  bb[i] = a[i]
  <2>1. CASE i <= Len(a) - 2
    <3>1. i \in 1..Len(f) /\ i \in 1..(Len(f) + Len(e))
      BY <1>1, <1>2, <1>6, <2>1
    <3>2. bb[i] = f[i] /\ f[i] = a[i]
      BY <1>1, <1>7, <3>1
    <3> QED
      BY <3>2
  <2>2. CASE i = Len(a) - 1
    <3>1. i \in 1..(Len(f) + Len(e)) /\ ~(i <= Len(f)) /\ i - Len(f) = 1
      BY <1>1, <1>2, <1>6, <2>2
    <3>2. bb[i] = e[1]
      BY <1>7, <3>1
    <3> QED
      BY <1>2, <2>2, <3>2
  <2>3. CASE i = Len(a)
    BY <1>1, <1>2, <1>6, <1>7, <2>3
  <2> QED
    BY <1>6, <2>1, <2>2, <2>3
<1>5. bb = a
  BY <1>3, <1>4, SeqEqual
<1> QED
  BY <1>5 DEF bb, f, e

LEMMA AboutIt ==
  ASSUME Given, request.verb # "none"
  PROVE  /\ request.about \in Er!Names
         /\ Er!updated(request) # <<>> => Er!updated(request) = request.about
         /\ Er!created(request) = request.about
<1>1. request.about \in Er!Names /\ request.verb \in {"Get", "Update", "Create", "Undelete"}
  BY DEF Given, Er!Requests
<1>2. Er!updated(request) # <<>> => Er!updated(request) = request.about
  BY <1>1, NamesFit DEF Er!updated, Er!NameField, Er!BodyName
<1>3. CASE Er!updated(request) # <<>>
  BY <1>1, <1>2, <1>3 DEF Er!created
<1>4. CASE Er!updated(request) = <<>>
  <2> DEFINE a == request.about
             p == Er!Patterns[Er!lookup(a)]
  <2>1. Er!created(request) = SubSeq(a, 1, Len(a) - 2) \o <<p[Len(p) - 1], a[Len(a)]>>
    <3> DEFINE lead == Er!Prefix(a, 2)
               tip == a[Len(a)]
    <3>1. Er!created(request) = lead \o <<p[Len(p) - 1], tip>>
      BY <1>4, Zenon DEF Er!created
    <3>2. lead = SubSeq(a, 1, Len(a) - 2) /\ tip = a[Len(a)]
      BY DEF Er!Prefix
    <3> HIDE DEF lead, tip, a, p
    <3> QED
      BY <3>1, <3>2
  <2>2. a \in Seq({"shelves", "s", "books", "b"}) /\ Len(a) >= 2
    BY <1>1, NameShapes
  <2>3. Len(p) = Len(a) /\ p[Len(p) - 1] = a[Len(a) - 1]
    BY <1>1, NameShapes
  <2> HIDE DEF a, p
  <2>4. SubSeq(a, 1, Len(a) - 2) \o <<a[Len(a) - 1], a[Len(a)]>> = a
    BY <2>2, PairAtEnd
  <2>5. Er!created(request) = a
    BY <2>1, <2>3, <2>4
  <2> QED
    BY <1>1, <1>2, <2>5 DEF a
<1> QED
  BY <1>1, <1>2, <1>3, <1>4

\* What the hinter makes of a translated status.
LEMMA RewriteIs ==
  ASSUME Given, NEW s, Translated(s)
  PROVE  \/ s.code \in {"Internal", "Unknown"} /\ Er!rewrite(s) = Er!St("Internal", <<"apology">>, <<>>)
         \/ s.code \notin {"Internal", "Unknown"} /\ Er!rewrite(s) = s
         \/ /\ s.code \in {"NotFound", "AlreadyExists", "Aborted"} /\ request.about \in Er!Names
            /\ Er!rewrite(s) = Er!With(s, request.about)
<1>1. CASE s.code \in {"Internal", "Unknown"}
  BY <1>1 DEF Er!rewrite
<1>2. CASE s.code \notin {"Internal", "Unknown"} /\ (request.verb = "none" \/ ~Er!generic(s))
  BY <1>2 DEF Er!rewrite
<1>3. CASE s.code \notin {"Internal", "Unknown"} /\ ~(request.verb = "none" \/ ~Er!generic(s))
  <2>1. Er!rewrite(s) =
          CASE s.code = "NotFound" /\ s.msg = <<"nf">> /\ Er!updated(request) # <<>> -> Er!With(s, Er!updated(request))
            [] s.code = "AlreadyExists" -> Er!With(s, Er!created(request))
            [] s.code = "Aborted" /\ Er!updated(request) # <<>> -> Er!With(s, Er!updated(request))
            [] OTHER -> s
    BY <1>3 DEF Er!rewrite
  <2>2. /\ request.about \in Er!Names
        /\ Er!updated(request) # <<>> => Er!updated(request) = request.about
        /\ Er!created(request) = request.about
    BY <1>3, AboutIt
  <2>3. CASE s.code = "NotFound"
    BY <1>3, <2>1, <2>2, <2>3
  <2>4. CASE s.code = "AlreadyExists"
    BY <1>3, <2>1, <2>2, <2>4
  <2>5. CASE s.code = "Aborted"
    BY <1>3, <2>1, <2>2, <2>5
  <2>6. CASE s.code \notin {"NotFound", "AlreadyExists", "Aborted"}
    BY <1>3, <2>1, <2>6
  <2> QED
    BY <2>3, <2>4, <2>5, <2>6
<1> QED
  BY <1>1, <1>2, <1>3

\* What leaves the server.
LEMMA SentIs ==
  ASSUME Er!ErrorsAssumption, Given, NEW s, Translated(s), NEW r, r = Er!rewrite(s)
  PROVE  /\ ~Er!IsCarrier(r) /\ r.code # "Unknown"
         /\ r.code = "Internal" => r.msg = <<"apology">>
         /\ Er!http_status(r.code) >= 500 <=> Er!is_span_error(r.code)
         /\ r.msg = <<"hint">> =>
              LET d == r.details[Len(r.details)]
              IN d.about = request.about /\ d.reason = Er!lookup(request.about) /\ d.reason # ""
<1>1. <<"apology">> # <<"hint">>
  OBVIOUS
<1>2. \A c \in WireCodes \ {"Unknown"} : Er!http_status(c) >= 500 <=> Er!is_span_error(c)
  BY DEF WireCodes, Er!http_status, Er!is_span_error
<1>3. CASE r = Er!St("Internal", <<"apology">>, <<>>)
  <2>1. r.code = "Internal" /\ r.msg = <<"apology">> /\ r.details = <<>>
    BY <1>3 DEF Er!St
  <2> QED
    BY <1>1, <1>2, <2>1 DEF Er!IsCarrier, WireCodes
<1>4. CASE s.code \notin {"Internal", "Unknown"} /\ r = s
  BY <1>2, <1>4 DEF Translated, Er!IsCarrier
<1>5. CASE /\ s.code \in {"NotFound", "AlreadyExists", "Aborted"} /\ request.about \in Er!Names
           /\ r = Er!With(s, request.about)
  <2> DEFINE d == [Er!Detail("resource", request.about) EXCEPT !.reason = Er!lookup(request.about)]
  <2>1. r.code = s.code /\ r.msg = <<"hint">> /\ r.details = Append(s.details, d)
    BY <1>5 DEF Er!With, Er!St
  <2>2. d.about = request.about /\ d.reason = Er!lookup(request.about) /\ d.reason # ""
    BY <1>5, NamesFit DEF Er!Detail
  <2> HIDE DEF d
  <2>3. s.details # <<>> /\ s.details[1].domain # "carrier"
    BY <1>5 DEF Translated
  <2>4. PICK S : s.details \in Seq(S)
    BY DEF Translated
  <2> DEFINE all == Append(s.details, d)
  <2>5. /\ all # <<>> /\ all[1] = s.details[1] /\ all[Len(all)] = d
    <3>1. s.details \in Seq(S \cup {d}) /\ Len(s.details) \in Nat \ {0}
      BY <2>3, <2>4
    <3> QED
      BY <3>1
  <2> HIDE DEF all
  <2>6. r.details = all
    BY <2>1 DEF all
  <2> QED
    <3>1. ~Er!IsCarrier(r)
      BY <2>3, <2>5, <2>6 DEF Er!IsCarrier
    <3>2. r.details[Len(r.details)] = d
      BY <2>5, <2>6
    <3>3. r.code \in WireCodes \ {"Unknown", "Internal"}
      BY <1>5, <2>1 DEF WireCodes
    <3> QED
      BY <1>2, <2>2, <3>1, <3>2, <3>3
<1> QED
  BY <1>3, <1>4, <1>5, RewriteIs

LEMMA PipelineStep ==
  ASSUME ErrInv, [Er!Next]_Er!evars
  PROVE  ErrInv'
<1>1. UNCHANGED <<translator, err, request>>
  BY DEF Er!Next, Er!Cross, Er!Translate, Er!Hint, Er!Send, Er!evars
<1>2. Given' /\ Crossed' = Crossed
  BY <1>1 DEF ErrInv, Given, Crossed, Er!Carried, Er!validation_status, Er!to_string
<1>3. Er!translate(Crossed)' = Er!translate(Crossed)
  <2>1. \A m : Er!classify_message(m)' = Er!classify_message(m) /\ Er!plain_message(m)' = Er!plain_message(m)
    BY <1>1 DEF Er!classify_message, Er!classify, Er!plain_message
  <2>2. \A p : Er!problem_status(p)' = Er!problem_status(p)
    BY <1>1, <2>1 DEF Er!problem_status
  <2>3. \A e : Er!handled(e)' = Er!handled(e)
    BY <1>1 DEF Er!handled
  <2>4. \A k, m : Er!Of(k, m)' = Er!Of(k, m)
    BY <1>1, <2>1 DEF Er!Of
  <2> QED
    BY <1>1, <1>2, <2>1, <2>2, <2>3, <2>4 DEF Er!translate
<1>4. \A s : Er!rewrite(s)' = Er!rewrite(s)
  BY <1>1 DEF Er!rewrite
<1>5. CASE Er!Cross
  <2>1. stage' = "crossed" /\ status' = Crossed
    BY <1>5 DEF Er!Cross, Crossed
  <2> QED
    BY <1>2, <2>1 DEF ErrInv, Pipeline
<1>6. CASE Er!Translate
  <2>1. stage' = "translated" /\ status' = Er!translate(Crossed)
    BY <1>6 DEF ErrInv, Pipeline, Er!Translate
  <2> QED
    BY <1>2, <1>3, <2>1 DEF ErrInv, Pipeline
<1>7. CASE Er!Hint
  <2>1. stage' = "hinted" /\ status' = Er!rewrite(Er!translate(Crossed))
    BY <1>7 DEF ErrInv, Pipeline, Er!Hint
  <2> QED
    BY <1>2, <1>3, <1>4, <2>1 DEF ErrInv, Pipeline
<1>8. CASE Er!Send \/ UNCHANGED Er!evars
  <2>1. \/ stage' = "sent" /\ stage = "hinted" /\ status' = status
        \/ stage' = stage /\ status' = status
    BY <1>8 DEF Er!Send, Er!evars
  <2> QED
    BY <1>2, <1>3, <1>4, <2>1 DEF ErrInv, Pipeline
<1> QED
  BY <1>5, <1>6, <1>7, <1>8 DEF Er!Next

LEMMA ErrStarts ==
  ASSUME Er!ErrorsAssumption
  PROVE  Er!Init => ErrInv
<1> SUFFICES ASSUME Er!Init PROVE ErrInv
  OBVIOUS
<1>1. Given /\ stage = "raised"
  BY DEF Er!Init, Given
<1> QED
  BY <1>1 DEF ErrInv, Pipeline

LEMMA ErrStays ==
  ASSUME Er!ErrorsAssumption
  PROVE  ErrInv /\ [Er!Next]_Er!evars => ErrInv'
BY PipelineStep

LEMMA ErrShows ==
  ASSUME Er!ErrorsAssumption
  PROVE  ErrInv => Er!ErrorReachesCaller
<1> SUFFICES ASSUME ErrInv
             PROVE  Er!PathsAgree /\ Er!NothingInternal /\ Er!HintFits
  BY DEF Er!ErrorReachesCaller
<1> DEFINE s == Er!translate(Crossed)
<1>1. Given /\ Translated(s)
  BY TranslatedIs DEF ErrInv
<1>2. Er!PathsAgree
  BY PathsMeet, NeverWorse DEF ErrInv, Pipeline, Er!PathsAgree
<1>3. stage = "sent" => status = Er!rewrite(s)
  BY DEF ErrInv, Pipeline
<1>4. Er!NothingInternal
  <2> HIDE DEF s
  <2> SUFFICES ASSUME stage = "sent"
               PROVE  /\ ~Er!IsCarrier(status) /\ status.code # "Unknown"
                      /\ status.code = "Internal" => status.msg = <<"apology">>
                      /\ Er!http_status(status.code) >= 500 <=> Er!is_span_error(status.code)
    BY DEF Er!NothingInternal
  <2>1. status = Er!rewrite(s)
    BY <1>3
  <2> QED
    BY <1>1, <2>1, SentIs
<1>5. ASSUME stage = "sent", status.msg = <<"hint">>
      PROVE  LET d == status.details[Len(status.details)]
             IN d.about = request.about /\ d.reason = Er!lookup(request.about) /\ d.reason # ""
  BY <1>1, <1>3, <1>5, SentIs
<1>6. ASSUME stage = "sent", err.form = "invalid"
      PROVE  status = Er!validation_status(err.violations)
  <2>1. s = Er!validation_status(err.violations) /\ s.code = "InvalidArgument"
    BY <1>1, <1>6, TranslatedIs
  <2> HIDE DEF s
  <2>2. Er!rewrite(s) = s
    BY <1>1, <2>1, RewriteIs
  <2> QED
    BY <1>3, <1>6, <2>1, <2>2
<1>7. ASSUME NEW k \in DOMAIN Er!Patterns, Er!name_pattern(k) # <<>>
      PROVE  \E p \in DOMAIN Er!Patterns : Er!Patterns[p] = Er!name_pattern(k)
  <2>1. /\ DOMAIN Er!Patterns = {"Shelf", "Book"}
        /\ Er!Patterns["Shelf"] = <<"shelves", "*">>
        /\ Er!Patterns["Book"] = <<"shelves", "*", "books", "*">>
    BY DEF Er!Patterns
  <2>5. Len(Er!Patterns["Shelf"]) = 2 /\ Len(Er!Patterns["Book"]) = 4
    BY <2>1
  <2>6. Er!name_pattern(k) = IF Len(Er!Patterns[k]) >= 4
                             THEN SubSeq(Er!Patterns[k], 1, Len(Er!Patterns[k]) - 2) ELSE <<>>
    BY DEF Er!name_pattern, Er!Prefix
  <2>2. k = "Book"
    BY <1>7, <2>1, <2>5, <2>6
  <2>3. Er!name_pattern(k) = SubSeq(Er!Patterns["Book"], 1, 2)
    BY <2>2, <2>5, <2>6
  <2>4. SubSeq(<<"shelves", "*", "books", "*">>, 1, 2) = <<"shelves", "*">>
    <3> DEFINE q == <<"shelves", "*", "books", "*">>
               S == {"shelves", "*", "books"}
    <3>1. q[1] = "shelves" /\ q[2] = "*" /\ \A i \in 1..2 : q[i] \in S
      OBVIOUS
    <3> HIDE DEF q, S
    <3>2. /\ SubSeq(q, 1, 2) \in Seq(S) /\ Len(SubSeq(q, 1, 2)) = 2
          /\ \A i \in 1..2 : SubSeq(q, 1, 2)[i] = q[i]
      BY <3>1, SubSeqProperties
    <3>3. <<"shelves", "*">> \in Seq(S) /\ Len(<<"shelves", "*">>) = 2
      BY DEF S
    <3> QED
      <4> DEFINE x == SubSeq(q, 1, 2)
                 y == <<"shelves", "*">>
      <4>1. y[1] = "shelves" /\ y[2] = "*"
        OBVIOUS
      <4>2. x[1] = "shelves" /\ x[2] = "*"
        BY <3>1, <3>2
      <4>3. x \in Seq(S) /\ y \in Seq(S) /\ Len(x) = 2 /\ Len(y) = 2
        BY <3>2, <3>3
      <4> HIDE DEF x, y
      <4>4. \A i \in 1..Len(x) : x[i] = y[i]
        BY <4>1, <4>2, <4>3
      <4>5. x = y
        BY <4>3, <4>4, SeqEqual
      <4> QED
        BY <4>5 DEF q, x, y
  <2> QED
    BY <2>1, <2>3, <2>4
<1>8. Er!HintFits
  BY <1>5, <1>6, <1>7 DEF Er!HintFits
<1> QED
  BY <1>2, <1>4, <1>8

\* What the run checks of errors: an error that crosses tonic, as text that shows all its
\* sources, as a status or in a carrier, is told as if it had been rendered where it was
\* raised, and rendering it never tells less (problem); nothing internal leaves
\* the server, and the HTTP status fits the code (hints, gateway_errors.rs); a hint names
\* the resource that the request was about and a refused validation is told as it was.
THEOREM ErrorsReachTheirCallers ==
  ASSUME Er!ErrorsAssumption
  PROVE  Er!Spec => []Er!ErrorReachesCaller
<1>1. Er!Init => ErrInv
  BY ErrStarts
<1>2. ErrInv /\ [Er!Next]_Er!evars => ErrInv'
  BY ErrStays
<1>3. ErrInv => Er!ErrorReachesCaller
  BY ErrShows
<1> QED
  BY <1>1, <1>2, <1>3, PTL DEF Er!Spec

-----------------------------------------------------------------------------
(* Hosted MCP services (module Hosting): any number of setters, and any    *)
(* request through the layers that result.                                 *)

SvcFields == DOMAIN Ho!NewService
GroupFields == DOMAIN Ho!NewGroup
ReqFields ==
  {"kind", "http", "layers", "context", "seen", "args", "extras", "stamp", "by", "sent"}
Links == {"m", "c", "g"}
Transports == {"http", "sse", "stdio"}

Built ==
  /\ DOMAIN svc = SvcFields /\ svc.headers \subseteq Ho!Mappings /\ svc.chain \in Seq(Links)
  /\ DOMAIN group = GroupFields /\ (group.headers = None \/ group.headers \subseteq Ho!Mappings)
  /\ group.chain \in Seq(Links)
  /\ svc.transports \in Seq(Transports)
  /\ group.transports = None \/ group.transports \in Seq(Transports)

\* What is mounted follows the builders, which change no more.
Mounts ==
  served # None =>
    /\ served.routes = Ho!Routes(svc.base) /\ served.endpoint = Ho!Announced(svc.base)
    /\ served.port = Ho!listen_addr /\ served.headers = Ho!MountHeaders

Outer == [Ho!BareLayer EXCEPT !.chain = group.chain,
                              !.headers = IF group.headers = None THEN {} ELSE group.headers]
Grouped == ~(group.chain = <<>> /\ group.headers = None)
Told(chain, methods) == [i \in DOMAIN chain |-> <<chain[i], methods>>]
Firsts(seen) == [i \in DOMAIN seen |-> seen[i][1]]

\* The context of a call: what came with this request and nothing else.
ContextIs(c) ==
  /\ c \in [incoming : SUBSET Ho!Metadata, forwarded : SUBSET Ho!Metadata]
  /\ c.forwarded = Ho!Forwarded
  /\ \A e \in c.incoming : ~Ho!Owned(e[1])

Untouched == req.extras = {} /\ req.stamp = None /\ req.by = "inner" /\ req.sent = None
AtOuter ==
  /\ Grouped /\ req.layers = <<Outer, Ho!MemberLayer>>
  /\ req.seen = <<>> /\ req.context = None /\ Untouched
AtMember ==
  /\ req.layers = <<Ho!MemberLayer>> /\ Untouched
  /\ req.kind = "call" => req.seen = IF Grouped THEN Told(group.chain, FALSE) ELSE <<>>
  /\ req.context # None => ContextIs(req.context)
Sent ==
  LET mapped == svc.headers \cup served.headers IN
  /\ \A e \in req.sent : e[2] \in {"caller", "empty", "tool"} /\ ~Ho!Owned(e[1])
  /\ req.http # None =>
       \A m \in mapped : (req.http[m[1]] = "set" /\ ~Ho!Owned(m[2])) => <<m[2], "caller">> \in req.sent
  /\ \A e \in req.sent : e[2] = "tool" => e[1] \in {"own", "k1"}
AtEnd ==
  /\ req.layers = <<>>
  /\ req.kind = "call" => /\ Firsts(req.seen) = group.chain \o svc.chain
                          /\ req.args \cap svc.extras = {} /\ req.extras \subseteq svc.extras
  /\ req.kind = "list" => svc.extras \subseteq req.args /\ req.stamp = svc.cache
  /\ req.kind = "read" => /\ req.stamp = (IF svc.rcache # None THEN svc.rcache ELSE svc.cache)
                          /\ req.by = (IF svc.handler THEN "handler" ELSE "inner")
  /\ req.kind # "list" =>
       /\ ContextIs(req.context)
       /\ svc.headers # {} => req.context.incoming = Ho!incoming_headers(svc.headers)
       /\ req.sent # None => Sent
Requested ==
  req # None =>
    /\ served # None /\ DOMAIN req = ReqFields /\ req.kind \in {"call", "list", "read"}
    /\ AtOuter \/ AtMember \/ AtEnd

HostInv == Built /\ Mounts /\ Requested

LEMMA HostStarts == Ho!Init => HostInv
<1> SUFFICES ASSUME Ho!Init PROVE HostInv
  OBVIOUS
<1>1. svc = Ho!NewService /\ group = Ho!NewGroup /\ served = None /\ req = None
  BY DEF Ho!Init
<1>2. /\ svc.headers = {} /\ svc.chain = <<>> /\ group.headers = None /\ group.chain = <<>>
      /\ svc.transports = <<"http">> /\ group.transports = None
  BY <1>1 DEF Ho!NewService, Ho!NewGroup
<1>3. <<>> \in Seq(Links) /\ <<"http">> \in Seq(Transports)
  BY Single DEF Transports
<1>4. Built
  BY <1>1, <1>2, <1>3 DEF Built, SvcFields, GroupFields
<1> QED
  BY <1>1, <1>4 DEF HostInv, Mounts, Requested

\* A setter, while nothing is served.
LEMMA BuilderKeeps ==
  ASSUME HostInv, served = None, UNCHANGED <<served, req, left>>, Built'
  PROVE  HostInv'
<1>1. req = None
  BY DEF HostInv, Requested
<1> QED
  BY <1>1 DEF HostInv, Mounts, Requested

LEMMA Fields ==
  /\ SvcFields = {"headers", "chain", "extras", "cache", "rcache", "handler", "methods",
                  "transports", "base", "addr", "stateless"}
  /\ GroupFields = {"headers", "chain", "transports", "addr", "stateless"}
  /\ DOMAIN Ho!Values = {"headers", "chain", "extras", "cache", "rcache", "handler", "methods",
                         "stateless", "transports", "base", "addr"}
  /\ DOMAIN Ho!GroupValues = {"headers", "chain", "transports", "addr", "stateless"}
  /\ Ho!Values["headers"] \subseteq SUBSET Ho!Mappings
  /\ Ho!Values["chain"] = {<<"m">>}
  /\ Ho!GroupValues["headers"] \subseteq SUBSET Ho!Mappings
  /\ Ho!GroupValues["chain"] = {<<"g">>}
  /\ Ho!Values["transports"] = {<<"sse">>, <<"stdio">>, <<"stdio", "sse", "http">>}
  /\ Ho!GroupValues["transports"] = {<<"http">>, <<"sse">>}
<1>1. SvcFields = {"headers", "chain", "extras", "cache", "rcache", "handler", "methods",
                  "transports", "base", "addr", "stateless"}
  BY DEF SvcFields, Ho!NewService
<1>2. GroupFields = {"headers", "chain", "transports", "addr", "stateless"}
  BY DEF GroupFields, Ho!NewGroup
<1>3. DOMAIN Ho!Values = {"headers", "chain", "extras", "cache", "rcache", "handler", "methods",
                         "stateless", "transports", "base", "addr"}
  BY DEF Ho!Values
<1>4. DOMAIN Ho!GroupValues = {"headers", "chain", "transports", "addr", "stateless"}
  BY DEF Ho!GroupValues
<1>5. Ho!Values["headers"] = {{<<"h1", "k1">>}, {<<"h2", "k2">>}, {<<"h1", "grpc-k">>}}
  BY DEF Ho!Values
<1>6. Ho!GroupValues["headers"] = {{}, {<<"h1", "k1">>}, {<<"h2", "k2">>}}
  BY DEF Ho!GroupValues
<1>7. Ho!Values["chain"] = {<<"m">>} /\ Ho!GroupValues["chain"] = {<<"g">>}
  BY DEF Ho!Values, Ho!GroupValues
<1>8. /\ Ho!Values["transports"] = {<<"sse">>, <<"stdio">>, <<"stdio", "sse", "http">>}
      /\ Ho!GroupValues["transports"] = {<<"http">>, <<"sse">>}
  BY DEF Ho!Values, Ho!GroupValues
<1> QED
  BY <1>1, <1>2, <1>3, <1>4, <1>5, <1>6, <1>7, <1>8 DEF Ho!Mappings

LEMMA Lists ==
  /\ <<"http">> \in Seq(Transports) /\ <<"sse">> \in Seq(Transports)
  /\ <<"stdio">> \in Seq(Transports) /\ <<"stdio", "sse", "http">> \in Seq(Transports)
<1>1. "http" \in Transports /\ "sse" \in Transports /\ "stdio" \in Transports
  BY DEF Transports
<1> QED
  BY <1>1, Single

LEMMA SetKeeps ==
  ASSUME HostInv, NEW f \in DOMAIN Ho!Values, Ho!Set(f)
  PROVE  HostInv'
<1>1. served = None /\ UNCHANGED <<group, served, req, left>>
  BY DEF Ho!Set
<1>2. PICK v \in Ho!Values[f] : svc' = [svc EXCEPT ![f] = v]
  BY DEF Ho!Set
<1>3. DOMAIN svc' = SvcFields
  BY <1>2 DEF HostInv, Built
<1>4. svc'.headers \subseteq Ho!Mappings
  <2>1. CASE f = "headers"
    <3>1. v \subseteq Ho!Mappings
      BY <1>2, <2>1, Fields
    <3>2. svc'.headers = v
      BY <1>2, <2>1, Fields DEF HostInv, Built
    <3> QED
      BY <3>1, <3>2
  <2>2. CASE f # "headers"
    <3>1. svc'.headers = svc.headers
      BY <1>2, <2>2, Fields DEF HostInv, Built
    <3> QED
      BY <3>1 DEF HostInv, Built
  <2> QED
    BY <2>1, <2>2
<1>5. svc'.chain \in Seq(Links)
  <2>1. CASE f = "chain"
    <3>1. v = <<"m">>
      BY <1>2, <2>1, Fields
    <3>2. svc'.chain = v
      BY <1>2, <2>1, Fields DEF HostInv, Built
    <3>3. <<"m">> \in Seq(Links)
      BY DEF Links
    <3> QED
      BY <3>1, <3>2, <3>3
  <2>2. CASE f # "chain"
    <3>1. svc'.chain = svc.chain
      BY <1>2, <2>2, Fields DEF HostInv, Built
    <3> QED
      BY <3>1 DEF HostInv, Built
  <2> QED
    BY <2>1, <2>2
<1>7. svc'.transports \in Seq(Transports)
  <2>1. CASE f = "transports"
    <3>1. v \in Seq(Transports)
      BY <1>2, <2>1, Fields, Lists
    <3>2. svc'.transports = v
      BY <1>2, <2>1, Fields DEF HostInv, Built
    <3> QED
      BY <3>1, <3>2
  <2>2. CASE f # "transports"
    <3>1. svc'.transports = svc.transports
      BY <1>2, <2>2, Fields DEF HostInv, Built
    <3> QED
      BY <3>1 DEF HostInv, Built
  <2> QED
    BY <2>1, <2>2
<1>6. Built'
  BY <1>1, <1>3, <1>4, <1>5, <1>7 DEF HostInv, Built
<1> QED
  BY <1>1, <1>6, BuilderKeeps

LEMMA SetGroupKeeps ==
  ASSUME HostInv, NEW f \in DOMAIN Ho!GroupValues, Ho!SetGroup(f)
  PROVE  HostInv'
<1>1. served = None /\ UNCHANGED <<svc, served, req, left>>
  BY DEF Ho!SetGroup
<1>2. PICK v \in Ho!GroupValues[f] : group' = [group EXCEPT ![f] = v]
  BY DEF Ho!SetGroup
<1>3. DOMAIN group' = GroupFields
  BY <1>2 DEF HostInv, Built
<1>4. group'.headers = None \/ group'.headers \subseteq Ho!Mappings
  <2>1. CASE f = "headers"
    <3>1. v \subseteq Ho!Mappings
      BY <1>2, <2>1, Fields
    <3>2. group'.headers = v
      BY <1>2, <2>1, Fields DEF HostInv, Built
    <3> QED
      BY <3>1, <3>2
  <2>2. CASE f # "headers"
    <3>1. group'.headers = group.headers
      BY <1>2, <2>2, Fields DEF HostInv, Built
    <3> QED
      BY <3>1 DEF HostInv, Built
  <2> QED
    BY <2>1, <2>2
<1>5. group'.chain \in Seq(Links)
  <2>1. CASE f = "chain"
    <3>1. v = <<"g">>
      BY <1>2, <2>1, Fields
    <3>2. group'.chain = v
      BY <1>2, <2>1, Fields DEF HostInv, Built
    <3>3. <<"g">> \in Seq(Links)
      BY DEF Links
    <3> QED
      BY <3>1, <3>2, <3>3
  <2>2. CASE f # "chain"
    <3>1. group'.chain = group.chain
      BY <1>2, <2>2, Fields DEF HostInv, Built
    <3> QED
      BY <3>1 DEF HostInv, Built
  <2> QED
    BY <2>1, <2>2
<1>7. group'.transports = None \/ group'.transports \in Seq(Transports)
  <2>1. CASE f = "transports"
    <3>1. v \in Seq(Transports)
      BY <1>2, <2>1, Fields, Lists
    <3>2. group'.transports = v
      BY <1>2, <2>1, Fields DEF HostInv, Built
    <3> QED
      BY <3>1, <3>2
  <2>2. CASE f # "transports"
    <3>1. group'.transports = group.transports
      BY <1>2, <2>2, Fields DEF HostInv, Built
    <3> QED
      BY <3>1 DEF HostInv, Built
  <2> QED
    BY <2>1, <2>2
<1>6. Built'
  BY <1>1, <1>3, <1>4, <1>5, <1>7 DEF HostInv, Built
<1> QED
  BY <1>1, <1>6, BuilderKeeps

LEMMA ConfigKeeps ==
  ASSUME HostInv, Ho!config \/ Ho!ServerConfig
  PROVE  HostInv'
<1>1. served = None /\ UNCHANGED <<group, served, req, left>>
  BY DEF Ho!config, Ho!ServerConfig
<1>2. CASE Ho!config
  <2>1. PICK h \in SUBSET Ho!Mappings, t \in {None, <<"sse">>} :
          svc' = [svc EXCEPT !.headers = @ \union h, !.chain = @ \o <<"c">>, !.extras = @ \union {"f"},
                             !.handler = TRUE, !.transports = IF t = None THEN @ ELSE t]
    BY <1>2 DEF Ho!config
  <2>2. /\ DOMAIN svc' = SvcFields /\ svc'.headers = svc.headers \cup h
        /\ svc'.chain = svc.chain \o <<"c">>
        /\ svc'.transports = svc.transports \/ svc'.transports = <<"sse">>
    BY <2>1, Fields DEF HostInv, Built
  <2>3. svc.chain \o <<"c">> \in Seq(Links)
    <3>1. svc.chain \in Seq(Links) /\ <<"c">> \in Seq(Links)
      BY DEF HostInv, Built, Links
    <3> QED
      BY <3>1, ConcatProperties
  <2>4. Built'
    BY <1>1, <2>2, <2>3, Lists DEF HostInv, Built
  <2> QED
    BY <1>1, <2>4, BuilderKeeps
<1>3. CASE Ho!ServerConfig
  <2>1. PICK t \in {<<"http">>, <<"sse">>} :
          \E base, addr : svc' = [svc EXCEPT !.base = base, !.transports = t, !.addr = addr]
    <3>1. PICK generated \in {"", "/x"}, base \in {"", "/mcp/"}, t \in {<<>>, <<"sse">>} :
            svc' = [svc EXCEPT
                      !.base = IF generated # "" THEN generated ELSE IF base # "" THEN base ELSE "/mcp",
                      !.transports = IF t = <<>> THEN <<"http">> ELSE t,
                      !.addr = "port"]
      BY <1>3, Zenon DEF Ho!ServerConfig
    <3>2. (IF t = <<>> THEN <<"http">> ELSE t) \in {<<"http">>, <<"sse">>}
      <4>1. t \in {<<>>, <<"sse">>}
        BY <3>1, Zenon
      <4> QED
        BY <4>1, Zenon
    <3> QED
      BY <3>1, <3>2
  <2>2. /\ DOMAIN svc' = SvcFields /\ svc'.headers = svc.headers /\ svc'.chain = svc.chain
        /\ svc'.transports = t
    BY <2>1, Fields DEF HostInv, Built
  <2>3. Built'
    BY <1>1, <2>2, Lists DEF HostInv, Built
  <2> QED
    BY <1>1, <2>3, BuilderKeeps
<1> QED
  BY <1>2, <1>3

LEMMA ServeKeeps ==
  ASSUME HostInv, Ho!Serve
  PROVE  HostInv'
<1>1. /\ UNCHANGED <<svc, group, req>> /\ served = None
      /\ served' = [routes |-> Ho!Routes(svc.base), endpoint |-> Ho!Announced(svc.base),
                    port |-> Ho!listen_addr, stateless |-> group.stateless \/ svc.stateless,
                    headers |-> Ho!MountHeaders]
  BY DEF Ho!Serve
<1>2. req = None
  BY <1>1 DEF HostInv, Requested
<1>3. /\ served'.routes = Ho!Routes(svc.base) /\ served'.endpoint = Ho!Announced(svc.base)
      /\ served'.port = Ho!listen_addr /\ served'.headers = Ho!MountHeaders
  BY <1>1
<1>4. /\ Ho!Routes(svc.base)' = Ho!Routes(svc.base) /\ Ho!Announced(svc.base)' = Ho!Announced(svc.base)
      /\ Ho!listen_addr' = Ho!listen_addr /\ Ho!MountHeaders' = Ho!MountHeaders
  BY <1>1, Zenon DEF Ho!Routes, Ho!Announced, Ho!listen_addr, Ho!MountHeaders, Ho!Addr,
                     Ho!resolved_transports, Ho!announced_port
<1> QED
  BY <1>1, <1>2, <1>3, <1>4 DEF HostInv, Built, Mounts, Requested

-----------------------------------------------------------------------------
(* A request through the layers *)

LEMMA MapEnds ==
  ASSUME NEW m \in Ho!Mappings
  PROVE  /\ m[1] \in {"h1", "h2"} /\ m[2] \in {"k1", "k2", "grpc-k"}
         /\ <<m[2], "caller">> \in Ho!Metadata /\ <<m[2], "empty">> \in Ho!Metadata
BY DEF Ho!Mappings, Ho!Metadata

LEMMA IncomingIs ==
  ASSUME NEW M \in SUBSET Ho!Mappings
  PROVE  /\ Ho!incoming_headers(M) \in SUBSET Ho!Metadata
         /\ \A e \in Ho!incoming_headers(M) : ~Ho!Owned(e[1])
         /\ req.http # None =>
              \A m \in M : (req.http[m[1]] = "set" /\ ~Ho!Owned(m[2]))
                             => <<m[2], "caller">> \in Ho!incoming_headers(M)
<1>1. CASE req.http = None
  BY <1>1 DEF Ho!incoming_headers
<1>2. CASE req.http # None
  <2> DEFINE N == {n \in M : ~Ho!Owned(n[2]) /\ req.http[n[1]] # "absent"}
             V(m) == IF req.http[m[1]] = "set" THEN "caller" ELSE "empty"
  <2>1. Ho!incoming_headers(M) = {<<m[2], V(m)>> : m \in N}
    BY <1>2 DEF Ho!incoming_headers
  <2>2. ASSUME NEW e \in Ho!incoming_headers(M)
        PROVE  e \in Ho!Metadata /\ ~Ho!Owned(e[1])
    <3>1. PICK m \in N : e = <<m[2], V(m)>>
      BY <2>1
    <3>2. m \in Ho!Mappings /\ V(m) \in {"caller", "empty"} /\ ~Ho!Owned(m[2])
      OBVIOUS
    <3>3. e \in Ho!Metadata
      BY <3>1, <3>2, MapEnds
    <3>4. e[1] = m[2]
      BY <3>1
    <3> QED
      BY <3>2, <3>3, <3>4
  <2>3. ASSUME NEW m \in M, req.http[m[1]] = "set", ~Ho!Owned(m[2])
        PROVE  <<m[2], "caller">> \in Ho!incoming_headers(M)
    <3>1. m \in N /\ V(m) = "caller"
      BY <2>3
    <3> QED
      BY <2>1, <3>1
  <2> QED
    BY <2>2, <2>3
<1> QED
  BY <1>1, <1>2

LEMMA ForwardedIs ==
  ASSUME served.headers \subseteq Ho!Mappings
  PROVE  /\ Ho!Forwarded \in SUBSET Ho!Metadata
         /\ \A e \in Ho!Forwarded : e = <<e[1], "caller">>
         /\ req.http # None =>
              \A m \in served.headers : req.http[m[1]] = "set" => <<m[2], "caller">> \in Ho!Forwarded
<1>1. CASE req.http = None
  BY <1>1 DEF Ho!Forwarded
<1>2. CASE req.http # None
  <2>1. Ho!Forwarded = {<<m[2], "caller">> : m \in {n \in served.headers : req.http[n[1]] = "set"}}
    BY <1>2 DEF Ho!Forwarded
  <2>2. ASSUME NEW e \in Ho!Forwarded PROVE e \in Ho!Metadata /\ e = <<e[1], "caller">>
    <3>1. PICK m \in served.headers : e = <<m[2], "caller">>
      BY <2>1
    <3> QED
      BY <3>1, MapEnds
  <2> QED
    BY <2>1, <2>2
<1> QED
  BY <1>1, <1>2

LEMMA HeadersTyped ==
  ASSUME HostInv, served # None
  PROVE  served.headers \subseteq Ho!Mappings
BY DEF HostInv, Built, Mounts, Ho!MountHeaders

\* What a layer makes of the context around it.
LEMMA ContextMade ==
  ASSUME Ho!HostingAssumption, HostInv, served # None, NEW M \in SUBSET Ho!Mappings,
         req.context # None => ContextIs(req.context)
  PROVE  /\ ContextIs(Ho!call_context(M)) /\ Ho!call_context(M) # None
         /\ M # {} => Ho!call_context(M).incoming = Ho!incoming_headers(M)
<1> DEFINE ctx == [incoming |-> Ho!incoming_headers(M), forwarded |-> Ho!Forwarded]
<1>1. ContextIs(ctx) /\ ctx.incoming = Ho!incoming_headers(M)
  <2>1. ctx \in [incoming : SUBSET Ho!Metadata, forwarded : SUBSET Ho!Metadata]
    BY IncomingIs, ForwardedIs, HeadersTyped
  <2>2. ctx.forwarded = Ho!Forwarded /\ ctx.incoming = Ho!incoming_headers(M)
    OBVIOUS
  <2> QED
    BY <2>1, <2>2, IncomingIs DEF ContextIs
<1>2. Ho!call_context(M) = IF M = {} /\ req.context # None THEN req.context ELSE ctx
  BY DEF Ho!call_context
<1> HIDE DEF ctx
<1>3. ContextIs(Ho!call_context(M))
  BY <1>1, <1>2
<1> QED
  BY <1>1, <1>2, <1>3 DEF ContextIs, Ho!HostingAssumption

\* The names in a chain that was run, one after the other.
LEMMA ToldIs ==
  ASSUME NEW c \in Seq(Links), NEW x
  PROVE  /\ Told(c, x) \in Seq(Links \X {x}) /\ Len(Told(c, x)) = Len(c)
         /\ \A i \in 1..Len(c) : Told(c, x)[i][1] = c[i]
<1>1. Len(c) \in Nat /\ DOMAIN c = 1..Len(c) /\ \A i \in 1..Len(c) : c[i] \in Links
  BY LenProperties, ElementOfSeq
<1>2. Told(c, x) = [i \in 1..Len(c) |-> <<c[i], x>>]
  BY <1>1 DEF Told
<1>3. \A i \in 1..Len(c) : Told(c, x)[i] = <<c[i], x>> /\ Told(c, x)[i] \in Links \X {x}
  BY <1>1, <1>2
<1> DEFINE t == Told(c, x)
<1>4. t = [i \in 1..Len(c) |-> t[i]]
  BY <1>2
<1> HIDE DEF t
<1>5. t \in [1..Len(c) -> Links \X {x}]
  BY <1>3, <1>4 DEF t
<1>6. t \in Seq(Links \X {x}) /\ Len(t) = Len(c)
  BY <1>1, <1>5, LenProperties
<1> QED
  BY <1>3, <1>6 DEF t

LEMMA FirstsOfTold ==
  ASSUME NEW c \in Seq(Links), NEW d \in Seq(Links), NEW x, NEW y
  PROVE  Firsts(Told(c, x) \o Told(d, y)) = c \o d
<1> DEFINE T == Links \X {x, y}
           as == Told(c, x)
           bs == Told(d, y)
<1>1. /\ as \in Seq(T) /\ bs \in Seq(T) /\ Len(as) = Len(c) /\ Len(bs) = Len(d)
      /\ \A i \in 1..Len(c) : as[i][1] = c[i]
      /\ \A i \in 1..Len(d) : bs[i][1] = d[i]
  <2>1. Links \X {x} \subseteq T /\ Links \X {y} \subseteq T
    OBVIOUS
  <2>2. as \in Seq(T)
    <3>1. as \in Seq(Links \X {x})
      BY ToldIs
    <3> HIDE DEF as, T
    <3> QED
      BY <2>1, <3>1, SeqMonotonic
  <2>3. bs \in Seq(T)
    <3>1. bs \in Seq(Links \X {y})
      BY ToldIs
    <3> HIDE DEF bs, T
    <3> QED
      BY <2>1, <3>1, SeqMonotonic
  <2> QED
    BY <2>2, <2>3, ToldIs
<1> HIDE DEF as, bs, T
<1>2. /\ Len(as) \in Nat /\ Len(bs) \in Nat
      /\ as \o bs \in Seq(T) /\ Len(as \o bs) = Len(as) + Len(bs)
      /\ \A i \in 1..Len(as) : (as \o bs)[i] = as[i]
      /\ \A i \in 1..Len(bs) : (as \o bs)[Len(as) + i] = bs[i]
  <2>1. Len(as) \in Nat /\ Len(bs) \in Nat
    BY <1>1, LenProperties
  <2>2. as \in Seq(T) /\ bs \in Seq(T)
    BY <1>1
  <2>3. /\ as \o bs \in Seq(T) /\ Len(as \o bs) = Len(as) + Len(bs)
        /\ \A i \in 1..Len(as) : (as \o bs)[i] = as[i]
        /\ \A i \in 1..Len(bs) : (as \o bs)[Len(as) + i] = bs[i]
    <3>1. ASSUME NEW A \in Seq(T), NEW B \in Seq(T)
          PROVE  /\ A \o B \in Seq(T) /\ Len(A \o B) = Len(A) + Len(B)
                 /\ \A i \in 1..Len(A) : (A \o B)[i] = A[i]
                 /\ \A i \in 1..Len(B) : (A \o B)[Len(A) + i] = B[i]
      BY Concatenated
    <3> QED
      BY <2>2, <3>1, Zenon
  <2> QED
    BY <2>1, <2>3
<1>3. /\ c \o d \in Seq(Links) /\ Len(c \o d) = Len(c) + Len(d)
      /\ \A i \in 1..Len(c) : (c \o d)[i] = c[i]
      /\ \A i \in 1..Len(d) : (c \o d)[Len(c) + i] = d[i]
  BY Concatenated
<1> DEFINE z == as \o bs  w == c \o d  n == Len(c) + Len(d)
<1>4. DOMAIN z = 1..n /\ DOMAIN w = 1..n
  BY <1>1, <1>2, <1>3, LenProperties
<1>5. w = [i \in 1..n |-> w[i]]
  <2> HIDE DEF w, n
  <2>1. w \in Seq(Links)
    BY <1>3 DEF w
  <2> QED
    BY <1>4, <2>1
<1>6. ASSUME NEW i \in 1..n PROVE z[i][1] = w[i]
  <2>1. CASE i \in 1..Len(c)
    BY <1>1, <1>2, <1>3, <2>1
  <2>2. CASE i \notin 1..Len(c)
    <3>1. Len(c) \in Nat /\ Len(d) \in Nat
      BY <1>1, <1>2
    <3>2. i - Len(c) \in 1..Len(d) /\ Len(c) + (i - Len(c)) = i
      BY <2>2, <3>1
    <3> DEFINE j == i - Len(c)
    <3>3. j \in 1..Len(d) /\ Len(c) + j = i
      BY <3>2
    <3> HIDE DEF j
    <3>4. z[Len(c) + j] = bs[j] /\ w[Len(c) + j] = d[j] /\ bs[j][1] = d[j]
      BY <1>1, <1>2, <1>3, <3>3
    <3> QED
      BY <3>3, <3>4
  <2> QED
    BY <2>1, <2>2
<1>7. Firsts(z) = [i \in 1..n |-> z[i][1]]
  BY <1>4 DEF Firsts
<1> HIDE DEF z, w, n
<1>8. Firsts(z) = w
  BY <1>5, <1>6, <1>7
<1> QED
  BY <1>8 DEF z, w, as, bs

\* A step of a request leaves the service and its mount alone.
LEMMA StillServed ==
  ASSUME UNCHANGED <<svc, group, served>>
  PROVE  /\ Built' <=> Built
         /\ Outer' = Outer /\ Ho!MemberLayer' = Ho!MemberLayer
         /\ Grouped' <=> Grouped
         /\ Mounts' <=> Mounts
<1>1. Built' <=> Built
  BY DEF Built
<1>2. Outer' = Outer /\ Ho!MemberLayer' = Ho!MemberLayer /\ (Grouped' <=> Grouped)
  BY DEF Outer, Grouped, Ho!MemberLayer, Ho!BareLayer
<1>3. /\ Ho!Routes(svc.base)' = Ho!Routes(svc.base) /\ Ho!Announced(svc.base)' = Ho!Announced(svc.base)
      /\ Ho!listen_addr' = Ho!listen_addr /\ Ho!MountHeaders' = Ho!MountHeaders
  BY Zenon DEF Ho!Routes, Ho!Announced, Ho!listen_addr, Ho!MountHeaders, Ho!Addr,
               Ho!resolved_transports, Ho!announced_port
<1>4. Mounts' <=> Mounts
  BY <1>3 DEF Mounts
<1> QED
  BY <1>1, <1>2, <1>4

LEMMA SameCaller ==
  ASSUME UNCHANGED <<svc, served>>, req'.http = req.http
  PROVE  /\ Ho!Forwarded' = Ho!Forwarded
         /\ Ho!incoming_headers(svc.headers)' = Ho!incoming_headers(svc.headers)
BY DEF Ho!Forwarded, Ho!incoming_headers

LEMMA BeginKeeps ==
  ASSUME HostInv, Ho!Begin
  PROVE  HostInv'
<1>1. UNCHANGED <<svc, group, served>> /\ served # None
  BY DEF Ho!Begin
<1>2. PICK kind \in {"call", "list", "read"} : \E h, args :
         req' = [kind |-> kind, http |-> h, layers |-> Ho!member_factory, context |-> None, seen |-> <<>>,
                 args |-> args, extras |-> {}, stamp |-> None, by |-> "inner", sent |-> None]
  BY Zenon DEF Ho!Begin
<1>3. /\ DOMAIN req' = ReqFields /\ req'.kind \in {"call", "list", "read"}
      /\ req'.layers = Ho!member_factory /\ req'.context = None /\ req'.seen = <<>>
      /\ req'.extras = {} /\ req'.stamp = None /\ req'.by = "inner" /\ req'.sent = None
  BY <1>2 DEF ReqFields
<1>4. Built' /\ Mounts'
  BY <1>1, StillServed DEF HostInv
<1>5. CASE Grouped
  <2>1. req'.layers = <<Outer, Ho!MemberLayer>>
    BY <1>3, <1>5 DEF Ho!member_factory, Grouped, Outer
  <2>2. AtOuter'
    BY <1>1, <1>3, <1>5, <2>1, StillServed DEF AtOuter, Untouched
  <2> QED
    BY <1>1, <1>3, <1>4, <2>2 DEF HostInv, Requested
<1>6. CASE ~Grouped
  <2>1. req'.layers = <<Ho!MemberLayer>>
    BY <1>3, <1>6 DEF Ho!member_factory, Grouped
  <2>2. AtMember'
    BY <1>1, <1>3, <1>6, <2>1, StillServed DEF AtMember, Untouched
  <2> QED
    BY <1>1, <1>3, <1>4, <2>2 DEF HostInv, Requested
<1> QED
  BY <1>5, <1>6

\* What every step through a layer has in common.
LEMMA LayerShape ==
  ASSUME HostInv, Ho!Layer
  PROVE  /\ UNCHANGED <<svc, group, served>> /\ served # None /\ req # None
         /\ DOMAIN req' = ReqFields /\ req'.kind = req.kind /\ req'.http = req.http
         /\ req'.sent = None /\ req'.layers = Tail(req.layers) /\ req.layers # <<>>
         /\ req.kind = "call" =>
              /\ req'.context = Ho!call_context(Head(req.layers).headers)
              /\ req'.args = req.args \ Head(req.layers).extras
              /\ req'.extras = req.extras \cup (req.args \cap Head(req.layers).extras)
              /\ req'.seen = req.seen \o Ho!invoke(Head(req.layers))
              /\ req'.stamp = req.stamp /\ req'.by = req.by
         /\ req.kind = "list" =>
              /\ req'.context = req.context /\ req'.seen = req.seen /\ req'.extras = req.extras
              /\ req'.args = req.args \cup Head(req.layers).extras
              /\ req'.stamp = Ho!stamp_list(Head(req.layers), req.stamp) /\ req'.by = req.by
         /\ req.kind = "read" =>
              /\ req'.context = Ho!call_context(Head(req.layers).headers)
              /\ req'.seen = req.seen /\ req'.extras = req.extras
              /\ req'.stamp = Ho!apply_to_read(Head(req.layers), req.stamp)
              /\ req'.by = IF Head(req.layers).handler THEN "handler" ELSE req.by
<1>1. /\ UNCHANGED <<svc, group, served>> /\ req # None /\ req.layers # <<>> /\ req.sent = None
  BY DEF Ho!Layer
<1>2. served # None /\ DOMAIN req = ReqFields /\ req.kind \in {"call", "list", "read"}
  BY <1>1 DEF HostInv, Requested
<1> DEFINE l == Head(req.layers)
<1>3. CASE req.kind = "call"
  <2>1. Ho!LayerOfCall(l)
    BY <1>3, Zenon DEF Ho!Layer
  <2>2. req' = [req EXCEPT !.layers = Tail(@), !.context = Ho!call_context(l.headers),
                           !.args = Ho!extract_extras(req.args, l.extras).args,
                           !.extras = @ \union Ho!extract_extras(req.args, l.extras).found,
                           !.seen = @ \o Ho!invoke(l)]
    BY <2>1, Zenon DEF Ho!LayerOfCall
  <2>3. /\ Ho!extract_extras(req.args, l.extras).args = req.args \ l.extras
        /\ Ho!extract_extras(req.args, l.extras).found = req.args \cap l.extras
    BY DEF Ho!extract_extras
  <2> HIDE DEF l
  <2>4. /\ DOMAIN req' = ReqFields /\ req'.kind = req.kind /\ req'.http = req.http
        /\ req'.sent = req.sent /\ req'.layers = Tail(req.layers)
        /\ req'.context = Ho!call_context(l.headers)
        /\ req'.args = Ho!extract_extras(req.args, l.extras).args
        /\ req'.extras = req.extras \cup Ho!extract_extras(req.args, l.extras).found
        /\ req'.seen = req.seen \o Ho!invoke(l)
        /\ req'.stamp = req.stamp /\ req'.by = req.by
    BY <1>2, <2>2 DEF ReqFields
  <2> QED
    BY <1>1, <1>2, <1>3, <2>3, <2>4 DEF l
<1>4. CASE req.kind = "list"
  <2>1. Ho!LayerOfList(l)
    BY <1>4, Zenon DEF Ho!Layer
  <2> HIDE DEF l
  <2>4. /\ DOMAIN req' = ReqFields /\ req'.kind = req.kind /\ req'.http = req.http
        /\ req'.sent = req.sent /\ req'.layers = Tail(req.layers)
        /\ req'.context = req.context /\ req'.seen = req.seen /\ req'.extras = req.extras
        /\ req'.args = req.args \cup l.extras
        /\ req'.stamp = Ho!stamp_list(l, req.stamp) /\ req'.by = req.by
    BY <1>2, <2>1 DEF ReqFields, Ho!LayerOfList, Ho!prepare_tool_with_extras
  <2> QED
    BY <1>1, <1>2, <1>4, <2>4 DEF l
<1>5. CASE req.kind = "read"
  <2>1. Ho!LayerOfRead(l)
    BY <1>5, Zenon DEF Ho!Layer
  <2> HIDE DEF l
  <2>4. /\ DOMAIN req' = ReqFields /\ req'.kind = req.kind /\ req'.http = req.http
        /\ req'.sent = req.sent /\ req'.layers = Tail(req.layers)
        /\ req'.context = Ho!call_context(l.headers)
        /\ req'.seen = req.seen /\ req'.extras = req.extras
        /\ req'.stamp = Ho!apply_to_read(l, req.stamp)
        /\ req'.by = IF l.handler THEN "handler" ELSE req.by
    BY <1>2, <2>1 DEF ReqFields, Ho!LayerOfRead
  <2> QED
    BY <1>1, <1>2, <1>5, <2>4 DEF l
<1> QED
  BY <1>2, <1>3, <1>4, <1>5

LEMMA ContextPrimed ==
  ASSUME UNCHANGED <<svc, served>>, req'.http = req.http, ContextIs(req'.context)
  PROVE  ContextIs(req.context)'
<1>1. Ho!Forwarded' = Ho!Forwarded
  BY SameCaller
<1> DEFINE c == req'.context
<1>2. /\ c \in [incoming : SUBSET Ho!Metadata, forwarded : SUBSET Ho!Metadata]
      /\ c.forwarded = Ho!Forwarded /\ \A e \in c.incoming : ~Ho!Owned(e[1])
  BY DEF ContextIs
<1> QED
  BY <1>1, <1>2 DEF ContextIs, Ho!Owned

LEMMA OuterIs ==
  ASSUME Built
  PROVE  /\ Outer.headers \in SUBSET Ho!Mappings /\ Outer.chain = group.chain
         /\ Outer.extras = {} /\ Outer.cache = None /\ Outer.rcache = None
         /\ Outer.handler = FALSE /\ Outer.methods = FALSE
BY DEF Outer, Built, Ho!BareLayer

LEMMA MemberIs ==
  /\ Ho!MemberLayer.headers = svc.headers /\ Ho!MemberLayer.chain = svc.chain
  /\ Ho!MemberLayer.extras = svc.extras /\ Ho!MemberLayer.cache = svc.cache
  /\ Ho!MemberLayer.rcache = svc.rcache /\ Ho!MemberLayer.handler = svc.handler
  /\ Ho!MemberLayer.methods = svc.methods
BY DEF Ho!MemberLayer

LEMMA HeadTail ==
  ASSUME NEW x, NEW y
  PROVE  /\ Head(<<x, y>>) = x /\ Tail(<<x, y>>) = <<y>>
         /\ Head(<<x>>) = x /\ Tail(<<x>>) = <<>>
OBVIOUS

LEMMA OuterKeeps ==
  ASSUME Ho!HostingAssumption, HostInv, AtOuter, Ho!Layer
  PROVE  HostInv'
<1>1. Head(req.layers) = Outer /\ Tail(req.layers) = <<Ho!MemberLayer>>
  BY HeadTail DEF AtOuter
<1>2. /\ UNCHANGED <<svc, group, served>> /\ served # None /\ req # None
      /\ DOMAIN req' = ReqFields /\ req'.kind = req.kind /\ req'.http = req.http
      /\ req'.sent = None /\ req'.layers = <<Ho!MemberLayer>>
  BY <1>1, LayerShape
<1>3. Built' /\ Mounts' /\ (Grouped' <=> Grouped) /\ Ho!MemberLayer' = Ho!MemberLayer
  BY <1>2, StillServed DEF HostInv
<1>4. req.kind \in {"call", "list", "read"} /\ Built
  BY <1>2 DEF HostInv, Requested
<1>5. ContextIs(Ho!call_context(Outer.headers)) /\ Ho!call_context(Outer.headers) # None
  BY <1>2, <1>4, ContextMade, OuterIs DEF AtOuter
<1>6. Untouched'
  <2>1. req.extras = {} /\ req.stamp = None /\ req.by = "inner"
    BY DEF AtOuter, Untouched
  <2>2. /\ Ho!stamp_list(Outer, None) = None /\ Ho!apply_to_read(Outer, None) = None
    BY <1>4, OuterIs DEF Ho!stamp_list, Ho!apply_to_read
  <2>3. req'.extras = {} /\ req'.stamp = None /\ req'.by = "inner"
    BY <1>1, <1>4, <2>1, <2>2, LayerShape, OuterIs
  <2> QED
    BY <1>2, <2>3 DEF Untouched
<1>7. req'.kind = "call" => req'.seen = Told(group.chain, FALSE)
  <2> SUFFICES ASSUME req.kind = "call" PROVE req'.seen = Told(group.chain, FALSE)
    BY <1>2
  <2>1. req'.seen = <<>> \o Told(group.chain, FALSE)
    BY <1>1, <1>4, LayerShape, OuterIs DEF AtOuter, Ho!invoke, Told
  <2>2. Told(group.chain, FALSE) \in Seq(Links \X {FALSE})
    BY <1>4, ToldIs DEF Built
  <2> QED
    BY <2>1, <2>2, ConcatEmptySeq
<1>8. req'.context # None => ContextIs(req.context)'
  <2>1. CASE req.kind = "list"
    BY <1>2, <2>1, LayerShape DEF AtOuter
  <2>2. CASE req.kind # "list"
    <3>1. req'.context = Ho!call_context(Outer.headers)
      BY <1>1, <1>4, <2>2, LayerShape
    <3>2. ContextIs(req'.context)
      BY <1>5, <3>1
    <3> QED
      BY <1>2, <3>2, ContextPrimed
  <2> QED
    BY <2>1, <2>2
<1>9. Told(group.chain, FALSE)' = Told(group.chain, FALSE)
  BY <1>2 DEF Told
<1>10. AtMember'
  BY <1>2, <1>3, <1>6, <1>7, <1>8, <1>9 DEF AtMember, AtOuter
<1> QED
  BY <1>2, <1>3, <1>4, <1>10 DEF HostInv, Requested

LEMMA ChainTold ==
  ASSUME Built, AtMember, req.kind = "call"
  PROVE  req.seen = Told(group.chain, FALSE)
<1>1. CASE Grouped
  BY <1>1 DEF AtMember
<1>2. CASE ~Grouped
  <2>1. group.chain = <<>> /\ req.seen = <<>>
    BY <1>2 DEF Grouped, AtMember
  <2>2. Told(group.chain, FALSE) = [i \in {} |-> <<group.chain[i], FALSE>>]
    <3>1. DOMAIN group.chain = {}
      BY <2>1
    <3> QED
      BY <3>1 DEF Told
  <2>3. [i \in {} |-> <<group.chain[i], FALSE>>] = <<>>
    OBVIOUS
  <2> QED
    BY <2>1, <2>2, <2>3
<1> QED
  BY <1>1, <1>2

LEMMA MemberKeeps ==
  ASSUME Ho!HostingAssumption, HostInv, AtMember, Ho!Layer
  PROVE  HostInv'
<1>1. Head(req.layers) = Ho!MemberLayer /\ Tail(req.layers) = <<>>
  BY HeadTail DEF AtMember
<1>2. /\ UNCHANGED <<svc, group, served>> /\ served # None /\ req # None
      /\ DOMAIN req' = ReqFields /\ req'.kind = req.kind /\ req'.http = req.http
      /\ req'.sent = None /\ req'.layers = <<>>
  BY <1>1, LayerShape
<1>3. Built' /\ Mounts'
  BY <1>2, StillServed DEF HostInv
<1>4. req.kind \in {"call", "list", "read"} /\ Built
  BY <1>2 DEF HostInv, Requested
<1>5. req.extras = {} /\ req.stamp = None /\ req.by = "inner"
  BY DEF AtMember, Untouched
<1>6. req.kind = "call" => /\ Firsts(req'.seen) = group.chain \o svc.chain
                           /\ req'.args \cap svc.extras = {} /\ req'.extras \subseteq svc.extras
  <2> SUFFICES ASSUME req.kind = "call"
               PROVE  /\ Firsts(req'.seen) = group.chain \o svc.chain
                      /\ req'.args \cap svc.extras = {} /\ req'.extras \subseteq svc.extras
    OBVIOUS
  <2>1. /\ req'.args = req.args \ svc.extras /\ req'.extras = {} \cup (req.args \cap svc.extras)
        /\ req'.seen = req.seen \o Ho!invoke(Ho!MemberLayer)
    BY <1>1, <1>5, LayerShape, MemberIs
  <2>2. Ho!invoke(Ho!MemberLayer) = Told(svc.chain, svc.methods)
    BY MemberIs DEF Ho!invoke, Told
  <2>3. req.seen = Told(group.chain, FALSE)
    BY <1>4, ChainTold
  <2>4. Firsts(Told(group.chain, FALSE) \o Told(svc.chain, svc.methods)) = group.chain \o svc.chain
    BY <1>4, FirstsOfTold DEF Built
  <2>5. Firsts(req'.seen) = group.chain \o svc.chain
    BY <2>1, <2>2, <2>3, <2>4
  <2> QED
    BY <2>1, <2>5
<1>7. req.kind = "list" => svc.extras \subseteq req'.args /\ req'.stamp = svc.cache
  BY <1>1, <1>5, LayerShape, MemberIs DEF Ho!stamp_list
<1>8. req.kind = "read" => /\ req'.stamp = (IF svc.rcache # None THEN svc.rcache ELSE svc.cache)
                           /\ req'.by = (IF svc.handler THEN "handler" ELSE "inner")
  BY <1>1, <1>5, LayerShape, MemberIs DEF Ho!stamp_list, Ho!apply_to_read
<1>9. ASSUME req.kind # "list"
      PROVE  /\ ContextIs(req.context)'
             /\ svc.headers # {} => req'.context.incoming = Ho!incoming_headers(svc.headers)
  <2>1. req'.context = Ho!call_context(svc.headers)
    BY <1>1, <1>4, <1>9, LayerShape, MemberIs
  <2>2. svc.headers \in SUBSET Ho!Mappings
    BY <1>4 DEF Built
  <2>3. req.context # None => ContextIs(req.context)
    BY DEF AtMember
  <2>4. /\ ContextIs(Ho!call_context(svc.headers))
        /\ svc.headers # {} =>
             Ho!call_context(svc.headers).incoming = Ho!incoming_headers(svc.headers)
    BY <1>2, <2>2, <2>3, ContextMade
  <2>5. ContextIs(req'.context)
    BY <2>1, <2>4
  <2> QED
    BY <1>2, <2>1, <2>4, <2>5, ContextPrimed
<1>10. Ho!incoming_headers(svc.headers)' = Ho!incoming_headers(svc.headers)
  BY <1>2, SameCaller
<1>11. Firsts(req.seen)' = Firsts(req'.seen)
  BY DEF Firsts
<1>12. AtEnd'
  BY <1>2, <1>6, <1>7, <1>8, <1>9, <1>10, <1>11 DEF AtEnd
<1> QED
  BY <1>2, <1>3, <1>4, <1>12 DEF HostInv, Requested

\* What a tool's own call sends in the end.
LEMMA SendsOwn ==
  ASSUME HostInv, req # None, AtEnd, req.kind # "list", NEW s,
         s = Ho!forward_metadata(req.context)
               \cup {<<k, "tool">> : k \in {"k1", "own"} \ {e[1] : e \in Ho!forward_metadata(req.context)}}
  PROVE  /\ \A e \in s : e[2] \in {"caller", "empty", "tool"} /\ ~Ho!Owned(e[1])
         /\ req.http # None => \A m \in svc.headers \cup served.headers :
              (req.http[m[1]] = "set" /\ ~Ho!Owned(m[2])) => <<m[2], "caller">> \in s
         /\ \A e \in s : e[2] = "tool" => e[1] \in {"own", "k1"}
<1> DEFINE c == req.context
           md == Ho!forward_metadata(c)
           f == {e \in c.forwarded : ~Ho!Owned(e[1])}
           kept == {e \in c.incoming : ~Ho!Owned(e[1])}
           own == {<<k, "tool">> : k \in {"k1", "own"} \ {e[1] : e \in md}}
<1>1. ContextIs(c)
  BY DEF AtEnd
<1>2. /\ c.incoming \subseteq Ho!Metadata /\ c.forwarded \subseteq Ho!Metadata
      /\ c.forwarded = Ho!Forwarded /\ \A e \in c.incoming : ~Ho!Owned(e[1])
  BY <1>1 DEF ContextIs
<1>3. md = {e \in kept : \A g \in f : g[1] # e[1]} \cup f
  BY DEF Ho!forward_metadata, Ho!apply
<1>4. md \subseteq Ho!Metadata /\ \A e \in md : ~Ho!Owned(e[1])
  BY <1>2, <1>3
<1>5. served # None
  BY DEF HostInv, Requested, AtEnd
<1>6. served.headers \subseteq Ho!Mappings /\ svc.headers \subseteq Ho!Mappings
  BY <1>5, HeadersTyped DEF HostInv, Built
<1>7. /\ \A e \in f : e = <<e[1], "caller">>
      /\ req.http # None => \A m \in served.headers : req.http[m[1]] = "set" => <<m[2], "caller">> \in c.forwarded
  BY <1>2, <1>6, ForwardedIs
<1>8. ASSUME req.http # None, NEW m \in svc.headers \cup served.headers,
             req.http[m[1]] = "set", ~Ho!Owned(m[2])
      PROVE  <<m[2], "caller">> \in md
  <2> DEFINE p == <<m[2], "caller">>
  <2>0. p[1] = m[2]
    OBVIOUS
  <2>1. CASE m \in served.headers
    <3>1. p \in c.forwarded
      BY <1>7, <1>8, <2>1
    <3> QED
      BY <1>3, <1>8, <2>0, <3>1
  <2>2. CASE m \in svc.headers
    <3>1. c.incoming = Ho!incoming_headers(svc.headers)
      BY <2>2 DEF AtEnd
    <3>2. p \in Ho!incoming_headers(svc.headers)
      BY <1>6, <1>8, <2>2, IncomingIs
    <3>3. p \in kept
      BY <1>8, <2>0, <3>1, <3>2
    <3>4. CASE \E g \in f : g[1] = p[1]
      <4>1. PICK g \in f : g[1] = p[1]
        BY <3>4
      <4>2. g = p
        BY <1>7, <2>0, <4>1
      <4> QED
        BY <1>3, <4>1, <4>2
    <3>5. CASE ~ \E g \in f : g[1] = p[1]
      BY <1>3, <3>3, <3>5
    <3> QED
      BY <3>4, <3>5
  <2> QED
    BY <2>1, <2>2
<1>9. \A e \in Ho!Metadata : e[2] \in {"caller", "empty"}
  BY DEF Ho!Metadata
<1>10. \A e \in own : e[2] = "tool" /\ e[1] \in {"own", "k1"}
  OBVIOUS
<1>11. s = md \cup own
  OBVIOUS
<1> HIDE DEF md, own, f, kept, c
<1>12. \A e \in own : ~Ho!Owned(e[1])
  BY <1>10 DEF Ho!Owned
<1> QED
  BY <1>4, <1>8, <1>9, <1>10, <1>11, <1>12

LEMMA SendKeeps ==
  ASSUME Ho!HostingAssumption, HostInv, Ho!apply_call_context
  PROVE  HostInv'
<1>1. UNCHANGED <<svc, group, served>> /\ req # None /\ req.layers = <<>> /\ req.sent = None
  BY DEF Ho!apply_call_context
<1>2. served # None /\ DOMAIN req = ReqFields /\ req.kind \in {"call", "list", "read"}
  BY <1>1 DEF HostInv, Requested
<1>3. AtEnd
  <2>1. <<Outer, Ho!MemberLayer>> # <<>> /\ <<Ho!MemberLayer>> # <<>>
    OBVIOUS
  <2> QED
    BY <1>1, <2>1 DEF HostInv, Requested, AtOuter, AtMember
<1> DEFINE md == IF req.context = None THEN {} ELSE Ho!forward_metadata(req.context)
           s == md \union {<<k, "tool">> : k \in {"k1", "own"} \ {e[1] : e \in md}}
<1>4. req' = [req EXCEPT !.sent = s]
  BY DEF Ho!apply_call_context
<1> HIDE DEF md, s
<1>5. /\ DOMAIN req' = ReqFields /\ req'.kind = req.kind /\ req'.http = req.http
      /\ req'.layers = req.layers /\ req'.context = req.context /\ req'.seen = req.seen
      /\ req'.args = req.args /\ req'.extras = req.extras /\ req'.stamp = req.stamp
      /\ req'.by = req.by /\ req'.sent = s
  BY <1>2, <1>4 DEF ReqFields
<1>6. Built' /\ Mounts'
  BY <1>1, StillServed DEF HostInv
<1>7. ASSUME req.kind # "list" PROVE Sent'
  <2>1. req.context # None
    BY <1>3, <1>7 DEF AtEnd, ContextIs, Ho!HostingAssumption
  <2>2. s = Ho!forward_metadata(req.context)
              \cup {<<k, "tool">> : k \in {"k1", "own"} \ {e[1] : e \in Ho!forward_metadata(req.context)}}
    BY <2>1 DEF s, md
  <2>3. /\ \A e \in s : e[2] \in {"caller", "empty", "tool"} /\ ~Ho!Owned(e[1])
        /\ req.http # None => \A m \in svc.headers \cup served.headers :
             (req.http[m[1]] = "set" /\ ~Ho!Owned(m[2])) => <<m[2], "caller">> \in s
        /\ \A e \in s : e[2] = "tool" => e[1] \in {"own", "k1"}
    BY <1>1, <1>3, <1>7, <2>2, SendsOwn
  <2> QED
    BY <1>1, <1>5, <2>3 DEF Sent, Ho!Owned
<1>8. ContextIs(req.context) => ContextIs(req.context)'
  BY <1>1, <1>5, ContextPrimed
<1>9. Ho!incoming_headers(svc.headers)' = Ho!incoming_headers(svc.headers)
  BY <1>1, <1>5, SameCaller
<1>10. Firsts(req.seen)' = Firsts(req.seen)
  BY <1>5 DEF Firsts
<1>11. AtEnd'
  BY <1>1, <1>3, <1>5, <1>7, <1>8, <1>9, <1>10 DEF AtEnd
<1> QED
  BY <1>1, <1>2, <1>5, <1>6, <1>11 DEF HostInv, Requested

LEMMA HostStays ==
  ASSUME Ho!HostingAssumption
  PROVE  HostInv /\ [Ho!Next]_(Ho!hvars) => HostInv'
<1> SUFFICES ASSUME HostInv, [Ho!Next]_(Ho!hvars) PROVE HostInv'
  OBVIOUS
<1>1. CASE UNCHANGED Ho!hvars
  <2>1. UNCHANGED <<svc, group, served, req>>
    BY <1>1 DEF Ho!hvars
  <2>2. Built' /\ Mounts'
    BY <2>1, StillServed DEF HostInv
  <2>3. (AtOuter' <=> AtOuter) /\ (AtMember' <=> AtMember) /\ (AtEnd' <=> AtEnd)
    BY <2>1 DEF AtOuter, AtMember, AtEnd, Outer, Grouped, Untouched, Told, Firsts, ContextIs, Sent,
                Ho!MemberLayer, Ho!BareLayer, Ho!Forwarded, Ho!incoming_headers
  <2> QED
    BY <2>1, <2>2, <2>3 DEF HostInv, Requested
<1>2. ASSUME NEW f \in DOMAIN Ho!Values, Ho!Set(f) PROVE HostInv'
  BY <1>2, SetKeeps
<1>3. ASSUME NEW f \in DOMAIN Ho!GroupValues, Ho!SetGroup(f) PROVE HostInv'
  BY <1>3, SetGroupKeeps
<1>4. CASE Ho!config \/ Ho!ServerConfig
  BY <1>4, ConfigKeeps
<1>5. CASE Ho!Serve
  BY <1>5, ServeKeeps
<1>6. CASE Ho!Begin
  BY <1>6, BeginKeeps
<1>7. CASE Ho!Layer
  <2>1. req # None /\ req.layers # <<>>
    BY <1>7 DEF Ho!Layer
  <2>2. AtOuter \/ AtMember
    BY <2>1 DEF HostInv, Requested, AtEnd
  <2> QED
    BY <1>7, <2>2, OuterKeeps, MemberKeeps
<1>8. CASE Ho!apply_call_context
  BY <1>8, SendKeeps
<1> QED
  BY <1>1, <1>2, <1>3, <1>4, <1>5, <1>6, <1>7, <1>8 DEF Ho!Next

LEMMA LeastIndex ==
  ASSUME NEW S \in SUBSET Nat, S # {}
  PROVE  (CHOOSE i \in S : \A j \in S : i <= j) \in S
<1>1. \E i \in S : \A j \in S : i <= j
  BY LeastOf
<1> QED
  BY <1>1

LEMMA AnnouncedIs ==
  ASSUME HostInv, served # None, served.endpoint # None
  PROVE  /\ served.endpoint.port = Ho!announced_port
         /\ (svc.base \in {"/", "/mcp", "/x"} /\ served.endpoint.transport = "http")
              => <<served.endpoint.transport, served.endpoint.path>> \in served.routes
<1> DEFINE t == Ho!resolved_transports
           http == {i \in DOMAIN t : Ho!listens(t[i])}
           first == CHOOSE i \in http : \A j \in http : i <= j
           path == IF svc.base = Blank THEN "/mcp" ELSE svc.base
<1>1. served.endpoint = Ho!Announced(svc.base) /\ served.routes = Ho!Routes(svc.base)
  BY DEF HostInv, Mounts
<1>2. Ho!Announced(svc.base) =
        IF http = {} THEN None
        ELSE [transport |-> t[first], path |-> path, port |-> Ho!announced_port]
  BY Zenon DEF Ho!Announced, Blank
<1>3. t \in Seq(Transports)
  BY DEF HostInv, Built, Ho!resolved_transports
<1> HIDE DEF t, path
<1>4. DOMAIN t \subseteq Nat
  BY <1>3
<1>5. http # {} /\ http \in SUBSET Nat
  BY <1>1, <1>2, <1>4
<1>6. first \in http
  <2> HIDE DEF http
  <2> QED
    BY <1>5, LeastIndex
<1> HIDE DEF first
<1>7. /\ served.endpoint.transport = t[first] /\ served.endpoint.path = path
      /\ served.endpoint.port = Ho!announced_port
  BY <1>1, <1>2, <1>5
<1>8. ASSUME svc.base \in {"/", "/mcp", "/x"}, t[first] = "http"
      PROVE  <<"http", svc.base>> \in Ho!Routes(svc.base)
  <2>1. Ho!MountPath(svc.base) = svc.base
    BY <1>8, Zenon DEF Ho!MountPath
  <2>2. "http" \in {u \in Ho!Range(t) : Ho!listens(u)}
    BY <1>6, <1>8, <1>3 DEF Ho!Range, Ho!listens
  <2>3. <<"http", IF "http" = "sse" THEN Ho!SsePath(Ho!MountPath(svc.base)) ELSE Ho!MountPath(svc.base)>>
          \in Ho!Routes(svc.base)
    BY <2>2 DEF Ho!Routes, t
  <2> QED
    BY <2>1, <2>3
<1>9. svc.base \in {"/", "/mcp", "/x"} => path = svc.base
  BY Zenon DEF path, Blank
<1> QED
  BY <1>1, <1>7, <1>8, <1>9

LEMMA HostShows ==
  ASSUME Ho!HostingAssumption
  PROVE  HostInv => Ho!CallerIsCaller /\ Ho!ServedAsDeclared /\ Ho!EndpointReached
<1> SUFFICES ASSUME HostInv PROVE Ho!CallerIsCaller /\ Ho!ServedAsDeclared /\ Ho!EndpointReached
  OBVIOUS
<1>1. ASSUME req # None, req.layers = <<>> PROVE AtEnd
  <2>1. <<Outer, Ho!MemberLayer>> # <<>> /\ <<Ho!MemberLayer>> # <<>>
    OBVIOUS
  <2> QED
    BY <1>1, <2>1 DEF HostInv, Requested, AtOuter, AtMember
<1>2. ASSUME req # None, req.sent # None PROVE AtEnd
  BY <1>2 DEF HostInv, Requested, AtOuter, AtMember, Untouched
<1>3. Ho!CallerIsCaller
  BY <1>2 DEF AtEnd, Sent, Ho!CallerIsCaller
<1>4. Ho!ServedAsDeclared
  BY <1>1 DEF AtEnd, Firsts, Ho!ServedAsDeclared
<1>5. Ho!EndpointReached
  <2>1. ASSUME served # None, Ho!Addr # "v6" PROVE Ho!announced_port = served.port
    BY <2>1 DEF HostInv, Mounts, Ho!announced_port, Ho!listen_addr
  <2> QED
    BY <2>1, AnnouncedIs DEF Ho!EndpointReached
<1> QED
  BY <1>3, <1>4, <1>5

-----------------------------------------------------------------------------
(* A2A services (module A2a), for any services and configurations.         *)

\* Paths, and what a path is when it is clean.
Root(q) == <<Blank>> \o q
Special == {Blank, ".", ".."}
Words == Aa!Parts
Paths == Aa!Paths
Clean == Seq(Words \ Special)

IsClean(g, path, n) ==
  g = [m \in 0..n |-> IF m = 0 THEN <<>> ELSE Aa!Segment(g[m - 1], path[m])]

LEMMA CleanExists ==
  ASSUME NEW path \in Paths, NEW n \in 0..Len(path)
  PROVE  \E g : IsClean(g, path, n)
<1>0. Len(path) \in Nat
  BY LenProperties DEF Paths, Aa!Paths, Words
<1> SUFFICES ASSUME {m \in 0..Len(path) : \A g : ~IsClean(g, path, m)} # {} PROVE FALSE
  OBVIOUS
<1> DEFINE Bad == {m \in 0..Len(path) : \A g : ~IsClean(g, path, m)}
<1>1. PICK u \in Bad : \A m \in Bad : u <= m
  <2>1. Bad \in SUBSET Nat
    BY <1>0
  <2> QED
    BY <2>1, LeastOf
<1>2. u # 0
  <2>1. IsClean([m \in 0..0 |-> <<>>], path, 0)
    BY DEF IsClean
  <2> QED
    BY <2>1
<1>3. PICK g : IsClean(g, path, u - 1)
  <2>1. u - 1 \in 0..Len(path) /\ ~(u <= u - 1)
    BY <1>0, <1>2
  <2>2. u - 1 \notin Bad
    BY <1>1, <2>1
  <2> QED
    BY <2>1, <2>2
<1> DEFINE h == [m \in 0..u |-> IF m = u THEN Aa!Segment(g[u - 1], path[u]) ELSE g[m]]
<1>4. u \in Nat /\ u >= 1
  BY <1>0, <1>2
<1>5. ASSUME NEW m \in 0..u
      PROVE  h[m] = IF m = 0 THEN <<>> ELSE Aa!Segment(h[m - 1], path[m])
  <2>1. CASE m = 0
    BY <1>3, <1>4, <2>1 DEF IsClean
  <2>2. CASE m = u
    <3>1. h[m - 1] = g[u - 1]
      BY <1>4, <2>2
    <3>2. h[m] = Aa!Segment(g[u - 1], path[u])
      BY <1>4, <2>2
    <3>3. m # 0
      BY <1>4, <2>2
    <3> HIDE DEF h
    <3> QED
      BY <2>2, <3>1, <3>2, <3>3, Zenon
  <2>3. CASE m # 0 /\ m # u
    <3>1. m \in 0..(u - 1) /\ m - 1 \in 0..u /\ m - 1 # u
      BY <1>4, <2>3
    <3>2. h[m] = g[m] /\ h[m - 1] = g[m - 1]
      BY <2>3, <3>1
    <3>3. g[m] = Aa!Segment(g[m - 1], path[m])
      BY <1>3, <2>3, <3>1 DEF IsClean
    <3> QED
      BY <2>3, <3>2, <3>3
  <2> QED
    BY <2>1, <2>2, <2>3
<1>6. IsClean(h, path, u)
  <2>1. h = [m \in 0..u |-> IF m = 0 THEN <<>> ELSE Aa!Segment(h[m - 1], path[m])]
    <3>1. h = [m \in 0..u |-> h[m]]
      OBVIOUS
    <3> HIDE DEF h
    <3> QED
      BY <1>5, <3>1
  <2> QED
    BY <2>1 DEF IsClean
<1> QED
  BY <1>1, <1>6

Cleaned(path) == CHOOSE g : IsClean(g, path, Len(path))

LEMMA CleanIs ==
  ASSUME NEW path \in Paths
  PROVE  /\ Aa!clean_rooted(path) = Cleaned(path)[Len(path)]
         /\ Cleaned(path)[0] = <<>>
         /\ \A k \in 1..Len(path) : Cleaned(path)[k] = Aa!Segment(Cleaned(path)[k - 1], path[k])
<1> DEFINE g == Cleaned(path)
<1>0. Len(path) \in Nat
  BY LenProperties DEF Paths, Aa!Paths, Words
<1>1. IsClean(g, path, Len(path))
  <2>1. Len(path) \in 0..Len(path)
    BY <1>0
  <2> QED
    BY <2>1, CleanExists DEF Cleaned
<1>2. Aa!clean_rooted(path) = g[Len(path)]
  BY DEF Aa!clean_rooted, Cleaned, IsClean
<1>3. g = [m \in 0..Len(path) |-> IF m = 0 THEN <<>> ELSE Aa!Segment(g[m - 1], path[m])]
  BY <1>1 DEF IsClean
<1> HIDE DEF g
<1>4. \A m \in 0..Len(path) : g[m] = IF m = 0 THEN <<>> ELSE Aa!Segment(g[m - 1], path[m])
  BY <1>3
<1>5. g[0] = <<>>
  BY <1>0, <1>4
<1>6. ASSUME NEW k \in 1..Len(path) PROVE g[k] = Aa!Segment(g[k - 1], path[k])
  <2>1. k \in 0..Len(path) /\ k # 0
    BY <1>0
  <2> QED
    BY <1>4, <2>1, Zenon
<1> QED
  BY <1>2, <1>5, <1>6 DEF g

\* One part more leaves a clean path clean, and a plain part is added to it.
LEMMA SegmentIs ==
  ASSUME NEW done \in Clean, NEW w \in Words
  PROVE  /\ Aa!Segment(done, w) \in Clean
         /\ w \notin Special => Aa!Segment(done, w) = Append(done, w)
         /\ w = Blank => Aa!Segment(done, w) = done
<1>1. CASE w \in {"", "."}
  BY <1>1, Zenon DEF Aa!Segment, Special, Blank
<1>2. CASE w = ".."
  <2>1. Aa!Segment(done, w) = IF done = <<>> THEN done ELSE SubSeq(done, 1, Len(done) - 1)
    BY <1>2, Zenon DEF Aa!Segment
  <2>2. CASE done # <<>>
    <3>1. Len(done) \in Nat /\ Len(done) # 0
      BY <2>2, LenProperties, EmptySeq DEF Clean
    <3>2. \A i \in 1..(Len(done) - 1) : done[i] \in Words \ Special
      BY <3>1, ElementOfSeq DEF Clean
    <3>3. SubSeq(done, 1, Len(done) - 1) \in Clean
      BY <3>1, <3>2, SubSeqProperties DEF Clean
    <3>4. Blank # ".."
      BY Zenon DEF Blank
    <3> QED
      BY <1>2, <2>1, <2>2, <3>3, <3>4 DEF Special
  <2> QED
    BY <1>2, <2>1, <2>2 DEF Special
<1>3. CASE w \notin Special
  <2>1. Aa!Segment(done, w) = Append(done, w)
    BY <1>3, Zenon DEF Aa!Segment, Special, Blank
  <2>2. Append(done, w) \in Clean
    BY <1>3, AppendProperties DEF Clean
  <2> QED
    BY <1>3, <2>1, <2>2 DEF Special
<1> QED
  BY <1>1, <1>2, <1>3, Zenon DEF Special, Blank

LEMMA CleanTyped ==
  ASSUME NEW path \in Paths
  PROVE  Aa!clean_rooted(path) \in Clean
<1> DEFINE g == Cleaned(path)
           Bad == {k \in 0..Len(path) : g[k] \notin Clean}
<1>0. Len(path) \in Nat
  BY LenProperties DEF Paths, Aa!Paths, Words
<1>1. Bad = {}
  <2> SUFFICES ASSUME Bad # {} PROVE FALSE
    OBVIOUS
  <2>1. PICK u \in Bad : \A m \in Bad : u <= m
    <3>1. Bad \in SUBSET Nat
      BY <1>0
    <3> QED
      BY <3>1, LeastOf
  <2>2. u # 0
    <3>1. g[0] = <<>>
      BY CleanIs
    <3>2. <<>> \in Clean
      BY DEF Clean
    <3> QED
      BY <2>1, <3>1, <3>2
  <2>3. u \in 1..Len(path) /\ u - 1 \in 0..Len(path) /\ ~(u <= u - 1)
    BY <1>0, <2>1, <2>2
  <2>4. g[u - 1] \in Clean
    BY <2>1, <2>3
  <2>5. path[u] \in Words
    BY <2>3, ElementOfSeq DEF Paths, Aa!Paths, Words
  <2>6. g[u] = Aa!Segment(g[u - 1], path[u])
    BY <2>3, CleanIs
  <2> HIDE DEF g
  <2>7. g[u] \in Clean
    BY <2>4, <2>5, <2>6, SegmentIs
  <2> QED
    BY <2>1, <2>7 DEF Bad
<1>2. g[Len(path)] \in Clean
  BY <1>0, <1>1
<1> QED
  BY <1>2, CleanIs

\* A clean path that is written as rooted is what it was.
LEMMA CleanAgain ==
  ASSUME NEW q \in Clean
  PROVE  Root(q) \in Paths /\ Aa!clean_rooted(Root(q)) = q
<1> DEFINE p == Root(q)
           g == Cleaned(p)
           Bad == {k \in 0..Len(q) : g[k + 1] # SubSeq(q, 1, k)}
<1>0. Len(q) \in Nat
  BY LenProperties DEF Clean
<1>1. q \in Paths /\ \A i \in 1..Len(q) : q[i] \in Words \ Special
  <2>1. \A i \in 1..Len(q) : q[i] \in Words \ Special
    BY ElementOfSeq DEF Clean
  <2> QED
    BY <2>1 DEF Clean, Paths, Aa!Paths, Words
<1>2. /\ p \in Paths /\ Len(p) = Len(q) + 1 /\ p[1] = Blank
      /\ \A i \in 1..Len(q) : p[i + 1] = q[i]
  <2>1. Blank \in Words
    BY Zenon DEF Words, Aa!Parts, Blank
  <2> DEFINE e == <<Blank>>
  <2>2. e \in Seq(Words) /\ Len(e) = 1 /\ e[1] = Blank
    BY <2>1, Single, Zenon
  <2> HIDE DEF e
  <2>3. /\ e \o q \in Seq(Words) /\ Len(e \o q) = Len(e) + Len(q)
        /\ \A i \in 1..Len(e) : (e \o q)[i] = e[i]
        /\ \A i \in 1..Len(q) : (e \o q)[Len(e) + i] = q[i]
    <3>1. q \in Seq(Words)
      BY <1>1 DEF Paths, Aa!Paths, Words
    <3> QED
      BY <2>2, <3>1, Concatenated
  <2> DEFINE z == e \o q
  <2> HIDE DEF z
  <2>4. z \in Seq(Words) /\ Len(z) = 1 + Len(q) /\ (\A i \in 1..1 : z[i] = e[i])
        /\ \A i \in 1..Len(q) : z[1 + i] = q[i]
    BY <2>2, <2>3 DEF z
  <2>5. z[1] = Blank
    <3>1. 1 \in 1..1
      OBVIOUS
    <3> QED
      BY <2>2, <2>4, <3>1
  <2>6. \A i \in 1..Len(q) : 1 + i = i + 1
    BY <1>0
  <2>7. 1 + Len(q) = Len(q) + 1
    BY <1>0
  <2> QED
    BY <2>4, <2>5, <2>6, <2>7 DEF z, e, Paths, Aa!Paths, Words, Root
<1> HIDE DEF p
<1>7. Len(p) = Len(q) + 1
  BY <1>2
<1>3. g[0] = <<>> /\ \A k \in 1..Len(p) : g[k] = Aa!Segment(g[k - 1], p[k])
  BY <1>2, CleanIs
<1>4. g[1] = <<>>
  <2>0. 1 \in 1..Len(p) /\ 1 - 1 = 0 /\ Blank \in Words
    <3>1. Blank \in Words
      BY Zenon DEF Words, Aa!Parts, Blank
    <3> QED
      BY <1>0, <1>7, <3>1
  <2> HIDE DEF g
  <2>1. g[1] = Aa!Segment(g[0], p[1])
    <3>1. g[1] = Aa!Segment(g[1 - 1], p[1])
      BY <1>3, <2>0, Zenon
    <3> QED
      BY <2>0, <3>1, Zenon
  <2>2. <<>> \in Clean
    BY DEF Clean
  <2>3. Aa!Segment(<<>>, Blank) = <<>>
    BY <2>0, <2>2, SegmentIs
  <2> QED
    BY <1>2, <1>3, <2>1, <2>3, Zenon
<1>5. Bad = {}
  <2> SUFFICES ASSUME Bad # {} PROVE FALSE
    OBVIOUS
  <2>1. PICK u \in Bad : \A m \in Bad : u <= m
    <3>1. Bad \in SUBSET Nat
      BY <1>0
    <3> QED
      BY <3>1, LeastOf
  <2>2. u # 0
    <3>1. SubSeq(q, 1, 0) = <<>>
      BY DEF Clean
    <3>2. ASSUME u = 0 PROVE FALSE
      <4>1. g[u + 1] # SubSeq(q, 1, u)
        BY <2>1
      <4>2. u + 1 = 1
        BY <3>2
      <4> HIDE DEF g
      <4> QED
        BY <1>4, <3>1, <3>2, <4>1, <4>2, Zenon
    <3> QED
      BY <3>2
  <2>3. u \in 1..Len(q) /\ u - 1 \in 0..Len(q) /\ ~(u <= u - 1) /\ u \in Nat /\ (u - 1) + 1 = u
    BY <1>0, <2>1, <2>2
  <2>4. g[u] = SubSeq(q, 1, u - 1)
    BY <2>1, <2>3
  <2>5. u + 1 \in 1..Len(p) /\ (u + 1) - 1 = u /\ p[u + 1] = q[u]
    <3>1. p[u + 1] = q[u]
      BY <1>2, <2>3
    <3>2. u + 1 \in 1..Len(p) /\ (u + 1) - 1 = u
      BY <1>0, <1>7, <2>3
    <3> QED
      BY <3>1, <3>2
  <2>6. g[u + 1] = Aa!Segment(g[u], q[u])
    BY <1>3, <2>5
  <2> HIDE DEF g
  <2>7. SubSeq(q, 1, u - 1) \in Clean
    <3>1. \A i \in 1..(u - 1) : q[i] \in Words \ Special
      BY <1>0, <1>1, <2>3
    <3> QED
      BY <1>0, <2>3, <3>1, SubSeqProperties DEF Clean
  <2>8. g[u + 1] = Append(SubSeq(q, 1, u - 1), q[u])
    BY <1>1, <2>3, <2>4, <2>6, <2>7, SegmentIs
  <2>9. Append(SubSeq(q, 1, u - 1), q[u]) = SubSeq(q, 1, u)
    BY <1>0, <2>3 DEF Clean
  <2> QED
    BY <2>1, <2>8, <2>9 DEF Bad
<1>6. g[Len(p)] = q
  <2>1. g[Len(q) + 1] = SubSeq(q, 1, Len(q))
    BY <1>0, <1>5
  <2>2. SubSeq(q, 1, Len(q)) = q
    BY DEF Clean
  <2> HIDE DEF g
  <2> QED
    BY <1>2, <2>1, <2>2
<1> QED
  BY <1>2, <1>6, CleanIs DEF p

-----------------------------------------------------------------------------
(* What an A2A service resolves its configuration to *)

Protocols == Aa!Http \cup {"grpc"}
Shape ==
  [transports : SUBSET Protocols, transport : Protocols \cup {None}, base : Paths \cup {None},
   generated : Paths \cup {None}, mux : {"shared", None}, serveCard : BOOLEAN, grpcRoutes : BOOLEAN]

LEMMA NoneIs == ASSUME Aa!A2aAssumption PROVE None \notin Paths /\ None \notin Protocols /\ None \notin AgentIds
BY DEF Aa!A2aAssumption, Paths, Protocols, Aa!Http

LEMMA BaseIs ==
  ASSUME Aa!A2aAssumption, NEW c \in Shape
  PROVE  Aa!resolved_base_path(c) \in Clean
<1>1. Aa!Default \in Clean
  <2>1. "a2a" \in Words \ Special
    BY Zenon DEF Words, Aa!Parts, Special, Blank
  <2> DEFINE w == "a2a"
  <2> HIDE DEF w
  <2>2. <<w>> \in Seq(Words \ Special)
    BY <2>1, Single DEF w
  <2> QED
    BY <2>2 DEF Aa!Default, w, Clean
<1>2. c.generated \in Paths \cup {None} /\ c.base \in Paths \cup {None}
  BY DEF Shape
<1>3. CASE c.generated # None
  BY <1>2, <1>3, CleanTyped DEF Aa!resolved_base_path
<1>4. CASE c.generated = None /\ c.base # None
  BY <1>2, <1>4, CleanTyped DEF Aa!resolved_base_path, Aa!normalize_base_path
<1>5. CASE c.generated = None /\ c.base = None
  BY <1>1, <1>5 DEF Aa!resolved_base_path, Aa!normalize_base_path
<1> QED
  BY <1>3, <1>4, <1>5

LEMMA RootIs == ASSUME NEW q \in Clean PROVE Root(q) \in Paths /\ Tail(Root(q)) = q
<1> DEFINE p == Root(q)
<1>1. Len(q) \in Nat /\ Blank \in Words /\ q \in Seq(Words)
  <2>1. Blank \in Words
    BY Zenon DEF Words, Aa!Parts, Blank
  <2>2. \A i \in 1..Len(q) : q[i] \in Words
    BY ElementOfSeq DEF Clean
  <2> QED
    BY <2>1, <2>2, LenProperties DEF Clean
<1>2. Tail(<<Blank>> \o q) = q
  BY <1>1
<1> QED
  BY <1>2, CleanAgain DEF Root

\* A configuration that has been resolved.
Settled(c) ==
  /\ c \in Shape /\ c.transports # {} /\ c.generated = None
  /\ c.mux = None => c.serveCard
  /\ \E q \in Clean : c.base = Root(q)

LEMMA SettledServes ==
  ASSUME Aa!A2aAssumption, NEW c, Settled(c)
  PROVE  /\ Aa!build_card(c) = Aa!server_endpoints(c)
         /\ \A e \in Aa!server_endpoints(c) :
              /\ e.transport \in c.transports
              /\ e.transport # "grpc" => e.path = Tail(c.base)
         /\ Aa!card_url(c) # None => c.serveCard
<1>1. Aa!resolved_transports(c) = c.transports
  BY DEF Settled, Aa!resolved_transports
<1>2. Aa!resolved_base_path(c) = Tail(c.base)
  <2>1. PICK q \in Clean : c.base = Root(q)
    BY DEF Settled
  <2>2. c.base # None /\ c.generated = None
    BY <2>1, RootIs, NoneIs DEF Settled
  <2>3. Aa!resolved_base_path(c) = Aa!clean_rooted(Root(q))
    BY <2>1, <2>2 DEF Aa!resolved_base_path, Aa!normalize_base_path
  <2> QED
    BY <2>1, <2>3, RootIs, CleanAgain
<1>3. ASSUME NEW e \in Aa!server_endpoints(c)
      PROVE  e.transport \in c.transports /\ (e.transport # "grpc" => e.path = Tail(c.base))
  <2>1. PICK t \in c.transports : e = [transport |-> t, path |-> Aa!public_url_for(c, t)]
    BY <1>1 DEF Aa!server_endpoints
  <2> QED
    BY <1>2, <2>1 DEF Aa!public_url_for
<1>4. Aa!card_url(c) # None => c.serveCard
  BY DEF Aa!card_url, Settled, Shape
<1> QED
  BY <1>3, <1>4 DEF Aa!build_card

-----------------------------------------------------------------------------
(* Mounting *)

Before == {"resolve", "register", "mount", "ready"}
After == {"failed", "panicked", "bind", "waiting", "serving", "draining", "ended"}

Muxes == {"shared"} \cup AgentIds
Registered(s) == "grpc" \in cfg[s].transports => s \in grpc \/ "grpc" \in lost
Mounted(s) ==
  Aa!Own(s) # {} =>
    \/ Aa!Mux(s) \in lost
    \/ Aa!Own(s) \subseteq routes /\ (cfg[s].serveCard => Aa!card_path_taken(Aa!Mux(s), routes))

\* Where a service is, and what it has mounted by then.
Stage(s) ==
  /\ at[s] \in Before => announced[s] = None
  /\ at[s] # "resolve" => Settled(cfg[s])
  /\ at[s] \in {"mount", "ready"} => Registered(s)
  /\ at[s] = "ready" => Mounted(s)
  /\ announced[s] # None =>
       /\ at[s] \notin Before
       /\ announced[s] = Aa!server_endpoints(cfg[s]) /\ Registered(s) /\ Mounted(s)

\* What is registered was put there by a service that has come that far, and only two
\* services that clash lose a registry.
Placed == \A r \in routes : \E z \in AgentIds :
  at[z] \notin {"resolve", "register", "mount"} /\ r \in Aa!Own(z)
Named == \A z \in grpc :
  z \in AgentIds /\ at[z] \notin {"resolve", "register"} /\ "grpc" \in cfg[z].transports
Losses == \A m \in lost : \E y, z \in AgentIds :
  at[y] # "resolve" /\ at[z] # "resolve" /\ y # z /\ m \in Aa!Clash(y, z)

CardTypes ==
  /\ cfg \in [AgentIds -> Shape] /\ at \in [AgentIds -> Before \cup After]
  /\ card \in [Muxes -> AgentIds \cup {None}] /\ DOMAIN announced = AgentIds
CardInv == CardTypes /\ (\A s \in AgentIds : Stage(s)) /\ Placed /\ Named /\ Losses

\* What is said of a service whose configuration stays.
LEMMA SameService ==
  ASSUME NEW z \in AgentIds, cfg'[z] = cfg[z]
  PROVE  Aa!Mux(z)' = Aa!Mux(z) /\ Aa!Nested(z)' = Aa!Nested(z) /\ Aa!Own(z)' = Aa!Own(z)
BY DEF Aa!Mux, Aa!Nested, Aa!Own

LEMMA SameClash ==
  ASSUME NEW y \in AgentIds, NEW z \in AgentIds, cfg'[y] = cfg[y], cfg'[z] = cfg[z]
  PROVE  Aa!Clash(y, z)' = Aa!Clash(y, z)
<1>1. /\ Aa!Mux(y)' = Aa!Mux(y) /\ Aa!Nested(y)' = Aa!Nested(y)
      /\ Aa!Mux(z)' = Aa!Mux(z) /\ Aa!Nested(z)' = Aa!Nested(z)
  BY SameService
<1> QED
  BY <1>1 DEF Aa!Clash, Aa!Registry

LEMMA OwnIs ==
  ASSUME NEW z \in AgentIds, NEW q \in Aa!Own(z)
  PROVE  /\ q = <<Aa!Mux(z), Aa!Nested(z), q[3], z>> /\ q[1] = Aa!Mux(z)
         /\ q[2] = Aa!Nested(z) /\ q[3] \in cfg[z].transports \cap Aa!Http
<1>1. PICK t \in cfg[z].transports \cap Aa!Http : q = <<Aa!Mux(z), Aa!Nested(z), t, z>>
  BY DEF Aa!Own
<1> QED
  BY <1>1

LEMMA MuxIs == ASSUME CardTypes, NEW z \in AgentIds PROVE Aa!Mux(z) \in Muxes
BY DEF CardTypes, Shape, Aa!Mux, Muxes

LEMMA CardStarts == ASSUME Aa!A2aAssumption, Aa!Init PROVE CardInv
<1>1. cfg \in [AgentIds -> Shape]
  BY DEF Aa!A2aAssumption, Aa!Init, Aa!Configurations, Shape, Paths, Protocols
<1>2. /\ at \in [AgentIds -> Before \cup After]
      /\ card \in [Muxes -> AgentIds \cup {None}] /\ DOMAIN announced = AgentIds
  BY DEF Aa!Init, Before, Muxes
<1>3. \A s \in AgentIds : at[s] = "resolve" /\ announced[s] = None
  BY DEF Aa!Init
<1>4. routes = {} /\ grpc = {} /\ lost = {}
  BY DEF Aa!Init
<1> QED
  BY <1>1, <1>2, <1>3, <1>4 DEF CardInv, CardTypes, Stage, Placed, Named, Losses

\* Nothing on a registry goes but with the registry.
Kept ==
  /\ lost \subseteq lost' /\ (grpc \subseteq grpc' \/ "grpc" \in lost')
  /\ \A r \in routes : r \in routes' \/ r[1] \in lost'
  /\ \A m \in Muxes : card[m] # None => card'[m] # None \/ m \in lost'

LEMMA TakenStays ==
  ASSUME Kept, NEW m \in Muxes, Aa!card_path_taken(m, routes)
  PROVE  Aa!card_path_taken(m, routes)' \/ m \in lost'
BY DEF Kept, Aa!card_path_taken, Aa!AGENT_CARD_PATH

\* What a service has mounted stays mounted.
LEMMA MountedStays ==
  ASSUME CardInv, NEW z \in AgentIds, cfg'[z] = cfg[z], Kept
  PROVE  (Registered(z) => Registered(z)') /\ (Mounted(z) => Mounted(z)')
<1>1. Registered(z) => Registered(z)'
  BY DEF Registered, Kept
<1>2. ASSUME Mounted(z) PROVE Mounted(z)'
  <2>1. Aa!Mux(z)' = Aa!Mux(z) /\ Aa!Own(z)' = Aa!Own(z) /\ Aa!Mux(z) \in Muxes
    BY SameService, MuxIs DEF CardInv
  <2>2. \A q \in Aa!Own(z) : q \in routes => q \in routes' \/ Aa!Mux(z) \in lost'
    BY OwnIs DEF Kept
  <2>3. Aa!card_path_taken(Aa!Mux(z), routes)
          => Aa!card_path_taken(Aa!Mux(z), routes)' \/ Aa!Mux(z) \in lost'
    BY <2>1, TakenStays
  <2>4. Aa!Mux(z) \in lost => Aa!Mux(z) \in lost'
    BY DEF Kept
  <2> QED
    BY <1>2, <2>1, <2>2, <2>3, <2>4 DEF Mounted
<1> QED
  BY <1>1, <1>2

\* A service that does not move.
LEMMA OthersKeep ==
  ASSUME CardInv, NEW z \in AgentIds, at'[z] = at[z], cfg'[z] = cfg[z],
         announced'[z] = announced[z], Kept
  PROVE  Stage(z)'
<1>1. Stage(z)
  BY DEF CardInv
<1> QED
  BY <1>1, MountedStays DEF Stage

\* A service that has been resolved goes on, and puts on a registry only its own.
LEMMA SourcesKeep ==
  ASSUME CardInv, NEW s \in AgentIds, at[s] # "resolve", UNCHANGED cfg,
         NEW to \in (Before \cup After) \ {"resolve", "register"},
         to = "mount" => at[s] = "register", at' = [at EXCEPT ![s] = to],
         routes' \subseteq routes \cup (IF to = "mount" THEN {} ELSE Aa!Own(s)),
         grpc' \subseteq grpc \cup (IF "grpc" \in cfg[s].transports THEN {s} ELSE {}),
         \A m \in lost' \ lost :
           \E y \in AgentIds : at[y] # "resolve" /\ y # s /\ m \in Aa!Clash(y, s)
  PROVE  Placed' /\ Named' /\ Losses'
<1>1. \A z \in AgentIds : at'[z] = IF z = s THEN to ELSE at[z]
  BY DEF CardInv, CardTypes
<1>2. ASSUME NEW r \in routes' PROVE \E z \in AgentIds :
        at'[z] \notin {"resolve", "register", "mount"} /\ r \in Aa!Own(z)'
  <2>1. CASE r \in routes
    <3>1. PICK z \in AgentIds : at[z] \notin {"resolve", "register", "mount"} /\ r \in Aa!Own(z)
      BY <2>1 DEF CardInv, Placed
    <3> QED
      BY <1>1, <3>1, SameService
  <2>2. CASE r \notin routes
    BY <1>1, <2>2, SameService
  <2> QED
    BY <2>1, <2>2
<1>3. Named'
  BY <1>1 DEF CardInv, Named
<1>4. ASSUME NEW m \in lost' PROVE \E y, z \in AgentIds :
        at'[y] # "resolve" /\ at'[z] # "resolve" /\ y # z /\ m \in Aa!Clash(y, z)'
  BY <1>1, SameClash DEF CardInv, Losses
<1> QED
  BY <1>2, <1>3, <1>4 DEF Placed, Losses

\* A service that has been resolved goes on without announcing.
LEMMA MovesOn ==
  ASSUME CardInv, NEW s \in AgentIds, at[s] # "resolve", UNCHANGED <<cfg, announced>>,
         NEW to \in (Before \cup After) \ {"resolve", "register"},
         to = "mount" => at[s] = "register", to \in Before => at[s] \in Before,
         at' = [at EXCEPT ![s] = to], Kept, card' \in [Muxes -> AgentIds \cup {None}],
         routes' \subseteq routes \cup (IF to = "mount" THEN {} ELSE Aa!Own(s)),
         grpc' \subseteq grpc \cup (IF "grpc" \in cfg[s].transports THEN {s} ELSE {}),
         \A m \in lost' \ lost :
           \E y \in AgentIds : at[y] # "resolve" /\ y # s /\ m \in Aa!Clash(y, s),
         to \in {"mount", "ready"} => Registered(s)', to = "ready" => Mounted(s)'
  PROVE  CardInv'
<1>1. CardTypes'
  BY DEF CardInv, CardTypes
<1>2. ASSUME NEW z \in AgentIds PROVE Stage(z)'
  <2>1. CASE z = s
    <3>1. at'[z] = to /\ Stage(z) /\ announced'[z] = announced[z] /\ cfg'[z] = cfg[z]
      BY <2>1 DEF CardInv, CardTypes
    <3>2. (Registered(z) => Registered(z)') /\ (Mounted(z) => Mounted(z)')
      BY MountedStays
    <3>3. to \in Before => announced[z] = None
      BY <2>1, <3>1 DEF Stage
    <3> QED
      BY <2>1, <3>1, <3>2, <3>3 DEF Stage
  <2>2. CASE z # s
    BY <2>2, OthersKeep DEF CardInv, CardTypes
  <2> QED
    BY <2>1, <2>2
<1>3. Placed' /\ Named' /\ Losses'
  BY SourcesKeep
<1> QED
  BY <1>1, <1>2, <1>3 DEF CardInv

LEMMA ResolveKeeps ==
  ASSUME Aa!A2aAssumption, CardInv, NEW s \in AgentIds, Aa!Resolve(s)
  PROVE  CardInv'
<1> DEFINE c == cfg[s]
           d == [c EXCEPT !.transports = Aa!resolved_transports(c), !.base = Aa!Resolved(c),
                          !.generated = None, !.serveCard = @ \/ Aa!Owns(s)]
<1>1. /\ at[s] = "resolve" /\ at' = [at EXCEPT ![s] = "register"]
      /\ UNCHANGED <<routes, card, grpc, lost, announced>> /\ cfg' = [cfg EXCEPT ![s] = d]
  BY DEF Aa!Resolve, Aa!Go
<1>2. c \in Shape
  BY DEF CardInv, CardTypes
<1>3. Aa!resolved_transports(c) \in SUBSET Protocols /\ Aa!resolved_transports(c) # {}
  <2>1. c.transports \subseteq Protocols /\ c.transport \in Protocols \cup {None}
    BY <1>2 DEF Shape
  <2>2. "jsonrpc" \in Protocols
    BY DEF Protocols, Aa!Http
  <2> QED
    BY <2>1, <2>2 DEF Aa!resolved_transports
<1>4. PICK q \in Clean : Aa!Resolved(c) = Root(q)
  <2>1. Aa!resolved_base_path(c) \in Clean
    BY <1>2, BaseIs
  <2>2. Aa!Resolved(c) = Root(Aa!resolved_base_path(c))
    BY Zenon DEF Aa!Resolved, Root, Blank
  <2> QED
    BY <2>1, <2>2
<1>5. Aa!Owns(s) <=> c.mux = None
  BY DEF Aa!Owns
<1>6. /\ d \in Shape /\ d.transports = Aa!resolved_transports(c) /\ d.base = Root(q)
      /\ d.generated = None /\ d.serveCard = (c.serveCard \/ c.mux = None) /\ d.mux = c.mux
  BY <1>2, <1>3, <1>4, <1>5, RootIs DEF Shape
<1>7. Settled(d)
  BY <1>3, <1>6 DEF Settled
<1> HIDE DEF d
<1>8. CardTypes'
  BY <1>1, <1>6 DEF CardInv, CardTypes, Before
<1>9. ASSUME NEW z \in AgentIds PROVE Stage(z)'
  <2>1. CASE z = s
    <3>1. at'[z] = "register" /\ cfg'[z] = d /\ announced'[z] = None
      <4>1. announced[s] = None
        BY <1>1 DEF CardInv, Stage, Before
      <4> QED
        BY <1>1, <2>1, <4>1 DEF CardInv, CardTypes
    <3> QED
      BY <1>7, <3>1 DEF Stage
  <2>2. CASE z # s
    <3>1. Kept
      BY <1>1 DEF Kept
    <3> QED
      BY <1>1, <2>2, <3>1, OthersKeep DEF CardInv, CardTypes
  <2> QED
    BY <2>1, <2>2
\* What is registered belongs to services that are past this step.
<1>10. \A z \in AgentIds : at[z] # "resolve" => at'[z] = at[z] /\ cfg'[z] = cfg[z]
  BY <1>1 DEF CardInv, CardTypes
<1>11. Placed'
  <2> SUFFICES ASSUME NEW r \in routes' PROVE \E z \in AgentIds :
                 at'[z] \notin {"resolve", "register", "mount"} /\ r \in Aa!Own(z)'
    BY DEF Placed
  <2>1. PICK z \in AgentIds : at[z] \notin {"resolve", "register", "mount"} /\ r \in Aa!Own(z)
    BY <1>1 DEF CardInv, Placed
  <2> QED
    BY <1>10, <2>1, SameService
<1>12. Named'
  BY <1>1, <1>10 DEF CardInv, Named
<1>13. Losses'
  <2> SUFFICES ASSUME NEW m \in lost' PROVE \E y, z \in AgentIds :
                 at'[y] # "resolve" /\ at'[z] # "resolve" /\ y # z /\ m \in Aa!Clash(y, z)'
    BY DEF Losses
  <2>1. PICK y \in AgentIds, z \in AgentIds :
          at[y] # "resolve" /\ at[z] # "resolve" /\ y # z /\ m \in Aa!Clash(y, z)
    BY <1>1 DEF CardInv, Losses
  <2> QED
    BY <1>10, <2>1, SameClash
<1> QED
  BY <1>8, <1>9, <1>11, <1>12, <1>13 DEF CardInv

LEMMA RegisterKeeps ==
  ASSUME CardInv, NEW s \in AgentIds, Aa!RegisterGrpc(s)
  PROVE  CardInv'
<1>1. at[s] = "register" /\ UNCHANGED <<cfg, routes, card, announced>>
      /\ at[s] \in Before /\ card' \in [Muxes -> AgentIds \cup {None}]
  BY DEF Aa!RegisterGrpc, Before, CardInv, CardTypes
<1>2. CASE "grpc" \notin cfg[s].transports /\ Aa!Go(s, "mount") /\ UNCHANGED <<grpc, lost>>
  <2>1. Kept /\ Registered(s)'
    BY <1>1, <1>2 DEF Kept, Registered
  <2> QED
    BY <1>1, <1>2, <2>1, MovesOn DEF Aa!Go, Before
<1>3. CASE Aa!Go(s, "failed") /\ UNCHANGED <<grpc, lost>>
  <2>1. Kept
    BY <1>1, <1>3 DEF Kept
  <2> QED
    BY <1>1, <1>3, <2>1, MovesOn DEF Aa!Go, After, Before
<1>4. CASE /\ "grpc" \in cfg[s].transports /\ grpc = {} /\ "grpc" \notin lost
           /\ Aa!Go(s, "mount") /\ grpc' = {s} /\ UNCHANGED lost
  <2>1. Kept /\ Registered(s)'
    BY <1>1, <1>4 DEF Kept, Registered
  <2> QED
    BY <1>1, <1>4, <2>1, MovesOn DEF Aa!Go, Before
<1>5. CASE /\ "grpc" \in cfg[s].transports /\ ~(grpc = {} /\ "grpc" \notin lost)
           /\ Aa!Go(s, "panicked") /\ grpc' = {} /\ lost' = lost \cup {"grpc"}
  <2>1. Kept
    BY <1>1, <1>5 DEF Kept
  <2>2. ASSUME "grpc" \notin lost
        PROVE  \E y \in AgentIds : at[y] # "resolve" /\ y # s /\ "grpc" \in Aa!Clash(y, s)
    <3>1. PICK y \in grpc : TRUE
      BY <1>5, <2>2
    <3>2. /\ y \in AgentIds /\ at[y] \notin {"resolve", "register"}
          /\ "grpc" \in cfg[y].transports
      BY <3>1 DEF CardInv, Named
    <3>3. "grpc" \in Aa!Clash(y, s)
      BY <1>5, <3>2 DEF Aa!Clash, Aa!Registry
    <3> QED
      BY <1>1, <3>2, <3>3
  <2> QED
    BY <1>1, <1>5, <2>1, <2>2, MovesOn DEF Aa!Go, After, Before
<1> QED
  BY <1>2, <1>3, <1>4, <1>5 DEF Aa!RegisterGrpc

\* A card that is on offer is mounted, or its path was taken.
LEMMA CardMounted ==
  ASSUME Aa!A2aAssumption, CardInv, NEW s \in AgentIds, UNCHANGED cfg, card' = Aa!MountCard(s)
  PROVE  /\ card' \in [Muxes -> AgentIds \cup {None}]
         /\ \A m \in Muxes : card[m] # None => card'[m] # None
         /\ cfg[s].serveCard => Aa!card_path_taken(Aa!Mux(s), routes)'
<1>1. /\ Aa!Mux(s) \in Muxes /\ card \in [Muxes -> AgentIds \cup {None}] /\ s # None
      /\ Aa!Mux(s)' = Aa!Mux(s)
  BY MuxIs, NoneIs, SameService DEF CardInv, CardTypes
<1>2. CASE cfg[s].serveCard /\ ~Aa!card_path_taken(Aa!Mux(s), routes')
  <2>1. card' = [card EXCEPT ![Aa!Mux(s)] = s]
    BY <1>2 DEF Aa!MountCard
  <2>2. card'[Aa!Mux(s)] # None
    BY <1>1, <2>1
  <2>3. Aa!card_path_taken(Aa!Mux(s), routes)'
    BY <1>1, <2>2 DEF Aa!card_path_taken
  <2> QED
    BY <1>1, <2>1, <2>3
<1>3. CASE ~(cfg[s].serveCard /\ ~Aa!card_path_taken(Aa!Mux(s), routes'))
  BY <1>1, <1>3 DEF Aa!MountCard, Aa!card_path_taken, Aa!AGENT_CARD_PATH
<1> QED
  BY <1>2, <1>3

LEMMA MountKeeps ==
  ASSUME Aa!A2aAssumption, CardInv, NEW s \in AgentIds, Aa!mount_http(s)
  PROVE  CardInv'
<1> DEFINE m == Aa!Mux(s)
<1>1. /\ at[s] = "mount" /\ UNCHANGED <<cfg, grpc, announced>> /\ at[s] \in Before
      /\ card \in [Muxes -> AgentIds \cup {None}] /\ m \in Muxes
      /\ Registered(s) /\ Aa!Mux(s)' = m /\ Aa!Own(s)' = Aa!Own(s)
  BY MuxIs, SameService DEF Aa!mount_http, Before, CardInv, CardTypes, Stage
<1>2. CASE Aa!Own(s) = {} /\ Aa!Go(s, "ready") /\ UNCHANGED <<routes, card, lost>>
  <2>1. Kept /\ Registered(s)' /\ Mounted(s)'
    BY <1>1, <1>2 DEF Kept, Registered, Mounted
  <2> QED
    BY <1>1, <1>2, <2>1, MovesOn DEF Aa!Go, Before
<1>3. CASE Aa!Go(s, "failed") /\ UNCHANGED <<routes, card, lost>>
  <2>1. Kept
    BY <1>1, <1>3 DEF Kept
  <2> QED
    BY <1>1, <1>3, <2>1, MovesOn DEF Aa!Go, After, Before
<1>4. CASE /\ m \notin lost /\ routes' = routes \cup Aa!Own(s) /\ card' = Aa!MountCard(s)
           /\ Aa!Go(s, "ready") /\ UNCHANGED lost
  <2>1. /\ card' \in [Muxes -> AgentIds \cup {None}]
        /\ \A x \in Muxes : card[x] # None => card'[x] # None
        /\ cfg[s].serveCard => Aa!card_path_taken(m, routes)'
    BY <1>1, <1>4, CardMounted
  <2>2. Kept
    BY <1>1, <1>4, <2>1 DEF Kept
  <2>3. Registered(s)'
    BY <1>1, <2>2, MountedStays
  <2>4. Mounted(s)'
    <3>1. cfg'[s].serveCard => Aa!card_path_taken(Aa!Mux(s), routes)'
      BY <1>1, <2>1
    <3> QED
      BY <1>1, <1>4, <3>1 DEF Mounted
  <2> HIDE DEF m
  <2> QED
    BY <1>1, <1>4, <2>1, <2>2, <2>3, <2>4, MovesOn DEF Aa!Go, Before
<1>5. CASE /\ m \in lost \/ Aa!Overlap(s)
           /\ routes' = routes \ Aa!On(m) /\ card' = [card EXCEPT ![m] = None]
           /\ Aa!Go(s, "panicked") /\ lost' = lost \cup {m}
  <2>1. Kept /\ card' \in [Muxes -> AgentIds \cup {None}]
    BY <1>1, <1>5 DEF Kept, Aa!On
  <2>2. ASSUME m \notin lost
        PROVE  \E y \in AgentIds : at[y] # "resolve" /\ y # s /\ m \in Aa!Clash(y, s)
    <3>1. PICK r \in routes, q \in Aa!Own(s) : r[1] = q[1] /\ r[2] = q[2] /\ r[3] = q[3]
      BY <1>5, <2>2 DEF Aa!Overlap
    <3>2. PICK y \in AgentIds : at[y] \notin {"resolve", "register", "mount"} /\ r \in Aa!Own(y)
      BY <3>1 DEF CardInv, Placed
    <3>3. /\ r[1] = Aa!Mux(y) /\ r[2] = Aa!Nested(y) /\ r[3] \in cfg[y].transports \cap Aa!Http
          /\ q[1] = m /\ q[2] = Aa!Nested(s) /\ q[3] \in cfg[s].transports \cap Aa!Http
      BY <3>1, <3>2, OwnIs
    <3>4. r[3] # "grpc"
      BY <3>3 DEF Aa!Http
    <3>5. m \in Aa!Clash(y, s)
      BY <3>1, <3>3, <3>4 DEF Aa!Clash, Aa!Registry
    <3> QED
      BY <1>1, <3>2, <3>5
  <2>3. \A x \in lost' \ lost :
          \E y \in AgentIds : at[y] # "resolve" /\ y # s /\ x \in Aa!Clash(y, s)
    BY <1>5, <2>2
  <2>4. at' = [at EXCEPT ![s] = "panicked"] /\ "panicked" \in After \ Before
    BY <1>5 DEF Aa!Go, After, Before
  <2> HIDE DEF m
  <2> QED
    BY <1>1, <1>5, <2>1, <2>3, <2>4, MovesOn DEF Before
<1> QED
  BY <1>2, <1>3, <1>4, <1>5 DEF Aa!mount_http

LEMMA ReadyKeeps ==
  ASSUME CardInv, NEW s \in AgentIds, Aa!notify_ready(s)
  PROVE  CardInv'
<1>1. /\ at[s] = "ready" /\ UNCHANGED <<cfg, routes, card, grpc, lost>>
      /\ announced' = [announced EXCEPT ![s] = Aa!server_endpoints(cfg[s])]
  BY DEF Aa!notify_ready
<1>2. PICK to \in {"bind", "waiting"} : at' = [at EXCEPT ![s] = to]
  BY DEF Aa!notify_ready, Aa!Go
<1>3. CardTypes' /\ Kept
  BY <1>1, <1>2 DEF CardInv, CardTypes, After, Kept
<1>4. ASSUME NEW z \in AgentIds PROVE Stage(z)'
  <2>1. CASE z = s
    <3>1. /\ at'[z] \in {"bind", "waiting"} /\ cfg'[z] = cfg[z]
          /\ announced'[z] = Aa!server_endpoints(cfg[z]) /\ Settled(cfg[z])
          /\ Registered(z) /\ Mounted(z)
      BY <1>1, <1>2, <2>1 DEF CardInv, CardTypes, Stage
    <3>2. Registered(z)' /\ Mounted(z)'
      BY <1>3, <3>1, MountedStays
    <3>3. Aa!server_endpoints(cfg[z])' = Aa!server_endpoints(cfg[z])
      BY <3>1, <1>1
    <3> QED
      BY <3>1, <3>2, <3>3 DEF Stage, Before
  <2>2. CASE z # s
    BY <1>1, <1>2, <1>3, <2>2, OthersKeep DEF CardInv, CardTypes
  <2> QED
    BY <2>1, <2>2
<1>5. Placed' /\ Named' /\ Losses'
  BY <1>1, <1>2, SourcesKeep DEF After
<1> QED
  BY <1>3, <1>4, <1>5 DEF CardInv

LEMMA CardStays ==
  ASSUME Aa!A2aAssumption, CardInv, [Aa!Next]_(Aa!vars)
  PROVE  CardInv'
<1>1. ASSUME UNCHANGED <<cfg, at, routes, card, grpc, lost, announced>> PROVE CardInv'
  <2>1. CardTypes' /\ Kept
    BY <1>1 DEF CardInv, CardTypes, Kept
  <2>2. \A z \in AgentIds : Stage(z)'
    BY <1>1, <2>1, OthersKeep
  <2>3. Placed'
    BY <1>1, SameService DEF CardInv, Placed
  <2>4. Named' /\ Losses'
    BY <1>1, SameClash DEF CardInv, Named, Losses
  <2> QED
    BY <2>1, <2>2, <2>3, <2>4 DEF CardInv
<1>2. CASE UNCHANGED Aa!vars \/ Aa!Cancel
  BY <1>1, <1>2 DEF Aa!vars, Aa!Cancel
<1>3. ASSUME NEW s \in AgentIds, Aa!ListenerEnds(s) PROVE CardInv'
  BY <1>1, <1>3 DEF Aa!ListenerEnds
<1>4. ASSUME NEW s \in AgentIds,
             Aa!Bind(s) \/ Aa!Cancelled(s) \/ Aa!ServeReturns(s) \/ Aa!DrainTimeout(s)
      PROVE  CardInv'
  <2>1. at[s] # "resolve" /\ UNCHANGED <<cfg, routes, card, grpc, lost, announced>>
    BY <1>4 DEF Aa!Bind, Aa!Cancelled, Aa!ServeReturns, Aa!DrainTimeout
  <2>2. PICK to \in After : at' = [at EXCEPT ![s] = to]
    BY <1>4 DEF Aa!Bind, Aa!Cancelled, Aa!ServeReturns, Aa!DrainTimeout, After, Aa!Go
  <2>3. Kept /\ card' \in [Muxes -> AgentIds \cup {None}]
    BY <2>1 DEF Kept, CardInv, CardTypes
  <2>4. to \notin Before
    BY DEF Before, After
  <2> QED
    BY <2>1, <2>2, <2>3, <2>4, MovesOn DEF Before
<1> QED
  BY <1>2, <1>3, <1>4, ResolveKeeps, RegisterKeeps, MountKeeps, ReadyKeeps DEF Aa!Next

LEMMA CardShows ==
  ASSUME Aa!A2aAssumption, CardInv
  PROVE  Aa!AnnouncedIsServed
<1>1. ASSUME NEW s \in AgentIds, announced[s] # None,
             NEW e \in announced[s] \cup Aa!build_card(cfg[s])
      PROVE  \/ Aa!Registry(s, e.transport) \in lost
             \/ IF e.transport = "grpc" THEN s \in grpc
                ELSE <<Aa!Mux(s), e.path, e.transport, s>> \in routes
  <2>1. /\ Registered(s) /\ Mounted(s) /\ announced[s] = Aa!server_endpoints(cfg[s])
        /\ Settled(cfg[s])
    BY <1>1 DEF CardInv, Stage, Before
  <2>2. e \in Aa!server_endpoints(cfg[s])
    BY <1>1, <2>1, SettledServes
  <2>3. e.transport \in cfg[s].transports /\ (e.transport # "grpc" => e.path = Tail(cfg[s].base))
    BY <2>1, <2>2, SettledServes
  <2>4. CASE e.transport = "grpc"
    BY <2>1, <2>3, <2>4 DEF Registered, Aa!Registry
  <2>5. CASE e.transport # "grpc"
    <3>1. e.transport \in cfg[s].transports \cap Aa!Http
      BY <2>1, <2>3, <2>5 DEF Settled, Shape, Protocols
    <3>2. <<Aa!Mux(s), Aa!Nested(s), e.transport, s>> \in Aa!Own(s)
      BY <3>1 DEF Aa!Own
    <3> QED
      BY <2>1, <2>3, <2>5, <3>2 DEF Mounted, Aa!Nested, Aa!Registry
  <2> QED
    BY <2>4, <2>5
<1>2. ASSUME NEW s \in AgentIds, announced[s] # None, Aa!card_url(cfg[s]) # None, Aa!Own(s) # {}
      PROVE  Aa!Mux(s) \in lost \/ Aa!card_path_taken(Aa!Mux(s), routes)
  <2>1. Mounted(s) /\ Settled(cfg[s])
    BY <1>2 DEF CardInv, Stage, Before
  <2>2. cfg[s].serveCard
    BY <1>2, <2>1, SettledServes
  <2> QED
    BY <1>2, <2>1, <2>2 DEF Mounted
<1>3. \A m \in lost : \E s, u \in AgentIds : s # u /\ m \in Aa!Clash(s, u)
  BY DEF CardInv, Losses
<1> QED
  BY <1>1, <1>2, <1>3 DEF Aa!AnnouncedIsServed

-----------------------------------------------------------------------------
(* A server's assembly (module Assembly), for any options, builder calls   *)
(* and starts.                                                             *)

\* The registrations of one kind, numbered as they were made.
InTurn(f, q) == q \in Seq(As!Steps) /\ \A i \in 1..Len(q) : q[i] = <<f, i>>

\* The last k of n layers around the routes.
Rings(n, k) == [i \in 1..(k + 1) |-> IF i <= k THEN <<"layer", n - k + i>> ELSE <<"routes", 1>>]
Routed == <<<<"routes", 1>>>>

LEMMA RingsAre ==
  ASSUME NEW n \in Nat, NEW k \in 0..n
  PROVE  /\ Rings(n, k) \in Seq(As!Steps) /\ Len(Rings(n, k)) = k + 1
         /\ \A i \in 1..k : Rings(n, k)[i] = <<"layer", n - k + i>>
         /\ Rings(n, k)[k + 1] = <<"routes", 1>>
<1>1. \A i \in 1..(k + 1) :
        Rings(n, k)[i] = IF i <= k THEN <<"layer", n - k + i>> ELSE <<"routes", 1>>
  BY DEF Rings
<1>2. ASSUME NEW i \in 1..(k + 1) PROVE Rings(n, k)[i] \in As!Steps
  <2>1. n - k + i \in Nat /\ 1 \in Nat
    OBVIOUS
  <2>2. <<"layer", n - k + i>> \in As!Steps /\ <<"routes", 1>> \in As!Steps
    BY <2>1 DEF As!Steps, As!Lists
  <2> QED
    BY <1>1, <2>2
<1> DEFINE e == Rings(n, k)
<1>3. e \in [1..(k + 1) -> As!Steps]
  <2>1. e = [i \in 1..(k + 1) |-> e[i]]
    BY DEF Rings
  <2> HIDE DEF e
  <2> QED
    BY <1>2, <2>1 DEF e
<1>4. k + 1 \in Nat
  OBVIOUS
<1>5. e \in Seq(As!Steps) /\ Len(e) = k + 1
  <2> HIDE DEF e
  <2> QED
    BY <1>3, <1>4, LenProperties
<1>6. k + 1 \in 1..(k + 1) /\ ~(k + 1 <= k) /\ \A i \in 1..k : i \in 1..(k + 1) /\ i <= k
  OBVIOUS
<1> QED
  BY <1>1, <1>5, <1>6

\* Two sequences put together, for what a call passes.
LEMMA StepsJoin ==
  ASSUME NEW A \in Seq(As!Steps), NEW B \in Seq(As!Steps)
  PROVE  /\ A \o B \in Seq(As!Steps) /\ Len(A \o B) = Len(A) + Len(B)
         /\ \A i \in 1..Len(A) : (A \o B)[i] = A[i]
         /\ \A i \in 1..Len(B) : (A \o B)[Len(A) + i] = B[i]
BY Concatenated

LEMMA RingsGrow ==
  ASSUME NEW n \in Nat, NEW k \in 1..n
  PROVE  <<<<"layer", n + 1 - k>>>> \o Rings(n, k - 1) = Rings(n, k)
<1> DEFINE one == <<<<"layer", n + 1 - k>>>>
           e == Rings(n, k - 1)
           f == Rings(n, k)
           g == one \o e
<1>1. one \in Seq(As!Steps) /\ Len(one) = 1 /\ one[1] = <<"layer", n + 1 - k>>
  <2>1. <<"layer", n + 1 - k>> \in As!Steps
    BY DEF As!Steps, As!Lists
  <2> QED
    BY <2>1, Single
<1>2. k - 1 \in 0..n /\ k \in 0..n
  OBVIOUS
<1>3. /\ e \in Seq(As!Steps) /\ Len(e) = k
      /\ \A i \in 1..(k - 1) : e[i] = <<"layer", n - k + 1 + i>>
      /\ e[k] = <<"routes", 1>>
  <2>1. (k - 1) + 1 = k /\ \A i \in 1..(k - 1) : n - (k - 1) + i = n - k + 1 + i
    OBVIOUS
  <2> QED
    BY <1>2, <2>1, RingsAre
<1>4. /\ f \in Seq(As!Steps) /\ Len(f) = k + 1
      /\ \A i \in 1..k : f[i] = <<"layer", n - k + i>>
      /\ f[k + 1] = <<"routes", 1>>
  BY <1>2, RingsAre
<1> HIDE DEF one, e, f
<1>5. /\ g \in Seq(As!Steps) /\ Len(g) = k + 1
      /\ g[1] = <<"layer", n + 1 - k>> /\ \A i \in 1..k : g[1 + i] = e[i]
  <2>1. /\ g \in Seq(As!Steps) /\ Len(g) = Len(one) + Len(e)
        /\ \A i \in 1..Len(one) : g[i] = one[i]
        /\ \A i \in 1..Len(e) : g[Len(one) + i] = e[i]
    BY <1>1, <1>3, StepsJoin, Zenon
  <2> HIDE DEF g
  <2> QED
    BY <1>1, <1>3, <2>1
<1> HIDE DEF g
<1>6. ASSUME NEW i \in 1..(k + 1) PROVE g[i] = f[i]
  <2>1. CASE i = 1
    <3>1. 1 \in 1..k /\ n - k + 1 = n + 1 - k
      OBVIOUS
    <3> QED
      BY <1>4, <1>5, <2>1, <3>1
  <2>2. CASE i \in 2..k
    <3>1. i - 1 \in 1..(k - 1) /\ i - 1 \in 1..k /\ 1 + (i - 1) = i /\ n - k + 1 + (i - 1) = n - k + i
          /\ i \in 1..k
      BY <2>2
    <3>2. g[i] = e[i - 1]
      BY <1>5, <3>1
    <3>3. e[i - 1] = <<"layer", n - k + i>>
      BY <1>3, <3>1
    <3> QED
      BY <1>4, <3>1, <3>2, <3>3
  <2>3. CASE i = k + 1
    <3>1. k \in 1..k /\ 1 + k = k + 1
      OBVIOUS
    <3> QED
      BY <1>3, <1>4, <1>5, <2>3, <3>1
  <2> QED
    BY <2>1, <2>2, <2>3
<1>7. g = f
  BY <1>4, <1>5, <1>6, SeqEqual
<1> QED
  BY <1>7 DEF g, one, e, f

IsWrap(g, q) ==
  g = [k \in 0..Len(q) |-> IF k = 0 THEN Routed ELSE <<q[Len(q) + 1 - k]>> \o g[k - 1]]

\* The layers are folded from the last one in, so the first one is the outermost.
LEMMA LayeredIs ==
  ASSUME InTurn("layer", b["layer"])
  PROVE  As!Layered(Routed) = Rings(Len(b["layer"]), Len(b["layer"]))
<1> DEFINE q == b["layer"]
           n == Len(q)
<1>0. n \in Nat /\ \A i \in 1..n : q[i] = <<"layer", i>>
  BY LenProperties DEF InTurn
<1>1. Rings(n, 0) = Routed
  <2>1. 0 \in 0..n /\ 1 \in Nat
    BY <1>0
  <2>2. /\ Rings(n, 0) \in Seq(As!Steps) /\ Len(Rings(n, 0)) = 1
        /\ Rings(n, 0)[1] = <<"routes", 1>>
    <3>1. 0 + 1 = 1
      OBVIOUS
    <3> QED
      BY <1>0, <2>1, <3>1, RingsAre, Zenon
  <2>3. <<"routes", 1>> \in As!Steps
    BY <2>1 DEF As!Steps
  <2>4. Routed \in Seq(As!Steps) /\ Len(Routed) = 1 /\ Routed[1] = <<"routes", 1>>
    BY <2>3, Single DEF Routed
  <2> QED
    BY <2>2, <2>4, SeqEqual
<1>2. IsWrap([k \in 0..n |-> Rings(n, k)], q)
  <2> DEFINE g == [k \in 0..n |-> Rings(n, k)]
  <2>1. ASSUME NEW k \in 0..n
        PROVE  g[k] = IF k = 0 THEN Routed ELSE <<q[n + 1 - k]>> \o g[k - 1]
    <3>1. CASE k = 0
      BY <1>1, <3>1
    <3>2. CASE k # 0
      <4>1. k \in 1..n /\ n + 1 - k \in 1..n /\ k - 1 \in 0..n
        BY <1>0, <3>2
      <4>2. q[n + 1 - k] = <<"layer", n + 1 - k>>
        BY <1>0, <4>1
      <4>3. g[k] = Rings(n, k) /\ g[k - 1] = Rings(n, k - 1)
        BY <4>1
      <4>4. <<<<"layer", n + 1 - k>>>> \o Rings(n, k - 1) = Rings(n, k)
        BY <1>0, <4>1, RingsGrow
      <4> HIDE DEF g, q, n
      <4> QED
        BY <3>2, <4>2, <4>3, <4>4
    <3> QED
      BY <3>1, <3>2
  <2>2. g = [k \in 0..n |-> g[k]]
    OBVIOUS
  <2> HIDE DEF g
  <2>3. g = [k \in 0..n |-> IF k = 0 THEN Routed ELSE <<q[n + 1 - k]>> \o g[k - 1]]
    BY <2>1, <2>2
  <2> QED
    BY <2>3 DEF IsWrap, g
<1> DEFINE g == CHOOSE h : IsWrap(h, q)
<1>3. IsWrap(g, q)
  BY <1>2
<1>4. As!Layered(Routed) = g[n]
  BY DEF As!Layered, IsWrap
<1> HIDE DEF g
<1>5. \A k \in 0..n : g[k] = IF k = 0 THEN Routed ELSE <<q[n + 1 - k]>> \o g[k - 1]
  <2>1. g = [k \in 0..n |-> IF k = 0 THEN Routed ELSE <<q[n + 1 - k]>> \o g[k - 1]]
    BY <1>3 DEF IsWrap
  <2> QED
    BY <2>1
<1> HIDE DEF q, n
<1>6. \A k \in 0..n : g[k] = Rings(n, k)
  <2> DEFINE Bad == {k \in 0..n : g[k] # Rings(n, k)}
  <2> SUFFICES ASSUME Bad # {} PROVE FALSE
    OBVIOUS
  <2>1. PICK x \in Bad : \A k \in Bad : x <= k
    <3>1. Bad \in SUBSET Nat
      BY <1>0
    <3> QED
      BY <3>1, LeastOf
  <2>2. x # 0
    <3>1. 0 \in 0..n
      BY <1>0
    <3>2. g[0] = Routed
      BY <1>5, <3>1
    <3> QED
      BY <1>1, <3>2
  <2>3. x \in 1..n /\ n + 1 - x \in 1..n /\ x - 1 \in 0..n /\ ~(x <= x - 1) /\ x \in 0..n
    BY <1>0, <2>2
  <2>4. g[x - 1] = Rings(n, x - 1)
    BY <2>1, <2>3
  <2>5. g[x] = <<<<"layer", n + 1 - x>>>> \o g[x - 1]
    <3>1. q[n + 1 - x] = <<"layer", n + 1 - x>>
      BY <1>0, <2>3
    <3>2. g[x] = <<q[n + 1 - x]>> \o g[x - 1]
      BY <1>5, <2>2, <2>3, Zenon
    <3> QED
      BY <3>1, <3>2
  <2>6. g[x] = Rings(n, x)
    BY <1>0, <2>3, <2>4, <2>5, RingsGrow
  <2> QED
    BY <2>6
<1> QED
  <2>1. n \in 0..n
    BY <1>0
  <2> QED
    BY <1>4, <1>6, <2>1 DEF n, q

-----------------------------------------------------------------------------
(* What a call passes, in its order *)

\* The order the property asks for, and sequences in it whose places have ranks in R.
Sooner(x, y) ==
  \/ As!Rank[x[1]] < As!Rank[y[1]]
  \/ x[1] = y[1] /\ x[2] < y[2]
  \/ x[1] = "message" /\ y[1] = "validation" /\ b["last"]
  \/ x[1] = "validation" /\ y[1] = "message" /\ ~b["last"]
Chain(q, R) ==
  /\ q \in Seq(As!Steps) /\ \A i \in 1..Len(q) : As!Rank[q[i][1]] \in R
  /\ \A i, j \in 1..Len(q) : i < j => Sooner(q[i], q[j])

LEMMA Ranks ==
  /\ As!Rank["telemetry"] = 0 /\ As!Rank["unary"] = 1 /\ As!Rank["stream"] = 2
  /\ As!Rank["message"] = 3 /\ As!Rank["validation"] = 3 /\ As!Rank["layer"] = 4
  /\ As!Rank["routes"] = 5
BY DEF As!Rank

LEMMA ChainsJoin ==
  ASSUME NEW A, NEW B, NEW R, NEW S, NEW W, Chain(A, R), Chain(B, S), R \subseteq W, S \subseteq W,
         \A i \in 1..Len(A), j \in 1..Len(B) : Sooner(A[i], B[j])
  PROVE  Chain(A \o B, W) /\ As!Range(A \o B) = As!Range(A) \cup As!Range(B)
<1>1. A \in Seq(As!Steps) /\ B \in Seq(As!Steps) /\ Len(A) \in Nat /\ Len(B) \in Nat
  BY LenProperties DEF Chain
<1> DEFINE m == Len(A)
           n == Len(B)
           c == A \o B
<1>2. /\ c \in Seq(As!Steps) /\ Len(c) = m + n
      /\ \A i \in 1..m : c[i] = A[i]
      /\ \A i \in 1..n : c[m + i] = B[i]
  BY <1>1, StepsJoin, Zenon
<1>3. DOMAIN A = 1..m /\ DOMAIN B = 1..n /\ DOMAIN c = 1..(m + n)
  BY <1>1, <1>2, LenProperties
<1> HIDE DEF c
<1>4. ASSUME NEW i \in 1..(m + n)
      PROVE  (i \in 1..m /\ c[i] = A[i]) \/ (i - m \in 1..n /\ c[i] = B[i - m])
  <2>1. CASE i <= m
    BY <1>1, <1>2, <2>1
  <2>2. CASE ~(i <= m)
    <3>1. i - m \in 1..n /\ m + (i - m) = i
      BY <1>1, <2>2
    <3> QED
      BY <1>2, <3>1
  <2> QED
    BY <2>1, <2>2
<1>5. ASSUME NEW i \in 1..(m + n) PROVE As!Rank[c[i][1]] \in W
  BY <1>4 DEF Chain
<1>6. ASSUME NEW i \in 1..(m + n), NEW j \in 1..(m + n), i < j PROVE Sooner(c[i], c[j])
  <2>1. CASE i \in 1..m /\ j \in 1..m
    BY <1>2, <1>6, <2>1 DEF Chain
  <2>2. CASE i \in 1..m /\ j \notin 1..m
    <3>1. j - m \in 1..n /\ c[j] = B[j - m] /\ c[i] = A[i]
      BY <1>2, <1>4, <2>2
    <3> QED
      BY <2>2, <3>1
  <2>3. CASE i \notin 1..m
    <3>1. i - m \in 1..n /\ c[i] = B[i - m] /\ j \notin 1..m
      BY <1>1, <1>4, <1>6, <2>3
    <3>2. j - m \in 1..n /\ c[j] = B[j - m] /\ i - m < j - m
      BY <1>1, <1>4, <1>6, <3>1
    <3> QED
      BY <3>1, <3>2 DEF Chain
  <2> QED
    BY <2>1, <2>2, <2>3
<1>7. \A i \in 1..m : i \in 1..(m + n) /\ \A j \in 1..n : m + j \in 1..(m + n)
  BY <1>1
<1>8. \A j \in 1..n : m + j \in 1..(m + n)
  BY <1>1
<1>9. As!Range(c) = As!Range(A) \cup As!Range(B)
  <2>1. /\ As!Range(c) = {c[i] : i \in 1..(m + n)} /\ As!Range(A) = {A[i] : i \in 1..m}
        /\ As!Range(B) = {B[i] : i \in 1..n}
    BY <1>3, Zenon DEF As!Range
  <2> QED
    BY <1>2, <1>4, <1>7, <1>8, <2>1
<1> QED
  BY <1>2, <1>5, <1>6, <1>9 DEF Chain, c

\* Places of lower rank come first.
LEMMA RanksJoin ==
  ASSUME NEW A, NEW B, NEW lo \in Int, NEW mid \in Int, NEW nx \in Int, NEW hi \in Int,
         Chain(A, lo..mid), Chain(B, nx..hi), lo <= mid, mid < nx, nx <= hi
  PROVE  Chain(A \o B, lo..hi) /\ As!Range(A \o B) = As!Range(A) \cup As!Range(B)
<1>1. ASSUME NEW i \in 1..Len(A), NEW j \in 1..Len(B) PROVE Sooner(A[i], B[j])
  <2>1. As!Rank[A[i][1]] \in lo..mid /\ As!Rank[B[j][1]] \in nx..hi
    BY DEF Chain
  <2> QED
    BY <2>1 DEF Sooner
<1>2. lo..mid \subseteq lo..hi /\ nx..hi \subseteq lo..hi
  OBVIOUS
<1> QED
  BY <1>1, <1>2, ChainsJoin, Zenon

LEMMA RegisteredChain ==
  ASSUME NEW f, NEW q, InTurn(f, q)
  PROVE  \A n \in Int : n = As!Rank[f] => Chain(q, n..n)
<1>1. Len(q) \in Nat
  BY LenProperties DEF InTurn
<1>2. \A i \in 1..Len(q) : q[i][1] = f /\ q[i][2] = i
  BY DEF InTurn
<1> QED
  BY <1>1, <1>2 DEF InTurn, Chain, Sooner

LEMMA OneChain ==
  ASSUME NEW f \in {"telemetry", "validation", "routes"}
  PROVE  /\ \A n \in Int : n = As!Rank[f] => Chain(<<<<f, 1>>>>, n..n)
         /\ As!Range(<<<<f, 1>>>>) = {<<f, 1>>}
         /\ Len(<<<<f, 1>>>>) = 1 /\ <<<<f, 1>>>>[1] = <<f, 1>>
<1> DEFINE c == <<<<f, 1>>>>
<1>1. <<f, 1>> \in As!Steps
  BY DEF As!Steps
<1>2. c \in Seq(As!Steps) /\ Len(c) = 1 /\ c[1] = <<f, 1>>
  BY <1>1, Single
<1>3. DOMAIN c = {1}
  OBVIOUS
<1> HIDE DEF c
<1>4. As!Range(c) = {<<f, 1>>}
  <2>1. As!Range(c) = {c[i] : i \in {1}}
    BY <1>3 DEF As!Range
  <2> QED
    BY <1>2, <2>1
<1>5. ASSUME NEW n \in Int, n = As!Rank[f] PROVE Chain(c, n..n)
  BY <1>2, <1>5 DEF Chain
<1> QED
  BY <1>2, <1>4, <1>5 DEF c

BuildInv ==
  /\ \A f \in As!Lists : InTurn(f, b[f])
  /\ DOMAIN b = As!Lists \cup As!Flags \cup As!Settings

LEMMA ValidationPasses ==
  /\ Chain(As!validation, 3..3)
  /\ \A i \in 1..Len(As!validation) : As!validation[i] = <<"validation", 1>>
<1>1. CASE b["validation"] = "off"
  <2>1. As!validation = <<>>
    BY <1>1 DEF As!validation
  <2> QED
    BY <2>1 DEF Chain
<1>2. CASE b["validation"] # "off"
  <2>1. As!validation = <<<<"validation", 1>>>>
    BY <1>2 DEF As!validation
  <2>2. /\ Chain(<<<<"validation", 1>>>>, 3..3)
        /\ Len(<<<<"validation", 1>>>>) = 1 /\ <<<<"validation", 1>>>>[1] = <<"validation", 1>>
    BY OneChain, Ranks
  <2> QED
    BY <2>1, <2>2
<1> QED
  BY <1>1, <1>2

\* Messages pass the interceptors first and the validation last, or the other way round.
LEMMA MessagesPass ==
  ASSUME BuildInv
  PROVE  /\ Chain(As!message_chain, 3..3)
         /\ As!Range(As!message_chain) = As!Range(b["message"]) \cup As!Range(As!validation)
<1> DEFINE A == b["message"]
           B == As!validation
<1>1. InTurn("message", A)
  BY DEF BuildInv, As!Lists
<1>2. Chain(A, 3..3) /\ Chain(B, 3..3) /\ \A i \in 1..Len(B) : B[i] = <<"validation", 1>>
  BY <1>1, RegisteredChain, ValidationPasses, Ranks
<1>3. \A i \in 1..Len(A) : A[i] = <<"message", i>>
  BY <1>1 DEF InTurn
<1>4. CASE b["last"]
  <2>1. As!message_chain = A \o B
    BY <1>4 DEF As!message_chain
  <2>2. \A i \in 1..Len(A), j \in 1..Len(B) : Sooner(A[i], B[j])
    BY <1>2, <1>3, <1>4 DEF Sooner
  <2> HIDE DEF A, B
  <2>3. 3..3 \subseteq 3..3
    OBVIOUS
  <2>4. Chain(A \o B, 3..3) /\ As!Range(A \o B) = As!Range(A) \cup As!Range(B)
    BY <1>2, <2>2, <2>3, ChainsJoin, Zenon
  <2> QED
    BY <2>1, <2>4 DEF A, B
<1>5. CASE ~b["last"]
  <2>1. As!message_chain = B \o A
    BY <1>5 DEF As!message_chain
  <2>2. \A i \in 1..Len(B), j \in 1..Len(A) : Sooner(B[i], A[j])
    BY <1>2, <1>3, <1>5 DEF Sooner
  <2> HIDE DEF A, B
  <2>3. 3..3 \subseteq 3..3
    OBVIOUS
  <2>4. Chain(B \o A, 3..3) /\ As!Range(B \o A) = As!Range(B) \cup As!Range(A)
    BY <1>2, <2>2, <2>3, ChainsJoin, Zenon
  <2> QED
    BY <2>1, <2>4 DEF A, B
<1> QED
  BY <1>4, <1>5

LEMMA LayersPass ==
  ASSUME BuildInv
  PROVE  /\ Chain(As!Layered(Routed), 4..5)
         /\ As!Range(As!Layered(Routed)) = As!Range(b["layer"]) \cup {<<"routes", 1>>}
<1> DEFINE q == b["layer"]
           n == Len(q)
<1>1. InTurn("layer", q)
  BY DEF BuildInv, As!Lists
<1>2. n \in Nat /\ q \in Seq(As!Steps) /\ \A i \in 1..n : q[i] = <<"layer", i>>
  BY <1>1, LenProperties DEF InTurn
<1>3. As!Layered(Routed) = Rings(n, n)
  BY <1>1, LayeredIs
<1>4. /\ Chain(Routed, 5..5) /\ As!Range(Routed) = {<<"routes", 1>>}
      /\ Len(Routed) = 1 /\ Routed[1] = <<"routes", 1>>
  BY OneChain, Ranks DEF Routed
<1> HIDE DEF q
<1>5. Rings(n, n) = q \o Routed
  <2>1. /\ q \o Routed \in Seq(As!Steps) /\ Len(q \o Routed) = n + 1
        /\ \A i \in 1..n : (q \o Routed)[i] = q[i]
        /\ \A i \in 1..1 : (q \o Routed)[n + i] = Routed[i]
    <3>1. q \in Seq(As!Steps) /\ Routed \in Seq(As!Steps)
      BY <1>2, <1>4 DEF Chain
    <3>2. /\ q \o Routed \in Seq(As!Steps) /\ Len(q \o Routed) = Len(q) + Len(Routed)
          /\ \A i \in 1..Len(q) : (q \o Routed)[i] = q[i]
          /\ \A i \in 1..Len(Routed) : (q \o Routed)[Len(q) + i] = Routed[i]
      BY <3>1, StepsJoin, Zenon
    <3> QED
      BY <1>4, <3>2, Zenon
  <2>2. /\ Rings(n, n) \in Seq(As!Steps) /\ Len(Rings(n, n)) = n + 1
        /\ \A i \in 1..n : Rings(n, n)[i] = <<"layer", i>>
        /\ Rings(n, n)[n + 1] = <<"routes", 1>>
    <3>1. n \in 0..n /\ \A i \in 1..n : n - n + i = i
      BY <1>2
    <3> QED
      BY <1>2, <3>1, RingsAre
  <2>3. ASSUME NEW i \in 1..(n + 1) PROVE Rings(n, n)[i] = (q \o Routed)[i]
    <3>1. CASE i \in 1..n
      BY <1>2, <2>1, <2>2, <3>1
    <3>2. CASE i = n + 1
      <4>1. (q \o Routed)[n + 1] = Routed[1]
        BY <2>1
      <4> QED
        BY <1>4, <2>2, <3>2, <4>1
    <3>3. i \in 1..n \/ i = n + 1
      BY <1>2
    <3> QED
      BY <3>1, <3>2, <3>3
  <2> DEFINE e == q \o Routed
             f == Rings(n, n)
  <2> HIDE DEF e, f
  <2>4. e = f
    BY <2>1, <2>2, <2>3, SeqEqual DEF e, f
  <2> QED
    BY <2>4 DEF e, f
<1>6. Chain(q, 4..4)
  BY <1>1, RegisteredChain, Ranks
<1>7. /\ Chain(q \o Routed, 4..5)
      /\ As!Range(q \o Routed) = As!Range(q) \cup As!Range(Routed)
  <2>1. 4 \in Int /\ 5 \in Int /\ 4 <= 4 /\ 4 < 5 /\ 5 <= 5
    OBVIOUS
  <2> QED
    BY <1>4, <1>6, <2>1, RanksJoin, Zenon
<1> QED
  BY <1>3, <1>4, <1>5, <1>7 DEF q

\* What a stack must be for the calls of m to pass everything that is theirs once, in order.
Passing(q, m) ==
  /\ Chain(q, 0..5)
  /\ As!Range(q) = As!Range(b["unary"]) \cup As!Range(b["layer"])
                     \cup {<<"telemetry", 1>>, <<"routes", 1>>}
                     \cup (IF As!Described(m) /\ m.unary
                             THEN As!Range(b["message"]) \cup As!Range(As!validation)
                             ELSE As!Range(b["stream"]))

LEMMA NothingPasses == (\A R : Chain(<<>>, R)) /\ As!Range(<<>>) = {}
<1>1. \A R : Chain(<<>>, R)
  BY DEF Chain
<1>2. DOMAIN <<>> = {}
  OBVIOUS
<1>3. As!Range(<<>>) = {}
  BY <1>2 DEF As!Range
<1> QED
  BY <1>1, <1>3

\* One of the two chains takes the call.
LEMMA OneTakes ==
  ASSUME BuildInv, NEW m
  PROVE  /\ Chain(As!streams(m), 2..2) /\ Chain(As!messages(m), 3..3)
         /\ As!Range(As!streams(m)) \cup As!Range(As!messages(m))
              = IF As!Described(m) /\ m.unary
                THEN As!Range(b["message"]) \cup As!Range(As!validation) ELSE As!Range(b["stream"])
<1>1. Chain(b["stream"], 2..2)
  <2>1. InTurn("stream", b["stream"])
    BY DEF BuildInv, As!Lists
  <2> QED
    BY <2>1, RegisteredChain, Ranks
<1>2. CASE As!Described(m) /\ m.unary
  <2>1. As!streams(m) = <<>> /\ As!messages(m) = As!message_chain
    BY <1>2, Zenon DEF As!streams, As!messages
  <2> QED
    BY <1>2, <2>1, NothingPasses, MessagesPass
<1>3. CASE ~(As!Described(m) /\ m.unary)
  <2>1. As!streams(m) = b["stream"] /\ As!messages(m) = <<>>
    BY <1>3, Zenon DEF As!streams, As!messages
  <2> QED
    BY <1>1, <1>3, <2>1, NothingPasses
<1> QED
  BY <1>2, <1>3

LEMMA StacksPass ==
  ASSUME BuildInv, NEW m
  PROVE  Passing(As!Wire(m), m) /\ Passing(As!LoopbackStack(m), m)
<1> DEFINE T == <<<<"telemetry", 1>>>>
           U == b["unary"]
           S == As!streams(m)
           M == As!messages(m)
           L == As!Layered(Routed)
<1>1. /\ Chain(T, 0..0) /\ As!Range(T) = {<<"telemetry", 1>>}
  BY OneChain, Ranks
<1>2. Chain(U, 1..1) /\ Chain(S, 2..2)
  <2>1. InTurn("unary", U)
    BY DEF BuildInv, As!Lists
  <2> QED
    BY <2>1, OneTakes, RegisteredChain, Ranks
<1>3. /\ Chain(M, 3..3)
      /\ As!Range(S) \cup As!Range(M)
           = IF As!Described(m) /\ m.unary
             THEN As!Range(b["message"]) \cup As!Range(As!validation) ELSE As!Range(b["stream"])
  BY OneTakes
<1>4. Chain(L, 4..5) /\ As!Range(L) = As!Range(b["layer"]) \cup {<<"routes", 1>>}
  BY LayersPass
<1>5. As!Wire(m) = (((T \o U) \o S) \o M) \o L
  BY DEF As!Wire, As!interceptor_chain, Routed
<1>6. As!LoopbackStack(m) = (T \o U) \o (S \o (M \o L))
  BY DEF As!LoopbackStack, As!interceptor_chain, Routed
<1>8. ASSUME NEW q, Chain(q, 0..5),
             As!Range(q) = As!Range(T) \cup As!Range(U) \cup As!Range(S) \cup As!Range(M) \cup As!Range(L)
      PROVE  Passing(q, m)
  <2> DEFINE t0 == As!Range(T)
             u0 == As!Range(U)
             s0 == As!Range(S)
             m0 == As!Range(M)
             l0 == As!Range(L)
             h0 == As!Range(b["layer"])
             c0 == IF As!Described(m) /\ m.unary
                   THEN As!Range(b["message"]) \cup As!Range(As!validation)
                   ELSE As!Range(b["stream"])
  <2>1. As!Range(q) = u0 \cup h0 \cup {<<"telemetry", 1>>, <<"routes", 1>>} \cup c0
    <3>1. /\ t0 = {<<"telemetry", 1>>} /\ s0 \cup m0 = c0 /\ l0 = h0 \cup {<<"routes", 1>>}
          /\ As!Range(q) = t0 \cup u0 \cup s0 \cup m0 \cup l0
      BY <1>1, <1>3, <1>4, <1>8
    <3> HIDE DEF t0, u0, s0, m0, l0, h0, c0
    <3> QED
      BY <3>1
  <2> QED
    BY <1>8, <2>1 DEF Passing
<1> HIDE DEF T, U, S, M, L
<1>9. Chain(T \o U, 0..1) /\ As!Range(T \o U) = As!Range(T) \cup As!Range(U)
  <2>1. 0 \in Int /\ 1 \in Int /\ 0 <= 0 /\ 0 < 1 /\ 1 <= 1
    OBVIOUS
  <2> QED
    BY <1>1, <1>2, <2>1, RanksJoin, Zenon
<1>10. Chain((T \o U) \o S, 0..2) /\ As!Range((T \o U) \o S) = As!Range(T \o U) \cup As!Range(S)
  <2>1. 0 \in Int /\ 1 \in Int /\ 2 \in Int /\ 0 <= 1 /\ 1 < 2 /\ 2 <= 2
    OBVIOUS
  <2> QED
    BY <1>2, <1>9, <2>1, RanksJoin, Zenon
<1>11. /\ Chain(((T \o U) \o S) \o M, 0..3)
       /\ As!Range(((T \o U) \o S) \o M) = As!Range((T \o U) \o S) \cup As!Range(M)
  <2>1. 0 \in Int /\ 2 \in Int /\ 3 \in Int /\ 0 <= 2 /\ 2 < 3 /\ 3 <= 3
    OBVIOUS
  <2> QED
    BY <1>3, <1>10, <2>1, RanksJoin, Zenon
<1>12. /\ Chain((((T \o U) \o S) \o M) \o L, 0..5)
       /\ As!Range((((T \o U) \o S) \o M) \o L) = As!Range(((T \o U) \o S) \o M) \cup As!Range(L)
  <2>1. 0 \in Int /\ 3 \in Int /\ 4 \in Int /\ 5 \in Int /\ 0 <= 3 /\ 3 < 4 /\ 4 <= 5
    OBVIOUS
  <2> QED
    BY <1>4, <1>11, <2>1, RanksJoin, Zenon
<1>13. Chain(M \o L, 3..5) /\ As!Range(M \o L) = As!Range(M) \cup As!Range(L)
  <2>1. 3 \in Int /\ 4 \in Int /\ 5 \in Int /\ 3 <= 3 /\ 3 < 4 /\ 4 <= 5
    OBVIOUS
  <2> QED
    BY <1>3, <1>4, <2>1, RanksJoin, Zenon
<1>14. Chain(S \o (M \o L), 2..5) /\ As!Range(S \o (M \o L)) = As!Range(S) \cup As!Range(M \o L)
  <2>1. 2 \in Int /\ 3 \in Int /\ 5 \in Int /\ 2 <= 2 /\ 2 < 3 /\ 3 <= 5
    OBVIOUS
  <2> QED
    BY <1>2, <1>13, <2>1, RanksJoin, Zenon
<1>15. /\ Chain((T \o U) \o (S \o (M \o L)), 0..5)
       /\ As!Range((T \o U) \o (S \o (M \o L))) = As!Range(T \o U) \cup As!Range(S \o (M \o L))
  <2>1. 0 \in Int /\ 1 \in Int /\ 2 \in Int /\ 5 \in Int /\ 0 <= 1 /\ 1 < 2 /\ 2 <= 5
    OBVIOUS
  <2> QED
    BY <1>9, <1>14, <2>1, RanksJoin, Zenon
<1> QED
  <2>1. Passing(As!Wire(m), m)
    <3> DEFINE q == (((T \o U) \o S) \o M) \o L
    <3>1. /\ Chain(q, 0..5)
          /\ As!Range(q) = As!Range(T) \cup As!Range(U) \cup As!Range(S) \cup As!Range(M) \cup As!Range(L)
      BY <1>9, <1>10, <1>11, <1>12
    <3>2. As!Wire(m) = q
      BY <1>5
    <3> HIDE DEF q
    <3> QED
      BY <1>8, <3>1, <3>2
  <2>2. Passing(As!LoopbackStack(m), m)
    <3> DEFINE q == (T \o U) \o (S \o (M \o L))
    <3>1. /\ Chain(q, 0..5)
          /\ As!Range(q) = As!Range(T) \cup As!Range(U) \cup As!Range(S) \cup As!Range(M) \cup As!Range(L)
      <4>1. As!Range(q) = (As!Range(T) \cup As!Range(U))
                            \cup (As!Range(S) \cup (As!Range(M) \cup As!Range(L)))
        BY <1>9, <1>13, <1>14, <1>15
      <4> HIDE DEF q
      <4> QED
        BY <1>15, <4>1 DEF q
    <3>2. As!LoopbackStack(m) = q
      BY <1>6
    <3> HIDE DEF q
    <3> QED
      BY <1>8, <3>1, <3>2
  <2> QED
    BY <2>1, <2>2

LEMMA PassingIs ==
  ASSUME BuildInv, log.stack \in {As!Wire(log.method), As!LoopbackStack(log.method)}
  PROVE  As!CallPassesAll
<1>1. Passing(log.stack, log.method)
  BY StacksPass
<1>2. log.stack \in Seq(As!Steps) /\ DOMAIN log.stack = 1..Len(log.stack)
  BY <1>1, LenProperties DEF Passing, Chain
<1>3. \A i, j \in DOMAIN log.stack : i < j => Sooner(log.stack[i], log.stack[j])
  BY <1>1, <1>2 DEF Passing, Chain
<1> QED
  BY <1>1, <1>3, Zenon DEF As!CallPassesAll, Passing, Sooner

-----------------------------------------------------------------------------
(* The builder calls, and the start they are made for *)

\* What the loopback of a run holds.
Loop == [m \in RpcMethods |-> As!LoopbackStack(m)]

\* Under way: what this run goes through, and what it holds once it is there.
RunInv ==
  /\ run \in Nat
  /\ DOMAIN o = As!OptionFields
  /\ phase # "building" => (o.enableA2a => o.a2aHost # Blank)
  /\ DOMAIN mounted = {"routes", "services", "http"}
  /\ slot # None => slot.stack = Loop
  /\ phase \in {"filled", "up"} =>
       slot = [run |-> run, stack |-> Loop] /\ loopback = slot
  /\ phase \in {"agents", "filled", "up"} => mounted.services = As!Services
  /\ phase = "up" => mounted.http \in {None, As!http_router} /\ shown = As!bound_options

\* The last call met this start's routes, and passed everything.
CallInv ==
  /\ log # None /\ log.by # None => log.stack \in {As!Wire(log.method), As!LoopbackStack(log.method)}
  /\ As!FreshRoutes /\ As!ClaimedIsServed

\* Nothing is built once a start was made, and nothing called or filled before.
AsmInv ==
  /\ BuildInv /\ RunInv /\ CallInv
  /\ phase = "building" => log = None /\ slot = None

LEMMA AsmStarts ==
  ASSUME As!AssemblyAssumption
  PROVE  As!Init => AsmInv
<1> SUFFICES ASSUME As!Init PROVE AsmInv
  OBVIOUS
<1>1. /\ phase = "building" /\ run = 0 /\ slot = None /\ log = None
      /\ mounted = [routes |-> <<>>, services |-> {}, http |-> None]
  BY DEF As!Init, As!Nothing
<1>2. b = As!Empty /\ DOMAIN o = As!OptionFields
  BY DEF As!Init, As!New, As!apply_env_overrides, As!AssemblyAssumption
<1>3. BuildInv
  <2>1. DOMAIN b = As!Lists \cup As!Flags \cup As!Settings
    BY <1>2, Zenon DEF As!Empty
  <2>2. ASSUME NEW f \in As!Lists PROVE b[f] = <<>>
    <3>1. f \notin As!Flags /\ f # "validation" /\ f \in As!Lists \cup As!Flags \cup As!Settings
      BY DEF As!Lists, As!Flags
    <3>2. b[f] = CASE f \in As!Lists -> <<>>
                   [] f \in As!Flags -> FALSE
                   [] f = "validation" -> "off"
                   [] OTHER -> None
      BY <1>2, <3>1, Zenon DEF As!Empty
    <3> QED
      BY <3>1, <3>2
  <2>3. \A f : InTurn(f, <<>>)
    BY DEF InTurn
  <2> QED
    BY <2>1, <2>2, <2>3 DEF BuildInv
<1>4. DOMAIN mounted = {"routes", "services", "http"}
  BY <1>1
<1>5. RunInv
  BY <1>1, <1>2, <1>4 DEF RunInv
<1>6. CallInv
  BY <1>1 DEF CallInv, As!FreshRoutes, As!ClaimedIsServed
<1> QED
  BY <1>1, <1>3, <1>5, <1>6 DEF AsmInv

LEMMA ListsApart ==
  /\ As!Lists \cap (As!Flags \cup As!Settings) = {}
  /\ {"validation", "endpoint", "headers", "limit"} = As!Settings /\ "last" \in As!Flags
BY DEF As!Lists, As!Flags, As!Settings

LEMMA SettingKeeps ==
  ASSUME BuildInv, NEW f \in As!Flags \cup As!Settings, NEW v, b' = [b EXCEPT ![f] = v]
  PROVE  BuildInv'
<1>1. DOMAIN b' = DOMAIN b
  OBVIOUS
<1>2. ASSUME NEW g \in As!Lists PROVE b'[g] = b[g]
  <2>1. g # f /\ g \in DOMAIN b
    BY ListsApart DEF BuildInv
  <2> QED
    BY <2>1
<1>3. ASSUME NEW g \in As!Lists PROVE InTurn(g, b'[g])
  BY <1>2, <1>3 DEF BuildInv
<1> QED
  BY <1>1, <1>3, Zenon DEF BuildInv, InTurn, As!Lists, As!Flags, As!Settings, As!Steps

LEMMA ListKeeps ==
  ASSUME BuildInv, NEW f \in As!Lists, As!Register(f)
  PROVE  BuildInv'
<1> DEFINE q == b[f]
           e == <<f, Len(q) + 1>>
<1>1. b' = [b EXCEPT ![f] = Append(q, e)]
  BY DEF As!Register, As!Changes
<1>2. f \in DOMAIN b /\ InTurn(f, q)
  BY DEF BuildInv
<1>3. Len(q) \in Nat /\ e \in As!Steps
  <2>1. Len(q) \in Nat
    BY <1>2, LenProperties DEF InTurn
  <2> QED
    BY <2>1 DEF As!Steps
<1> DEFINE x == Append(q, e)
<1>4. /\ x \in Seq(As!Steps) /\ Len(x) = Len(q) + 1
      /\ \A i \in 1..Len(q) : x[i] = q[i]
      /\ x[Len(q) + 1] = e
  <2> HIDE DEF e, q
  <2> QED
    BY <1>2, <1>3, AppendProperties DEF InTurn
<1>5. InTurn(f, x)
  <2> HIDE DEF x
  <2>1. ASSUME NEW i \in 1..Len(x) PROVE x[i] = <<f, i>>
    <3>1. CASE i \in 1..Len(q)
      BY <1>2, <1>4, <3>1 DEF InTurn
    <3>2. CASE i = Len(q) + 1
      BY <1>4, <3>2
    <3> QED
      BY <1>3, <1>4, <3>1, <3>2
  <2> QED
    BY <1>4, <2>1 DEF InTurn
<1>6. DOMAIN b' = DOMAIN b /\ b'[f] = x /\ \A g \in As!Lists \ {f} : b'[g] = b[g]
  BY <1>1, <1>2 DEF BuildInv
<1> HIDE DEF x, q, e
<1>7. ASSUME NEW g \in As!Lists PROVE InTurn(g, b'[g])
  BY <1>5, <1>6 DEF BuildInv
<1> QED
  BY <1>6, <1>7, Zenon DEF BuildInv, InTurn, As!Lists, As!Flags, As!Settings, As!Steps

LEMMA BuildKeeps ==
  ASSUME BuildInv, As!Build
  PROVE  BuildInv'
<1>1. ASSUME NEW f \in As!Flags \ {"last"}, As!Switch(f) PROVE BuildInv'
  <2>1. b' = [b EXCEPT ![f] = TRUE]
    BY <1>1 DEF As!Switch, As!Changes
  <2> QED
    BY <2>1, SettingKeeps
<1>2. CASE As!with_validation \/ As!with_validator
  <2>1. \E v : b' = [b EXCEPT !["validation"] = v]
    BY <1>2 DEF As!with_validation, As!with_validator, As!Changes
  <2> QED
    BY <2>1, ListsApart, SettingKeeps
<1>3. CASE As!with_validation_last
  <2> DEFINE v == IF b["validation"] = "off" THEN "default" ELSE b["validation"]
  <2>1. b' = [b EXCEPT !["last"] = TRUE, !["validation"] = v]
    BY <1>3 DEF As!with_validation_last, As!Changes
  <2>2. DOMAIN b' = DOMAIN b /\ \A g \in As!Lists : b'[g] = b[g]
    BY <2>1, ListsApart DEF BuildInv
  <2>3. ASSUME NEW g \in As!Lists PROVE InTurn(g, b'[g])
    BY <2>2, <2>3 DEF BuildInv
  <2> QED
    BY <2>2, <2>3, Zenon DEF BuildInv, InTurn, As!Lists, As!Flags, As!Settings, As!Steps
<1>4. ASSUME NEW p, As!with_mcp_endpoint(p) PROVE BuildInv'
  <2>1. \E v : b' = [b EXCEPT !["endpoint"] = v]
    BY <1>4, Zenon DEF As!with_mcp_endpoint, As!Changes
  <2> QED
    BY <2>1, ListsApart, SettingKeeps
<1>5. CASE As!with_mcp_header_mappings
  <2>1. b' = [b EXCEPT !["headers"] = "given"]
    BY <1>5 DEF As!with_mcp_header_mappings, As!Changes
  <2> QED
    BY <2>1, ListsApart, SettingKeeps
<1>6. ASSUME NEW n, As!max_connections(n) PROVE BuildInv'
  <2>1. \E v : b' = [b EXCEPT !["limit"] = v]
    BY <1>6, Zenon DEF As!max_connections, As!Changes
  <2> QED
    BY <2>1, ListsApart, SettingKeeps
<1> QED
  BY <1>1, <1>2, <1>3, <1>4, <1>5, <1>6, ListKeeps, Zenon DEF As!Build

-----------------------------------------------------------------------------
(* What depends on the builder alone, and on the options *)

LEMMA StacksSame ==
  ASSUME b' = b
  PROVE  /\ \A m : As!Wire(m)' = As!Wire(m) /\ As!LoopbackStack(m)' = As!LoopbackStack(m)
         /\ Loop' = Loop
         /\ As!http_router' = As!http_router /\ (BuildInv => BuildInv')
<1>1. As!validation' = As!validation
  BY Zenon DEF As!validation
<1>2. As!message_chain' = As!message_chain
  BY <1>1, Zenon DEF As!message_chain
<1>3. \A q : As!Layered(q)' = As!Layered(q)
  BY Zenon DEF As!Layered
<1>4. As!interceptor_chain' = As!interceptor_chain
  BY Zenon DEF As!interceptor_chain
<1>9. ASSUME NEW m PROVE As!streams(m)' = As!streams(m) /\ As!messages(m)' = As!messages(m)
  <2>1. As!Described(m)' <=> As!Described(m)
    BY Zenon DEF As!Described
  <2> QED
    BY <1>2, <2>1, Zenon DEF As!streams, As!messages
<1>5. ASSUME NEW m PROVE As!Wire(m)' = As!Wire(m)
  BY <1>3, <1>4, <1>9, Zenon DEF As!Wire
<1>6. ASSUME NEW m PROVE As!LoopbackStack(m)' = As!LoopbackStack(m)
  BY <1>3, <1>4, <1>9, Zenon DEF As!LoopbackStack
<1>10. Loop' = Loop
  BY <1>6, Zenon DEF Loop
<1>7. As!http_router' = As!http_router
  BY Zenon DEF As!http_router
<1>8. ASSUME BuildInv PROVE BuildInv'
  <2>1. /\ \A f \in As!Lists : InTurn(f, b'[f])
        /\ DOMAIN b' = As!Lists \cup As!Flags \cup As!Settings
    BY <1>8 DEF BuildInv
  <2> QED
    BY <2>1, Zenon DEF BuildInv, InTurn, As!Lists, As!Flags, As!Settings, As!Steps
<1> QED
  BY <1>5, <1>6, <1>7, <1>8, <1>10

LEMMA ServicesSame ==
  ASSUME b' = b, o' = o
  PROVE  As!Services' = As!Services /\ As!bound_options' = As!bound_options
<1>1. As!mcp_transport' = As!mcp_transport /\ As!mcp_header_mappings' = As!mcp_header_mappings
  BY Zenon DEF As!mcp_transport, As!mcp_header_mappings
<1>2. As!McpAddr' = As!McpAddr
  BY Zenon DEF As!McpAddr
<1>3. \A p : As!Group(p)' = As!Group(p)
  BY <1>1, <1>2, Zenon DEF As!Group
<1>4. As!ServicePaths' = As!ServicePaths
  BY <1>1, Zenon DEF As!ServicePaths
<1>5. As!mcp_groups' = As!mcp_groups
  BY <1>3, <1>4, Zenon DEF As!mcp_groups
<1>6. As!a2a_transports' = As!a2a_transports
  BY Zenon DEF As!a2a_transports
<1>7. As!a2a_services' = As!a2a_services
  BY <1>6, Zenon DEF As!a2a_services
<1>8. As!Services' = As!Services
  BY <1>5, <1>7, Zenon DEF As!Services
<1>9. As!Asked' = As!Asked
  BY <1>8, Zenon DEF As!Asked
<1>10. As!bound_options' = As!bound_options
  BY <1>9, Zenon DEF As!bound_options
<1> QED
  BY <1>8, <1>10

\* A start fills in the host of A2A when the protocol is on.
LEMMA DefaultHostSet ==
  ASSUME DOMAIN o = As!OptionFields, o' = As!Defaulted
  PROVE  DOMAIN o' = As!OptionFields /\ (o'.enableA2a => o'.a2aHost # Blank)
<1> DEFINE host == IF o.enableA2a /\ ~As!Local(o.a2aHost) /\ o.a2aHost = Blank THEN As!DefaultHost
                   ELSE o.a2aHost
<1>1. PICK w, x, y : o' = [o EXCEPT !.mcpHost = w, !.mcpPort = x, !.a2aHost = host, !.a2aPort = y]
  BY Zenon DEF As!Defaulted, Blank
<1>2. o.enableA2a => host # Blank
  <2>1. As!DefaultHost # Blank /\ ~As!Local(Blank)
    BY Zenon DEF As!DefaultHost, As!Local, Blank
  <2> QED
    BY <2>1
<1> HIDE DEF host
<1>3. DOMAIN o' = DOMAIN o /\ o'.enableA2a = o.enableA2a /\ o'.a2aHost = host
  BY <1>1 DEF As!OptionFields
<1> QED
  BY <1>2, <1>3

\* A step after the building is done, or one that a start makes, changes nothing built.
LEMMA BuiltStays ==
  ASSUME AsmInv, b' = b, phase' # "building", RunInv', log' = log
  PROVE  AsmInv'
<1>1. /\ BuildInv' /\ Loop' = Loop
      /\ \A m : As!Wire(m)' = As!Wire(m) /\ As!LoopbackStack(m)' = As!LoopbackStack(m)
  BY StacksSame DEF AsmInv
<1>2. As!FreshRoutes' /\ As!ClaimedIsServed'
  BY Zenon DEF AsmInv, CallInv, As!FreshRoutes, As!ClaimedIsServed, As!claims
<1>3. CallInv'
  BY <1>1, <1>2 DEF AsmInv, CallInv
<1> QED
  BY <1>1, <1>3 DEF AsmInv

LEMMA AsmBuilds ==
  ASSUME AsmInv, As!Build
  PROVE  AsmInv'
<1>1. phase = "building" /\ UNCHANGED <<o, phase, run, loopback, slot, mounted, shown, log>>
  BY Zenon DEF As!Build, As!Register, As!Switch, As!with_validation, As!with_validator,
     As!with_validation_last, As!with_mcp_endpoint, As!with_mcp_header_mappings, As!max_connections,
     As!Changes
<1>2. BuildInv'
  BY BuildKeeps DEF AsmInv
<1>3. log' = None /\ slot' = None
  BY <1>1 DEF AsmInv
<1>4. RunInv'
  BY <1>1, <1>3 DEF AsmInv, RunInv, As!OptionFields, Blank
<1>5. CallInv'
  BY <1>3 DEF CallInv, As!FreshRoutes, As!ClaimedIsServed
<1> QED
  BY <1>2, <1>3, <1>4, <1>5 DEF AsmInv

LEMMA AsmRuns ==
  ASSUME As!AssemblyAssumption, AsmInv, As!Start \/ As!StartAgents \/ As!Fill \/ As!StartHttp \/ As!Stop
  PROVE  AsmInv'
<1>1. b' = b /\ log' = log /\ phase' # "building"
  BY DEF As!Start, As!StartAgents, As!Fill, As!StartHttp, As!Stop
<1>2. /\ Loop' = Loop /\ As!http_router' = As!http_router
      /\ o' = o => As!Services' = As!Services /\ As!bound_options' = As!bound_options
  BY <1>1, StacksSame, ServicesSame
<1>3. As!OptionFields' = As!OptionFields /\ Blank' = Blank
  BY Zenon DEF As!OptionFields, Blank
<1> SUFFICES RunInv'
  BY <1>1, BuiltStays
<1>4. CASE As!Start
  <2>1. o' = As!Defaulted /\ phase' = "grpc" /\ run' = run + 1 /\ UNCHANGED <<loopback, slot, mounted, shown>>
    BY <1>4 DEF As!Start
  <2>2. DOMAIN o' = As!OptionFields /\ (o'.enableA2a => o'.a2aHost # Blank)
    BY <2>1, DefaultHostSet DEF AsmInv, RunInv
  <2> QED
    BY <1>2, <1>3, <2>1, <2>2 DEF AsmInv, RunInv
<1>5. CASE As!StartAgents
  <2>1. /\ phase = "grpc" /\ phase' = "agents" /\ UNCHANGED <<o, run, loopback, slot, shown>>
        /\ mounted' = [mounted EXCEPT !.routes = As!Routes, !.services = As!Services]
    BY <1>5 DEF As!StartAgents
  <2>2. mounted'.services = As!Services /\ DOMAIN mounted' = DOMAIN mounted
    BY <2>1 DEF AsmInv, RunInv
  <2> QED
    BY <1>2, <1>3, <2>1, <2>2 DEF AsmInv, RunInv
<1>6. CASE As!Fill
  <2>1. /\ phase = "agents" /\ phase' = "filled" /\ UNCHANGED <<o, run, mounted, shown>>
        /\ slot' = [run |-> run, stack |-> Loop] /\ loopback' = slot'
    BY <1>6 DEF As!Fill, As!set, Loop
  <2> QED
    BY <1>2, <1>3, <2>1 DEF AsmInv, RunInv
<1>7. CASE As!StartHttp
  <2>1. /\ phase = "filled" /\ phase' = "up" /\ UNCHANGED <<o, run, loopback, slot>>
        /\ mounted' = [mounted EXCEPT !.http = IF o.enableHttp THEN As!http_router ELSE None]
        /\ shown' = As!bound_options
    BY <1>7 DEF As!StartHttp
  <2>2. /\ mounted'.http \in {None, As!http_router} /\ mounted'.services = mounted.services
        /\ DOMAIN mounted' = DOMAIN mounted
    BY <2>1 DEF AsmInv, RunInv
  <2> QED
    BY <1>2, <1>3, <2>1, <2>2 DEF AsmInv, RunInv
<1>8. CASE As!Stop
  <2>1. phase \in {"up", "filled"} /\ phase' = "stopped" /\ UNCHANGED <<o, run, slot>> /\ mounted' = As!Nothing
    BY <1>8 DEF As!Stop
  <2>2. DOMAIN mounted' = {"routes", "services", "http"}
    BY <2>1 DEF As!Nothing
  <2> QED
    BY <1>2, <1>3, <2>1, <2>2 DEF AsmInv, RunInv
<1> QED
  BY <1>4, <1>5, <1>6, <1>7, <1>8

\* A call leaves everything but the record of it.
LEMMA CallKeeps ==
  ASSUME AsmInv, phase # "building", NEW via, NEW m, NEW by, NEW q, As!Called(via, m, by, q),
         by # None => q \in {As!Wire(m), As!LoopbackStack(m)},
         phase \in {"filled", "up"} => by = run,
         via[1] = "rest" => via[3] = (\E i \in DOMAIN b["gateway"] : As!claims(b["gateway"][i], via[2]))
  PROVE  AsmInv'
<1>1. /\ log' = [via |-> via[1], path |-> via[2], claimed |-> via[3], method |-> m,
                 phase |-> phase, run |-> run, by |-> by, stack |-> q]
      /\ UNCHANGED <<b, o, phase, run, loopback, slot, mounted, shown>>
  BY DEF As!Called
<1>2. /\ BuildInv' /\ As!Wire(m)' = As!Wire(m) /\ As!LoopbackStack(m)' = As!LoopbackStack(m)
      /\ Loop' = Loop /\ As!http_router' = As!http_router /\ As!Services' = As!Services
      /\ As!bound_options' = As!bound_options
  BY <1>1, StacksSame, ServicesSame DEF AsmInv
<1>3. /\ log'.via = via[1] /\ log'.path = via[2] /\ log'.claimed = via[3] /\ log'.phase = phase
      /\ log'.run = run /\ log'.by = by /\ log'.stack = q /\ log'.method = m
  BY <1>1
<1>4. As!FreshRoutes'
  BY <1>3 DEF As!FreshRoutes
<1>5. As!ClaimedIsServed'
  <2>1. \A g, p : As!claims(g, p)' <=> As!claims(g, p)
    BY DEF As!claims
  <2> QED
    BY <1>1, <1>3, Zenon DEF As!ClaimedIsServed, As!claims
<1>6. CallInv'
  BY <1>2, <1>3, <1>4, <1>5 DEF CallInv
<1>7. RunInv'
  <2>1. As!OptionFields' = As!OptionFields /\ Blank' = Blank
    BY Zenon DEF As!OptionFields, Blank
  <2> QED
    BY <1>1, <1>2, <2>1 DEF AsmInv, RunInv
<1> QED
  BY <1>1, <1>2, <1>6, <1>7 DEF AsmInv

\* The first gateway that claims a path serves it.
LEMMA FirstClaims ==
  ASSUME BuildInv, NEW p, mounted.http.gateways = b["gateway"], b["gateway"] # <<>>
  PROVE  As!claims(b["gateway"][As!Chosen(p)], p)
           = (\E i \in DOMAIN b["gateway"] : As!claims(b["gateway"][i], p))
<1> DEFINE q == b["gateway"]
           S == {i \in DOMAIN q : As!claims(q[i], p)}
<1>1. q \in Seq(As!Steps) /\ Len(q) \in Nat /\ DOMAIN q = 1..Len(q)
  <2>1. InTurn("gateway", q)
    BY DEF BuildInv, As!Lists
  <2> QED
    BY <2>1, LenProperties DEF InTurn
<1>2. 1 \in DOMAIN q
  BY <1>1, EmptySeq
<1>3. As!Chosen(p) = IF S = {} THEN 1 ELSE CHOOSE i \in S : \A j \in S : i <= j
  BY DEF As!Chosen
<1>4. CASE S = {}
  BY <1>2, <1>3, <1>4 DEF As!claims
<1>5. CASE S # {}
  <2>1. S \in SUBSET Nat
    BY <1>1
  <2> DEFINE k == CHOOSE i \in S : \A j \in S : i <= j
  <2>2. k \in S
    <3> HIDE DEF S
    <3> QED
      BY <1>5, <2>1, LeastOf
  <2>3. As!Chosen(p) = k
    BY <1>3, <1>5
  <2> HIDE DEF k
  <2> QED
    BY <2>2, <2>3 DEF As!claims
<1> QED
  BY <1>4, <1>5

LEMMA AsmCalls ==
  ASSUME As!AssemblyAssumption, AsmInv,
         NEW m \in RpcMethods,
         As!WireCall(m) \/ (\E p \in As!Paths : As!RestCall(p, m)) \/ As!McpCall(m)
  PROVE  AsmInv'
<1>1. CASE As!WireCall(m)
  <2>1. phase = "up" /\ As!Called(<<"wire", None, TRUE>>, m, run, As!Wire(m))
    BY <1>1 DEF As!WireCall
  <2> DEFINE via == <<"wire", None, TRUE>>
  <2>2. via[1] = "wire"
    OBVIOUS
  <2> HIDE DEF via
  <2>3. As!Called(via, m, run, As!Wire(m))
    BY <2>1 DEF via
  <2> QED
    BY <2>1, <2>2, <2>3, CallKeeps
<1>2. ASSUME NEW p \in As!Paths, As!RestCall(p, m) PROVE AsmInv'
  <2> DEFINE via == <<"rest", p, As!claims(mounted.http.gateways[As!Chosen(p)], p)>>
  <2>1. /\ phase = "up" /\ mounted.http # None /\ mounted.http.gateways # <<>>
        /\ As!Called(via, m, loopback.run, loopback.stack[m])
    BY <1>2 DEF As!RestCall
  <2>2. loopback.run = run /\ loopback.stack[m] = As!LoopbackStack(m)
    BY <2>1 DEF AsmInv, RunInv, Loop
  <2>3. mounted.http = As!http_router
    BY <2>1 DEF AsmInv, RunInv
  <2>4. mounted.http.gateways = b["gateway"]
    <3>1. \/ As!http_router = [health |-> TRUE, own |-> TRUE, dialing |-> <<>>, gateways |-> <<>>]
          \/ As!http_router = [health |-> TRUE, own |-> FALSE, dialing |-> b["dialing"],
                               gateways |-> b["gateway"]]
      BY DEF As!http_router
    <3> QED
      BY <2>1, <2>3, <3>1
  <2>5. As!claims(b["gateway"][As!Chosen(p)], p)
          = (\E i \in DOMAIN b["gateway"] : As!claims(b["gateway"][i], p))
    BY <2>1, <2>4, FirstClaims DEF AsmInv
  <2>6. via[1] = "rest" /\ via[2] = p /\ via[3] = As!claims(b["gateway"][As!Chosen(p)], p)
    BY <2>4
  <2> HIDE DEF via
  <2>7. via[3] = (\E i \in DOMAIN b["gateway"] : As!claims(b["gateway"][i], via[2]))
    BY <2>5, <2>6
  <2> QED
    BY <2>1, <2>2, <2>7, CallKeeps
<1>3. CASE As!McpCall(m)
  <2> DEFINE via == <<"mcp", None, TRUE>>
  <2>1. /\ phase \in {"agents", "filled", "up"}
        /\ IF slot = None THEN As!Called(via, m, None, <<>>)
           ELSE As!Called(via, m, slot.run, slot.stack[m])
    BY <1>3 DEF As!McpCall
  <2>2. via[1] = "mcp"
    OBVIOUS
  <2> HIDE DEF via
  <2>3. phase \in {"filled", "up"} => slot # None /\ slot.run = run
    <3>1. ASSUME phase \in {"filled", "up"} PROVE slot = [run |-> run, stack |-> Loop] /\ run \in Nat
      BY <3>1 DEF AsmInv, RunInv
    <3>2. Loop \in [RpcMethods -> Seq(As!Steps)]
      <4>1. \A x \in RpcMethods : As!LoopbackStack(x) \in Seq(As!Steps)
        BY StacksPass DEF AsmInv, Passing, Chain
      <4> QED
        BY <4>1 DEF Loop
    <3> QED
      BY <3>1, <3>2 DEF As!AssemblyAssumption
  <2>4. CASE slot = None
    <3>1. As!Called(via, m, None, <<>>) /\ phase \notin {"filled", "up"}
      BY <2>1, <2>3, <2>4
    <3> QED
      BY <2>1, <2>2, <3>1, CallKeeps
  <2>5. CASE slot # None
    <3>1. As!Called(via, m, slot.run, slot.stack[m]) /\ slot.stack[m] = As!LoopbackStack(m)
      BY <2>1, <2>5 DEF AsmInv, RunInv, Loop
    <3> QED
      BY <2>1, <2>2, <2>3, <3>1, CallKeeps
  <2> QED
    BY <2>4, <2>5
<1> QED
  BY <1>1, <1>2, <1>3

LEMMA AsmStays ==
  ASSUME As!AssemblyAssumption
  PROVE  AsmInv /\ [As!Next]_As!asmVars => AsmInv'
<1> SUFFICES ASSUME AsmInv, [As!Next]_As!asmVars PROVE AsmInv'
  OBVIOUS
<1>1. CASE UNCHANGED As!asmVars
  <2>1. UNCHANGED <<b, o, phase, run, loopback, slot, mounted, shown, log>>
    BY <1>1 DEF As!asmVars
  <2>2. CASE phase = "building"
    <3>1. log' = None /\ slot' = None /\ BuildInv'
      BY <2>1, <2>2, StacksSame DEF AsmInv
    <3>2. RunInv'
      BY <2>1, <2>2, <3>1 DEF AsmInv, RunInv, As!OptionFields, Blank
    <3>3. CallInv'
      BY <3>1 DEF CallInv, As!FreshRoutes, As!ClaimedIsServed
    <3> QED
      BY <3>1, <3>2, <3>3 DEF AsmInv
  <2>3. CASE phase # "building"
    <3>1. As!OptionFields' = As!OptionFields /\ Blank' = Blank
      BY Zenon DEF As!OptionFields, Blank
    <3>2. RunInv'
      BY <2>1, <3>1, StacksSame, ServicesSame DEF AsmInv, RunInv
    <3> QED
      BY <2>1, <2>3, <3>2, BuiltStays
  <2> QED
    BY <2>2, <2>3
<1> QED
  BY <1>1, AsmBuilds, AsmRuns, AsmCalls DEF As!Next

-----------------------------------------------------------------------------
(* What the invariant shows *)

LEMMA ToolsShown ==
  ASSUME AsmInv, phase = "up"
  PROVE  As!ToolsServed
<1> DEFINE groups == {s \in mounted.services : s.kind = "mcp"}
<1>1. mounted.services = As!mcp_groups \cup As!a2a_services
  BY DEF AsmInv, RunInv, As!Services
<1>2. \A s \in As!a2a_services : s.kind = "a2a"
  BY DEF As!a2a_services
<1>3. \A p : /\ As!Group(p).kind = "mcp" /\ As!Group(p).members = b["mcp"]
             /\ As!Group(p).transports = <<As!mcp_transport>>
  BY DEF As!Group
<1>4. groups \subseteq As!mcp_groups
  BY <1>1, <1>2
<1>5. \A p : As!Group(p) \in As!mcp_groups => As!Group(p) \in groups
  BY <1>1, <1>3
<1>6. ASSUME o.mcp, b["noPaths"] => b["endpoint"] # None, NEW m \in As!Range(b["mcp"])
      PROVE  \E g \in groups : m \in As!Range(g.members)
  <2>1. b["mcp"] # <<>>
    BY <1>6 DEF As!Range
  <2>2. \E p : As!Group(p) \in As!mcp_groups
    <3>1. CASE b["endpoint"] # None
      BY <1>6, <2>1, <3>1, Zenon DEF As!mcp_groups
    <3>2. CASE b["endpoint"] = None
      <4>1. As!ServicePaths
        BY <1>6, <3>2 DEF As!ServicePaths
      <4> QED
        BY <1>6, <2>1, <4>1, Zenon DEF As!mcp_groups
    <3> QED
      BY <3>1, <3>2
  <2>3. PICK p : As!Group(p) \in groups
    BY <1>5, <2>2
  <2> QED
    BY <1>3, <1>6, <2>3
<1>7. ASSUME NEW g \in groups, NEW h \in groups, g.transports = <<"stdio">>, h.transports = <<"stdio">>
      PROVE  g = h
  <2>1. /\ g \in As!mcp_groups /\ h \in As!mcp_groups
    BY <1>4
  <2>2. \A s \in As!mcp_groups :
          \/ s = As!Group("own") /\ As!ServicePaths
          \/ s = As!Group(b["endpoint"]) /\ b["endpoint"] # None
    BY Zenon DEF As!mcp_groups
  <2>3. As!mcp_transport = "stdio"
    <3>1. <<As!mcp_transport>> = <<"stdio">>
      BY <1>3, <1>7, <2>1, <2>2
    <3> QED
      BY <3>1
  <2>4. ~(As!ServicePaths /\ b["endpoint"] # None)
    BY <2>3 DEF As!ServicePaths
  <2> QED
    BY <2>1, <2>2, <2>4
<1> QED
  BY <1>6, <1>7, Zenon DEF As!ToolsServed

\* A host is shown as it was asked for.
LEMMA BannerShown ==
  ASSUME AsmInv, phase = "up"
  PROVE  As!BannerTrue
<1>1. mounted.services = As!Services /\ shown = As!bound_options
  BY DEF AsmInv, RunInv
<1> SUFFICES ASSUME NEW s \in As!Services, ~As!Local(s.addr[1]),
                    \E i \in DOMAIN s.transports : As!listens(s.transports[i])
             PROVE  shown[s.kind] = As!Bound(s.addr)
  BY <1>1, Zenon DEF As!BannerTrue
<1>2. s.addr \in As!Asked
  BY DEF As!Asked
<1> DEFINE mcpA == <<As!ShownHost(o.mcpHost), o.mcpPort>>
           a2aA == <<As!ShownHost(o.a2aHost), o.a2aPort>>
<1>3. /\ shown["mcp"] = IF mcpA \in As!Asked THEN As!Bound(mcpA) ELSE o.mcpPort
      /\ shown["a2a"] = IF a2aA \in As!Asked THEN As!Bound(a2aA) ELSE o.a2aPort
  BY <1>1 DEF As!bound_options
<1>4. \A h, p : ~As!Local(As!agent_addr(h, p)[1]) => As!agent_addr(h, p) = <<h, p>>
  BY DEF As!agent_addr, As!Local
<1>5. CASE s \in As!mcp_groups
  <2>1. PICK p : s = As!Group(p)
    BY <1>5, Zenon DEF As!mcp_groups
  <2>2. s.kind = "mcp" /\ s.addr = As!McpAddr
    BY <2>1 DEF As!Group
  <2>3. As!McpAddr = As!agent_addr(As!ShownHost(o.mcpHost), o.mcpPort)
    BY Zenon DEF As!McpAddr, As!ShownHost
  <2>4. s.addr = mcpA
    BY <1>4, <2>2, <2>3
  <2> HIDE DEF mcpA, a2aA
  <2> QED
    BY <1>2, <1>3, <2>2, <2>4
<1>6. CASE s \in As!a2a_services
  <2>1. o.enableA2a /\ s.kind = "a2a" /\ s.addr = As!agent_addr(o.a2aHost, o.a2aPort)
    BY <1>6 DEF As!a2a_services
  <2>2. o.a2aHost # Blank
    BY <2>1 DEF AsmInv, RunInv
  <2>3. As!ShownHost(o.a2aHost) = o.a2aHost
    BY <2>2, Zenon DEF As!ShownHost, Blank
  <2>4. s.addr = a2aA
    BY <1>4, <2>1, <2>3
  <2> HIDE DEF mcpA, a2aA
  <2> QED
    BY <1>2, <1>3, <2>1, <2>4
<1> QED
  BY <1>5, <1>6 DEF As!Services

LEMMA AsmShows ==
  AsmInv => /\ As!CallPassesAll /\ As!FreshRoutes /\ As!ToolsServed
            /\ As!BannerTrue /\ As!ClaimedIsServed
<1> SUFFICES ASSUME AsmInv
             PROVE  /\ As!CallPassesAll /\ As!FreshRoutes /\ As!ToolsServed
                    /\ As!BannerTrue /\ As!ClaimedIsServed
  OBVIOUS
<1>1. As!CallPassesAll
  <2>1. CASE log # None /\ log.by # None
    <3>1. BuildInv /\ log.stack \in {As!Wire(log.method), As!LoopbackStack(log.method)}
      BY <2>1 DEF AsmInv, CallInv
    <3> QED
      BY <3>1, PassingIs
  <2>2. CASE ~(log # None /\ log.by # None)
    BY <2>2, Zenon DEF As!CallPassesAll
  <2> QED
    BY <2>1, <2>2
<1>2. As!ToolsServed /\ As!BannerTrue
  <2>1. CASE phase = "up"
    BY <2>1, ToolsShown, BannerShown
  <2>2. CASE phase # "up"
    BY <2>2, Zenon DEF As!ToolsServed, As!BannerTrue
  <2> QED
    BY <2>1, <2>2
<1> QED
  BY <1>1, <1>2 DEF AsmInv, CallInv

-----------------------------------------------------------------------------
(* The run: one part moves, the others stand still *)

LEMMA Assumptions ==
  /\ Ws!WebSocketAssumption /\ So!LocalSocketAssumption /\ Co!CorsAssumption
  /\ Ta!TasksAssumption /\ Ne!NetworkAssumption /\ Er!ErrorsAssumption
  /\ Ho!HostingAssumption /\ Aa!A2aAssumption /\ As!AssemblyAssumption
BY Instances

AnswersInv == (part = "errors" => ErrInv) /\ (part = "cors" => CorsInv)

\* Whatever part a behaviour runs, an error reaches its caller with the status its handler
\* meant, on every path (problem, hints), and the CORS headers, the cached ones too, admit
\* exactly the origins of the policy (cors.rs).
THEOREM AnswersHonestHolds == MCSpec => []AnswersHonest
<1>1. MCInit => AnswersInv
  BY ErrStarts, CorsStarts, Assumptions DEF MCInit, AnswersInv
<1>2. AnswersInv /\ [MCNext]_mcVars => AnswersInv'
  <2> SUFFICES ASSUME AnswersInv, [MCNext]_mcVars PROVE AnswersInv'
    OBVIOUS
  <2>1. part' = part
    BY DEF MCNext, Still, mcVars
  <2>2. ASSUME part = "errors" PROVE ErrInv'
    <3>1. ErrInv
      BY <2>2 DEF AnswersInv
    <3>2. [Er!Next]_(Er!evars)
      BY <2>2 DEF MCNext, Still, mcVars, erVars, Er!evars
    <3> QED
      BY <3>1, <3>2, ErrStays, Assumptions
  <2>3. ASSUME part = "cors" PROVE CorsInv'
    <3>1. CorsInv
      BY <2>3 DEF AnswersInv
    <3>2. [Co!Next]_(Co!rvars)
      BY <2>3 DEF MCNext, Still, mcVars, coVars, Co!rvars
    <3> QED
      BY <3>1, <3>2, CorsStays, Assumptions
  <2> QED
    BY <2>1, <2>2, <2>3 DEF AnswersInv
<1>3. AnswersInv => AnswersHonest
  BY ErrShows, CorsShows, Assumptions DEF AnswersInv, AnswersHonest
<1> QED
  BY <1>1, <1>2, <1>3, PTL DEF MCSpec

ClientsInv ==
  (part = "network" => NetInv) /\ (part = "websocket" => ClientInv) /\ (part = "socket" => SockInv)

\* Whatever part a behaviour runs, a client reports what the server did and delivers updates
\* in order (network), the halves of a WebSocket agree between operations as long as nothing
\* raced (websocket), and a socket file leads to its server unless two starts raced (unix.rs).
THEOREM ClientsHonestHolds == MCSpec => []ClientsHonest
<1>1. MCInit => ClientsInv
  BY NetStarts, WebStarts, SockStarts, Assumptions DEF MCInit, ClientsInv
<1>2. ClientsInv /\ [MCNext]_mcVars => ClientsInv'
  <2> SUFFICES ASSUME ClientsInv, [MCNext]_mcVars PROVE ClientsInv'
    OBVIOUS
  <2>1. part' = part
    BY DEF MCNext, Still, mcVars
  <2>2. ASSUME part = "network" PROVE NetInv'
    <3>1. NetInv
      BY <2>2 DEF ClientsInv
    <3>2. [Ne!Next]_(Ne!nvars)
      BY <2>2 DEF MCNext, Still, mcVars, neVars, Ne!nvars
    <3> QED
      BY <3>1, <3>2, NetStays, Assumptions
  <2>3. ASSUME part = "websocket" PROVE ClientInv'
    <3>1. ClientInv
      BY <2>3 DEF ClientsInv
    <3>2. [Ws!Next]_(Ws!wsVars)
      BY <2>3 DEF MCNext, Still, mcVars, wsVars, Ws!wsVars
    <3> QED
      BY <3>1, <3>2, WebStays, Assumptions
  <2>4. ASSUME part = "socket" PROVE SockInv'
    <3>1. SockInv
      BY <2>4 DEF ClientsInv
    <3>2. [So!Next]_(So!vars)
      BY <2>4 DEF MCNext, Still, mcVars, soVars, So!vars
    <3> QED
      BY <3>1, <3>2, SockStays, Assumptions
  <2> QED
    BY <2>1, <2>2, <2>3, <2>4 DEF ClientsInv
<1>3. ClientsInv => ClientsHonest
  BY NetShows, WebShows, SockShows, Assumptions DEF ClientsInv, ClientsHonest
<1> QED
  BY <1>1, <1>2, <1>3, PTL DEF MCSpec

AssemblyInv == part = "assembly" => AsmInv

\* Whatever part a behaviour runs, a call passes every layer, and every interceptor of the chain
\* its method's shape calls for, once and in their order however it comes in, meets the routes of this start once it has its loopback, every
\* MCP service given is served and one reads standard input, the banner prints the ports that
\* are bound, and a REST path is served by a gateway that claims it (server.rs, layer.rs,
\* validation.rs, loopback.rs, mcp_options.rs, lifecycle.rs, rest.rs).
THEOREM AssemblyHonestHolds == MCSpec => []AssemblyHonest
<1>1. MCInit => AssemblyInv
  BY AsmStarts, Assumptions DEF MCInit, AssemblyInv
<1>2. AssemblyInv /\ [MCNext]_mcVars => AssemblyInv'
  <2> SUFFICES ASSUME AssemblyInv, [MCNext]_mcVars, part = "assembly" PROVE AsmInv'
    BY DEF MCNext, Still, mcVars, AssemblyInv
  <2>1. AsmInv /\ [As!Next]_(As!asmVars)
    BY DEF AssemblyInv, MCNext, Still, mcVars, asVars, As!asmVars
  <2> QED
    BY <2>1, AsmStays, Assumptions
<1>3. AssemblyInv => AssemblyHonest
  BY AsmShows DEF AssemblyInv, AssemblyHonest
<1> QED
  BY <1>1, <1>2, <1>3, PTL DEF MCSpec

TasksInv == part = "tasks" => TaskInv /\ LayerInv

\* Whatever part a behaviour runs, a task enters a final state once in each store that keeps
\* it, whatever cancellations and events meet, a request passes every layer of its service
\* before the handler, a service's own store knows its tasks across servers, and a caller can
\* tell every code by the event it is sent (handler.rs, executor.rs, error.rs).
THEOREM TasksHonestHolds == MCSpec => []TasksHonest
<1>1. MCInit => TasksInv
  BY TaskStarts, LayerStarts, Assumptions DEF MCInit, TasksInv
<1>2. TasksInv /\ [MCNext]_mcVars => TasksInv'
  <2> SUFFICES ASSUME TasksInv, [MCNext]_mcVars, part = "tasks" PROVE (TaskInv /\ LayerInv)'
    BY DEF MCNext, Still, mcVars, TasksInv
  <2>1. TaskInv /\ LayerInv /\ [Ta!Next]_(Ta!taskVars)
    BY DEF TasksInv, MCNext, Still, mcVars, taVars, Ta!taskVars
  <2>2. TaskInv'
    BY <2>1, TaskStays, Assumptions
  <2> QED
    BY <2>1, <2>2, LayerStays DEF TaskInv
<1>3. TasksInv => TasksHonest
  BY TaskShows, LayersShown, Assumptions
  DEF TasksInv, TaskInv, TasksHonest, Ta!TasksHonest
<1> QED
  BY <1>1, <1>2, <1>3, PTL DEF MCSpec

AgentsInv == (part = "hosting" => HostInv) /\ (part = "a2a" => CardInv)

\* Whatever part a behaviour runs, an MCP service in any group carries its caller's headers to
\* the tool's own call, is served as it was declared and mounted where it is announced
\* (hosted.rs, service.rs, serve.rs), and every A2A endpoint announced, or named by a card, is
\* served by the mux its service chose, unless two services at one place have made that mux
\* panic (endpoint.rs, card.rs, mux.rs).
THEOREM AgentsHonestHolds == MCSpec => []AgentsHonest
<1>1. MCInit => AgentsInv
  BY HostStarts, CardStarts, Assumptions DEF MCInit, AgentsInv
<1>2. AgentsInv /\ [MCNext]_mcVars => AgentsInv'
  <2> SUFFICES ASSUME AgentsInv, [MCNext]_mcVars PROVE AgentsInv'
    OBVIOUS
  <2>1. part' = part
    BY DEF MCNext, Still, mcVars
  <2>2. ASSUME part = "hosting" PROVE HostInv'
    <3>1. HostInv
      BY <2>2 DEF AgentsInv
    <3>2. [Ho!Next]_(Ho!hvars)
      BY <2>2 DEF MCNext, Still, mcVars, hoVars, Ho!hvars
    <3> QED
      BY <3>1, <3>2, HostStays, Assumptions
  <2>3. ASSUME part = "a2a" PROVE CardInv'
    <3>1. CardInv
      BY <2>3 DEF AgentsInv
    <3>2. [Aa!Next]_(Aa!vars)
      BY <2>3 DEF MCNext, Still, mcVars, aaVars, Aa!vars
    <3> QED
      BY <3>1, <3>2, CardStays, Assumptions
  <2> QED
    BY <2>1, <2>2, <2>3 DEF AgentsInv
<1>3. AgentsInv => AgentsHonest
  BY HostShows, CardShows, Assumptions DEF AgentsInv, AgentsHonest
<1> QED
  BY <1>1, <1>2, <1>3, PTL DEF MCSpec
==============================================================================
