------------------------------ MODULE Network -------------------------------
(***************************************************************************)
(* The HTTP and GraphQL clients of network/src: connect, close, reconnect, *)
(* a request with its retries, and a GraphQL subscription with its task,   *)
(* its bounded channel and the handle that stops it.                       *)
(*                                                                         *)
(* The server is the environment: an attempt may be executed and still     *)
(* time out, and a subscription's server sends what it likes.              *)
(***************************************************************************)
EXTENDS Integers, Sequences

CONSTANTS MaxRetries, Capacity, MaxMessages, None

\* What the channel carries: updates of the server, numbered in the order they
\* were sent, and the notice that the stream stopped.
Updates == {"next", "error", "garbage"} \X (0..MaxMessages)
Stopped == <<"stopped">>

NetworkAssumption ==
  /\ MaxRetries \in Nat /\ MaxMessages \in Nat
  /\ None \notin Updates \cup {Stopped}

VARIABLES
  client,   \* the client: kind, whether its pool is set, the options it holds
  req,      \* the request in progress, and what its caller was told
  ran,      \* the executions of the request at the server, with their answers
  cancel,   \* the caller cancelled
  wire, ch, got, \* messages of the server, in the channel, taken by the consumer
  task,     \* the subscription's task
  handle,   \* the Subscription handle
  sent      \* every update the server sent, in order

nvars == <<client, req, ran, cancel, wire, ch, got, task, handle, sent>>
reqVars == <<req, ran, cancel>>
subVars == <<wire, ch, got, task, handle, sent>>

Idle == [pc |-> "idle", attempt |-> 0, told |-> None]
Quiet == [pc |-> "none", item |-> None]

Init ==
  /\ client \in [kind : {"http", "graphql"}, set : {FALSE}, opts : {None}]
  /\ req = Idle /\ ran = <<>> /\ cancel = FALSE
  /\ wire = <<>> /\ ch = <<>> /\ got = <<>> /\ sent = <<>>
  /\ task = Quiet /\ handle = "none"

-----------------------------------------------------------------------------
(* connect, close, reconnect: no request runs on the &mut client *)

Free == req.pc \in {"idle", "done"}

\* connect sets the pool and the options first and checks the server last: a
\* client whose check failed is usable, on the new options.
Connect ==
  /\ Free
  /\ client' = [client EXCEPT !.set = TRUE, !.opts = "given"]
  /\ UNCHANGED <<reqVars, subVars>>

\* An invalid URL or scheme is refused before anything is set.
ConnectRefused == Free /\ UNCHANGED nvars

Close == Free /\ client' = [client EXCEPT !.set = FALSE] /\ UNCHANGED <<reqVars, subVars>>

\* GraphQL refuses to reconnect a closed client, HTTP does not.
Reconnect ==
  /\ Free /\ client.opts # None /\ (client.kind = "graphql" => client.set)
  /\ client' = [client EXCEPT !.set = TRUE]
  /\ UNCHANGED <<reqVars, subVars>>

-----------------------------------------------------------------------------
(* exec_with_retries; exec_raw is one attempt *)

\* A request and a subscription share nothing but the client, which neither
\* changes: they are explored one without the other (here and in Subscribe).
Request ==
  /\ req.pc \in {"idle", "done"} /\ handle = "none"
  /\ req' = [pc |-> "attempt", attempt |-> 0, told |-> None]
  /\ ran' = <<>> /\ cancel' = FALSE
  /\ UNCHANGED <<client, subVars>>

Retries == IF client.kind = "http" THEN MaxRetries ELSE 0

\* Mutant: the attempt that was to be the last is followed by one more.
OneMore(out) ==
  /\ req' = IF out = "ok" \/ req.attempt > Retries
            THEN [req EXCEPT !.pc = "done", !.told = out]
            ELSE [req EXCEPT !.pc = "waiting", !.attempt = @ + 1]
\* Every failure is retried alike, a 4xx as well; the last one is reported.
AttemptEnds(out) ==
  /\ req' = IF out = "ok" \/ req.attempt = Retries
            THEN [req EXCEPT !.pc = "done", !.told = out]
            ELSE [req EXCEPT !.pc = "waiting", !.attempt = @ + 1]

\* Every status outside 2xx is an error.
validate_status_code(a) == IF a.status \in 200..299 THEN "ok" ELSE "failed"

\* exec_raw looks at the status only if the payload has no list of errors at
\* all: an empty list makes an answer with status 503 a success.
payload_result(a) ==
  CASE a.errors = "some" -> "failed"
    [] a.errors = "none" /\ a.status \notin 200..299 -> "failed"
    [] OTHER -> "ok"

Answers == IF client.kind = "http" THEN [status : {200, 404, 503}, errors : {"none"}]
                                   ELSE [status : {200, 503}, errors : {"none", "empty", "some"}]
Outcome(a) == IF client.kind = "http" THEN validate_status_code(a) ELSE payload_result(a)

\* send_once: without a pool nothing is sent.  Otherwise the server runs it and
\* answers, or runs it and is too late, or never sees it.
Attempt ==
  /\ req.pc = "attempt"
  /\ IF ~client.set THEN AttemptEnds("not_connected") /\ ran' = ran
     ELSE \E a \in Answers :
            \/ AttemptEnds(Outcome(a)) /\ ran' = Append(ran, a)
            \/ AttemptEnds("timeout") /\ ran' \in {ran, Append(ran, a)}
  /\ UNCHANGED <<client, cancel, subVars>>

\* The retry delay.
Retry ==
  /\ req.pc = "waiting" /\ ~cancel
  /\ req' = [req EXCEPT !.pc = "attempt"]
  /\ UNCHANGED <<client, ran, cancel, subVars>>

Cancel ==
  /\ req.pc \in {"attempt", "waiting"} /\ ~cancel
  /\ cancel' = TRUE /\ UNCHANGED <<client, req, ran, subVars>>

\* select!: the token wins over the sleep and may win over an attempt that the
\* server is executing.
Cancelled ==
  /\ req.pc \in {"attempt", "waiting"} /\ cancel
  /\ req' = [req EXCEPT !.pc = "done", !.told = "cancelled"]
  /\ ran' \in IF req.pc = "attempt" /\ client.set THEN {ran} \union {Append(ran, a) : a \in Answers} ELSE {ran}
  /\ UNCHANGED <<client, cancel, subVars>>

-----------------------------------------------------------------------------
(* subscribe_fields and run_subscription *)

\* The handshake: dial, connection_init, the ack within the timeout, subscribe.
\* It needs the options of a connect, not the pool: a closed client subscribes.
Subscribe ==
  /\ client.kind = "graphql" /\ handle = "none" /\ client.opts # None /\ req = Idle
  /\ handle' = "held" /\ task' = [pc |-> "run", item |-> None]
  /\ wire' = <<>> /\ ch' = <<>> /\ got' = <<>> /\ sent' = <<>>
  /\ UNCHANGED <<client, reqVars>>

\* A subscription that does not start leaves nothing behind.
SubscribeFails == client.kind = "graphql" /\ handle = "none" /\ UNCHANGED nvars

ServerSends ==
  /\ task.pc # "none" /\ Len(sent) < MaxMessages /\ Len(wire) < MaxMessages
  /\ \E m \in {"next", "error", "garbage", "ping", "complete", "close"} :
       /\ wire' = Append(wire, IF m \in {"next", "error", "garbage"} THEN <<m, Len(sent)>> ELSE <<m>>)
       /\ sent' = IF m \in {"next", "error", "garbage"} THEN Append(sent, <<m, Len(sent)>>) ELSE sent
  /\ UNCHANGED <<client, reqVars, ch, got, task, handle>>

\* One message: updates, errors and what does not decode go to the channel,
\* pings are answered, complete ends the task, a close is reported first.
TaskTakes ==
  /\ task.pc = "run" /\ wire # <<>>
  /\ LET m == Head(wire)
     IN task' = CASE m[1] \in {"next", "error", "garbage"} -> [pc |-> "sending", item |-> m]
                  [] m[1] = "close" -> [pc |-> "closing", item |-> Stopped]
                  [] m[1] = "complete" -> [pc |-> "over", item |-> None]
                  [] OTHER -> task
  /\ wire' = Tail(wire)
  /\ UNCHANGED <<client, reqVars, ch, got, handle, sent>>

\* Mutant: try_send, which drops the update when the channel is full.
TrySend ==
  /\ task.pc \in {"sending", "closing"}
  /\ ch' = IF Len(ch) < Capacity THEN Append(ch, task.item) ELSE ch
  /\ task' = [pc |-> IF task.pc = "closing" THEN "over" ELSE "run", item |-> None]
  /\ UNCHANGED <<client, reqVars, wire, got, handle, sent>>
\* tx.send: waits for room; nobody polls the token meanwhile.
Deliver ==
  /\ task.pc \in {"sending", "closing"}
  /\ \/ /\ handle # "dropped" /\ Len(ch) < Capacity
        /\ ch' = Append(ch, task.item)
        /\ task' = [pc |-> IF task.pc = "closing" THEN "over" ELSE "run", item |-> None]
     \/ handle = "dropped" /\ ch' = ch /\ task' = [pc |-> "over", item |-> None]
  /\ UNCHANGED <<client, reqVars, wire, got, handle, sent>>

TaskCancelled ==
  /\ task.pc = "run" /\ handle = "stopping"
  /\ task' = [pc |-> "over", item |-> None]
  /\ UNCHANGED <<client, reqVars, wire, ch, got, handle, sent>>

Consume ==
  /\ handle = "held" /\ ch # <<>>
  /\ got' = Append(got, Head(ch)) /\ ch' = Tail(ch)
  /\ UNCHANGED <<client, reqVars, wire, task, handle, sent>>

\* stop takes the handle, its receiver included: nobody reads any more.
Stop ==
  /\ handle = "held" /\ handle' = "stopping"
  /\ UNCHANGED <<client, reqVars, wire, ch, got, task, sent>>

StopReturns ==
  /\ handle = "stopping" /\ task.pc = "over"
  /\ handle' = "stopped"
  /\ UNCHANGED <<client, reqVars, wire, ch, got, task, sent>>

\* Dropping the handle closes the channel; the task ends with its next send.
DropHandle ==
  /\ handle = "held" /\ handle' = "dropped"
  /\ UNCHANGED <<client, reqVars, wire, ch, got, task, sent>>

TaskSteps == TaskTakes \/ Deliver \/ TaskCancelled
RequestSteps == Attempt \/ Retry \/ Cancelled
Next ==
  \/ Connect \/ ConnectRefused \/ Close \/ Reconnect \/ Request \/ Cancel \/ RequestSteps
  \/ Subscribe \/ SubscribeFails \/ ServerSends \/ TaskSteps \/ Consume \/ Stop \/ StopReturns \/ DropHandle

Spec == Init /\ [][Next]_nvars /\ WF_nvars(TaskSteps) /\ WF_nvars(StopReturns) /\ WF_nvars(RequestSteps)

-----------------------------------------------------------------------------
(* Properties *)

\* A request is executed at most once per attempt allowed; `ok` means the server
\* said so to the last attempt (or sent an empty list of GraphQL errors); and a
\* client without a pool sent nothing.
RequestHonest ==
  /\ Len(ran) <= Retries + 1
  /\ req.pc = "done" /\ req.told = "ok" =>
       /\ ran # <<>>
       /\ LET last == ran[Len(ran)]
          IN last.errors # "some" /\ (last.status = 200 \/ last.errors = "empty")
  /\ req.pc = "done" /\ req.told = "not_connected" => Len(ran) = 0

\* No update is lost, doubled or reordered on its way to the consumer, however
\* slow it is: what it took, what waits and what the task holds are the
\* server's updates from the first on, and a notice that the stream stopped
\* comes after them.
UpdatesInOrder ==
  handle \in {"held", "stopping", "stopped"} =>
    LET flow == got \o ch \o (IF task.item = None THEN <<>> ELSE <<task.item>>)
    IN \E n \in 0..Len(sent) :
         flow \in {SubSeq(sent, 1, n), Append(SubSeq(sent, 1, n), Stopped)}

\* stop "ends the subscription and releases the underlying WebSocket
\* connection": every stop returns.
SubscriptionStops == handle = "stopping" ~> handle = "stopped"
=============================================================================
