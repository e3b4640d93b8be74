------------------------------- MODULE Calls --------------------------------
(***************************************************************************)
(* One gRPC call through the server's layers (grpc/src/server.rs): the     *)
(* telemetry of otel.rs outside, the metadata chain of loopback.rs, the    *)
(* stream chain of stream_intercept.rs, the message chain of intercept.rs  *)
(* and the service.                                                        *)
(*                                                                         *)
(* A unary call's chain runs inside the caller's future and dies with it.  *)
(* A stream's chain is a task of its own: the response leaves through a    *)
(* slot while the chain is still awaiting the end of the body, and the     *)
(* body's trailers wait for the chain's verdict.  The caller may go away,  *)
(* an interceptor may give up on what it awaits, or panic, at any time.    *)
(***************************************************************************)
EXTENDS Integers, Sequences, FiniteSets

CONSTANTS MaxChain, MaxData, None

VARIABLES
  in,        \* the request: method kind, payload, chain, whether it is a loopback
  ph, at,    \* where the chain stands: phase and position
  out,       \* the outcome travelling back up the chain
  slot,      \* the ReplySlot still holds the sender
  armed,     \* observers with a Pending guard
  resp,      \* the response given to the caller's future
  held,      \* the body's trailers, waiting for the verdict
  client,    \* the caller
  otel,      \* codes the telemetry finished the call with
  obs        \* the observers' counters, and how many were entered

cvars == <<in, ph, at, out, slot, armed, resp, held, client, otel, obs>>

Errors == {"Denied", "Unavailable"}

\* Observer::is_server_error.
is_server_error(code) == code \in {"Internal", "Unknown", "Unavailable", "Deadline"}

\* message_chain puts validation first or last; the stream chain has none.
Chains ==
  LET user == UNION {[1..n -> {"observer", "user"}] : n \in 0..MaxChain}
  IN user \cup {<<"validation">> \o s : s \in user} \cup {Append(s, "validation") : s \in user}

\* lookup: a method is unary, streaming, or has no descriptor at all.
Inputs ==
  {r \in [method : {"unary", "stream", "none"}, msg : {"ok", "invalid", "compressed", "unframed"},
          chain : Chains, via : {"wire", "loopback", "stopped"}] :
     r.method # "unary" => "validation" \notin {r.chain[i] : i \in DOMAIN r.chain} /\ r.msg = "ok"}

\* What the service may answer: only a head with a status, or a body that ends
\* in trailers, without trailers ("-"), or in an error.
Responses ==
  [head : Errors, data : {0}, end : {"-"}, error : {FALSE}]
    \cup [head : {"-"}, data : 0..MaxData, end : Errors \cup {"OK", "-"}, error : {FALSE}]
    \cup [head : {"-"}, data : 0..MaxData, end : Errors, error : {TRUE}]

\* Status::into_http.
IntoHttp(code) == [head |-> code, data |-> 0, end |-> "-", error |-> FALSE]

\* render: one message, and trailers that hold a status.
Render == [head |-> "-", data |-> 1, end |-> "OK", error |-> FALSE]

\* What a call may be told, and what the constants are meant to be.
Codes == {"OK", "Denied", "Unavailable", "Invalid", "Internal", "Cancelled", "Deadline"}
Reply == [head : Codes \cup {"-"}, data : Nat, end : Codes \cup {"-"}, error : BOOLEAN]
CallsAssumption == MaxChain \in Nat /\ MaxData \in Nat /\ None \notin Reply \cup Codes \cup {"-"}

Stream == in.method # "unary"
Over == client.st \in {"over", "gone"}

\* An empty chain is no layer at all; the other layer never sees the method.
Init ==
  /\ in \in Inputs
  /\ ph = "headers" /\ at = 1 /\ out = "OK" /\ slot = FALSE /\ armed = {}
  /\ resp = None /\ held = None
  /\ client = [st |-> "waiting", saw |-> "-"]
  /\ otel = <<>> /\ obs = [requests |-> 0, errors |-> 0, entered |-> 0]

-----------------------------------------------------------------------------
(* Accounts *)

\* Call::finish: the first code counts, Drop's Cancelled only if there is none.
Finish(code) == otel' = IF otel = <<>> THEN <<code>> ELSE otel

\* Observer::record for one observer, and for every Pending that is dropped.
Record(code) == obs' = [obs EXCEPT !.requests = @ + 1, !.errors = IF is_server_error(code) THEN @ + 1 ELSE @]
\* Mutant: Pending has no Drop.
ForgetPending(s) == obs' = obs /\ armed' = armed \ s
DropPending(s) == obs' = [obs EXCEPT !.requests = @ + Cardinality(armed \cap s)] /\ armed' = armed \ s

-----------------------------------------------------------------------------
(* Down the chain *)

\* Loopback::deferred without a server: nothing below it runs, nothing counts.
Stopped ==
  /\ ph = "headers" /\ in.via = "stopped"
  /\ ph' = "done" /\ client' = [st |-> "over", saw |-> "Unavailable"]
  /\ UNCHANGED <<in, at, out, slot, armed, resp, held, otel, obs>>

\* Chained::call: the metadata interceptors let the call through, or answer.
Headers ==
  /\ ph = "headers" /\ in.via # "stopped"
  /\ \/ /\ ph' = IF in.chain = <<>> \/ in.msg = "unframed" THEN "bare" ELSE "down"
        /\ slot' = Stream /\ resp' = resp
     \/ ph' = "done" /\ resp' = IntoHttp("Denied") /\ slot' = slot
  /\ UNCHANGED <<in, at, out, armed, held, client, otel, obs>>

\* No chain for this method, or a request that is not one message: the inner
\* service gets it as it is, and its response is the call's.
Bare ==
  /\ ph = "bare" /\ client.st # "gone"
  /\ \E r \in Responses : resp' = r
  /\ ph' = "done"
  /\ UNCHANGED <<in, at, out, slot, armed, held, client, otel, obs>>

\* ProtoValidator::validate: a message it cannot decode is not let through.
Verdict == CASE in.msg = "ok" -> "OK" [] in.msg = "invalid" -> "Invalid" [] OTHER -> "Internal"

\* Next::run / StreamNext::run: the next interceptor, or the terminal.
Enter ==
  /\ ph = "down"
  /\ IF at > Len(in.chain)
     THEN ph' = "service" /\ UNCHANGED <<at, out, armed, obs>>
     ELSE \/ in.chain[at] = "observer"
             /\ armed' = armed \cup {at} /\ obs' = [obs EXCEPT !.entered = @ + 1]
             /\ at' = at + 1 /\ UNCHANGED <<ph, out>>
          \/ in.chain[at] = "validation" /\ UNCHANGED <<armed, obs>>
             /\ IF Verdict = "OK" THEN at' = at + 1 /\ UNCHANGED <<ph, out>>
                ELSE ph' = "up" /\ out' = Verdict /\ at' = at - 1
          \/ in.chain[at] = "user" /\ UNCHANGED <<armed, obs>>
             /\ \/ at' = at + 1 /\ UNCHANGED <<ph, out>>
                \/ ph' = "up" /\ out' \in {"OK", "Denied"} /\ at' = at - 1
  /\ UNCHANGED <<in, slot, resp, held, client, otel>>

\* intercept's forward: the whole reply is collected, and must be one message.
Forwarded(r) ==
  IF r.head # "-" THEN r.head
  ELSE IF r.end \in Errors THEN r.end
  ELSE IF r.data = 1 THEN "OK" ELSE "Internal"

ForwardUnary ==
  /\ ph = "service" /\ ~Stream
  /\ \E r \in Responses : out' = Forwarded(r)
  /\ ph' = "up" /\ at' = Len(in.chain)
  /\ UNCHANGED <<in, slot, armed, resp, held, client, otel, obs>>

\* stream_intercept's forward: select! between the service and caller_gone.  A
\* head with an error is the outcome; otherwise the watched response takes the
\* slot, and the chain awaits the body's end unless nobody took it.
ForwardStream ==
  /\ ph = "service" /\ Stream
  /\ \/ /\ client.st = "gone"
        /\ out' = "Cancelled" /\ ph' = "up" /\ at' = Len(in.chain) /\ slot' \in {slot, FALSE}
        /\ UNCHANGED resp
     \/ /\ client.st # "gone"
        /\ \E r \in Responses :
             IF r.head # "-"
             THEN out' = r.head /\ ph' = "up" /\ at' = Len(in.chain) /\ UNCHANGED <<slot, resp>>
             ELSE ph' = "streaming" /\ slot' = FALSE /\ resp' = r /\ UNCHANGED <<out, at>>
  /\ UNCHANGED <<in, armed, held, client, otel, obs>>

-----------------------------------------------------------------------------
(* Up the chain *)

Leave ==
  /\ ph = "up" /\ at > 0
  /\ \/ in.chain[at] = "observer" /\ Record(out) /\ armed' = armed \ {at} /\ out' = out
     \/ in.chain[at] = "validation" /\ UNCHANGED <<armed, obs, out>>
     \/ in.chain[at] = "user" /\ out' \in {out, "OK", "Denied"} /\ UNCHANGED <<armed, obs>>
  /\ at' = at - 1
  /\ UNCHANGED <<in, ph, slot, resp, held, client, otel>>

\* A user interceptor stops awaiting next: what is below it is dropped.
GiveUp ==
  /\ ph \in {"service", "streaming"}
  /\ \E i \in DOMAIN in.chain :
       /\ in.chain[i] = "user"
       /\ at' = i - 1 /\ DropPending((i + 1)..Len(in.chain))
  /\ ph' = "up" /\ out' = "Deadline"
  /\ UNCHANGED <<in, slot, resp, held, client, otel>>

\* The chain returns.  A unary outcome becomes the response; a stream's goes
\* into the slot if nothing answered yet, and is the verdict otherwise.
Answer ==
  /\ ph = "up" /\ at = 0
  /\ ph' = "done" /\ slot' = FALSE
  /\ resp' = IF Stream THEN IF slot THEN IntoHttp(out) ELSE resp
             ELSE IF out = "OK" THEN Render ELSE IntoHttp(out)
  /\ UNCHANGED <<in, at, out, armed, held, client, otel, obs>>

\* A user's interceptor runs.
UserTurn ==
  \/ ph = "down" /\ at <= Len(in.chain) /\ (at <= Len(in.chain) => in.chain[at] = "user")
  \/ ph = "up" /\ at > 0 /\ (at > 0 => in.chain[at] = "user")

\* A user interceptor panics.  A unary caller loses the response; a stream's
\* loses the task: the slot's sender or the verdict's is dropped.
Panic ==
  /\ UserTurn
  /\ DropPending(armed)
  /\ ph' = "dead" /\ slot' = FALSE
  /\ IF Stream
     THEN resp' = (IF slot THEN IntoHttp("Internal") ELSE resp) /\ UNCHANGED <<client, otel>>
     ELSE client' = [client EXCEPT !.st = "gone"] /\ Finish("Cancelled") /\ resp' = resp
  /\ UNCHANGED <<in, at, out, held>>

-----------------------------------------------------------------------------
(* The caller and the body *)

\* Otel::call: a status in the head finishes the call; a body is measured.
TakeHead ==
  /\ client.st = "waiting" /\ resp # None
  /\ IF resp.head # "-"
     THEN client' = [st |-> "over", saw |-> resp.head] /\ Finish(resp.head)
     ELSE client' = [client EXCEPT !.st = "reading"] /\ otel' = otel
  /\ UNCHANGED <<in, ph, at, out, slot, armed, resp, held, obs>>

TakeData ==
  /\ client.st = "reading" /\ held = None /\ resp.data > 0
  /\ resp' = [resp EXCEPT !.data = @ - 1]
  /\ UNCHANGED <<in, ph, at, out, slot, armed, held, client, otel, obs>>

\* What the body's end tells the chain: trailer_outcome, or the error.
Signal(code) ==
  IF ph = "streaming"
  THEN ph' = "up" /\ at' = Len(in.chain) /\ out' = (IF code = "-" THEN "OK" ELSE code)
  ELSE UNCHANGED <<ph, at, out>>

\* Mutant: the end of the body is not signalled before the verdict is awaited.
EndSilently == client.st = "reading" /\ held = None /\ resp.data = 0 /\ held' = resp.end
               /\ UNCHANGED <<in, ph, at, out, slot, armed, resp, client, otel, obs>>
\* Watched::poll_frame at the end of the inner body: an error ends it at once,
\* trailers (or none) are held.
EndBody ==
  /\ client.st = "reading" /\ held = None /\ resp.data = 0
  /\ Signal(resp.end)
  /\ IF resp.error
     THEN /\ client' = [st |-> "over", saw |-> resp.end] /\ Finish(resp.end)
          /\ held' = held
     ELSE held' = resp.end /\ UNCHANGED <<client, otel>>
  /\ UNCHANGED <<in, slot, armed, resp, obs>>

\* Mutant: the service's trailers are sent whatever the chain says.
KeepTrailers(trailers, verdict) == trailers
\* settle: the service's trailers stand unless the chain's verdict differs.
settle(trailers, verdict) ==
  LET service == IF trailers = "-" THEN "OK" ELSE trailers
  IN IF service = verdict THEN trailers ELSE verdict

\* The held trailers leave once the verdict is there, or can no longer come;
\* a body outside any stream chain waits for nobody.  No status is Unknown.
TakeTrailers ==
  /\ client.st = "reading" /\ held # None
  /\ ph \in {"done", "dead"}
  /\ LET last == IF Stream /\ ph = "done" /\ in.chain # <<>> THEN settle(held, out) ELSE held
         code == IF last = "-" THEN "Unknown" ELSE last
     IN client' = [st |-> "over", saw |-> code] /\ Finish(code)
  /\ UNCHANGED <<in, ph, at, out, slot, armed, resp, held, obs>>

\* The caller goes away: MeasuredResponse or the future is dropped (Cancelled),
\* a unary chain with it; a stream's chain learns it from Watched or the token.
Gone ==
  /\ client.st \in {"waiting", "reading"}
  /\ ph = "headers" => in.via # "stopped"
  /\ client' = [client EXCEPT !.st = "gone"] /\ Finish("Cancelled")
  /\ IF Stream
     THEN IF ph \in {"headers", "bare"} THEN ph' = "dead" /\ UNCHANGED <<at, out, armed, obs>>
          ELSE Signal("Cancelled") /\ UNCHANGED <<armed, obs>>
     ELSE /\ DropPending(armed)
          /\ ph' = IF ph = "done" THEN ph ELSE "dead"
          /\ UNCHANGED <<at, out>>
  /\ UNCHANGED <<in, slot, resp, held>>

Running == Stopped \/ Headers \/ Bare \/ Enter \/ ForwardUnary \/ ForwardStream \/ Leave \/ Answer
Reading == TakeHead \/ TakeData \/ EndBody \/ TakeTrailers
Next == Running \/ Reading \/ GiveUp \/ Panic \/ Gone

\* Whose turn it is: the service's, the caller's or a user's interceptor's, none of
\* which need ever act, or the layers' own.
HandlerTurn == ph = "bare" \/ (ph = "service" /\ ~(Stream /\ client.st = "gone"))
CallerTurn ==
  \/ client.st = "waiting" /\ resp # None
  \/ client.st = "reading" /\ (held = None \/ ph \in {"done", "dead"})
Awaiting == UserTurn \/ HandlerTurn \/ CallerTurn
Layers == ~UserTurn /\ ~HandlerTurn /\ Running
Spec == Init /\ [][Next]_cvars /\ WF_cvars(Layers)

-----------------------------------------------------------------------------
(* Properties *)

\* Every call is accounted exactly once, whatever ended it (a reply, trailers,
\* a body error, a caller that left, a panic, an interceptor that gave up): the
\* telemetry holds the code the caller saw, or Cancelled, and every observer
\* that was entered counted one request once the chain is over.
CallAccounted ==
  /\ client.st = "over" /\ in.via # "stopped" => otel = <<client.saw>>
  /\ client.st = "gone" => otel = <<"Cancelled">>
  /\ ph \in {"done", "dead"} => armed = {} /\ obs.requests = obs.entered

\* The chain has the last word: a caller that read a call to its end sees the
\* chain's outcome, even though the service's response left before the chain
\* returned; only an error inside the body goes out without it.
VerdictShown ==
  client.st = "over" /\ ph = "done" /\ in.chain # <<>> /\ in.msg # "unframed" /\ at = 0
    => \/ client.saw = out
       \/ out = "OK" /\ held = "-" /\ client.saw = "Unknown"
       \/ resp # None /\ (resp # None => resp.error)

\* Every call is accounted once and shows its verdict.
CallsHonest == CallAccounted /\ VerdictShown

\* No call hangs: the body's trailers wait for the chain and the chain for the
\* body's end, yet every caller ends and every chain does; unless it is for ever
\* the turn of an interceptor, a service or a caller that does not act.
CallEnds == <>[]Awaiting \/ <>(Over /\ ph \in {"done", "dead"})
=============================================================================
