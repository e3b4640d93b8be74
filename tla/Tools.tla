------------------------------- MODULE Tools --------------------------------
(***************************************************************************)
(* One MCP tool call on the server's side: asking for the fields it lacks  *)
(* (agents/src/mcp/elicitation.rs), the backend's stream pumped to it      *)
(* (stream.rs), progress notifications (progress.rs), its error (error.rs) *)
(* and the health route beside it (health.rs).                             *)
(***************************************************************************)
EXTENDS Integers, Sequences, Functions

CONSTANTS
  Declared,   \* the tool's ElicitFields: name, type, required, shown, proto
  Arguments,  \* what a caller may send for each field; None and "" are missing
  Streams,    \* what the backend may stream, an error last if there is one
  Chains,     \* error chains of a call that fails outside the stream
  None,
  Capacity    \* InProcessServerStream's channel: CAPACITY

VARIABLES
  args,       \* the call's arguments
  asked,      \* the schema the client was shown, or None
  answer,     \* the client's answer, or None
  at,         \* check, pending, stream, done
  token,      \* the call has a progress token
  stream,     \* what the backend has yet to yield
  pump,       \* the pump's task: pull, send, ended
  item,       \* the item the pump sends
  chan, got,  \* the channel, and what the reader took
  reader,     \* reading, gone
  cancel,
  notes,      \* progress notifications
  result,     \* what the tool call answers
  cause,      \* the error chain it failed with, or None
  health      \* the last answer of the health route

toolVars == <<args, asked, answer, at, token, stream, pump, item, chan, got, reader, cancel,
              notes, result, cause, health>>
callVars == <<args, asked, answer, token>>
pumpVars == <<stream, pump, item, chan, got, reader, cancel>>

\* What streams and error chains hold: data and status codes.
Items == {"chunk", "error", "other"} \X Nat
Words == STRING \ {""}

\* Fields have names of their own, only an enum shows choices, and no choice is
\* one that would count as missing.
ToolsAssumption ==
  /\ \A f, g \in Declared : f.name = g.name => f = g
  /\ \A f \in Declared :
       /\ f.type = "enum" \/ f.shown = <<>>
       /\ f.shown \in Seq(Words) /\ f.proto \in Seq(Words)
  /\ None \notin Words \cup {"free"}
  /\ Streams \subseteq Seq(Items) /\ Chains \subseteq Seq(Items)

-----------------------------------------------------------------------------
(* Elicitation *)

Names == {f.name : f \in Declared}
Field(n) == CHOOSE f \in Declared : f.name = n
Missing(a, f) == a[f.name] \in {None, ""}
missing_elicit_fields(a) == {f \in Declared : Missing(a, f)}

\* A type that is no primitive cannot be asked for; a required field is one that
\* became a property.
Primitive == {"string", "enum"}
elicit_schema(fields) ==
  LET properties == {f \in fields : f.type \in Primitive} IN
  [properties |-> {f.name : f \in properties},
   required |-> {f.name : f \in {g \in properties : g.required}}]

\* Mutant: the answer is taken as it was shown.
AsShown(n, v) == v
\* A shown choice becomes the proto value at its place, if the lists match.
Mapped(n, v) ==
  LET f == Field(n)
      i == {k \in DOMAIN f.shown : f.shown[k] = v}
  IN IF Len(f.proto) = Len(f.shown) /\ i # {} THEN f.proto[CHOOSE k \in i : \A j \in i : k <= j] ELSE v
merge_elicit_result(a, content) ==
  [n \in Names |-> IF n \in DOMAIN content THEN Mapped(n, content[n]) ELSE a[n]]

\* The first round: nothing is missing, or the client is asked.
Check ==
  /\ at = "check"
  /\ LET fields == missing_elicit_fields(args) IN
     IF fields = {} THEN at' = "stream" /\ UNCHANGED asked
     ELSE at' = "pending" /\ asked' = elicit_schema(fields)
  /\ UNCHANGED <<args, answer, token, pumpVars, notes, result, cause, health>>

\* What the form allows: every required property, and a choice for an enum.
Offered(f) == IF f.type = "enum" THEN Range(f.shown) ELSE {"free"}
Replies ==
  {c \in UNION {[s -> UNION {Offered(f) : f \in Declared}] : s \in SUBSET asked.properties} :
     asked.required \subseteq DOMAIN c /\ \A n \in DOMAIN c : c[n] \in Offered(Field(n))}

\* run_elicitation again, with the client's response: accepted, refused or broken.
Accept(content) ==
  /\ at = "pending"
  /\ answer' = content /\ args' = merge_elicit_result(args, content)
  /\ at' = "stream"
  /\ UNCHANGED <<asked, token, pumpVars, notes, result, cause, health>>
Refuse ==
  /\ at = "pending" /\ at' = "done"
  /\ \E r \in {"declined", "bad response"} : result' = <<r>>
  /\ UNCHANGED <<callVars, pumpVars, notes, cause, health>>

-----------------------------------------------------------------------------
(* The pump's task and the reader of its channel *)

IsError(x) == x[1] = "error"
Others == <<args, asked, answer, token, at, notes, result, cause, health>>

\* Mutant: a failed item ends the pump before it is sent.
DropFailure ==
  /\ item' = Head(stream) /\ stream' = Tail(stream)
  /\ pump' = IF IsError(Head(stream)) THEN "ended" ELSE "send"
Pulled ==
  /\ item' = Head(stream) /\ stream' = Tail(stream) /\ pump' = "send"
Pull ==
  /\ at = "stream" /\ pump = "pull" /\ stream # <<>>
  /\ Pulled
  /\ UNCHANGED <<Others, chan, got, reader, cancel>>
SourceEnds ==
  /\ at = "stream" /\ pump = "pull" /\ stream = <<>> /\ pump' = "ended"
  /\ UNCHANGED <<Others, stream, item, chan, got, reader, cancel>>
\* Mutant: the pump waits for the source alone.
DeafPump == FALSE
SeesCancel == cancel
Cancelled ==
  /\ at = "stream" /\ pump = "pull" /\ SeesCancel /\ pump' = "ended"
  /\ UNCHANGED <<Others, stream, item, chan, got, reader, cancel>>
\* A send waits for room or for the reader to go, and does not look at cancel; a
\* failed item is the last.
Push ==
  /\ pump = "send"
  /\ IF reader = "gone" THEN pump' = "ended" /\ UNCHANGED chan
     ELSE /\ Len(chan) < Capacity
          /\ chan' = Append(chan, item)
          /\ pump' = IF IsError(item) THEN "ended" ELSE "pull"
  /\ UNCHANGED <<Others, stream, item, got, reader, cancel>>

\* A notification goes to the token of the chunk, or else to the call's.
progress_params(x) == [token |-> IF x[2] # 0 THEN x[2] ELSE "call", message |-> x]
Notify(x) == notes' = IF token THEN Append(notes, progress_params(x)) ELSE notes
Receive ==
  /\ reader = "reading" /\ chan # <<>> /\ at = "stream"
  /\ chan' = Tail(chan) /\ got' = Append(got, Head(chan))
  /\ IF IsError(Head(chan)) THEN UNCHANGED notes ELSE Notify(Head(chan))
  /\ UNCHANGED <<callVars, at, result, cause, health, stream, pump, item, reader, cancel>>

Cancel ==
  /\ at = "stream" /\ ~cancel /\ cancel' = TRUE
  /\ UNCHANGED <<Others, stream, pump, item, chan, got, reader>>
Leave ==
  /\ at = "stream" /\ reader = "reading" /\ reader' = "gone"
  /\ UNCHANGED <<Others, stream, pump, item, chan, got, cancel>>

-----------------------------------------------------------------------------
(* The answer *)

\* Only the details of kinds it knows are rendered.
handle_error(status) == <<"error", status>>
\* Mutant: only the error itself is looked at.
HeadOnly(chain) == IF IsError(Head(chain)) THEN handle_error(Head(chain)[2]) ELSE <<"text">>
\* The first status in the chain of sources, or the error's own text.
handle_any_error(chain) ==
  LET i == {k \in DOMAIN chain : IsError(chain[k])} IN
  IF i = {} THEN <<"text">> ELSE handle_error(chain[CHOOSE k \in i : \A j \in i : k <= j][2])

\* The channel is empty and has no sender left: the error, or the result with a
\* last notification.
Finish ==
  /\ at = "stream" /\ reader = "reading" /\ pump = "ended" /\ chan = <<>>
  /\ at' = "done"
  /\ IF got # <<>> /\ IsError(got[Len(got)])
     THEN result' = handle_error(got[Len(got)][2]) /\ UNCHANGED notes
     ELSE result' = <<"ok", Len(got)>> /\ Notify(<<"done", 0>>)
  /\ UNCHANGED <<callVars, pumpVars, cause, health>>
\* The call fails before it streams.
Fail(chain) ==
  /\ at = "stream" /\ pump = "pull" /\ got = <<>> /\ chan = <<>>
  /\ at' = "done" /\ cause' = chain /\ result' = handle_any_error(chain)
  /\ UNCHANGED <<callVars, pumpVars, notes, health>>

\* A check that does not answer in time is one that failed.
respond(state) == IF state = "serving" THEN 200 ELSE 503
health_check_handler(method, state) ==
  /\ health = None
  /\ health' = <<state, IF method \notin {"GET", "HEAD"} THEN 405 ELSE respond(state)>>
  /\ UNCHANGED <<callVars, at, pumpVars, notes, result, cause>>

-----------------------------------------------------------------------------
Init ==
  /\ args \in Arguments /\ asked = None /\ answer = None /\ at = "check"
  /\ token \in BOOLEAN
  /\ stream \in Streams /\ pump = "pull" /\ item = <<"none", 0>>
  /\ chan = <<>> /\ got = <<>> /\ reader = "reading" /\ cancel = FALSE
  /\ notes = <<>> /\ result = <<>> /\ cause = None /\ health = None

Next ==
  \/ Check \/ Refuse \/ (at = "pending" /\ \E c \in Replies : Accept(c))
  \/ Pull \/ SourceEnds \/ Cancelled \/ Push \/ Receive \/ Cancel \/ Leave
  \/ Finish \/ (\E c \in Chains : Fail(c))
  \/ \E m \in {"GET", "POST"}, s \in {"serving", "not serving", "unavailable"} :
       health_check_handler(m, s)

\* The pump's task runs on; a backend need not, nor need a reader read or leave.
Fairness == WF_toolVars(Push) /\ WF_toolVars(Cancelled)
Spec == Init /\ [][Next]_toolVars /\ Fairness

-----------------------------------------------------------------------------
(* Properties *)

\* The backend is called with every argument it was sent, and every choice the
\* client made in the words of the proto: two fields that show the same words
\* keep their own values, and a list of choices that does not match is left alone.
MergedExact ==
  at = "stream" =>
    \A f \in Declared :
      answer # None /\ f.name \in DOMAIN answer =>
        IF f.type = "enum" /\ Len(f.shown) = Len(f.proto)
        THEN \E k \in DOMAIN f.shown : f.shown[k] = answer[f.name] /\ f.proto[k] = args[f.name]
        ELSE args[f.name] = answer[f.name]
\* No required field that could be asked for is missing when the backend is called.
NothingMissing ==
  at = "stream" => \A f \in Declared : f.required /\ f.type \in Primitive => ~Missing(args, f)

\* What the reader takes and what is on its way is what the backend streamed, in
\* order, an error last; a stream that is not cut short arrives whole.
StreamInOrder ==
  LET sent == got \o chan \o (IF pump = "send" THEN <<item>> ELSE <<>>) \o stream IN
  /\ reader = "reading" => sent \in Streams
  /\ at = "done" /\ result # <<>> /\ result[1] = "ok" /\ ~cancel => stream = <<>>
\* Progress is told only to who asked, one notification for each item, in order.
ProgressMatched ==
  LET n == IF got # <<>> /\ IsError(got[Len(got)]) THEN Len(got) - 1 ELSE Len(got)
      items == SubSeq(got, 1, n)
  IN /\ \A i \in 1..n : ~IsError(got[i])
     /\ IF ~token THEN notes = <<>>
        ELSE [i \in DOMAIN notes |-> notes[i].message] \in {items, Append(items, <<"done", 0>>)}
\* A status anywhere in a failure's chain is what the client is told.
StatusFound ==
  cause # None =>
    \/ result = <<"text">> /\ \A i \in DOMAIN cause : ~IsError(cause[i])
    \/ \E i \in DOMAIN cause :
         /\ IsError(cause[i]) /\ result = handle_error(cause[i][2])
         /\ \A j \in DOMAIN cause : j < i => ~IsError(cause[j])

\* A tool call does what its arguments, its stream and its error say.
ToolCallHonest == MergedExact /\ NothingMissing /\ StreamInOrder /\ ProgressMatched /\ StatusFound

\* A send waits for a reader that neither reads nor goes.
Full == pump = "send" /\ reader = "reading" /\ Len(chan) = Capacity
\* A cancelled call's pump ends, though the backend never yields again; or its send
\* waits for ever for a reader that stopped reading.
PumpEnds == <>[]Full \/ ((at = "stream" /\ cancel) ~> (pump = "ended" \/ at = "done"))

=============================================================================
