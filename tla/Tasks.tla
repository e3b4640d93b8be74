------------------------------- MODULE Tasks --------------------------------
(***************************************************************************)
(* An A2A service at work: how it is declared (agents/src/a2a/service.rs,  *)
(* config.rs, transport.rs), the request handler built for it (handler.rs),*)
(* its executors (executor.rs) and what they make of an error (error.rs).  *)
(* Where requests are routed is in A2a.                                    *)
(*                                                                         *)
(* The SDK between the handler and the stores is not in the repository: it *)
(* runs the executor, stores the states its events report, and takes no    *)
(* event for a task that has ended.                                        *)
(***************************************************************************)
EXTENDS Integers, Sequences, FiniteSets

CONSTANTS
  TaskIds, Requests, None,
  Codes,     \* gRPC status codes, as TextAgent may return them
  Scripts,   \* the states an ExecutorFunc's stream of events may report
  MaxSets,   \* bound: builder calls
  MaxBuilds  \* bound: servers built, one after another, from the same service

VARIABLES
  decl,      \* Service: what the builder calls left
  handler,   \* the Handler of the running server, or None
  builds,
  store,     \* store[k][t]: the task as store k keeps it, or None
  exec,      \* exec[t]: the events its execution will still yield, or None
  said,      \* said[t]: the code an execution failed with, and its event
  ended,     \* ended[t]: times the task entered a final state
  req        \* req[r]: the request, or None

taskVars == <<decl, handler, builds, store, exec, said, ended, req>>

Final == {"completed", "canceled", "failed", "rejected"}
States == Final \cup {"submitted", "working", "input"}

TasksAssumption == MaxBuilds \in Nat /\ Scripts \subseteq Seq(States) /\ None \notin States

Options == {"taskStore", "pushStore", "card"}

-----------------------------------------------------------------------------
(* Declaring a service *)

with_inner(kind) == [kind |-> kind, taskStore |-> FALSE, pushStore |-> FALSE, card |-> FALSE, layers |-> <<>>]

Declares(d) ==
  /\ handler = None /\ builds = 0
  /\ Len(decl.layers) + Cardinality({f \in Options : decl[f]}) < MaxSets
  /\ decl' = d /\ decl' # decl
  /\ UNCHANGED <<handler, builds, store, exec, said, ended, req>>
\* The builder's setters, of which these are the ones a request can tell.
Set(f) == Declares([decl EXCEPT ![f] = TRUE])
AddLayer == Declares([decl EXCEPT !.layers = Append(@, Len(@) + 1)])

config_for(d) == d
build_card(cfg) == IF cfg.card THEN "own" ELSE "built"

\* Each layer goes around what is there, in the order they were added.
Around(layers, inner) ==
  LET around[n \in 0..Len(layers)] == IF n = 0 THEN inner ELSE <<<<"layer", layers[n]>>>> \o around[n - 1]
  IN around[Len(layers)]
\* Mutant: the extended card is attached outside the layers.
CardOutside(cfg) == Around(cfg.layers, <<<<"sdk", 0>>>>)
\* Innermost first: the SDK, the extended card, then the layers.
Wrapped(cfg) == Around(cfg.layers, <<<<"card", 0>>, <<"sdk", 0>>>>)

\* Mutant: every server keeps its tasks in memory.
FreshStore(cfg) == builds + 1
\* The store the options name, or one that lives as long as the server.
StoreOf(cfg) == IF cfg.taskStore THEN 0 ELSE builds + 1

new_request_handler ==
  LET cfg == config_for(decl) IN
  /\ handler = None /\ builds < MaxBuilds
  /\ builds' = builds + 1
  /\ handler' = [stack |-> Wrapped(cfg), store |-> StoreOf(cfg), push |-> cfg.pushStore,
                 card |-> build_card(cfg)]
  /\ UNCHANGED <<decl, store, exec, said, ended, req>>

\* The process ends: requests and executions with it, and stores in memory.
Shutdown ==
  /\ handler # None /\ handler' = None
  /\ exec' = [t \in TaskIds |-> None]
  /\ req' = [r \in Requests |-> None]
  /\ UNCHANGED <<decl, builds, store, said, ended>>

-----------------------------------------------------------------------------
(* Errors *)

state_for_code(c) ==
  CASE c = "Cancelled" -> "canceled"
    [] c \in {"Unauthenticated", "PermissionDenied"} -> "rejected"
    [] OTHER -> "failed"
\* Mutant: the text is the status's message.
MessageOnly(c) == <<"message">>
\* The text leads with the code's name, except for Unknown.
error_text(c) == IF c = "Unknown" THEN <<"message">> ELSE <<c, "message">>
handle_error(c) ==
  IF c = None THEN [state |-> "completed", text |-> <<>>]
  ELSE [state |-> IF c = "Unknown" THEN "failed" ELSE state_for_code(c), text |-> error_text(c)]

-----------------------------------------------------------------------------
(* Requests *)

Kept == store[handler.store]
Over(t) == Kept[t] \in Final

\* What a request passes on its way in; the extended card is answered on the way.
Passes(op) ==
  LET s == handler.stack
      stops == {i \in DOMAIN s : s[i][1] = "card" /\ op = "card"}
  IN IF stops = {} THEN s ELSE SubSeq(s, 1, CHOOSE i \in stops : TRUE)

Begin(r, op, t) ==
  /\ handler # None /\ req[r] = None
  /\ req' = [req EXCEPT ![r] = [op |-> op, task |-> t, pc |-> "in", seen |-> Passes(op)]]
  /\ UNCHANGED <<decl, handler, builds, store, exec, said, ended>>

At(r, op) == req[r] # None /\ req[r].op = op /\ req[r].pc # "done"
Answer(r) == req' = [req EXCEPT ![r].pc = "done"]
Leave(r) ==
  /\ req[r] # None /\ req[r].pc = "done" /\ req' = [req EXCEPT ![r] = None]
  /\ UNCHANGED <<decl, handler, builds, store, exec, said, ended>>

Put(t, s) ==
  /\ store' = [store EXCEPT ![handler.store][t] = s]
  /\ ended' = [ended EXCEPT ![t] = @ + (IF s \in Final THEN 1 ELSE 0)]

\* send_message: a TextAgent replies with a message or one event, a function's
\* stream is what it says it is.
Send(r) ==
  /\ At(r, "send")
  /\ LET t == req[r].task IN
     /\ exec[t] = None /\ Kept[t] = None
     /\ \/ /\ decl.kind = "func"
           /\ \E s \in Scripts : exec' = [exec EXCEPT ![t] = s]
           /\ UNCHANGED said
        \/ /\ decl.kind = "text"
           /\ \E c \in Codes :
                LET e == handle_error(c) IN
                /\ exec' = [exec EXCEPT ![t] = <<"working", e.state>>]
                /\ said' = [said EXCEPT ![t] = [code |-> c, event |-> e]]
     /\ Put(t, "submitted")
  /\ Answer(r)
  /\ UNCHANGED <<decl, handler, builds>>

\* A TextAgent whose work is done before there is anything to track.
Reply(r) ==
  /\ At(r, "send") /\ decl.kind = "text" /\ Kept[req[r].task] = None
  /\ Answer(r)
  /\ UNCHANGED <<decl, handler, builds, store, exec, said, ended>>

\* The SDK takes the next event of an execution; a task that has ended takes none.
Event(t) ==
  /\ handler # None /\ exec[t] # None
  /\ IF exec[t] = <<>> \/ Over(t)
     THEN exec' = [exec EXCEPT ![t] = None] /\ UNCHANGED <<store, ended>>
     ELSE Put(t, Head(exec[t])) /\ exec' = [exec EXCEPT ![t] = Tail(@)]
  /\ UNCHANGED <<decl, handler, builds, said, req>>

\* Mutant: the check and the transition are two calls of the store.
CheckThenSet(r, t) ==
  IF req[r].pc = "checked"
  THEN Put(t, "canceled") /\ Answer(r)
  ELSE /\ req' = [req EXCEPT ![r].pc = IF Over(t) \/ Kept[t] = None THEN "done" ELSE "checked"]
       /\ UNCHANGED <<store, ended>>
\* Forwarded whole: the store checks and moves the task in one step.
begin_cancel(r, t) ==
  /\ Answer(r)
  /\ IF Kept[t] = None \/ Over(t) THEN UNCHANGED <<store, ended>> ELSE Put(t, "canceled")
\* Both executors report the task canceled and interrupt nothing.
Cancel(r) ==
  /\ At(r, "cancel")
  /\ begin_cancel(r, req[r].task)
  /\ UNCHANGED <<decl, handler, builds, exec, said>>

\* get_task, list_tasks, subscribe_to_task and the push calls go through to the
\* stores; the extended card is the handler's.
Read(r) ==
  /\ \E op \in {"read", "card"} : At(r, op)
  /\ Answer(r)
  /\ UNCHANGED <<decl, handler, builds, store, exec, said, ended>>

-----------------------------------------------------------------------------
Init ==
  /\ decl \in {with_inner(k) : k \in {"text", "func"}}
  /\ handler = None /\ builds = 0
  /\ store = [k \in 0..MaxBuilds |-> [t \in TaskIds |-> None]]
  /\ exec = [t \in TaskIds |-> None] /\ said = [t \in TaskIds |-> None]
  /\ ended = [t \in TaskIds |-> 0]
  /\ req = [r \in Requests |-> None]

Next ==
  \/ \E f \in Options : Set(f)
  \/ AddLayer \/ new_request_handler \/ Shutdown
  \/ \E r \in Requests :
       \/ \E t \in TaskIds, op \in {"send", "cancel"} : Begin(r, op, t)
       \/ \E op \in {"read", "card"} : Begin(r, op, None)
       \/ Send(r) \/ Reply(r) \/ Cancel(r) \/ Read(r) \/ Leave(r)
  \/ \E t \in TaskIds : Event(t)

Spec == Init /\ [][Next]_taskVars

-----------------------------------------------------------------------------
(* Properties *)

\* Whatever cancellations and events meet, a task enters a final state once in
\* each store that keeps it: a cancel that wins is not followed by a completion,
\* nor the other way round.
OneOutcome ==
  \A t \in TaskIds : ended[t] <= Cardinality({k \in 0..MaxBuilds : store[k][t] \in Final})

\* Every request, one for the extended card too, passes every layer once, the
\* last one added first.
LayersGuard ==
  \A r \in Requests : req[r] # None =>
    LET n == Len(decl.layers) IN
    /\ n <= Len(req[r].seen)
    /\ \A i \in DOMAIN req[r].seen :
         IF i <= n THEN req[r].seen[i] = <<"layer", n + 1 - i>> ELSE req[r].seen[i][1] # "layer"
CardGuarded ==
  \A r \in Requests : req[r] # None /\ req[r].op = "card" => req[r].seen[Len(req[r].seen)][1] = "card"

\* A task of a service with a store of its own is known to the next server.
TasksKept ==
  handler # None /\ decl.taskStore => \A t \in TaskIds : ended[t] > 0 => Kept[t] # None

\* A caller can tell the codes apart by what it is sent, whatever state they share.
CodeSurvives ==
  \A t \in TaskIds : said[t] # None => {c \in Codes : handle_error(c) = said[t].event} = {said[t].code}

\* An A2A task ends once, where it was kept, and says why.
TasksHonest == OneOutcome /\ LayersGuard /\ CardGuarded /\ TasksKept /\ CodeSurvives

=============================================================================
