-------------------------------- MODULE Mcp ---------------------------------
(***************************************************************************)
(* The MCP side of the agents crate: a group of services combined into one *)
(* server (agents/src/mcp/combine.rs) and mounted (serve.rs, service.rs,   *)
(* guard.rs), the legacy SSE sessions its clients open (sse.rs), and a tool*)
(* call hosted in front of a service (hosted.rs, interceptor.rs) with the  *)
(* questions a tool puts to the user (ask.rs, elicitation.rs).             *)
(*                                                                         *)
(* A tool is the list of fields it needs; it asks for them one at a time.  *)
(***************************************************************************)
EXTENDS Integers, Sequences, Functions

CONSTANTS
  Groups,     \* the service groups to try
  Clients,    \* each opens at most one session
  Headers,    \* the Host and Origin headers requests come with
  MaxRounds,  \* MAX_ELICITATION_ROUNDS
  MaxCalls,   \* bound: calls of one session
  None

VARIABLES
  group,      \* the group served
  build,      \* "combining", "serving" or "failed"
  found,      \* inventories so far
  routing,    \* routing[kind][name]: the member behind a name
  cancelled,  \* the runtime's token
  sessions,   \* clients whose inbox is in the shared map
  session,    \* session[c]: the service loop and the event stream of c
  post,       \* post[c]: the POST in progress
  call,       \* call[c]: the tool call the loop of c is serving
  calls

vars == <<group, build, found, routing, cancelled, sessions, session, post, call, calls>>

-----------------------------------------------------------------------------
(* CombinedServer: inventories, collisions, routes *)

Kinds == {"tools", "prompts", "resources", "templates"}
Capability(k) == IF k = "templates" THEN "resources" ELSE k

\* A group has finitely many members with pages of names, and a tool needs
\* finitely many fields.
McpAssumption ==
  /\ MaxRounds \in Nat
  /\ \A g \in Groups :
       /\ DOMAIN g.members = 1..Len(g.members) /\ Len(g.members) \in Nat
       /\ \A i \in DOMAIN g.members : g.members[i].pages \in [Kinds -> Seq(Seq(STRING))]
       /\ \A t \in g.tools : t.needs \in Seq(STRING)

\* Probe::list follows nextCursor to the last page, Probe::run asks for what is declared:
\* the name at each place of each page.
Positions(pages) == UNION {{p} \X DOMAIN pages[p] : p \in DOMAIN pages}
inventory(m) ==
  [k \in Kinds |->
     [x \in IF Capability(k) \in m.caps THEN Positions(m.pages[k]) ELSE {} |-> m.pages[k][x[1]][x[2]]]]

\* Mutant: a name that two services declare goes through.
NoCheck(invs) == TRUE
\* No name of a kind is declared twice, by two inventories or by one.
check_collisions(invs) ==
  \A k \in Kinds : \A i, j \in DOMAIN invs :
    \A x \in DOMAIN invs[i][k], y \in DOMAIN invs[j][k] :
      invs[i][k][x] = invs[j][k][y] => i = j /\ x = y

Routes(invs, k) ==
  [n \in UNION {Range(invs[i][k]) : i \in DOMAIN invs} |->
     CHOOSE i \in DOMAIN invs : /\ n \in Range(invs[i][k])
                                /\ \A j \in DOMAIN invs : n \in Range(invs[j][k]) => j <= i]
merge_capabilities == UNION {group.members[i].caps : i \in DOMAIN group.members}

\* list_tools and its siblings: each member's first page, end to end.
Listed(k) ==
  LET Page(m) == IF Capability(k) \in m.caps /\ m.pages[k] # <<>> THEN Head(m.pages[k]) ELSE <<>> IN
  [i \in DOMAIN group.members |-> Range(Page(group.members[i]))]

member(k, n) == IF n \in DOMAIN routing[k] THEN routing[k][n] ELSE 0

\* A URI that no inventory names is tried with every member in order.
read_resource(uri) ==
  IF member("resources", uri) # 0 THEN member("resources", uri)
  ELSE LET able == {i \in DOMAIN group.members : uri \in group.members[i].reads} IN
       IF able = {} THEN 0 ELSE CHOOSE i \in able : \A j \in able : i <= j

-----------------------------------------------------------------------------
(* Mounts: guards of the group before those of its members *)

\* Of a name, or of a name with a port; a port of 0 is one that is not given.
permitted(allowed, host) ==
  \E a \in allowed : a.name = host.name /\ a.port \in {0, host.port}
DefaultPort(scheme) == IF scheme = "http" THEN 80 ELSE 443
origin_permitted(allowed, origin) ==
  \E a \in allowed :
    /\ a.scheme = origin.scheme /\ a.name = origin.name
    /\ a.port = 0 \/ a.port = (IF origin.port = 0 THEN DefaultPort(origin.scheme) ELSE origin.port)

\* The guard of the mount a client reaches: the group's, else its member's when the members
\* are mounted apart.
mount(i) ==
  LET m == group.members[i] IN
  [hosts |-> IF group.hosts # None THEN group.hosts ELSE IF group.combined THEN None ELSE m.hosts,
   origins |-> IF group.origins # None THEN group.origins ELSE IF group.combined THEN None ELSE m.origins]
Misconfigured == \E i \in DOMAIN group.members : mount(i).hosts = {}
hosts(i, h) == mount(i).hosts # None => permitted(mount(i).hosts, h.host)
origins(i, h) ==
  (mount(i).origins \notin {None, {}} /\ h.origin # None) => origin_permitted(mount(i).origins, h.origin)

-----------------------------------------------------------------------------
NoSession == [loop |-> "none", stream |-> "none", inbox |-> <<>>]
NoCall == [at |-> "none", tool |-> None, legacy |-> FALSE, elicits |-> FALSE, round |-> 0,
           responses |-> <<>>, asked |-> <<>>, pending |-> None]

Init ==
  /\ group \in Groups
  /\ build = "combining" /\ found = <<>>
  /\ routing = [k \in Kinds |-> <<>>]
  /\ cancelled = FALSE /\ sessions = {} /\ calls = 0
  /\ session = [c \in Clients |-> NoSession]
  /\ post = [c \in Clients |-> "none"]
  /\ call = [c \in Clients |-> NoCall]

\* ServiceGroup::serve, CombinedServer::new: one member after the other.
InventoryMember ==
  /\ build = "combining" /\ group.combined /\ Len(found) < Len(group.members)
  /\ \/ found' = Append(found, inventory(group.members[Len(found) + 1])) /\ UNCHANGED build
     \/ build' = "failed" /\ UNCHANGED found      \* the factory or a request failed
  /\ UNCHANGED <<group, routing, cancelled, sessions, session, post, call, calls>>

Mount ==
  /\ build = "combining"
  /\ group.combined => Len(found) = Len(group.members)
  /\ IF Misconfigured \/ (group.combined /\ ~check_collisions(found))
     THEN build' = "failed" /\ UNCHANGED routing
     ELSE /\ build' = "serving"
          /\ routing' = IF group.combined THEN [k \in Kinds |-> Routes(found, k)] ELSE routing
  /\ UNCHANGED <<group, found, cancelled, sessions, session, post, call, calls>>

-----------------------------------------------------------------------------
(* SSE sessions *)

\* GET: the inbox is filed before the stream is answered.
open(c) ==
  /\ build = "serving" /\ session[c] = NoSession /\ ~cancelled
  /\ \E h \in Headers : hosts(1, h) /\ origins(1, h)
  /\ session' = [session EXCEPT ![c] = [loop |-> "running", stream |-> "open", inbox |-> <<>>]]
  /\ sessions' = sessions \cup {c}
  /\ UNCHANGED <<group, build, found, routing, cancelled, post, call, calls>>

\* POST: the inbox is looked up and cloned, the message sent to it later.
PostLookup(c) ==
  /\ build = "serving" /\ post[c] \in {"none", "unknown", "gone", "accepted"}
  /\ calls < MaxCalls /\ calls' = calls + 1
  /\ post' = [post EXCEPT ![c] = IF c \in sessions THEN "sending" ELSE "unknown"]
  /\ UNCHANGED <<group, build, found, routing, cancelled, sessions, session, call>>

PostSend(c, message) ==
  /\ post[c] = "sending"
  /\ IF session[c].loop = "running"
     THEN /\ session' = [session EXCEPT ![c].inbox = Append(@, message)]
          /\ post' = [post EXCEPT ![c] = "accepted"]
     ELSE post' = [post EXCEPT ![c] = "gone"] /\ UNCHANGED session
  /\ UNCHANGED <<group, build, found, routing, cancelled, sessions, call, calls>>

\* The client goes away, or take_until ends the stream once the token is cancelled.
StreamEnds(c) ==
  /\ session[c].stream = "open"
  /\ session' = [session EXCEPT ![c].stream = "closed"]
  /\ UNCHANGED <<group, build, found, routing, cancelled, sessions, post, call, calls>>

\* The loop ends with the token, or when an answer finds no stream to go to.
LoopEnds(c) ==
  /\ session[c].loop = "running"
  /\ cancelled \/ (session[c].stream = "closed" /\ call[c].at = "returned")
  /\ session' = [session EXCEPT ![c].loop = "ended", ![c].inbox = <<>>]
  /\ call' = [call EXCEPT ![c] = NoCall]
  /\ UNCHANGED <<group, build, found, routing, cancelled, sessions, post, calls>>

\* Mutant: the loop's end leaves the inbox in the map.
KeepInbox(c) == session[c].loop = "ended" /\ FALSE /\ UNCHANGED vars
RemoveInbox(c) ==
  /\ session[c].loop = "ended" /\ c \in sessions
  /\ sessions' = sessions \ {c}
  /\ UNCHANGED <<group, build, found, routing, cancelled, session, post, call, calls>>

Cancel ==
  /\ build = "serving" /\ ~cancelled
  /\ cancelled' = TRUE
  /\ UNCHANGED <<group, build, found, routing, sessions, session, post, call, calls>>

-----------------------------------------------------------------------------
(* Hosted::call_tool *)

\* An id is the hash of the question; declined stops the call, an answer fills the field.
ask_id(field) == field
Declined(responses) == \E f \in DOMAIN responses : responses[f] = "decline"
merge_answers(responses) == {f \in DOMAIN responses : responses[f] = "accept"}

\* The tool with the arguments merged so far: complete, declined, or a question.
Missing(tool, responses) == {i \in DOMAIN tool : tool[i] \notin merge_answers(responses)}
Tool(tool, responses) ==
  CASE Declined(responses) -> "declined"
    [] ~Declined(responses) /\ Missing(tool, responses) = {} -> "done"
    [] OTHER -> "ask"
Question(tool, responses) ==
  LET missing == Missing(tool, responses) IN tool[CHOOSE i \in missing : \A j \in missing : i <= j]

\* A client that cannot be asked is told what is missing instead.
ask_pending(elicits, response) == IF response = "ask" /\ ~elicits THEN "error" ELSE response

\* The response passes the interceptors: one may answer itself or rewrite a result, but what
\* the tool asked for is kept beside the chain and returned whatever they make of it.
dispatch(response) ==
  CASE group.chain = "short" -> "short"
    [] group.chain = "rewrite" /\ response # "ask" -> "rewritten"
    [] OTHER -> response

CallTool(c) ==
  /\ session[c].loop = "running" /\ session[c].inbox # <<>> /\ call[c].at \in {"none", "returned"}
  /\ LET message == Head(session[c].inbox) IN
     call' = [call EXCEPT ![c] =
       IF message.kind = "call" /\ (~group.combined \/ member("tools", message.tool.name) # 0)
       THEN [NoCall EXCEPT !.at = "dispatch", !.tool = message.tool.needs,
                           !.legacy = message.legacy, !.elicits = message.elicits]
       ELSE [NoCall EXCEPT !.at = "returned"]]      \* lists, reads, unknown names
  /\ session' = [session EXCEPT ![c].inbox = Tail(@)]
  /\ UNCHANGED <<group, build, found, routing, cancelled, sessions, post, calls>>

Dispatch(c) ==
  /\ call[c].at = "dispatch"
  /\ LET k == call[c]
         response == dispatch(ask_pending(k.elicits, Tool(k.tool, k.responses))) IN
     call' = [call EXCEPT ![c] =
       IF k.round = MaxRounds THEN [k EXCEPT !.at = "too many"]
       ELSE IF response = "ask" /\ k.legacy
       THEN [k EXCEPT !.at = "fulfil", !.pending = Question(k.tool, k.responses)]
       ELSE [k EXCEPT !.at = IF response = "ask" THEN "input required" ELSE "returned"]]
  /\ UNCHANGED <<group, build, found, routing, cancelled, sessions, session, post, calls>>

\* Mutant: the answers of this round replace those of the rounds before.
Replaced(responses, id, answer) == [f \in {id} |-> answer]
Accumulated(responses, id, answer) ==
  [f \in DOMAIN responses \cup {id} |-> IF f = id THEN answer ELSE responses[f]]

\* A legacy client is asked on the spot, and the call made again with its answer.
Fulfil(c, answer) ==
  /\ call[c].at = "fulfil"
  /\ LET k == call[c] IN
     call' = [call EXCEPT ![c] =
       [k EXCEPT !.asked = Append(k.asked, k.pending), !.round = k.round + 1, !.pending = None,
                 !.responses = Accumulated(k.responses, ask_id(k.pending), answer),
                 !.at = IF answer = "fails" THEN "returned" ELSE "dispatch"]]
  /\ UNCHANGED <<group, build, found, routing, cancelled, sessions, session, post, calls>>

\* A modern client gets the question as the result, and calls again with all its answers.
Retry(c, answer) ==
  /\ call[c].at = "input required"
  /\ LET k == call[c]
         question == Question(k.tool, k.responses) IN
     call' = [call EXCEPT ![c] =
       [k EXCEPT !.asked = Append(k.asked, question), !.round = 0, !.at = "dispatch",
                 !.responses = Accumulated(k.responses, ask_id(question), answer)]]
  /\ UNCHANGED <<group, build, found, routing, cancelled, sessions, session, post, calls>>

CallReturns(c) ==
  /\ call[c].at = "too many"
  /\ call' = [call EXCEPT ![c].at = "returned"]
  /\ UNCHANGED <<group, build, found, routing, cancelled, sessions, session, post, calls>>

Messages == {[kind |-> "call", tool |-> t, legacy |-> l, elicits |-> e] :
               t \in group.tools, l \in BOOLEAN, e \in BOOLEAN}
            \cup {[kind |-> "other"]}

Next ==
  \/ InventoryMember \/ Mount \/ Cancel
  \/ \E c \in Clients :
       \/ open(c) \/ PostLookup(c) \/ StreamEnds(c) \/ LoopEnds(c) \/ RemoveInbox(c)
       \/ \E m \in Messages : PostSend(c, m)
       \/ CallTool(c) \/ Dispatch(c) \/ CallReturns(c)
       \/ \E answer \in {"accept", "decline", "fails"} : Fulfil(c, answer)
       \/ \E answer \in {"accept", "decline"} : Retry(c, answer)

\* The spawned loops run; nothing is assumed of clients, users or tools.
Fairness == \A c \in Clients : WF_vars(LoopEnds(c)) /\ WF_vars(RemoveInbox(c))
Spec == Init /\ [][Next]_vars /\ Fairness

-----------------------------------------------------------------------------
(* Properties *)

\* "Every name on a combined server must be unique": a name that a list shows is answered by
\* the member that listed it, also a resource whose URI another member could read.
ListedIsReached ==
  (build = "serving" /\ group.combined) =>
    \A i \in DOMAIN group.members :
      /\ group.members[i].caps \subseteq merge_capabilities
      /\ \A k \in {"tools", "prompts"} : \A n \in Listed(k)[i] : member(k, n) = i
      /\ \A uri \in Listed("resources")[i] : read_resource(uri) = i

\* A user is never asked the same twice in one call, and a call is never refused for asking
\* too often when it needs fewer answers than there are rounds.
AskedOnce ==
  \A c \in Clients :
    /\ IsInjective(call[c].asked)
    /\ call[c].at = "too many" => Len(call[c].tool) >= MaxRounds

\* Cancelling ends every session and empties the map of inboxes.
CancelEndsSessions == cancelled ~> sessions = {}
=============================================================================
