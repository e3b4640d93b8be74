------------------------------- MODULE Errors -------------------------------
(***************************************************************************)
(* What a failed call tells its caller.  A handler's error (a Problem, an  *)
(* error wrapping sentinels, a Status, a refused validation) crosses tonic *)
(* as a Status; grpc/src/problem translates it, grpc/src/hints, outer to   *)
(* it, rewrites generic ones from the request and the protos, and          *)
(* gateway_errors.rs turns it into an HTTP answer.                         *)
(*                                                                         *)
(* A message is the sequence of its segments, joined by ": " in the code;  *)
(* a resource name or pattern is the sequence of its path segments.  An    *)
(* error value is the chain of its sources, of which one may be of a type  *)
(* that the translator or a handler looks for.                             *)
(***************************************************************************)
EXTENDS Integers, Sequences, FiniteSets

CONSTANT MaxSegments

ErrorsAssumption == MaxSegments \in Nat

VARIABLES translator, err, request, status, stage

evars == <<translator, err, request, status, stage>>

\* The registered sentinels, each with a code and a default reason; the order
\* of registration is the order they are tried in.
NF == [sentinel |-> "nf", code |-> "NotFound", reason |-> "NOT_FOUND"]
SO == [sentinel |-> "so", code |-> "FailedPrecondition", reason |-> "SOLD_OUT"]

\* Translators: the sentinels in some order, texts to strip besides theirs, and
\* handlers: one that looks for a store's typed error along the chain, and one
\* that looks at a status itself.
Translators ==
  {[kinds |-> <<NF, SO>>, strip |-> {}, handlers |-> <<>>],
   [kinds |-> <<SO, NF>>, strip |-> {"x"}, handlers |-> <<"busy", "ref">>]}

Info(reason, domain, meta) ==
  [detail |-> "info", reason |-> reason, domain |-> domain, about |-> <<>>, meta |-> meta]
Detail(name, about) ==
  [detail |-> name, reason |-> "", domain |-> "", about |-> about, meta |-> <<>>]
St(code, msg, details) == [code |-> code, msg |-> msg, details |-> details]

\* The protos: resource types and their patterns.
Patterns == [Shelf |-> <<"shelves", "*">>, Book |-> <<"shelves", "*", "books", "*">>]
Names == {<<"shelves", "s">>, <<"shelves", "s", "books", "b">>, <<"shelves", "books">>}

\* Problems, whose text is one sentence, and statuses.
Segment == {"nf", "so", "x", "text", "framed"}
Problems ==
  [form : {"problem"}, kind : {"", "nf", "odd"}, reason : {"", "DECLARED", "OWN"},
   field : BOOLEAN, named : BOOLEAN, meta : SUBSET {"kind", "x"}]

\* From<Problem> for Status: everything travels as metadata of one ErrorInfo,
\* the problem's own metadata under a prefix.
Carried(p) ==
  LET own == {<<"metadata", k>> : k \in p.meta}
      fields == {<<"kind">>, <<"reason">>, <<"field">>, <<"named">>}
  IN St("Unknown", <<"text">>,
        <<Info("UNTRANSLATED", "carrier",
               [k \in own \cup fields |->
                  CASE k = <<"kind">> -> p.kind [] k = <<"reason">> -> p.reason
                    [] k = <<"field">> -> (IF p.field THEN "f" ELSE "")
                    [] k = <<"named">> -> (IF p.named THEN "n" ELSE "") [] OTHER -> "v"])>>)

\* What a link of a chain may be: nothing special, a store's typed error, a
\* problem, a status of somebody's own, or a problem that travels as a status.
Some == [form |-> "problem", kind |-> "nf", reason |-> "OWN", field |-> TRUE, named |-> FALSE, meta |-> {"x"}]
Statuses ==
  [code : {"NotFound", "AlreadyExists", "Aborted", "Internal", "Unknown"},
   msg : {<<"nf">>, <<"x">>},
   details : {<<Info(r, "domain", <<>>)>> : r \in {"", "NOT_FOUND", "OWN"}}]
Typed ==
  {[form |-> f, status |-> St("Ok", <<>>, <<>>), problem |-> Some] : f \in {"plain", "ref", "problem"}}
    \cup {[form |-> "status", status |-> s, problem |-> Some] : s \in Statuses \cup {Carried(Some)}}

\* A chain is the text of its links, one after the other, with where each link
\* begins, which of them the text of the link before leaves out, and the place of
\* the one that is typed.  A problem has no source; a status, whose text in other
\* texts is framed, shows none.
IsChain(c) ==
  LET t == c.typed.form
      ends == c.at = Len(c.msg) \/ c.at + 1 \in c.links
  IN /\ 1 \in c.links /\ c.hidden \subseteq c.links \ {1} /\ c.at \in c.links
     /\ t = "plain" => c.at = 1
     /\ t = "problem" => c.at = Len(c.msg)
     /\ t = "status" => ends /\ (c.at < Len(c.msg) => c.at + 1 \in c.hidden)
     /\ \A i \in DOMAIN c.msg : /\ c.msg[i] = "text" <=> (t = "problem" /\ i = c.at)
                               /\ c.msg[i] = "framed" <=> (t = "status" /\ i = c.at)
Chains(n) ==
  {c \in [form : {"chain"}, msg : [1..n -> Segment], links : SUBSET (1..n),
          hidden : SUBSET (2..n), at : 1..n, typed : Typed] : IsChain(c)}

\* What handlers fail with: a problem, a chain, or a refused validation.
Errs ==
  Problems \cup (UNION {Chains(n) : n \in 1..MaxSegments}) \cup [form : {"invalid"}, violations : 1..2]

\* Requests about a resource: its name, a resource in the body, or a parent and
\* an id; or one that does not decode.
Prefix(n, k) == SubSeq(n, 1, Len(n) - k)
Requests ==
  {[verb |-> v, about |-> n] : v \in {"Get", "Update", "Create", "Undelete"}, n \in Names} \cup {[verb |-> "none", about |-> <<>>]}
NameField(r) == IF r.verb \in {"Get", "Undelete"} THEN r.about ELSE <<>>
BodyName(r) == IF r.verb = "Update" THEN r.about ELSE <<>>

Init ==
  /\ translator \in Translators
  /\ err \in Errs /\ request \in Requests
  /\ status = St("Ok", <<>>, <<>>) /\ stage = "raised"

-----------------------------------------------------------------------------
(* problem *)

IsCarrier(s) == s.details # <<>> /\ (s.details # <<>> => s.details[1].domain = "carrier")

\* Problem::from_carrier.
from_carrier(s) ==
  LET m == s.details[1].meta
  IN [form |-> "problem", kind |-> m[<<"kind">>], reason |-> m[<<"reason">>], field |-> m[<<"field">>] # "",
      named |-> m[<<"named">>] # "", meta |-> {k[2] : k \in {k \in DOMAIN m : Len(k) = 2}}]

\* Mutant: only a message that starts with the sentinel wraps it.
WrapsHead(msg, sentinel) == sentinel # "" /\ msg[1] = sentinel
\* wraps: the sentinel is a whole segment of the message.
wraps(msg, sentinel) == sentinel # "" /\ \E i \in DOMAIN msg : msg[i] = sentinel

\* classify: the first kind, in order of registration, that one of the texts
\* wraps; 0 for none.
classify(texts) ==
  LET hits == {i \in DOMAIN translator.kinds : \E m \in texts : wraps(m, translator.kinds[i].sentinel)}
  IN IF hits = {} THEN 0 ELSE CHOOSE i \in hits : \A j \in hits : i <= j
classify_message(msg) == classify({msg})

\* plain_message: leading sentinels are stripped while another segment follows.
plain_message(msg) ==
  LET sent == {translator.kinds[i].sentinel : i \in DOMAIN translator.kinds} \cup translator.strip
      keep == CHOOSE i \in DOMAIN msg :
                /\ \A j \in 1..(i - 1) : msg[j] \in sent
                /\ msg[i] \notin sent \/ i = Len(msg)
  IN SubSeq(msg, keep, Len(msg))

with_reason(code, msg, reason) == St(code, msg, <<Info(reason, "domain", <<>>)>>)
Of(k, msg) == with_reason(translator.kinds[k].code, plain_message(msg), translator.kinds[k].reason)

\* to_string of a link: its segments and those of the links it shows.
to_string(c, i) ==
  LET Ends(j) == j = Len(c.msg) \/ j + 1 \in c.hidden
      last == CHOOSE j \in i..Len(c.msg) : Ends(j) /\ \A k \in i..(j - 1) : ~Ends(k)
  IN SubSeq(c.msg, i, last)

\* message_of: a status is asked for its message.
message_of(c, i) ==
  IF c.typed.form = "status" /\ i = c.at THEN c.typed.status.msg ELSE to_string(c, i)

\* problem_status: the kind's code, or the declared reason's; and one detail
\* for the field, the blocked call or the resource.
problem_status(p) ==
  LET k == IF p.kind = "" THEN 0 ELSE classify_message(<<p.kind>>)
      code == IF k # 0 THEN translator.kinds[k].code ELSE IF p.reason = "DECLARED" THEN "ResourceExhausted" ELSE "Unknown"
      reason == IF p.reason # "" THEN p.reason ELSE IF k # 0 THEN translator.kinds[k].reason ELSE ""
      extra == IF p.field THEN <<Detail("bad_request", <<>>)>>
               ELSE IF ~p.named THEN <<>>
               ELSE IF code = "FailedPrecondition" THEN <<Detail("precondition", <<>>)>>
               ELSE <<Detail("resource", <<>>)>>
  IN St(code, <<"text">>, <<Info(reason, "domain", [m \in p.meta |-> "v"])>> \o extra)

\* handled: the first handler that knows the error, a chain or a status; "" for
\* none.
Refs(e) == e.typed.form = "ref"
Busy(e) == e.typed.form = "status" /\ e.at = 1 /\ e.typed.status.code = "Aborted"
handled(e) ==
  LET Knows(h) == (h = "ref" /\ Refs(e)) \/ (h = "busy" /\ Busy(e))
      hits == {i \in DOMAIN translator.handlers : Knows(translator.handlers[i])}
  IN IF hits = {} THEN "" ELSE translator.handlers[CHOOSE i \in hits : \A j \in hits : i <= j]
Reply(h) ==
  IF h = "ref" THEN St("FailedPrecondition", <<"text">>, <<Info("REFERENCED", "store", <<>>)>>)
  ELSE St("Unavailable", <<"text">>, <<Info("BUSY", "store", <<>>)>>)
\* A status as a handler sees it.
Alone(s) == [at |-> 1, typed |-> [form |-> "status", status |-> s, problem |-> Some]]

\* Translator::to_status, called on the error itself.
to_status(e) ==
  IF e.form = "problem" THEN problem_status(e)
  ELSE IF e.typed.form = "problem" THEN problem_status(e.typed.problem)
  ELSE IF e.typed.form = "status" /\ IsCarrier(e.typed.status)
    THEN problem_status(from_carrier(e.typed.status))
  ELSE IF handled(e) # "" THEN Reply(handled(e))
  ELSE LET k == classify({message_of(e, i) : i \in e.links})
       IN IF k # 0 THEN Of(k, message_of(e, 1))
          ELSE IF e.typed.form = "status" THEN e.typed.status
          ELSE St("Internal", to_string(e, 1), <<>>)

\* Translator::translate, on the status that crossed tonic.
translate(s) ==
  IF IsCarrier(s) THEN problem_status(from_carrier(s))
  ELSE IF handled(Alone(s)) # "" THEN Reply(handled(Alone(s)))
  ELSE IF s.code # "Unknown" THEN s
  ELSE LET k == classify_message(s.msg)
       IN IF k = 0 THEN St("Internal", s.msg, <<>>) ELSE Of(k, s.msg)

\* validation_status: one violation per field, and the reason.
validation_status(n) ==
  St("InvalidArgument", <<"text">>, [i \in 1..n |-> Detail("bad_request", <<>>)] \o <<Info("INVALID_REQUEST_FIELDS", "", <<>>)>>)

\* The handler's `?`: Problem::into; or Status::from_error, which takes the
\* status of a chain and else makes one of its text.
Cross ==
  /\ stage = "raised" /\ stage' = "crossed"
  /\ status' = CASE err.form = "problem" -> Carried(err)
                 [] err.form = "invalid" -> validation_status(err.violations)
                 [] OTHER -> IF err.typed.form = "status" THEN err.typed.status
                             ELSE St("Unknown", to_string(err, 1), <<>>)
  /\ UNCHANGED <<translator, err, request>>

Translate == stage = "crossed" /\ stage' = "translated" /\ status' = translate(status)
             /\ UNCHANGED <<translator, err, request>>

-----------------------------------------------------------------------------
(* hints *)

\* lookup: the first resource type whose pattern fits the name.
lookup(name) ==
  LET fits == {k \in DOMAIN Patterns : Len(Patterns[k]) = Len(name)
                 /\ \A i \in DOMAIN name : Patterns[k][i] \in {"*", name[i]}}
  IN IF fits = {} THEN "" ELSE CHOOSE k \in fits : TRUE

\* updated, named and created: the resource a request is about.
updated(r) == IF NameField(r) # <<>> THEN NameField(r) ELSE BodyName(r)
created(r) ==
  IF updated(r) # <<>> THEN updated(r)
  ELSE LET p == Patterns[lookup(r.about)]
       IN Prefix(r.about, 2) \o <<p[Len(p) - 1], r.about[Len(r.about)]>>

\* Hinter::generic: no reason, or one of the generic ones.
generic(s) ==
  LET infos == SelectSeq(s.details, LAMBDA d : d.detail = "info")
  IN infos = <<>> \/ (infos # <<>> => infos[1].reason \in {"", "NOT_FOUND"})

\* status::with_details: the new detail after the status's own.
With(s, name) == St(s.code, <<"hint">>, Append(s.details, [Detail("resource", name) EXCEPT !.reason = lookup(name)]))

\* Hinter::rewrite.
rewrite(s) ==
  IF s.code \in {"Internal", "Unknown"} THEN St("Internal", <<"apology">>, <<>>)
  ELSE IF request.verb = "none" \/ ~generic(s) THEN s
  ELSE CASE s.code = "NotFound" /\ s.msg = <<"nf">> /\ updated(request) # <<>> -> With(s, updated(request))
         [] s.code = "AlreadyExists" -> With(s, created(request))
         [] s.code = "Aborted" /\ updated(request) # <<>> -> With(s, updated(request))
         [] OTHER -> s

Hint == stage = "translated" /\ stage' = "hinted" /\ status' = rewrite(status)
        /\ UNCHANGED <<translator, err, request>>

\* name_pattern of a parent field: the child's pattern without its last pair.
name_pattern(child) == IF Len(Patterns[child]) >= 4 THEN Prefix(Patterns[child], 2) ELSE <<>>

-----------------------------------------------------------------------------
(* The edge *)

\* http_status_from_code.
http_status(code) ==
  CASE code \in {"InvalidArgument", "FailedPrecondition", "OutOfRange"} -> 400
    [] code = "Unauthenticated" -> 401 [] code = "PermissionDenied" -> 403 [] code = "NotFound" -> 404
    [] code \in {"AlreadyExists", "Aborted"} -> 409 [] code = "ResourceExhausted" -> 429 [] code = "Cancelled" -> 499
    [] code = "Unimplemented" -> 501 [] code = "Unavailable" -> 503 [] code = "DeadlineExceeded" -> 504
    [] code = "Ok" -> 200 [] OTHER -> 500

\* otel.rs: the codes that mark the server's span as failed.
is_span_error(code) ==
  code \in {"Unknown", "DeadlineExceeded", "Unimplemented", "Internal", "Unavailable", "DataLoss"}

Send == stage = "hinted" /\ stage' = "sent" /\ UNCHANGED <<translator, err, request, status>>

Next == Cross \/ Translate \/ Hint \/ Send
Spec == Init /\ [][Next]_evars /\ WF_evars(Next)

-----------------------------------------------------------------------------
(* Properties *)

\* A handler may render its error itself or return it and let it cross tonic.
\* The caller is told the same code, reason, details and message either way if it
\* is a problem or carries one, if its text shows the whole chain, or if it is a
\* status with a meaning of its own; and what is hidden from tonic, or typed, is
\* told better by rendering it, never worse.
Plain(e) == e.form = "chain" /\ e.typed.form = "plain" /\ e.hidden = {}
Meant(e) ==
  /\ e.form = "chain" /\ e.typed.form = "status"
  /\ \/ IsCarrier(e.typed.status)
     \/ /\ e.typed.status.code # "Unknown"
        /\ handled(e) = handled(Alone(e.typed.status))
        /\ handled(e) = "" => classify({message_of(e, i) : i \in e.links}) = 0
PathsAgree ==
  stage = "translated" /\ err.form # "invalid" =>
    /\ err.form = "problem" \/ Plain(err) \/ Meant(err) => status = to_status(err)
    /\ to_status(err).code = "Internal" => status.code = "Internal"

\* What leaves the server is for the caller: no carrier, no unclassified or
\* internal text, and a REST status that is 5xx exactly when the span failed.
NothingInternal ==
  stage = "sent" =>
    /\ ~IsCarrier(status) /\ status.code # "Unknown"
    /\ status.code = "Internal" => status.msg = <<"apology">>
    /\ http_status(status.code) >= 500 <=> is_span_error(status.code)

\* A hint names the resource the request was about, under its type, and takes
\* nothing away from what the service and the validation had said.
HintFits ==
  /\ stage = "sent" /\ status.msg = <<"hint">> =>
       LET d == status.details[Len(status.details)]
       IN d.about = request.about /\ d.reason = lookup(request.about) /\ d.reason # ""
  /\ stage = "sent" /\ err.form = "invalid" => status = validation_status(err.violations)
  /\ \A k \in DOMAIN Patterns : name_pattern(k) # <<>> => \E p \in DOMAIN Patterns : Patterns[p] = name_pattern(k)

\* The three together: an error reaches its caller as what it is.
ErrorReachesCaller == PathsAgree /\ NothingInternal /\ HintFits
=============================================================================
