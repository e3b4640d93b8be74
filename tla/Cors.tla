-------------------------------- MODULE Cors --------------------------------
(***************************************************************************)
(* The CORS layer of grpc/src/cors.rs, with what it answers to: browsers   *)
(* that ask before they send and check before they let a page read, and an *)
(* HTTP cache in between that keeps responses by what they vary on.        *)
(*                                                                         *)
(* An origin is a site; a policy may write it with a trailing slash or in  *)
(* capitals.  Header and method lists keep what the layer tells apart.     *)
(***************************************************************************)
EXTENDS Integers, FiniteSets

CONSTANTS Sites, MaxVisits, None

VARIABLES
  policy,    \* the CorsPolicy
  accepted,  \* cors() took it
  cache,     \* responses kept: by the origin they were for, and what they vary on
  last,      \* the last visit: who asked for what, whether it ran, whether the page read it
  visits

CorsAssumption == None \notin Sites \cup {"*"}

rvars == <<policy, accepted, cache, last, visits>>

Forms == {"plain", "slash", "upper", "path", "bare"}
Any == [site |-> None, form |-> "any"]
Methods == {"GET", "PATCH", "HEAD"}

Policies ==
  [origins : {o \in SUBSET ([site : Sites, form : Forms] \cup {Any}) : Cardinality(o) <= 2},
   methods : {{}, {"GET"}}, headers : {{}, {"x-own"}, {"*"}}, credentials : BOOLEAN]

\* CorsPolicy::validate and validate_origin: some origins, each scheme://host
\* with at most a trailing slash, and never "*" with credentials.
Validated(p) ==
  /\ p.origins # {}
  /\ \A o \in p.origins : o.form \notin {"path", "bare"}
  /\ Any \in p.origins => ~p.credentials

\* Compiled::new: the defaults, and normalize_origin.
AllowMethods(p) == IF p.methods = {} THEN {"GET", "PATCH"} ELSE p.methods
AllowHeaders(p) == IF p.headers = {} THEN {"authorization"} ELSE p.headers
Origins(p) == {o.site : o \in p.origins \ {Any}}

\* Compiled::allowed and allow_origin.
allowed(p, site) == Any \in p.origins \/ site \in Origins(p)
allow_origin(p, site) == IF Any \in p.origins /\ ~p.credentials THEN "*" ELSE site

\* What a response says: its origin grant, credentials, methods and headers.
Silent == [origin |-> None, credentials |-> FALSE, methods |-> {}, headers |-> {}, ok |-> TRUE]

\* Compiled::preflight: the origin and the method decide; "*" headers echo.
preflight(p, site, method, header) ==
  IF ~allowed(p, site) \/ method \notin AllowMethods(p)
  THEN [Silent EXCEPT !.ok = FALSE]
  ELSE [origin |-> allow_origin(p, site), credentials |-> p.credentials, methods |-> AllowMethods(p),
        headers |-> (IF "*" \notin AllowHeaders(p) THEN AllowHeaders(p) ELSE IF header = None THEN {} ELSE {header}),
        ok |-> TRUE]

\* Compiled::decorate on the inner service's response.
decorate(p, site) ==
  IF site # None /\ allowed(p, site)
  THEN [Silent EXCEPT !.origin = allow_origin(p, site), !.credentials = p.credentials]
  ELSE Silent

\* Mutant: only a decorated response says it varies on Origin.
VaryIfDecorated(p, site) == IF site # None /\ allowed(p, site) THEN {"Origin"} ELSE {}
\* Cors::call appends Vary: Origin to every response, decorated or not.
Vary(p, site) == {"Origin"}

Init ==
  /\ policy \in Policies /\ accepted = Validated(policy)
  /\ cache = {} /\ last = None /\ visits = 0

-----------------------------------------------------------------------------
\* The browser's check of a grant, for a page of `site`.
Granted(r, site, cred) ==
  /\ r.ok
  /\ IF cred THEN r.origin = site /\ r.credentials ELSE r.origin \in {site, "*"}

\* Requests a browser asks about first: other methods, other headers.
NeedsPreflight(method, header) == method \notin {"GET", "HEAD"} \/ header # None

Asked(site, method, header, cred) ==
  LET r == preflight(policy, site, method, header)
  IN /\ Granted(r, site, cred)
     /\ method \in r.methods \cup {"GET", "HEAD"}
     /\ header = None \/ header \in r.headers

\* The response a request gets: a kept one it may share, or the server's.
Hits(site) == {e \in cache : "Origin" \in e.vary => e.origin = site}

\* A page of `site` (None: not a cross-origin request) fetches; a GET may be
\* answered by, and is kept in, the cache.
Visit(site, method, header, cred) ==
  /\ accepted /\ visits < MaxVisits
  /\ LET first == site = None \/ ~NeedsPreflight(method, header) \/ Asked(site, method, header, cred)
         fresh == [origin |-> site, vary |-> Vary(policy, site), resp |-> decorate(policy, site)]
     IN \E e \in (IF method = "GET" /\ Hits(site) # {} THEN Hits(site) ELSE {fresh}) :
          /\ last' = [site |-> site, method |-> method, header |-> header, cred |-> cred,
                      ran |-> first, read |-> first /\ (site # None => Granted(e.resp, site, cred))]
          /\ cache' = IF first /\ method = "GET" THEN cache \cup {e} ELSE cache
  /\ visits' = visits + 1
  /\ UNCHANGED <<policy, accepted>>

Next == \E site \in Sites \cup {None}, method \in Methods, header \in {None, "x-own", "authorization"}, cred \in BOOLEAN :
          Visit(site, method, header, cred)
Spec == Init /\ [][Next]_rvars

-----------------------------------------------------------------------------
\* A page reads a response exactly when the policy says it may, whatever was
\* cached before for other pages; and what a browser asks about first runs only
\* if the policy allows the method and the header as well.
CorsExact ==
  last # None /\ (last # None => last.site # None) =>
    LET may == allowed(policy, last.site) /\ (last.cred => policy.credentials)
        listed == /\ last.method \in AllowMethods(policy)
                  /\ last.header = None \/ AllowHeaders(policy) \cap {last.header, "*"} # {}
    IN /\ last.read <=> may /\ (NeedsPreflight(last.method, last.header) => listed)
       /\ last.ran /\ NeedsPreflight(last.method, last.header) => may /\ listed
=============================================================================
