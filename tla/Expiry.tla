------------------------------- MODULE Expiry -------------------------------
(***************************************************************************)
(* How long an entry lives: the options of one call, the TTL each strategy *)
(* resolves from them and from its defaults, and the two deadlines of a    *)
(* read-through entry, the soft one in its envelope and the hard one the   *)
(* driver keeps.  One entry, and a clock in ticks, TicksPerMs of them to a *)
(* millisecond, so that what truncates to milliseconds does.               *)
(*                                                                         *)
(* Three widths matter: of a Duration (MaxDuration), of a SystemTime       *)
(* (MaxInstant) and of milliseconds in an i64 (MaxMillis); each sum has to *)
(* fail at its own.  The driver is the contract of module Driver: an       *)
(* entry is gone once its TTL has passed and never before; zero is none.   *)
(***************************************************************************)
EXTENDS Naturals

CONSTANTS Ttls,         \* the durations callers use
          Defaults,     \* the durations databases are configured with
          MaxTime,      \* bound on the clock
          MaxDuration, MaxInstant, MaxMillis,
          TicksPerMs,
          None          \* a field that was not set, an entry that is absent

VARIABLES now,      \* the clock
          conf,     \* the strategy and the defaults of its database
          entry,    \* what the driver holds
          promise,  \* what its writer was promised
          answer    \* what the last call returned

expVars == <<now, conf, entry, promise, answer>>

Entries == [body : {"value", "void"}, fresh : Nat, until : Nat \cup {None}]
Promises == [at : Nat, life : Nat, window : Nat, endless : BOOLEAN]

\* Durations are whole ticks, and None is neither a number, an error nor a record.
ExpiryAssumption ==
  /\ Ttls \subseteq Nat /\ Defaults \subseteq Nat
  /\ TicksPerMs \in Nat \ {0}
  /\ None \notin Nat \cup {"NoTTL", "Overflow"}
  /\ None \notin Entries /\ None \notin Promises

Silent == [kind |-> "none"]

\* Only the read-through strategy has a stale window and a negative TTL.
Init ==
  /\ now = TicksPerMs
  /\ conf \in [strategy: {"aside"}, ttl: Defaults, stale: Defaults, negative: Defaults,
                require: BOOLEAN]
        \union [strategy: {"volatile", "document"}, ttl: Defaults, stale: {0}, negative: {0},
                require: BOOLEAN]
  /\ entry = None
  /\ promise = None
  /\ answer = Silent

Pass ==
  /\ now < MaxTime
  /\ now' = now + 1
  /\ answer' = Silent
  /\ UNCHANGED <<conf, entry, promise>>

-----------------------------------------------------------------------------
(* Options: a default, and the setters that fill one field each; permanent *)
(* and no_expiry are the same one.                                         *)

DefaultOptions == [ttl |-> None, stale |-> None, permanent |-> FALSE]

with_ttl(o, d) == [o EXCEPT !.ttl = d]
with_stale(o, d) == [o EXCEPT !.stale = d]
permanent(o) == [o EXCEPT !.permanent = TRUE]

\* Only a read-through call looks at stale.
Built ==
  LET unset == {DefaultOptions, permanent(DefaultOptions)}
      timed == unset \union {with_ttl(o, d) : o \in unset, d \in Ttls}
      staled == {with_stale(o, d) : o \in timed, d \in Ttls}
  IN IF conf.strategy = "aside" THEN timed \union staled ELSE timed

-----------------------------------------------------------------------------
(* Resolution. *)

Refused(why) == [error |-> why]
Resolved(d) == [error |-> None, ttl |-> d]

resolve_ttl(o) ==
  IF o.ttl /= None THEN Resolved(o.ttl)
  ELSE IF o.permanent THEN Resolved(0)
  ELSE IF conf.ttl /= 0 THEN Resolved(conf.ttl)
  ELSE IF conf.require THEN Refused("NoTTL") ELSE Resolved(0)

resolve_stale(o) == IF o.stale /= None THEN o.stale ELSE conf.stale

\* Mutant: the sum saturates instead of failing.
Saturating(ttl, stale) ==
  [error |-> None, fresh_for |-> IF ttl = 0 \/ stale = 0 THEN 0 ELSE ttl,
   hard_ttl |-> IF ttl = 0 THEN 0
                ELSE IF ttl + stale > MaxDuration THEN MaxDuration ELSE ttl + stale]

freshness(ttl, stale) ==
  IF ttl = 0 THEN [error |-> None, fresh_for |-> 0, hard_ttl |-> 0]
  ELSE IF stale = 0 THEN [error |-> None, fresh_for |-> 0, hard_ttl |-> ttl]
  ELSE IF ttl + stale > MaxDuration THEN Refused("Overflow")
  ELSE [error |-> None, fresh_for |-> ttl, hard_ttl |-> ttl + stale]

Millis(t) == t \div TicksPerMs

unix_millis(t) ==
  IF Millis(t) > MaxMillis THEN Refused("Overflow")
  ELSE [error |-> None, ms |-> Millis(t)]

fresh_until_millis(t, fresh_for) ==
  IF fresh_for = 0 THEN [error |-> None, ms |-> 0]
  ELSE IF t + fresh_for > MaxInstant THEN Refused("Overflow")
  ELSE unix_millis(t + fresh_for)

-----------------------------------------------------------------------------
(* The driver, and the frames it stores. *)

Until(ttl) == IF ttl = 0 THEN None ELSE now + ttl
Live(e) == e /= None /\ (e.until = None \/ now < e.until)

Packed(body, fresh, ttl) == [body |-> body, fresh |-> fresh, until |-> Until(ttl)]

pack_value(fresh, ttl) == Packed("value", fresh, ttl)
pack_void(ttl) == Packed("void", 0, ttl)

unpack(e) ==
  [kind |-> e.body, stale |-> e.fresh /= 0 /\ Millis(now) > e.fresh]

-----------------------------------------------------------------------------
(* What a writing call is promised: the ttl it gave, none if it said       *)
(* permanent, else the default; and the stale window after that.           *)

Life(o, body) ==
  IF body = "void" THEN conf.negative
  ELSE IF o.ttl /= None THEN o.ttl
  ELSE IF o.permanent THEN 0 ELSE conf.ttl

Window(o, body) ==
  IF body = "void" \/ conf.strategy /= "aside" THEN 0
  ELSE IF o.stale /= None THEN o.stale ELSE conf.stale

-----------------------------------------------------------------------------
(* Operations. *)

Answered(a) ==
  /\ answer' = a
  /\ UNCHANGED <<now, conf>>

Fails(why) ==
  /\ Answered([kind |-> "error", why |-> why])
  /\ UNCHANGED <<entry, promise>>

Wrote(e, o) ==
  /\ entry' = e
  /\ promise' = [at |-> now, life |-> Life(o, e.body), window |-> Window(o, e.body),
                 endless |-> IF o.ttl = None THEN o.permanent ELSE o.ttl = 0]
  /\ Answered([kind |-> "written"])

\* Volatile::set and Document::create.
Set(o) ==
  LET r == resolve_ttl(o) IN
  IF r.error /= None THEN Fails(r.error) ELSE Wrote(pack_value(0, r.ttl), o)

VolatileSet(o) == conf.strategy = "volatile" /\ Set(o)

Create(o) == conf.strategy = "document" /\ Set(o)

\* Document::update, on the driver's replace.
Update(o) ==
  LET r == resolve_ttl(o) IN
  /\ conf.strategy = "document"
  /\ IF r.error /= None THEN Fails(r.error)
     ELSE IF Live(entry) THEN Wrote(pack_value(0, r.ttl), o) ELSE Fails("NotFound")

Touch(d) ==
  /\ conf.strategy = "volatile"
  /\ IF Live(entry) THEN Wrote(pack_value(0, d), with_ttl(DefaultOptions, d))
     ELSE Fails("NotFound")

\* The lifetimes are resolved before the loader runs, the deadline after it. A
\* record the authority lacks is remembered for negative_ttl, or not at all.
Load(o, found) ==
  LET r == resolve_ttl(o)
      f == freshness(r.ttl, resolve_stale(o))
      u == fresh_until_millis(now, f.fresh_for) IN
  /\ conf.strategy = "aside"
  /\ IF r.error /= None THEN Fails(r.error)
     ELSE IF f.error /= None THEN Fails(f.error)
     ELSE IF ~found /\ conf.negative = 0 THEN Fails("NotFound")
     ELSE IF ~found THEN Wrote(pack_void(conf.negative), o)
     ELSE IF u.error /= None THEN Fails(u.error)
     ELSE Wrote(pack_value(u.ms, f.hard_ttl), o)

Read ==
  /\ UNCHANGED <<entry, promise>>
  /\ Answered(IF Live(entry) THEN unpack(entry) ELSE [kind |-> "missing"])

Ttl ==
  /\ conf.strategy /= "aside"
  /\ UNCHANGED <<entry, promise>>
  /\ Answered(IF ~Live(entry) THEN [kind |-> "missing"]
              ELSE [kind |-> "ttl", left |-> IF entry.until = None THEN 0 ELSE entry.until - now])

Delete ==
  /\ entry' = None
  /\ promise' = None
  /\ Answered([kind |-> "deleted"])

Next ==
  \/ Pass
  \/ \E o \in Built : \/ VolatileSet(o) \/ Create(o) \/ Update(o)
                     \/ \E found \in BOOLEAN : Load(o, found)
  \/ \E d \in Ttls : Touch(d)
  \/ Read \/ Ttl \/ Delete

Spec == Init /\ [][Next]_expVars

-----------------------------------------------------------------------------
(* Properties. *)

Ended(p) == p.life /= 0 /\ now >= p.at + p.life + p.window

\* A read finds an entry for exactly the life its write was promised, the ttl
\* and the stale window after it, at any width of the arithmetic (freshness).
ServedForItsLife ==
  answer.kind \in {"missing", "value", "void", "ttl"} =>
    ((answer.kind = "missing") <=> (promise = None \/ Ended(promise)))

\* A value is called stale only in its window, after its ttl, and never called
\* fresh a whole millisecond past it (fresh_until_millis, unpack).
FreshMeansFresh ==
  answer.kind = "value" =>
    IF answer.stale
    THEN promise.window /= 0 /\ now > promise.at + promise.life
    ELSE promise.life = 0 \/ now < promise.at + promise.life + TicksPerMs

\* ttl reports what is left of that life, and zero only if it has no end.
TtlIsWhatIsLeft ==
  answer.kind = "ttl" =>
    answer.left = IF promise.life = 0 THEN 0 ELSE promise.at + promise.life - now

\* With require_ttl an entry without an end is one whose caller asked for it.
PermanentOnlyIfAsked ==
  conf.require /\ entry /= None /\ entry.until = None =>
    promise.endless

\* The lifetimes of an entry, together.
LifetimesKept ==
  ServedForItsLife /\ FreshMeansFresh /\ TtlIsWhatIsLeft /\ PermanentOnlyIfAsked
=============================================================================
