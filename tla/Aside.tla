------------------------------- MODULE Aside --------------------------------
(***************************************************************************)
(* The read-through strategy over a shared backend, for one ID:            *)
(* cache/src/strategies/aside.rs with the promises of core/aside.rs and    *)
(* core/fenced.rs.                                                         *)
(*                                                                         *)
(* Processes share the backend: the entry key, the ownership key (lock)    *)
(* and the source the Loader reads.  Within a process Flight collapses     *)
(* loads, so a process has at most one load, which every caller of that    *)
(* process joins; that is what SingleFlight promises and Flight is shown   *)
(* to implement.  Each driver call is one step, because a driver call is   *)
(* an await: other processes run between the read of an entry, the claim,  *)
(* the Loader, the write and the release.                                  *)
(*                                                                         *)
(* The source holds versions; version 0 is a value that does not exist.    *)
(***************************************************************************)
EXTENDS Integers, FiniteSets

CONSTANTS
  Procs,        \* processes sharing the backend
  Callers,      \* concurrent calls of get_or_load and refresh
  Home,         \* Home[c]: the process of caller c
  Tokens,       \* names for the random ownership tokens
  MaxVersion,   \* bound on the source's versions
  Fenced,       \* the processes whose wiring has the Fenced capability
  Failures,     \* whether driver calls fail and processes crash
  None

ASSUME AsideAssumption ==
  /\ Home \in [Callers -> Procs]
  /\ MaxVersion \in Nat
  /\ Fenced \subseteq Procs /\ Failures \in BOOLEAN
  /\ None \notin Tokens

VARIABLES
  source,       \* the version the Loader reads
  entry,        \* the entry key: [kind, ver]
  lock,         \* the ownership key: the token it holds, or None
  load,         \* load[p]: the process's load of the ID; its `lapsed` records
                \* that the lease of its token ran out (history)
  detached,     \* <<p, token>>: releases spawned by Drop for FencedClaim
  call,         \* call[c]: the caller's operation and its last answer
  floor         \* the source's version when it was last invalidated (history)

vars == <<source, entry, lock, load, detached, call, floor>>

Gone == [kind |-> "gone", ver |-> 0]
Void == [kind |-> "void", ver |-> 0]
Value(v, kind) == [kind |-> kind, ver |-> v]

\* A load yields the version it read (0 is NotFound), or an error.
Failed == -1

NoLoad == [at |-> "none", token |-> None, lapsed |-> FALSE, result |-> Failed]
IdleCall == [at |-> "idle", op |-> "none", since |-> 0, answer |-> Failed]

Init ==
  /\ source = 0
  /\ entry = Gone
  /\ lock = None
  /\ load = [p \in Procs |-> NoLoad]
  /\ detached = {}
  /\ call = [c \in Callers |-> IdleCall]
  /\ floor = 0

-----------------------------------------------------------------------------
(* The source, the clock and the backend's expiry *)

\* The authority changes; the cache is not told.
UpdateSource ==
  /\ source < MaxVersion
  /\ source' = source + 1
  /\ UNCHANGED <<entry, lock, load, detached, call, floor>>

\* unpack: a value whose fresh deadline passed reads as stale.
TurnStale ==
  /\ entry.kind = "fresh"
  /\ entry' = Value(entry.ver, "stale")
  /\ UNCHANGED <<source, lock, load, detached, call, floor>>

\* The hard expiry, or the negative lease, of the entry passes.
ExpireEntry ==
  /\ entry # Gone
  /\ entry' = Gone
  /\ UNCHANGED <<source, lock, load, detached, call, floor>>

\* LOCK_LEASE passes.
ExpireLock ==
  /\ lock # None
  /\ lock' = None
  /\ load' = [p \in Procs |-> IF load[p].token = lock
                               THEN [load[p] EXCEPT !.lapsed = TRUE] ELSE load[p]]
  /\ UNCHANGED <<source, entry, detached, call, floor>>

-----------------------------------------------------------------------------
(* Callers *)

Waiters(p) == {c \in Callers : Home[c] = p /\ call[c].at = "wait"}

\* Mutant: the result reaches one of the callers that joined.
DeliverOnce(p, r) ==
  call' = [c \in Callers |->
             IF Waiters(p) # {} /\ c = CHOOSE d \in Waiters(p) : TRUE
               THEN [call[c] EXCEPT !.at = "idle", !.answer = r] ELSE call[c]]

\* flight.run returns the load's result to everybody who joined it.
Deliver(p, r) ==
  call' = [c \in Callers |->
             IF c \in Waiters(p) THEN [call[c] EXCEPT !.at = "idle", !.answer = r]
                                 ELSE call[c]]

\* load_through_flight: join the process's load, or start one.
Joined(p) ==
  IF load[p].at = "none" THEN [load EXCEPT ![p] = [NoLoad EXCEPT !.at = "claim"]]
                         ELSE load

GetBegin(c) ==
  /\ call[c].at = "idle"
  /\ call' = [call EXCEPT ![c] = [at |-> "read", op |-> "get", since |-> floor,
                                  answer |-> Failed]]
  /\ UNCHANGED <<source, entry, lock, load, detached, floor>>

\* get_or_load, a hit: the entry answers.  A stale one may start a background
\* refresh (Database.tla has its admission), which goes through the flight.
GetHit(c) ==
  /\ call[c].at = "read"
  /\ entry # Gone
  /\ call' = [call EXCEPT ![c].at = "idle", ![c].answer = entry.ver]
  /\ \/ UNCHANGED load
     \/ entry.kind = "stale" /\ load' = Joined(Home[c])
  /\ UNCHANGED <<source, entry, lock, detached, floor>>

\* get_or_load, a miss: the read is over, the flight's lock comes next.
GetMiss(c) ==
  /\ call[c].at = "read"
  /\ entry = Gone
  /\ call' = [call EXCEPT ![c].at = "missed"]
  /\ UNCHANGED <<source, entry, lock, load, detached, floor>>

\* driver.get fails: the error is the caller's.
GetFails(c) ==
  /\ Failures
  /\ call[c].at = "read"
  /\ call' = [call EXCEPT ![c].at = "idle"]
  /\ UNCHANGED <<source, entry, lock, load, detached, floor>>

JoinFlight(c) ==
  /\ call[c].at = "missed"
  /\ call' = [call EXCEPT ![c].at = "wait"]
  /\ load' = Joined(Home[c])
  /\ UNCHANGED <<source, entry, lock, detached, floor>>

\* refresh does not read first.
Refresh(c) ==
  /\ call[c].at = "idle"
  /\ call' = [call EXCEPT ![c] = [at |-> "wait", op |-> "refresh", since |-> floor,
                                  answer |-> Failed]]
  /\ load' = Joined(Home[c])
  /\ UNCHANGED <<source, entry, lock, detached, floor>>

\* invalidate: one driver delete.  A failing one may have deleted or not, and
\* promises nothing.
Invalidate ==
  /\ entry' = Gone
  /\ floor' = source
  /\ UNCHANGED <<source, lock, load, detached, call>>

-----------------------------------------------------------------------------
(* load_and_store, the work of a flight *)

\* A token nobody remembers: Uuid::new_v4.
FreshToken(k) ==
  /\ k # lock
  /\ \A p \in Procs : load[p].token # k /\ <<p, k>> \notin detached

\* No Fenced capability: go straight to the Loader.
ClaimUnfenced(p) ==
  /\ p \notin Fenced
  /\ load[p].at = "claim"
  /\ load' = [load EXCEPT ![p].at = "loader"]
  /\ UNCHANGED <<source, entry, lock, detached, call, floor>>

\* driver.add wrote the token: this process owns the load.
ClaimOwned(p, k) ==
  /\ p \in Fenced
  /\ load[p].at = "claim"
  /\ lock = None /\ FreshToken(k)
  /\ lock' = k
  /\ load' = [load EXCEPT ![p].at = "loader", ![p].token = k]
  /\ UNCHANGED <<source, entry, detached, call, floor>>

\* driver.add found an owner.
ClaimLost(p) ==
  /\ p \in Fenced
  /\ load[p].at = "claim"
  /\ lock # None
  /\ load' = [load EXCEPT ![p].at = "lost"]
  /\ UNCHANGED <<source, entry, lock, detached, call, floor>>

\* driver.add failed.  It may have taken effect: then the token is in the
\* backend and nobody knows that it is ours.
ClaimFails(p, k) ==
  /\ p \in Fenced /\ Failures
  /\ load[p].at = "claim"
  /\ \/ UNCHANGED lock
     \/ lock = None /\ FreshToken(k) /\ lock' = k
  /\ load' = [load EXCEPT ![p].at = "lost"]
  /\ UNCHANGED <<source, entry, detached, call, floor>>

\* The one read after a lost claim found what the owner published.
TakePublished(p) ==
  /\ load[p].at = "lost"
  /\ entry # Gone
  /\ load' = [load EXCEPT ![p] = NoLoad]
  /\ Deliver(p, entry.ver)
  /\ UNCHANGED <<source, entry, lock, detached, floor>>

\* It found nothing, or failed: load without waiting and without owning.
LoadUnclaimed(p) ==
  /\ load[p].at = "lost"
  /\ entry = Gone \/ Failures
  /\ load' = [load EXCEPT ![p].at = "loader"]
  /\ UNCHANGED <<source, entry, lock, detached, call, floor>>

\* The Loader returns what the source held.
RunLoader(p) ==
  /\ load[p].at = "loader"
  /\ load' = [load EXCEPT ![p].at = "store",
                          ![p].result = source]
  /\ UNCHANGED <<source, entry, lock, detached, call, floor>>

\* Mutant: the error is stored like a value.
LoaderFailsStores(p) ==
  /\ load[p].at = "loader"
  /\ load' = [load EXCEPT ![p].at = "store"]
  /\ UNCHANGED <<source, entry, lock, detached, call, floor>>

\* The Loader, or the framing of its value, fails: nothing is stored.
LoaderFails(p) ==
  /\ load[p].at = "loader"
  /\ load' = [load EXCEPT ![p].at = "release"]
  /\ UNCHANGED <<source, entry, lock, detached, call, floor>>

\* driver.set of the value or of the void marker.
Store(p) ==
  /\ load[p].at = "store"
  /\ entry' = IF load[p].result = 0 THEN Void ELSE Value(load[p].result, "fresh")
  /\ load' = [load EXCEPT ![p].at = "release"]
  /\ UNCHANGED <<source, lock, detached, call, floor>>

\* driver.set fails: a value's load fails with it, an absence stands.
StoreFails(p) ==
  /\ Failures
  /\ load[p].at = "store"
  /\ load' = [load EXCEPT ![p].at = "release",
                          ![p].result = IF @ = 0 THEN @ ELSE Failed]
  /\ UNCHANGED <<source, entry, lock, detached, call, floor>>

\* Mutant: release is a plain delete of the lock key.
DeleteLock(k) == lock' = IF k = None THEN lock ELSE None

\* delete_if(key, token)
DeleteIf(k) == lock' = IF k # None /\ lock = k THEN None ELSE lock

\* owned.release().await, whose own failure is suppressed; then the flight
\* publishes the result.  An unclaimed load has nothing to release.
ReleaseAndReturn(p) ==
  /\ load[p].at = "release"
  /\ DeleteIf(load[p].token) \/ (Failures /\ UNCHANGED lock)
  /\ load' = [load EXCEPT ![p] = NoLoad]
  /\ Deliver(p, load[p].result)
  /\ UNCHANGED <<source, entry, detached, floor>>

\* Mutant: dropping a FencedClaim does not schedule its release.
DropSilently(p) == UNCHANGED detached

\* Drop for FencedClaim
DropClaim(p) ==
  detached' = IF load[p].token = None THEN detached
                                      ELSE detached \cup {<<p, load[p].token>>}

\* Mutant: the callers of a load that timed out are not told.
TimeoutSilent(p) ==
  /\ load[p].at # "none"
  /\ DropClaim(p)
  /\ load' = [load EXCEPT ![p] = NoLoad]
  /\ UNCHANGED <<source, entry, lock, call, floor>>

\* FLIGHT_TIMEOUT drops the work at any of its awaits.
Timeout(p) ==
  /\ load[p].at # "none"
  /\ DropClaim(p)
  /\ load' = [load EXCEPT ![p] = NoLoad]
  /\ Deliver(p, Failed)
  /\ UNCHANGED <<source, entry, lock, floor>>

\* The task a dropped claim spawned.
ReleaseDetached(p, k) ==
  /\ <<p, k>> \in detached
  /\ detached' = detached \ {<<p, k>>}
  /\ DeleteIf(k) \/ (Failures /\ UNCHANGED lock)
  /\ UNCHANGED <<source, entry, load, call, floor>>

\* A process dies with its load, its callers and its spawned releases.
Crash(p) ==
  /\ Failures
  /\ load[p].at # "none" \/ \E k \in Tokens : <<p, k>> \in detached
  /\ load' = [load EXCEPT ![p] = NoLoad]
  /\ detached' = {d \in detached : d[1] # p}
  /\ call' = [c \in Callers |-> IF Home[c] = p THEN IdleCall ELSE call[c]]
  /\ UNCHANGED <<source, entry, lock, floor>>

-----------------------------------------------------------------------------
Claim(p) ==
  \/ ClaimUnfenced(p) \/ ClaimLost(p)
  \/ \E k \in Tokens : ClaimOwned(p, k) \/ ClaimFails(p, k)

LoadStep(p) ==
  \/ Claim(p) \/ TakePublished(p) \/ LoadUnclaimed(p)
  \/ RunLoader(p) \/ LoaderFails(p) \/ Store(p) \/ StoreFails(p)
  \/ ReleaseAndReturn(p)

ReadStep(c) == GetHit(c) \/ GetMiss(c) \/ GetFails(c) \/ JoinFlight(c)

Environment == UpdateSource \/ TurnStale \/ ExpireEntry \/ ExpireLock

Next ==
  \/ Environment
  \/ \E c \in Callers : GetBegin(c) \/ Refresh(c) \/ ReadStep(c)
  \/ Invalidate
  \/ \E p \in Procs : LoadStep(p) \/ Timeout(p) \/ Crash(p)
  \/ \E p \in Procs, k \in Tokens : ReleaseDetached(p, k)

Spec == Init /\ [][Next]_vars

\* A load goes on or FLIGHT_TIMEOUT ends it; a spawned release is run; a caller
\* is polled until its read is over.  Leases need not run out.
Fairness ==
  /\ \A p \in Procs : WF_vars(LoadStep(p) \/ Timeout(p))
  /\ \A p \in Procs, k \in Tokens : WF_vars(ReleaseDetached(p, k))
  /\ \A c \in Callers : WF_vars(ReadStep(c))

FairSpec == Spec /\ Fairness

-----------------------------------------------------------------------------
(* Properties *)

Versions == 0 .. MaxVersion
Results == Versions \cup {Failed}

TypeOK ==
  /\ source \in Versions /\ floor \in Versions
  /\ entry \in [kind : {"gone", "void", "fresh", "stale"}, ver : Versions]
  /\ lock \in Tokens \cup {None}
  /\ load \in [Procs -> [at : {"none", "claim", "lost", "loader", "store", "release"},
                         token : Tokens \cup {None}, lapsed : BOOLEAN,
                         result : Results]]
  /\ detached \subseteq Procs \X Tokens
  /\ call \in [Callers -> [at : {"idle", "read", "missed", "wait"},
                           op : {"none", "get", "refresh"},
                           since : Versions, answer : Results]]

\* Ownership ends by its own release or by its lease and in no other way: a
\* load whose lease has not run out still holds the lock.  A late release, by
\* an owner whose lease ran out or by a task spawned long ago, never takes the
\* lock from its successor, so two owned loads overlap only after a lease.
OwnershipHolds ==
  \A p \in Procs :
    load[p].token # None /\ ~load[p].lapsed => lock = load[p].token

\* A caller waits only while its process has a load that will answer it.
WaitersHaveLoad == \A c \in Callers : call[c].at = "wait" => load[Home[c]].at # "none"

\* When nothing fails, a claim is given back without waiting for its lease,
\* even when the flight's timeout drops the load between claim and release.
ClaimReturned == \A k \in Tokens : lock = k ~> lock # k

\* Every call is answered.
CallsReturn == \A c \in Callers : call[c].at # "idle" ~> call[c].at = "idle"

\* "The next read must load again.  Deleting a remembered absence makes a
\* newly created source value visible immediately": a read that begins after
\* an invalidation sees the source at least as of that invalidation.
InvalidateTakesEffect ==
  \A c \in Callers :
    call[c].at = "idle" /\ call[c].op = "get" /\ call[c].answer # Failed
      => call[c].answer >= call[c].since
=============================================================================
