----------------------------- MODULE AsideProofs ----------------------------
(***************************************************************************)
(* Proofs about Aside, for any processes, callers, tokens and versions,    *)
(* with and without the Fenced capability, failures and crashes; about the *)
(* lifetimes of Expiry, the connections of Connect and the key spaces of   *)
(* Provider, and so about what the run of MCAside checks.                  *)
(***************************************************************************)
EXTENDS MCAside, FiniteSetTheorems, SequenceTheorems, TLAPS

-----------------------------------------------------------------------------
(* Types *)

LoadType == [at : {"none", "claim", "lost", "loader", "store", "release"},
             token : Tokens \cup {None}, lapsed : BOOLEAN, result : Results]
CallType == [at : {"idle", "read", "missed", "wait"}, op : {"none", "get", "refresh"},
             since : Versions, answer : Results]
EntryType == [kind : {"gone", "void", "fresh", "stale"}, ver : Versions]

\* Only a version is stored, never an error.
StoresVersion == \A p \in Procs : load[p].at = "store" => load[p].result \in Versions

LEMMA Constants ==
  /\ 0 \in Versions /\ Versions \subseteq Results /\ Failed \in Results
  /\ Gone \in EntryType /\ Void \in EntryType
  /\ \A v \in Versions : Value(v, "fresh") \in EntryType /\ Value(v, "stale") \in EntryType
  /\ NoLoad \in LoadType /\ IdleCall \in CallType
BY AsideAssumption DEF Versions, Results, Failed, Gone, Void, Value, EntryType, NoLoad,
                       LoadType, IdleCall, CallType

LEMMA NoLoadShape ==
  /\ NoLoad.at = "none" /\ NoLoad.token = None /\ NoLoad.lapsed = FALSE
  /\ [NoLoad EXCEPT !.at = "claim"].at = "claim"
  /\ [NoLoad EXCEPT !.at = "claim"].token = None
  /\ [NoLoad EXCEPT !.at = "claim"] \in LoadType
BY Constants DEF NoLoad, LoadType

\* TypeOK, by the names of its parts.
TypeParts ==
  /\ source \in Versions /\ floor \in Versions
  /\ entry \in EntryType
  /\ lock \in Tokens \cup {None}
  /\ load \in [Procs -> LoadType]
  /\ detached \subseteq Procs \X Tokens
  /\ call \in [Callers -> CallType]

LEMMA PartsAreType == TypeParts <=> TypeOK
BY DEF TypeParts, TypeOK, EntryType, LoadType, CallType

\* Deliver and the joining of a flight keep the types.
LEMMA DeliverType ==
  ASSUME call \in [Callers -> CallType], NEW p, NEW r \in Results, Deliver(p, r)
  PROVE  call' \in [Callers -> CallType]
BY DEF Deliver, CallType

LEMMA JoinedType ==
  ASSUME load \in [Procs -> LoadType], NEW p \in Procs
  PROVE  /\ Joined(p) \in [Procs -> LoadType]
         /\ \A q \in Procs : q # p => Joined(p)[q] = load[q]
         /\ load[p].at # "none" => Joined(p)[p] = load[p]
         /\ load[p].at = "none" => Joined(p)[p] = [NoLoad EXCEPT !.at = "claim"]
BY NoLoadShape DEF Joined

Inv == TypeParts /\ StoresVersion

LEMMA InitInv == Init => Inv
BY Constants, NoLoadShape DEF Init, Inv, TypeParts, StoresVersion

LEMMA EnvironmentType == ASSUME Inv, Environment PROVE Inv'
<1> USE Constants DEF Inv, TypeParts, StoresVersion
<1>1. CASE UpdateSource
  BY <1>1, AsideAssumption DEF UpdateSource, Versions
<1>2. CASE TurnStale
  BY <1>2 DEF TurnStale, EntryType
<1>3. CASE ExpireEntry
  BY <1>3 DEF ExpireEntry
<1>4. CASE ExpireLock
  <2>1. load' \in [Procs -> LoadType]
    BY <1>4 DEF ExpireLock, LoadType
  <2>2. \A p \in Procs : load'[p].at = load[p].at /\ load'[p].result = load[p].result
    BY <1>4 DEF ExpireLock, LoadType
  <2> QED
    BY <1>4, <2>1, <2>2 DEF ExpireLock
<1> QED
  BY <1>1, <1>2, <1>3, <1>4 DEF Environment

LEMMA CallerType ==
  ASSUME Inv, NEW c \in Callers, GetBegin(c) \/ Refresh(c) \/ ReadStep(c) PROVE Inv'
<1>0. Home[c] \in Procs
  BY AsideAssumption
<1>1. load' = load \/ load' = Joined(Home[c])
  <2>1. CASE GetBegin(c) \/ GetMiss(c) \/ GetFails(c)
    BY <2>1 DEF GetBegin, GetMiss, GetFails
  <2>2. CASE Refresh(c) \/ JoinFlight(c) \/ GetHit(c)
    BY <2>2 DEF Refresh, JoinFlight, GetHit
  <2> QED
    BY <2>1, <2>2 DEF ReadStep
<1> USE Constants DEF Inv, TypeParts
<1>2. load' \in [Procs -> LoadType] /\ StoresVersion'
  <2>1. CASE load' = load
    BY <2>1 DEF StoresVersion
  <2>2. CASE load' = Joined(Home[c])
    <3>1. load' \in [Procs -> LoadType]
      BY <1>0, <2>2, JoinedType
    <3>2. ASSUME NEW q \in Procs PROVE load'[q] = load[q] \/ load'[q].at = "claim"
      BY <1>0, <2>2, JoinedType, NoLoadShape
    <3> QED
      BY <3>1, <3>2 DEF StoresVersion
  <2> QED
    BY <1>1, <2>1, <2>2
<1>3. CASE GetBegin(c)
  BY <1>2, <1>3 DEF GetBegin, CallType
<1>4. CASE Refresh(c)
  BY <1>2, <1>4 DEF Refresh, CallType
<1>5. CASE GetHit(c)
  <2>1. entry.ver \in Results
    BY DEF EntryType
  <2> QED
    BY <1>2, <1>5, <2>1 DEF GetHit, CallType
<1>6. CASE GetMiss(c) \/ GetFails(c) \/ JoinFlight(c)
  BY <1>2, <1>6 DEF GetMiss, GetFails, JoinFlight, CallType
<1> QED
  BY <1>3, <1>4, <1>5, <1>6 DEF ReadStep

LEMMA ClaimType == ASSUME Inv, NEW p \in Procs, Claim(p) PROVE Inv'
<1> USE Constants DEF Inv, TypeParts, StoresVersion, LoadType
<1>1. CASE ClaimUnfenced(p) \/ ClaimLost(p)
  BY <1>1 DEF ClaimUnfenced, ClaimLost
<1>2. ASSUME NEW k \in Tokens, ClaimOwned(p, k) PROVE Inv'
  BY <1>2 DEF ClaimOwned
<1>3. ASSUME NEW k \in Tokens, ClaimFails(p, k) PROVE Inv'
  BY <1>3 DEF ClaimFails
<1> QED
  BY <1>1, <1>2, <1>3 DEF Claim

LEMMA LoadStepType ==
  ASSUME Inv, NEW p \in Procs, LoadStep(p) \/ Timeout(p) \/ Crash(p) PROVE Inv'
<1> USE Constants DEF Inv, TypeParts, StoresVersion
<1>1. CASE TakePublished(p)
  <2>1. entry.ver \in Results
    BY DEF EntryType
  <2>2. call' \in [Callers -> CallType]
    BY <1>1, <2>1, DeliverType DEF TakePublished
  <2> QED
    BY <1>1, <2>2, NoLoadShape DEF TakePublished
<1>2. CASE LoadUnclaimed(p) \/ RunLoader(p) \/ LoaderFails(p)
  BY <1>2 DEF LoadUnclaimed, RunLoader, LoaderFails, LoadType
<1>3. CASE Store(p)
  BY <1>3 DEF Store, LoadType
<1>4. CASE StoreFails(p)
  BY <1>4 DEF StoreFails, LoadType
<1>5. CASE ReleaseAndReturn(p)
  <2>1. load[p].result \in Results
    BY DEF LoadType
  <2>2. call' \in [Callers -> CallType]
    BY <1>5, <2>1, DeliverType DEF ReleaseAndReturn
  <2> QED
    BY <1>5, <2>2, NoLoadShape DEF ReleaseAndReturn, DeleteIf
<1>6. CASE Timeout(p)
  <2>1. call' \in [Callers -> CallType]
    BY <1>6, DeliverType DEF Timeout
  <2>2. load[p].token \in Tokens \cup {None}
    BY DEF LoadType
  <2> QED
    BY <1>6, <2>1, <2>2, NoLoadShape DEF Timeout, DropClaim
<1>7. CASE Crash(p)
  BY <1>7, NoLoadShape DEF Crash
<1> QED
  BY <1>1, <1>2, <1>3, <1>4, <1>5, <1>6, <1>7, ClaimType DEF LoadStep

LEMMA InvStep == ASSUME Inv, [Next]_vars PROVE Inv'
<1> USE Constants DEF Inv, TypeParts, StoresVersion
<1>1. CASE Invalidate
  BY <1>1 DEF Invalidate
<1>2. ASSUME NEW p \in Procs, NEW k \in Tokens, ReleaseDetached(p, k) PROVE Inv'
  BY <1>2 DEF ReleaseDetached, DeleteIf
<1>3. CASE UNCHANGED vars
  BY <1>3 DEF vars
<1> QED
  BY <1>1, <1>2, <1>3, EnvironmentType, CallerType, LoadStepType DEF Next

-----------------------------------------------------------------------------
(* Ownership.  OwnershipHolds is not inductive: a release by token is       *)
(* harmless only because no two parties remember one token.                *)

\* No two loads remember one token.
TokensApart ==
  \A p, q \in Procs : load[p].token # None /\ load[p].token = load[q].token => p = q

\* A release that a dropped claim left behind has a token of no load.
DetachedApart ==
  \A p, q \in Procs, k \in Tokens : <<q, k>> \in detached => load[p].token # k

OwnInv == OwnershipHolds /\ TokensApart /\ DetachedApart

\* Steps that at most forget tokens: the lock stays and loads only go on, end
\* or begin without a token.
Fades ==
  /\ lock' = lock /\ detached' \subseteq detached
  /\ \A p \in Procs : \/ load'[p].token = None
                      \/ /\ load'[p].token = load[p].token
                         /\ load'[p].lapsed = load[p].lapsed

LEMMA FadesKeeps == ASSUME OwnInv, Fades PROVE OwnInv'
<1> USE DEF OwnInv, Fades
<1>1. OwnershipHolds'
  BY DEF OwnershipHolds
<1>2. TokensApart' /\ DetachedApart'
  BY AsideAssumption DEF TokensApart, DetachedApart
<1> QED
  BY <1>1, <1>2

LEMMA CallerFades ==
  ASSUME Inv, NEW c \in Callers, GetBegin(c) \/ Refresh(c) \/ ReadStep(c) PROVE Fades
<1>0. Home[c] \in Procs /\ load \in [Procs -> LoadType]
  BY AsideAssumption DEF Inv, TypeParts
<1>1. (load' = load \/ load' = Joined(Home[c])) /\ lock' = lock /\ detached' = detached
  <2>1. CASE GetBegin(c) \/ GetMiss(c) \/ GetFails(c)
    BY <2>1 DEF GetBegin, GetMiss, GetFails
  <2>2. CASE Refresh(c) \/ JoinFlight(c) \/ GetHit(c)
    BY <2>2 DEF Refresh, JoinFlight, GetHit
  <2> QED
    BY <2>1, <2>2 DEF ReadStep
<1>2. CASE load' = load
  BY <1>1, <1>2 DEF Fades
<1>3. CASE load' = Joined(Home[c])
  <2>1. ASSUME NEW q \in Procs PROVE load'[q] = load[q] \/ load'[q].token = None
    BY <1>0, <1>3, JoinedType, NoLoadShape
  <2> QED
    BY <1>1, <2>1 DEF Fades
<1> QED
  BY <1>1, <1>2, <1>3

LEMMA LoadFades ==
  ASSUME Inv, NEW p \in Procs,
         \/ ClaimUnfenced(p) \/ ClaimLost(p) \/ TakePublished(p) \/ LoadUnclaimed(p)
         \/ RunLoader(p) \/ LoaderFails(p) \/ Store(p) \/ StoreFails(p) \/ Crash(p)
  PROVE  Fades
<1>0. load \in [Procs -> LoadType]
  BY DEF Inv, TypeParts
<1> USE <1>0 DEF Fades, LoadType
<1>1. CASE ClaimUnfenced(p) \/ ClaimLost(p) \/ LoadUnclaimed(p)
  BY <1>1 DEF ClaimUnfenced, ClaimLost, LoadUnclaimed
<1>2. CASE RunLoader(p) \/ LoaderFails(p)
  BY <1>2 DEF RunLoader, LoaderFails
<1>3. CASE Store(p) \/ StoreFails(p)
  BY <1>3 DEF Store, StoreFails
<1>4. CASE TakePublished(p) \/ Crash(p)
  BY <1>4, NoLoadShape DEF TakePublished, Crash
<1> QED
  BY <1>1, <1>2, <1>3, <1>4

LEMMA ExpireLockOwn == ASSUME Inv, OwnInv, ExpireLock PROVE OwnInv'
<1>0. load \in [Procs -> LoadType]
  BY DEF Inv, TypeParts
<1>1. lock' = None /\ detached' = detached
  BY DEF ExpireLock
<1>2. ASSUME NEW p \in Procs
      PROVE  /\ load'[p].token = load[p].token
             /\ load[p].token = lock => load'[p].lapsed = TRUE
             /\ load[p].token # lock => load'[p].lapsed = load[p].lapsed
  BY <1>0 DEF ExpireLock, LoadType
<1>3. OwnershipHolds'
  BY <1>2 DEF OwnInv, OwnershipHolds
<1>4. TokensApart' /\ DetachedApart'
  BY <1>1, <1>2 DEF OwnInv, TokensApart, DetachedApart
<1> QED
  BY <1>3, <1>4 DEF OwnInv

\* A claim is made on a free lock, so no load owns it, with a new token.
LEMMA ClaimOwn ==
  ASSUME Inv, OwnInv, NEW p \in Procs, NEW k \in Tokens, ClaimOwned(p, k) \/ ClaimFails(p, k)
  PROVE  OwnInv'
<1>0. load \in [Procs -> LoadType] /\ k # None
  BY AsideAssumption DEF Inv, TypeParts
<1>1. CASE ClaimOwned(p, k)
  <2>1. /\ lock = None /\ lock' = k /\ detached' = detached
        /\ \A q \in Procs : load[q].token # k /\ <<q, k>> \notin detached
    BY <1>1 DEF ClaimOwned, FreshToken
  <2>2. /\ load'[p].token = k
        /\ \A q \in Procs : q # p => load'[q] = load[q]
    BY <1>0, <1>1 DEF ClaimOwned, LoadType
  <2>3. OwnershipHolds'
    BY <2>1, <2>2 DEF OwnInv, OwnershipHolds
  <2>4. TokensApart'
    BY <2>1, <2>2 DEF OwnInv, TokensApart
  <2>5. DetachedApart'
    BY <2>1, <2>2 DEF OwnInv, DetachedApart
  <2> QED
    BY <2>3, <2>4, <2>5 DEF OwnInv
<1>2. CASE ClaimFails(p, k)
  <2>1. /\ lock' = lock \/ lock = None
        /\ detached' = detached
        /\ \A q \in Procs : load'[q].token = load[q].token /\ load'[q].lapsed = load[q].lapsed
    BY <1>0, <1>2 DEF ClaimFails, LoadType
  <2>2. OwnershipHolds'
    BY <2>1 DEF OwnInv, OwnershipHolds
  <2>3. TokensApart' /\ DetachedApart'
    BY <2>1 DEF OwnInv, TokensApart, DetachedApart
  <2> QED
    BY <2>2, <2>3 DEF OwnInv
<1> QED
  BY <1>1, <1>2

LEMMA ReleaseOwn == ASSUME Inv, OwnInv, NEW p \in Procs, ReleaseAndReturn(p) PROVE OwnInv'
<1>0. load \in [Procs -> LoadType]
  BY DEF Inv, TypeParts
<1>1. /\ lock' = lock \/ (lock = load[p].token /\ lock' = None)
      /\ detached' = detached /\ load' = [load EXCEPT ![p] = NoLoad]
  BY DEF ReleaseAndReturn, DeleteIf
<1>2. load'[p].token = None /\ \A q \in Procs : q # p => load'[q] = load[q]
  BY <1>0, <1>1, NoLoadShape
<1>3. OwnershipHolds'
  BY <1>1, <1>2 DEF OwnInv, OwnershipHolds, TokensApart
<1>4. TokensApart' /\ DetachedApart'
  BY <1>1, <1>2, AsideAssumption DEF OwnInv, TokensApart, DetachedApart
<1> QED
  BY <1>3, <1>4 DEF OwnInv

LEMMA TimeoutOwn == ASSUME Inv, OwnInv, NEW p \in Procs, Timeout(p) PROVE OwnInv'
<1>0. load \in [Procs -> LoadType]
  BY DEF Inv, TypeParts
<1>1. /\ lock' = lock /\ load' = [load EXCEPT ![p] = NoLoad]
      /\ \A d \in detached' : \/ d \in detached
                              \/ load[p].token # None /\ d = <<p, load[p].token>>
  BY DEF Timeout, DropClaim
<1>2. load'[p].token = None /\ \A q \in Procs : q # p => load'[q] = load[q]
  BY <1>0, <1>1, NoLoadShape
<1>3. OwnershipHolds' /\ TokensApart'
  BY <1>1, <1>2 DEF OwnInv, OwnershipHolds, TokensApart
<1>4. DetachedApart'
  <2> SUFFICES ASSUME NEW q \in Procs, NEW r \in Procs, NEW k \in Tokens,
                      <<r, k>> \in detached'
               PROVE  load'[q].token # k
    BY DEF DetachedApart
  <2>1. CASE q = p
    BY <1>2, <2>1, AsideAssumption
  <2>2. CASE q # p /\ <<r, k>> \in detached
    BY <1>2, <2>2 DEF OwnInv, DetachedApart
  <2>3. CASE q # p /\ load[p].token # None /\ k = load[p].token
    BY <1>2, <2>3 DEF OwnInv, TokensApart
  <2> QED
    BY <1>1, <2>1, <2>2, <2>3
<1> QED
  BY <1>3, <1>4 DEF OwnInv

LEMMA DetachedOwn ==
  ASSUME Inv, OwnInv, NEW p \in Procs, NEW k \in Tokens, ReleaseDetached(p, k)
  PROVE  OwnInv'
<1>1. /\ lock' = lock \/ lock = k
      /\ <<p, k>> \in detached /\ detached' \subseteq detached /\ load' = load
  BY DEF ReleaseDetached, DeleteIf
<1>2. \A q \in Procs : load[q].token # k
  BY <1>1 DEF OwnInv, DetachedApart
<1>3. OwnershipHolds'
  BY <1>1, <1>2 DEF OwnInv, OwnershipHolds
<1>4. TokensApart' /\ DetachedApart'
  BY <1>1 DEF OwnInv, TokensApart, DetachedApart
<1> QED
  BY <1>3, <1>4 DEF OwnInv

LEMMA OwnStep == ASSUME Inv, OwnInv, [Next]_vars PROVE OwnInv'
<1>1. CASE UpdateSource \/ TurnStale \/ ExpireEntry \/ Invalidate \/ UNCHANGED vars
  BY <1>1, FadesKeeps DEF UpdateSource, TurnStale, ExpireEntry, Invalidate, vars, Fades
<1>2. CASE ExpireLock
  BY <1>2, ExpireLockOwn
<1>3. ASSUME NEW c \in Callers, GetBegin(c) \/ Refresh(c) \/ ReadStep(c) PROVE OwnInv'
  BY <1>3, CallerFades, FadesKeeps
<1>4. ASSUME NEW p \in Procs, LoadStep(p) \/ Timeout(p) \/ Crash(p) PROVE OwnInv'
  BY <1>4, LoadFades, FadesKeeps, ClaimOwn, ReleaseOwn, TimeoutOwn DEF LoadStep, Claim
<1>5. ASSUME NEW p \in Procs, NEW k \in Tokens, ReleaseDetached(p, k) PROVE OwnInv'
  BY <1>5, DetachedOwn
<1> QED
  BY <1>1, <1>2, <1>3, <1>4, <1>5 DEF Next, Environment

-----------------------------------------------------------------------------
(* Waiting callers *)

\* Steps that begin no wait and end no load.
LEMMA CalmKeeps ==
  ASSUME WaitersHaveLoad,
         \A c \in Callers : call'[c].at = "wait" => call[c].at = "wait",
         \A p \in Procs : load'[p].at = "none" => load[p].at = "none"
  PROVE  WaitersHaveLoad'
BY AsideAssumption DEF WaitersHaveLoad

LEMMA DeliverEnds ==
  ASSUME Inv, WaitersHaveLoad, NEW p \in Procs, NEW r \in Results, Deliver(p, r),
         load' = [load EXCEPT ![p] = NoLoad]
  PROVE  WaitersHaveLoad'
<1>1. call \in [Callers -> CallType] /\ load \in [Procs -> LoadType]
  BY DEF Inv, TypeParts
<1>2. ASSUME NEW c \in Callers, call'[c].at = "wait"
      PROVE  call[c].at = "wait" /\ Home[c] # p
  BY <1>1, <1>2 DEF Deliver, Waiters, CallType
<1> QED
  BY <1>1, <1>2, AsideAssumption DEF WaitersHaveLoad

LEMMA WaitersStep == ASSUME Inv, WaitersHaveLoad, [Next]_vars PROVE WaitersHaveLoad'
<1>0. call \in [Callers -> CallType] /\ load \in [Procs -> LoadType]
  BY DEF Inv, TypeParts
<1>1. CASE UpdateSource \/ TurnStale \/ ExpireEntry \/ Invalidate \/ UNCHANGED vars
  BY <1>1 DEF UpdateSource, TurnStale, ExpireEntry, Invalidate, vars, WaitersHaveLoad
<1>2. CASE ExpireLock
  <2>1. call' = call /\ \A p \in Procs : load'[p].at = load[p].at
    BY <1>0, <1>2 DEF ExpireLock, LoadType
  <2> QED
    BY <2>1, CalmKeeps
<1>3. ASSUME NEW c \in Callers, GetBegin(c) \/ GetMiss(c) \/ GetFails(c)
      PROVE WaitersHaveLoad'
  <2>1. load' = load /\ call'[c].at # "wait" /\ \A d \in Callers : d # c => call'[d] = call[d]
    BY <1>0, <1>3 DEF GetBegin, GetMiss, GetFails, CallType
  <2> QED
    BY <2>1 DEF WaitersHaveLoad
<1>4. ASSUME NEW c \in Callers, Refresh(c) \/ JoinFlight(c) \/ GetHit(c)
      PROVE WaitersHaveLoad'
  <2>1. Home[c] \in Procs
    BY AsideAssumption
  <2>2. \A d \in Callers : d # c => call'[d] = call[d]
    BY <1>0, <1>4 DEF Refresh, JoinFlight, GetHit
  <2>3. \/ load' = Joined(Home[c])
        \/ load' = load /\ call'[c].at = "idle"
    BY <1>0, <1>4 DEF Refresh, JoinFlight, GetHit, CallType
  <2>4. CASE load' = Joined(Home[c])
    <3>1. load'[Home[c]].at # "none"
      BY <1>0, <2>1, <2>4, JoinedType, NoLoadShape
    <3>2. \A q \in Procs : q # Home[c] => load'[q] = load[q]
      BY <1>0, <2>1, <2>4, JoinedType
    <3> QED
      BY <2>2, <3>1, <3>2, AsideAssumption DEF WaitersHaveLoad
  <2>5. CASE load' = load /\ call'[c].at = "idle"
    BY <2>2, <2>5 DEF WaitersHaveLoad
  <2> QED
    BY <2>3, <2>4, <2>5
<1>5. ASSUME NEW p \in Procs,
             \/ Claim(p) \/ LoadUnclaimed(p)
             \/ RunLoader(p) \/ LoaderFails(p) \/ Store(p) \/ StoreFails(p)
      PROVE WaitersHaveLoad'
  <2>1. call' = call
    BY <1>5 DEF Claim, ClaimUnfenced, ClaimOwned, ClaimLost, ClaimFails, LoadUnclaimed,
                RunLoader, LoaderFails, Store, StoreFails
  <2>2. load'[p].at # "none" /\ \A q \in Procs : q # p => load'[q] = load[q]
    <3>1. CASE Claim(p)
      BY <1>0, <3>1 DEF Claim, ClaimUnfenced, ClaimOwned, ClaimLost, ClaimFails, LoadType
    <3>2. CASE LoadUnclaimed(p) \/ RunLoader(p) \/ LoaderFails(p)
      BY <1>0, <3>2 DEF LoadUnclaimed, RunLoader, LoaderFails, LoadType
    <3>3. CASE Store(p) \/ StoreFails(p)
      BY <1>0, <3>3 DEF Store, StoreFails, LoadType
    <3> QED
      BY <1>5, <3>1, <3>2, <3>3
  <2> QED
    BY <2>1, <2>2, AsideAssumption DEF WaitersHaveLoad
<1>6. ASSUME NEW p \in Procs, TakePublished(p) PROVE WaitersHaveLoad'
  <2>1. entry.ver \in Results
    BY Constants DEF Inv, TypeParts, EntryType
  <2> QED
    BY <1>6, <2>1, DeliverEnds DEF TakePublished
<1>7. ASSUME NEW p \in Procs, ReleaseAndReturn(p) PROVE WaitersHaveLoad'
  <2>1. load[p].result \in Results
    BY <1>0 DEF LoadType
  <2> QED
    BY <1>7, <2>1, DeliverEnds DEF ReleaseAndReturn
<1>8. ASSUME NEW p \in Procs, Timeout(p) PROVE WaitersHaveLoad'
  BY <1>8, Constants, DeliverEnds DEF Timeout
<1>9. ASSUME NEW p \in Procs, Crash(p) PROVE WaitersHaveLoad'
  <2>1. IdleCall.at = "idle"
    BY DEF IdleCall
  <2>2. ASSUME NEW c \in Callers, call'[c].at = "wait"
        PROVE  call[c].at = "wait" /\ Home[c] # p
    BY <1>9, <2>1, <2>2 DEF Crash
  <2>3. load' = [load EXCEPT ![p] = NoLoad]
    BY <1>9 DEF Crash
  <2> QED
    BY <1>0, <2>2, <2>3, AsideAssumption DEF WaitersHaveLoad
<1>10. ASSUME NEW p \in Procs, NEW k \in Tokens, ReleaseDetached(p, k)
       PROVE WaitersHaveLoad'
  BY <1>10 DEF ReleaseDetached, WaitersHaveLoad
<1> QED
  BY <1>1, <1>2, <1>3, <1>4, <1>5, <1>6, <1>7, <1>8, <1>9, <1>10
     DEF Next, Environment, ReadStep, LoadStep

-----------------------------------------------------------------------------
(* Theorems *)

LEMMA InitOwn == Init => OwnInv /\ WaitersHaveLoad
<1> SUFFICES ASSUME Init PROVE OwnInv /\ WaitersHaveLoad
  OBVIOUS
<1>1. OwnershipHolds /\ TokensApart /\ DetachedApart
  BY NoLoadShape DEF Init, OwnershipHolds, TokensApart, DetachedApart
<1>2. WaitersHaveLoad
  BY DEF Init, WaitersHaveLoad, IdleCall
<1> QED
  BY <1>1, <1>2 DEF OwnInv

LEMMA Inductive == Spec => [](Inv /\ OwnInv /\ WaitersHaveLoad)
<1>1. Init => Inv /\ OwnInv /\ WaitersHaveLoad
  BY InitInv, InitOwn
<1>2. Inv /\ OwnInv /\ WaitersHaveLoad /\ [Next]_vars
        => (Inv /\ OwnInv /\ WaitersHaveLoad)'
  BY InvStep, OwnStep, WaitersStep
<1> QED
  BY <1>1, <1>2, PTL DEF Spec

\* Every variable keeps its type; in particular an error is never stored.
THEOREM TypeCorrect == Spec => []TypeOK
<1>1. Inv => TypeOK
  BY PartsAreType DEF Inv
<1> QED
  BY <1>1, Inductive, PTL

\* A load owns the cross-process lock from its claim to its release or its
\* lease, however late the releases of others arrive.
THEOREM OwnershipIsKept == Spec => []OwnershipHolds
<1>1. OwnInv => OwnershipHolds
  BY DEF OwnInv
<1> QED
  BY <1>1, Inductive, PTL

\* A caller that joined a flight waits only while its process has a load.
THEOREM WaitersKeepLoad == Spec => []WaitersHaveLoad
BY Inductive, PTL

-----------------------------------------------------------------------------
(* The lifetimes of an entry (module Expiry), for any durations, defaults, *)
(* widths of the arithmetic and granularity of the clock.                  *)

Optional == Nat \cup {None}
Options == [ttl : Optional, stale : Optional, permanent : BOOLEAN]

TimeTypes ==
  /\ now \in Nat /\ now >= TicksPerMs
  /\ defaults \in [strategy : {"aside", "volatile", "document"}, ttl : Nat, stale : Nat,
               negative : Nat, require : BOOLEAN]
  /\ kept \in Ex!Entries \cup {None}
  /\ promise \in Ex!Promises \cup {None}

\* What entry e keeps of promise p: the hard deadline is the life and the window after
\* it, and the soft one, if there is one, is the end of the life in whole milliseconds.
Fits(e, p) ==
  /\ p.at >= TicksPerMs
  /\ e.until = IF p.life = 0 THEN None ELSE p.at + p.life + p.window
  /\ IF p.life = 0 \/ p.window = 0 THEN e.fresh = 0
     ELSE e.fresh = Ex!Millis(p.at + p.life)
  /\ defaults.require /\ e.until = None => p.endless
  /\ defaults.strategy # "aside" => p.window = 0

Kept ==
  /\ kept = None <=> promise = None
  /\ kept # None => promise.at <= now /\ Fits(kept, promise)

\* The answers are what the entry gives at this time.
Told == Ex!ServedForItsLife /\ Ex!FreshMeansFresh /\ Ex!TtlIsWhatIsLeft

TimeInv == TimeTypes /\ Kept /\ Told

LEMMA TheOptions ==
  ASSUME Ex!ExpiryAssumption
  PROVE  /\ Ex!Built \subseteq Options
         /\ \A d \in Ttls : Ex!with_ttl(Ex!DefaultOptions, d) \in Options
<1> DEFINE unset == {Ex!DefaultOptions, Ex!permanent(Ex!DefaultOptions)}
           timed == unset \cup {Ex!with_ttl(o, d) : o \in unset, d \in Ttls}
           staled == {Ex!with_stale(o, d) : o \in timed, d \in Ttls}
<1>1. unset \subseteq Options
  <2>1. Ex!DefaultOptions \in Options
    BY DEF Options, Optional, Ex!DefaultOptions
  <2>2. Ex!permanent(Ex!DefaultOptions) \in Options
    BY <2>1 DEF Options, Ex!permanent
  <2> QED
    BY <2>1, <2>2
<1>2. \A o \in Options : \A d \in Ttls :
        Ex!with_ttl(o, d) \in Options /\ Ex!with_stale(o, d) \in Options
  BY DEF Options, Optional, Ex!ExpiryAssumption, Ex!with_ttl, Ex!with_stale
<1> HIDE DEF unset
<1>3. timed \subseteq Options
  BY <1>1, <1>2
<1> HIDE DEF timed
<1>4. staled \subseteq Options
  BY <1>2, <1>3
<1> HIDE DEF staled
<1>5. Ex!Built \subseteq timed \cup staled
  BY DEF Ex!Built, timed, staled, unset
<1>6. Ex!DefaultOptions \in Options
  BY DEF Options, Optional, Ex!DefaultOptions
<1> QED
  BY <1>2, <1>3, <1>4, <1>5, <1>6

\* The soft deadline is not zero, and a clock past it by less than a tick reads the same.
LEMMA WholeMillis ==
  ASSUME Ex!ExpiryAssumption
  PROVE  /\ \A t \in Nat : Ex!Millis(t) \in Nat
         /\ \A t \in Nat : t >= TicksPerMs => Ex!Millis(t) # 0
         /\ \A s, t \in Nat : Ex!Millis(s) > Ex!Millis(t) => s > t
         /\ \A s, t \in Nat : Ex!Millis(s) <= Ex!Millis(t) => s < t + TicksPerMs
<1> TicksPerMs \in Nat /\ TicksPerMs > 0
  BY DEF Ex!ExpiryAssumption
<1>1. \A t \in Nat : /\ Ex!Millis(t) \in Nat
                     /\ TicksPerMs * Ex!Millis(t) <= t
                     /\ t < TicksPerMs * Ex!Millis(t) + TicksPerMs
  BY Z3T(30) DEF Ex!Millis
<1> HIDE DEF Ex!Millis
<1>2. \A m, n \in Nat : m > n => TicksPerMs * m >= TicksPerMs * n + TicksPerMs
  BY Z3T(30)
<1>3. ASSUME NEW t \in Nat, t >= TicksPerMs PROVE Ex!Millis(t) # 0
  BY <1>1, <1>3
<1>4. ASSUME NEW s \in Nat, NEW t \in Nat, Ex!Millis(s) > Ex!Millis(t) PROVE s > t
  <2>1. TicksPerMs * Ex!Millis(s) >= TicksPerMs * Ex!Millis(t) + TicksPerMs
    BY <1>1, <1>2, <1>4
  <2> QED
    BY <1>1, <2>1
<1>5. ASSUME NEW s \in Nat, NEW t \in Nat, Ex!Millis(s) <= Ex!Millis(t)
      PROVE s < t + TicksPerMs
  <2>1. CASE Ex!Millis(s) = Ex!Millis(t)
    BY <1>1, <2>1
  <2>2. CASE Ex!Millis(t) > Ex!Millis(s)
    <3>1. TicksPerMs * Ex!Millis(t) >= TicksPerMs * Ex!Millis(s) + TicksPerMs
      BY <1>1, <1>2, <2>2
    <3> QED
      BY <1>1, <3>1
  <2> QED
    BY <1>1, <1>5, <2>1, <2>2
<1> QED
  BY <1>1, <1>3, <1>4, <1>5

\* A call that resolves a ttl was promised that life, and one without an end only on demand.
LEMMA ResolvedIsLife ==
  ASSUME Ex!ExpiryAssumption, TimeTypes, NEW o \in Options,
         Ex!resolve_ttl(o).error = None
  PROVE  /\ Ex!resolve_ttl(o).ttl \in Nat
         /\ Ex!resolve_ttl(o).ttl = Ex!Life(o, "value")
         /\ defaults.require /\ Ex!resolve_ttl(o).ttl = 0
              => (IF o.ttl = None THEN o.permanent ELSE o.ttl = 0)
<1>1. None # "NoTTL"
  BY DEF Ex!ExpiryAssumption
<1> QED
  BY <1>1 DEF TimeTypes, Options, Optional, Ex!resolve_ttl, Ex!Resolved, Ex!Refused,
              Ex!Life

\* The promise of a call that writes now.
Given(o, body) ==
  [at |-> now, life |-> Ex!Life(o, body), window |-> Ex!Window(o, body),
   endless |-> IF o.ttl = None THEN o.permanent ELSE o.ttl = 0]

LEMMA GivenType ==
  ASSUME TimeTypes, NEW o \in Options, NEW body
  PROVE  Given(o, body) \in Ex!Promises
<1>1. Ex!Life(o, body) \in Nat
  BY DEF TimeTypes, Options, Optional, Ex!Life
<1>2. Ex!Window(o, body) \in Nat
  BY DEF TimeTypes, Options, Optional, Ex!Window
<1>3. (IF o.ttl = None THEN o.permanent ELSE o.ttl = 0) \in BOOLEAN
  BY DEF Options
<1>4. now \in Nat
  BY DEF TimeTypes
<1> QED
  BY <1>1, <1>2, <1>3, <1>4 DEF Given, Ex!Promises

LEMMA WroteKeeps ==
  ASSUME Ex!ExpiryAssumption, TimeTypes, NEW o \in Options, NEW e \in Ex!Entries,
         Ex!Wrote(e, o), Fits(e, Given(o, e.body))
  PROVE  TimeTypes' /\ Kept' /\ Told'
<1>1. /\ kept' = e /\ promise' = Given(o, e.body) /\ now' = now /\ defaults' = defaults
      /\ answer' = [kind |-> "written"]
  BY DEF Ex!Wrote, Ex!Answered, Given
<1>2. kept' # None /\ promise' # None /\ promise' \in Ex!Promises
  BY <1>1, GivenType DEF Ex!ExpiryAssumption
<1>3. TimeTypes'
  BY <1>1, <1>2 DEF TimeTypes
<1>4. promise'.at = now /\ now \in Nat
  BY <1>1 DEF Given, TimeTypes
<1>5. Kept'
  BY <1>1, <1>2, <1>4 DEF Kept, Fits
<1>6. answer'.kind = "written"
  BY <1>1
<1>7. Told'
  BY <1>6 DEF Told, Ex!ServedForItsLife, Ex!FreshMeansFresh, Ex!TtlIsWhatIsLeft
<1> QED
  BY <1>3, <1>5, <1>7

\* What set, create, update and touch store.
LEMMA PlainFits ==
  ASSUME Ex!ExpiryAssumption, TimeTypes, NEW o \in Options, NEW d \in Nat,
         defaults.strategy # "aside", d = Ex!Life(o, "value"),
         defaults.require /\ d = 0 => (IF o.ttl = None THEN o.permanent ELSE o.ttl = 0)
  PROVE  LET e == Ex!pack_value(0, d) IN
         e \in Ex!Entries /\ e.body = "value" /\ Fits(e, Given(o, "value"))
<1> DEFINE e == Ex!pack_value(0, d)
           g == Given(o, "value")
<1>1. /\ e.body = "value" /\ e.fresh = 0
      /\ e.until = IF d = 0 THEN None ELSE now + d
      /\ e \in Ex!Entries
  BY DEF TimeTypes, Ex!pack_value, Ex!Packed, Ex!Until, Ex!Entries
<1>2. /\ g.at = now /\ g.life = d /\ g.window = 0
  BY DEF Given, Ex!Window
<1>3. now \in Nat /\ now >= TicksPerMs /\ now + d # None
  BY DEF TimeTypes, Ex!ExpiryAssumption
<1>4. defaults.require /\ d = 0 => g.endless
  BY DEF Given
<1> HIDE DEF e, g
<1>5. e.until = IF g.life = 0 THEN None ELSE g.at + g.life + g.window
  BY <1>1, <1>2, <1>3
<1>6. defaults.require /\ e.until = None => g.endless
  BY <1>1, <1>3, <1>4
<1>7. Fits(e, g)
  BY <1>1, <1>2, <1>3, <1>5, <1>6 DEF Fits
<1> QED
  BY <1>1, <1>7 DEF e, g

\* set, create and update, when the ttl resolves.
LEMMA SetKeeps ==
  ASSUME Ex!ExpiryAssumption, TimeTypes, NEW o \in Options, defaults.strategy # "aside",
         Ex!resolve_ttl(o).error = None,
         Ex!Wrote(Ex!pack_value(0, Ex!resolve_ttl(o).ttl), o)
  PROVE  TimeTypes' /\ Kept' /\ Told'
<1> DEFINE d == Ex!resolve_ttl(o).ttl
           e == Ex!pack_value(0, d)
<1>1. /\ d \in Nat /\ d = Ex!Life(o, "value")
      /\ defaults.require /\ d = 0 => (IF o.ttl = None THEN o.permanent ELSE o.ttl = 0)
  BY ResolvedIsLife
<1> HIDE DEF d
<1>2. e \in Ex!Entries /\ e.body = "value" /\ Fits(e, Given(o, "value"))
  BY <1>1, PlainFits
<1>3. Ex!Wrote(e, o)
  BY DEF d
<1> HIDE DEF e
<1> QED
  BY <1>2, <1>3, WroteKeeps

\* A failed call, a read and the end of one leave entry and promise alone.
LEMMA FailsKeeps ==
  ASSUME TimeTypes, Kept, NEW why, Ex!Fails(why)
  PROVE  TimeTypes' /\ Kept' /\ Told'
<1>1. UNCHANGED <<now, defaults, kept, promise>> /\ answer'.kind = "error"
  BY DEF Ex!Fails, Ex!Answered
<1> QED
  BY <1>1 DEF TimeTypes, Kept, Fits, Ex!Millis, Ex!Entries, Ex!Promises,
              Told, Ex!ServedForItsLife, Ex!FreshMeansFresh, Ex!TtlIsWhatIsLeft

LEMMA TouchKeeps ==
  ASSUME Ex!ExpiryAssumption, TimeTypes, Kept, NEW d \in Ttls, Ex!Touch(d)
  PROVE  TimeTypes' /\ Kept' /\ Told'
<1> DEFINE o == Ex!with_ttl(Ex!DefaultOptions, d)
           e == Ex!pack_value(0, d)
<1>1. o \in Options /\ o.ttl = d /\ d \in Nat /\ d # None
  BY TheOptions DEF Ex!with_ttl, Ex!DefaultOptions, Ex!ExpiryAssumption
<1>2. defaults.strategy # "aside" /\ (Ex!Wrote(e, o) \/ Ex!Fails("NotFound"))
  BY DEF Ex!Touch
<1> HIDE DEF o
<1>3. d = Ex!Life(o, "value") /\ (IF o.ttl = None THEN o.permanent ELSE o.ttl = 0) = (d = 0)
  BY <1>1 DEF Ex!Life
<1>4. e \in Ex!Entries /\ e.body = "value" /\ Fits(e, Given(o, "value"))
  BY <1>1, <1>2, <1>3, PlainFits
<1> HIDE DEF e
<1>5. CASE Ex!Wrote(e, o)
  BY <1>1, <1>4, <1>5, WroteKeeps
<1> QED
  BY <1>2, <1>5, FailsKeeps

\* What a load stores: of a record that was found, its value under the two deadlines.
LEMMA FoundFits ==
  ASSUME Ex!ExpiryAssumption, TimeTypes, NEW o \in Options, defaults.strategy = "aside",
         Ex!resolve_ttl(o).error = None,
         NEW f, f = Ex!freshness(Ex!resolve_ttl(o).ttl, Ex!resolve_stale(o)),
         f.error = None,
         NEW u, u = Ex!fresh_until_millis(now, f.fresh_for), u.error = None
  PROVE  LET e == Ex!pack_value(u.ms, f.hard_ttl) IN
         e \in Ex!Entries /\ e.body = "value" /\ Fits(e, Given(o, "value"))
<1> DEFINE d == Ex!resolve_ttl(o).ttl
           s == Ex!resolve_stale(o)
           e == Ex!pack_value(u.ms, f.hard_ttl)
           g == Given(o, "value")
<1>1. /\ d \in Nat /\ d = Ex!Life(o, "value")
      /\ defaults.require /\ d = 0 => (IF o.ttl = None THEN o.permanent ELSE o.ttl = 0)
  BY ResolvedIsLife
<1>2. s \in Nat /\ s = Ex!Window(o, "value")
  BY DEF TimeTypes, Options, Optional, Ex!resolve_stale, Ex!Window
<1>3. f = Ex!freshness(d, s)
  OBVIOUS
<1>4. g.at = now /\ g.life = d /\ g.window = s
  BY <1>1, <1>2 DEF Given
<1>5. defaults.require /\ d = 0 => g.endless
  BY <1>1 DEF Given
<1> HIDE DEF d, s, g
<1>6. None # "Overflow"
  BY DEF Ex!ExpiryAssumption
<1>7. /\ f.hard_ttl = IF d = 0 THEN 0 ELSE d + s
      /\ f.fresh_for = IF d = 0 \/ s = 0 THEN 0 ELSE d
  BY <1>1, <1>2, <1>3, <1>6 DEF Ex!freshness, Ex!Refused
<1>8. now \in Nat /\ now >= TicksPerMs /\ now + d + s # None
  BY <1>1, <1>2 DEF TimeTypes, Ex!ExpiryAssumption
<1>9. u.ms = IF d = 0 \/ s = 0 THEN 0 ELSE Ex!Millis(now + d)
  <2>1. u = Ex!fresh_until_millis(now, f.fresh_for)
    OBVIOUS
  <2> QED
    BY <1>1, <1>6, <1>7, <2>1
       DEF Ex!fresh_until_millis, Ex!unix_millis, Ex!Refused
<1>10. u.ms \in Nat
  BY <1>1, <1>8, <1>9, WholeMillis
<1>11. f.hard_ttl \in Nat /\ (f.hard_ttl = 0 <=> d = 0)
  BY <1>1, <1>2, <1>7
<1>12. /\ e.body = "value" /\ e.fresh = u.ms
       /\ e.until = IF f.hard_ttl = 0 THEN None ELSE now + f.hard_ttl
       /\ e \in Ex!Entries
  BY <1>8, <1>10, <1>11 DEF Ex!pack_value, Ex!Packed, Ex!Until, Ex!Entries
<1> HIDE DEF e
<1>13. e.until = IF g.life = 0 THEN None ELSE g.at + g.life + g.window
  BY <1>1, <1>2, <1>4, <1>7, <1>8, <1>11, <1>12
<1>14. defaults.require /\ e.until = None => g.endless
  BY <1>1, <1>2, <1>4, <1>5, <1>8, <1>13
<1>15. IF g.life = 0 \/ g.window = 0 THEN e.fresh = 0 ELSE e.fresh = Ex!Millis(g.at + g.life)
  BY <1>4, <1>9, <1>12
<1>16. Fits(e, g)
  BY <1>4, <1>8, <1>13, <1>14, <1>15 DEF Fits
<1> QED
  BY <1>12, <1>16 DEF e, g

\* And of one that was not, the void for as long as absences are remembered.
LEMMA VoidFits ==
  ASSUME Ex!ExpiryAssumption, TimeTypes, NEW o \in Options, defaults.negative # 0
  PROVE  LET e == Ex!pack_void(defaults.negative) IN
         e \in Ex!Entries /\ e.body = "void" /\ Fits(e, Given(o, "void"))
<1> DEFINE n == defaults.negative
           e == Ex!pack_void(n)
           g == Given(o, "void")
<1>1. n \in Nat /\ n # 0 /\ now \in Nat /\ now >= TicksPerMs /\ now + n # None
  BY DEF TimeTypes, Ex!ExpiryAssumption
<1>2. g.at = now /\ g.life = n /\ g.window = 0
  BY DEF Given, Ex!Life, Ex!Window
<1> HIDE DEF n
<1>3. e.body = "void" /\ e.fresh = 0 /\ e.until = now + n /\ e \in Ex!Entries
  BY <1>1 DEF Ex!pack_void, Ex!Packed, Ex!Until, Ex!Entries
<1> HIDE DEF e, g
<1>4. e.until = IF g.life = 0 THEN None ELSE g.at + g.life + g.window
  BY <1>1, <1>2, <1>3
<1>5. Fits(e, g)
  BY <1>1, <1>2, <1>3, <1>4 DEF Fits
<1> QED
  BY <1>3, <1>5 DEF e, g, n

LEMMA LoadKeeps ==
  ASSUME Ex!ExpiryAssumption, TimeTypes, Kept, NEW o \in Options, NEW found \in BOOLEAN,
         Ex!Load(o, found)
  PROVE  TimeTypes' /\ Kept' /\ Told'
<1> DEFINE r == Ex!resolve_ttl(o)
           f == Ex!freshness(r.ttl, Ex!resolve_stale(o))
           u == Ex!fresh_until_millis(now, f.fresh_for)
           value == Ex!pack_value(u.ms, f.hard_ttl)
           void == Ex!pack_void(defaults.negative)
<1>1. \/ \E why : Ex!Fails(why)
      \/ defaults.negative # 0 /\ Ex!Wrote(void, o)
      \/ /\ defaults.strategy = "aside" /\ r.error = None /\ f.error = None /\ u.error = None
         /\ Ex!Wrote(value, o)
  BY DEF Ex!Load
<1>2. CASE \E why : Ex!Fails(why)
  BY <1>2, FailsKeeps
<1>3. CASE defaults.negative # 0 /\ Ex!Wrote(void, o)
  <2>1. void \in Ex!Entries /\ void.body = "void" /\ Fits(void, Given(o, "void"))
    BY <1>3, VoidFits
  <2> HIDE DEF void
  <2> QED
    BY <1>3, <2>1, WroteKeeps
<1>4. CASE /\ defaults.strategy = "aside" /\ r.error = None /\ f.error = None /\ u.error = None
           /\ Ex!Wrote(value, o)
  <2>1. value \in Ex!Entries /\ value.body = "value" /\ Fits(value, Given(o, "value"))
    BY <1>4, FoundFits
  <2> HIDE DEF value
  <2> QED
    BY <1>4, <2>1, WroteKeeps
<1> QED
  BY <1>1, <1>2, <1>3, <1>4

\* The clock and a delete answer nothing that a property is about.
LEMMA OthersKeep ==
  ASSUME Ex!ExpiryAssumption, TimeTypes, Kept, Ex!Pass \/ Ex!Delete
  PROVE  TimeTypes' /\ Kept' /\ Told'
<1>1. defaults' = defaults /\ answer'.kind \in {"none", "deleted"}
  BY DEF Ex!Pass, Ex!Delete, Ex!Silent, Ex!Answered
<1>2. Told'
  BY <1>1 DEF Told, Ex!ServedForItsLife, Ex!FreshMeansFresh, Ex!TtlIsWhatIsLeft
<1>3. CASE Ex!Pass
  <2>1. now' = now + 1 /\ UNCHANGED <<defaults, kept, promise>>
    BY <1>3 DEF Ex!Pass
  <2>2. TimeTypes'
    BY <2>1 DEF TimeTypes, Ex!ExpiryAssumption, Ex!Entries, Ex!Promises
  <2>3. promise # None => promise.at \in Nat
    BY DEF TimeTypes, Ex!Promises
  <2>4. Kept'
    BY <2>1, <2>3 DEF Kept, Fits, Ex!Millis, TimeTypes
  <2> QED
    BY <1>2, <2>2, <2>4
<1>4. CASE Ex!Delete
  <2>1. kept' = None /\ promise' = None /\ UNCHANGED <<now, defaults>>
    BY <1>4 DEF Ex!Delete, Ex!Answered
  <2> QED
    BY <1>2, <2>1 DEF TimeTypes, Kept
<1> QED
  BY <1>3, <1>4

\* An entry is live for exactly the life and the window of its promise.
LEMMA LiveIsPromised ==
  ASSUME Ex!ExpiryAssumption, TimeTypes, Kept
  PROVE  /\ Ex!Live(kept) <=> promise # None /\ ~Ex!Ended(promise)
         /\ kept # None => kept \in Ex!Entries /\ promise \in Ex!Promises
<1>1. CASE kept = None
  BY <1>1 DEF Kept, Ex!Live
<1>2. CASE kept # None
  <2>1. kept \in Ex!Entries /\ promise \in Ex!Promises /\ promise # None /\ now \in Nat
    BY <1>2 DEF TimeTypes, Kept
  <2>2. kept.until = IF promise.life = 0 THEN None ELSE promise.at + promise.life + promise.window
    BY <1>2 DEF Kept, Fits
  <2>3. promise.at \in Nat /\ promise.life \in Nat /\ promise.window \in Nat
    BY <2>1 DEF Ex!Promises
  <2>4. promise.at + promise.life + promise.window # None
    BY <2>3 DEF Ex!ExpiryAssumption
  <2> QED
    BY <1>2, <2>1, <2>2, <2>3, <2>4 DEF Ex!Live, Ex!Ended
<1> QED
  BY <1>1, <1>2

LEMMA ReadsKeep ==
  ASSUME Ex!ExpiryAssumption, TimeTypes, Kept, Ex!Read \/ Ex!Ttl
  PROVE  TimeTypes' /\ Kept' /\ Told'
<1>1. UNCHANGED <<now, defaults, kept, promise>>
  BY DEF Ex!Read, Ex!Ttl, Ex!Answered
<1>2. TimeTypes' /\ Kept'
  BY <1>1 DEF TimeTypes, Kept, Fits, Ex!Millis, Ex!Entries, Ex!Promises
<1>3. Ex!Live(kept) <=> promise # None /\ ~Ex!Ended(promise)
  BY LiveIsPromised
<1>4. CASE ~Ex!Live(kept)
  <2>1. answer'.kind = "missing"
    BY <1>4 DEF Ex!Read, Ex!Ttl, Ex!Answered
  <2>2. promise' = None \/ Ex!Ended(promise)'
    BY <1>1, <1>3, <1>4 DEF Ex!Ended
  <2>3. Told'
    BY <2>1, <2>2 DEF Told, Ex!ServedForItsLife, Ex!FreshMeansFresh,
                      Ex!TtlIsWhatIsLeft
  <2> QED
    BY <1>2, <2>3
<1>5. CASE Ex!Live(kept)
  <2>1. /\ kept # None /\ kept \in Ex!Entries /\ promise \in Ex!Promises
        /\ ~Ex!Ended(promise) /\ promise # None
    BY <1>3, <1>5, LiveIsPromised DEF Ex!Live
  <2>2. /\ promise.at \in Nat /\ promise.life \in Nat /\ promise.window \in Nat
        /\ now \in Nat /\ promise.at <= now /\ promise.at >= TicksPerMs
        /\ TicksPerMs \in Nat \ {0}
    BY <2>1 DEF Ex!Promises, TimeTypes, Kept, Fits, Ex!ExpiryAssumption
  <2>3. /\ kept.until = IF promise.life = 0 THEN None
                        ELSE promise.at + promise.life + promise.window
        /\ IF promise.life = 0 \/ promise.window = 0 THEN kept.fresh = 0
           ELSE kept.fresh = Ex!Millis(promise.at + promise.life)
    BY <2>1 DEF Kept, Fits
  <2>4. promise.life = 0 \/ now < promise.at + promise.life + promise.window
    BY <2>1, <2>2 DEF Ex!Ended
  <2>5. ~Ex!Ended(promise)'
    BY <1>1, <2>1 DEF Ex!Ended
  <2>6. CASE Ex!Read
    <3>0. now' = now /\ promise' = promise
      BY <1>1
    <3>1. /\ answer'.kind = kept.body
          /\ answer'.stale = (kept.fresh /= 0 /\ Ex!Millis(now) > kept.fresh)
      BY <1>5, <2>6 DEF Ex!Read, Ex!Answered, Ex!unpack
    <3>2. kept.body # "missing" /\ kept.body # "ttl"
      BY <2>1 DEF Ex!Entries
    <3>3. Ex!ServedForItsLife'
      BY <1>1, <2>1, <2>5, <3>1, <3>2 DEF Ex!ServedForItsLife
    <3>4. Ex!TtlIsWhatIsLeft'
      BY <3>1, <3>2 DEF Ex!TtlIsWhatIsLeft
    <3>5. ASSUME kept.fresh /= 0 /\ Ex!Millis(now) > kept.fresh
          PROVE  Ex!FreshMeansFresh'
      <4>1. promise.life # 0 /\ promise.window # 0
            /\ kept.fresh = Ex!Millis(promise.at + promise.life)
        BY <2>3, <3>5
      <4>2. now > promise.at + promise.life
        BY <2>2, <3>5, <4>1, WholeMillis
      <4>3. answer'.stale
        BY <3>1, <3>5
      <4> QED
        BY <3>0, <4>1, <4>2, <4>3, Zenon DEF Ex!FreshMeansFresh
    <3>6. ASSUME ~(kept.fresh /= 0 /\ Ex!Millis(now) > kept.fresh)
          PROVE  Ex!FreshMeansFresh'
      <4>1. ~answer'.stale
        BY <3>1, <3>6
      <4>2. promise.life = 0 \/ now < promise.at + promise.life + TicksPerMs
        <5>1. CASE promise.life # 0 /\ promise.window = 0
          BY <2>2, <2>4, <5>1
        <5>2. CASE promise.life # 0 /\ promise.window # 0
          <6>1. kept.fresh = Ex!Millis(promise.at + promise.life)
            BY <2>3, <5>2
          <6>2. /\ promise.at + promise.life \in Nat
                /\ promise.at + promise.life >= TicksPerMs
            BY <2>2
          <6>3. kept.fresh \in Nat /\ kept.fresh # 0 /\ Ex!Millis(now) \in Nat
            BY <2>2, <6>1, <6>2, WholeMillis
          <6>4. Ex!Millis(now) <= Ex!Millis(promise.at + promise.life)
            BY <3>6, <6>1, <6>3
          <6> QED
            BY <2>2, <6>2, <6>4, WholeMillis
        <5> QED
          BY <5>1, <5>2
      <4> QED
        BY <3>0, <4>1, <4>2, Zenon DEF Ex!FreshMeansFresh
    <3> QED
      BY <1>2, <3>3, <3>4, <3>5, <3>6 DEF Told
  <2>7. CASE Ex!Ttl
    <3>1. /\ defaults.strategy # "aside" /\ answer'.kind = "ttl"
          /\ answer'.left = IF kept.until = None THEN 0 ELSE kept.until - now
      BY <1>5, <2>7 DEF Ex!Ttl, Ex!Answered
    <3>2. promise.window = 0
      BY <2>1, <3>1 DEF Kept, Fits
    <3>3. promise.at + promise.life + promise.window # None
      BY <2>2 DEF Ex!ExpiryAssumption
    <3>4. answer'.left = IF promise.life = 0 THEN 0 ELSE promise.at + promise.life - now
      BY <2>2, <2>3, <3>1, <3>2, <3>3
    <3>5. Ex!TtlIsWhatIsLeft'
      BY <1>1, <3>4 DEF Ex!TtlIsWhatIsLeft
    <3>6. Ex!ServedForItsLife' /\ Ex!FreshMeansFresh'
      BY <1>1, <2>1, <2>5, <3>1 DEF Ex!ServedForItsLife, Ex!FreshMeansFresh
    <3> QED
      BY <1>2, <3>5, <3>6 DEF Told
  <2> QED
    BY <2>6, <2>7
<1> QED
  BY <1>4, <1>5

LEMMA TimesInit == Ex!ExpiryAssumption /\ Ex!Init => TimeInv
<1> SUFFICES ASSUME Ex!ExpiryAssumption, Ex!Init PROVE TimeInv
  OBVIOUS
<1>1. TimeTypes
  <2>1. now = TicksPerMs /\ kept = None /\ promise = None
    BY DEF Ex!Init
  <2>2. defaults \in [strategy : {"aside", "volatile", "document"}, ttl : Nat, stale : Nat,
                  negative : Nat, require : BOOLEAN]
    <3>1. defaults \in [strategy : {"aside"}, ttl : Defaults, stale : Defaults,
                    negative : Defaults, require : BOOLEAN]
          \/ defaults \in [strategy : {"volatile", "document"}, ttl : Defaults, stale : {0},
                       negative : {0}, require : BOOLEAN]
      BY DEF Ex!Init
    <3>2. \A d \in Defaults : d \in Nat
      BY DEF Ex!ExpiryAssumption
    <3>3. CASE defaults \in [strategy : {"aside"}, ttl : Defaults, stale : Defaults,
                         negative : Defaults, require : BOOLEAN]
      BY <3>2, <3>3
    <3>4. CASE defaults \in [strategy : {"volatile", "document"}, ttl : Defaults, stale : {0},
                         negative : {0}, require : BOOLEAN]
      BY <3>2, <3>4
    <3> QED
      BY <3>1, <3>3, <3>4
  <2> QED
    BY <2>1, <2>2 DEF TimeTypes, Ex!ExpiryAssumption
<1>2. Kept
  BY DEF Kept, Ex!Init
<1>3. answer.kind = "none"
  BY DEF Ex!Init, Ex!Silent
<1>4. Told
  BY <1>3 DEF Told, Ex!ServedForItsLife, Ex!FreshMeansFresh, Ex!TtlIsWhatIsLeft
<1> QED
  BY <1>1, <1>2, <1>4 DEF TimeInv

LEMMA TimesStep == Ex!ExpiryAssumption /\ TimeInv /\ [Ex!Next]_(Ex!expVars) => TimeInv'
<1> SUFFICES ASSUME Ex!ExpiryAssumption, TimeInv, [Ex!Next]_(Ex!expVars)
             PROVE  TimeTypes' /\ Kept' /\ Told'
  BY DEF TimeInv
<1>1. TimeTypes /\ Kept /\ Told
  BY DEF TimeInv
<1>2. CASE UNCHANGED Ex!expVars
  <2>1. UNCHANGED <<now, defaults, kept, promise, answer>>
    BY <1>2 DEF Ex!expVars
  <2>2. TimeTypes' /\ Kept'
    BY <1>1, <2>1 DEF TimeTypes, Kept, Fits, Ex!Millis, Ex!Entries, Ex!Promises
  <2>3. Told'
    BY <1>1, <2>1 DEF Told, Ex!ServedForItsLife, Ex!FreshMeansFresh,
                      Ex!TtlIsWhatIsLeft, Ex!Ended
  <2> QED
    BY <2>2, <2>3
<1>3. CASE Ex!Pass \/ Ex!Delete
  BY <1>1, <1>3, OthersKeep
<1>4. CASE Ex!Read \/ Ex!Ttl
  BY <1>1, <1>4, ReadsKeep
<1>5. ASSUME NEW d \in Ttls, Ex!Touch(d) PROVE TimeTypes' /\ Kept' /\ Told'
  BY <1>1, <1>5, TouchKeeps
<1>6. ASSUME NEW o \in Ex!Built,
             Ex!VolatileSet(o) \/ Ex!Create(o) \/ Ex!Update(o)
      PROVE  TimeTypes' /\ Kept' /\ Told'
  <2>1. o \in Options /\ defaults.strategy # "aside"
    BY <1>6, TheOptions DEF Ex!VolatileSet, Ex!Create, Ex!Update
  <2>2. \/ \E why : Ex!Fails(why)
        \/ /\ Ex!resolve_ttl(o).error = None
           /\ Ex!Wrote(Ex!pack_value(0, Ex!resolve_ttl(o).ttl), o)
    BY <1>6 DEF Ex!VolatileSet, Ex!Create, Ex!Update, Ex!Set
  <2> QED
    BY <1>1, <2>1, <2>2, FailsKeeps, SetKeeps
<1>7. ASSUME NEW o \in Ex!Built, NEW found \in BOOLEAN, Ex!Load(o, found)
      PROVE  TimeTypes' /\ Kept' /\ Told'
  BY <1>1, <1>7, TheOptions, LoadKeeps
<1> QED
  BY <1>2, <1>3, <1>4, <1>5, <1>6, <1>7 DEF Ex!Next

LEMMA TimeInvKeeps == TimeInv => Ex!LifetimesKept
<1>1. TimeInv => Ex!PermanentOnlyIfAsked
  BY DEF TimeInv, TimeTypes, Kept, Fits, Ex!PermanentOnlyIfAsked
<1> QED
  BY <1>1 DEF TimeInv, Told, Ex!LifetimesKept

\* An entry is served for exactly the life its writer was promised and the stale window
\* after it, is called fresh or stale when it is, and has no end only if a caller asked
\* for that, whatever the durations, the defaults and the widths of the arithmetic
\* (resolve_ttl, freshness, fresh_until_millis).
THEOREM LifetimesAreKept ==
  ASSUME Ex!ExpiryAssumption
  PROVE  Ex!Spec => []Ex!LifetimesKept
<1>1. Ex!Init => TimeInv
  BY TimesInit
<1>2. TimeInv /\ [Ex!Next]_(Ex!expVars) => TimeInv'
  BY TimesStep
<1>3. TimeInv => Ex!LifetimesKept
  BY TimeInvKeeps
<1> QED
  BY <1>1, <1>2, <1>3, PTL DEF Ex!Spec

-----------------------------------------------------------------------------
(* Connect: the servers of a list, the address of one, and the connection. *)

LEMMA LeastIs ==
  ASSUME NEW S \in SUBSET Nat, S # {}
  PROVE  Cn!Least(S) \in S /\ \A j \in S : Cn!Least(S) <= j
<1>1. PICK x \in S : \A y \in S : ~(<<y, x>> \in OpToRel(<, Nat))
  BY NatLessThanWellFounded, WFMin
<1>2. \A j \in S : x <= j
  <2> SUFFICES ASSUME NEW j \in S, j < x PROVE FALSE
    OBVIOUS
  <2>1. <<j, x>> \in OpToRel(<, Nat)
    BY DEF OpToRel
  <2> QED
    BY <1>1, <2>1
<1> QED
  BY <1>1, <1>2 DEF Cn!Least

LEMMA GreatestIs ==
  ASSUME NEW n \in Nat, NEW S \in SUBSET (1..n), S # {}
  PROVE  Cn!Greatest(S) \in S /\ \A j \in S : Cn!Greatest(S) >= j
<1> DEFINE D == {n - i : i \in S}
<1>1. D \in SUBSET Nat /\ D # {}
  <2>1. \A i \in S : n - i \in Nat
    OBVIOUS
  <2>2. D # {}
    OBVIOUS
  <2> QED
    BY <2>1, <2>2
<1>2. Cn!Least(D) \in D /\ \A d \in D : Cn!Least(D) <= d
  BY <1>1, LeastIs
<1>3. PICK i \in S : Cn!Least(D) = n - i
  BY <1>2
<1>4. \A j \in S : n - i <= n - j
  BY <1>2, <1>3
<1>5. \A j \in S : i >= j
  BY <1>4
<1> QED
  BY <1>5 DEF Cn!Greatest

-----------------------------------------------------------------------------
(* Addresses *)

LEMMA OneOf ==
  ASSUME NEW T, NEW s \in Seq(T), NEW k \in 1..Len(s)
  PROVE  SubSeq(s, k, k) = <<s[k]>>
<1> DEFINE one == SubSeq(s, k, k)
           only == <<s[k]>>
<1>1. \A i \in k..k : s[i] \in T
  OBVIOUS
<1>2. one \in Seq(T) /\ Len(one) = 1 /\ one[1] = s[k]
  BY <1>1, SubSeqProperties
<1>3. only \in Seq(T) /\ Len(only) = 1 /\ only[1] = s[k]
  OBVIOUS
<1> HIDE DEF one, only
<1>4. \A i \in 1..Len(one) : one[i] = only[i]
  BY <1>2, <1>3
<1>5. one = only
  BY <1>2, <1>3, <1>4, SeqEqual
<1> QED
  BY <1>5 DEF one, only

LEMMA TwoOf ==
  ASSUME NEW T, NEW s \in Seq(T), NEW k \in 1..Len(s), k + 1 <= Len(s)
  PROVE  SubSeq(s, k, k + 1) = <<s[k], s[k + 1]>>
<1> DEFINE two == SubSeq(s, k, k + 1)
           pair == <<s[k], s[k + 1]>>
<1>1. \A i \in k..(k + 1) : s[i] \in T
  OBVIOUS
<1>2. two \in Seq(T) /\ Len(two) = 2 /\ \A i \in 1..2 : two[i] = s[k + i - 1]
  BY <1>1, SubSeqProperties
<1>3. pair \in Seq(T) /\ Len(pair) = 2 /\ pair[1] = s[k] /\ pair[2] = s[k + 1]
  OBVIOUS
<1>4. \A i \in 1..2 : two[i] = pair[i]
  BY <1>2, <1>3
<1> HIDE DEF two, pair
<1>5. two = pair
  BY <1>2, <1>3, <1>4, SeqEqual
<1> QED
  BY <1>5 DEF two, pair

\* A sequence is what is before one of its elements, the element and the rest.
LEMMA SplitAt ==
  ASSUME NEW T, NEW a \in Seq(T), NEW k \in 1..Len(a)
  PROVE  a = SubSeq(a, 1, k - 1) \o <<a[k]>> \o SubSeq(a, k + 1, Len(a))
<1>1. SubSeq(a, 1, k - 1) \o SubSeq(a, k, k) = SubSeq(a, 1, k)
  <2>1. 1 \in 1..(Len(a) + 1) /\ k - 1 \in (1 - 1)..Len(a) /\ k \in (k - 1)..Len(a)
    OBVIOUS
  <2>2. SubSeq(a, 1, k - 1) \o SubSeq(a, (k - 1) + 1, k) = SubSeq(a, 1, k)
    BY <2>1, ConcatAdjacentSubSeq
  <2> QED
    BY <2>2
<1>2. SubSeq(a, 1, k) \o SubSeq(a, k + 1, Len(a)) = a
  <2>1. 1 \in 1..(Len(a) + 1) /\ k \in (1 - 1)..Len(a) /\ Len(a) \in k..Len(a)
    OBVIOUS
  <2> QED
    BY <2>1, ConcatAdjacentSubSeq, SubSeqFull
<1> QED
  BY <1>1, <1>2, OneOf

\* The same for its first element and a later pair.
LEMMA SplitBrackets ==
  ASSUME NEW T, NEW a \in Seq(T), NEW e \in 2..(Len(a) - 1)
  PROVE  a = <<a[1]>> \o SubSeq(a, 2, e - 1) \o <<a[e], a[e + 1]>> \o SubSeq(a, e + 2, Len(a))
<1> DEFINE n == Len(a)
<1>0. n \in Nat /\ e \in Nat
  OBVIOUS
<1>1. SubSeq(a, 1, 1) \o SubSeq(a, 2, e - 1) = SubSeq(a, 1, e - 1)
  <2>1. 1 \in 1..(n + 1) /\ 1 \in (1 - 1)..n /\ e - 1 \in 1..n
    BY <1>0
  <2>2. SubSeq(a, 1, 1) \o SubSeq(a, 1 + 1, e - 1) = SubSeq(a, 1, e - 1)
    BY <2>1, ConcatAdjacentSubSeq
  <2> QED
    BY <2>2
<1>2. SubSeq(a, 1, e - 1) \o SubSeq(a, e, e + 1) = SubSeq(a, 1, e + 1)
  <2>1. 1 \in 1..(n + 1) /\ e - 1 \in (1 - 1)..n /\ e + 1 \in (e - 1)..n
    BY <1>0
  <2>2. SubSeq(a, 1, e - 1) \o SubSeq(a, (e - 1) + 1, e + 1) = SubSeq(a, 1, e + 1)
    BY <2>1, ConcatAdjacentSubSeq
  <2> QED
    BY <2>2
<1>3. SubSeq(a, 1, e + 1) \o SubSeq(a, e + 2, n) = a
  <2>1. 1 \in 1..(n + 1) /\ e + 1 \in (1 - 1)..n /\ n \in (e + 1)..n
    BY <1>0
  <2>2. SubSeq(a, 1, e + 1) \o SubSeq(a, (e + 1) + 1, n) = SubSeq(a, 1, n)
    BY <2>1, ConcatAdjacentSubSeq
  <2>3. (e + 1) + 1 = e + 2
    BY <1>0
  <2> QED
    BY <2>2, <2>3, SubSeqFull
<1>4. SubSeq(a, 1, 1) = <<a[1]>> /\ SubSeq(a, e, e + 1) = <<a[e], a[e + 1]>>
  BY <1>0, OneOf, TwoOf
<1> QED
  BY <1>1, <1>2, <1>3, <1>4

LEMMA ParsedIs ==
  ASSUME NEW h, NEW q, Cn!Parsed(h, q) # None
  PROVE  Cn!Parsed(h, q).host = h /\ Cn!Parsed(h, q).port = q
BY DEF Cn!Parsed

\* The parts of an address that is accepted are its parts.
LEMMA PartsOfAddress ==
  ASSUME NEW T, NEW a \in Seq(T), Cn!parse_address(a) # None
  PROVE  LET p == Cn!parse_address(a) IN
         \/ a = p.host \o <<":">> \o p.port
         \/ a = <<"[">> \o p.host \o <<"]", ":">> \o p.port
<1> DEFINE p == Cn!parse_address(a)
<1>1. p # None
  OBVIOUS
<1>2. CASE a # <<>> /\ Head(a) = "["
  <2> DEFINE ends == {i \in 2..(Len(a) - 1) : a[i] = "]" /\ a[i + 1] = ":"}
             e == Cn!Least(ends)
  <2>1. /\ ends # {}
        /\ p = Cn!Parsed(SubSeq(a, 2, e - 1), SubSeq(a, e + 2, Len(a)))
    BY <1>2 DEF Cn!parse_address
  <2>2. ends \in SUBSET Nat
    OBVIOUS
  <2> HIDE DEF p
  <2>3. e \in ends
    BY <2>1, <2>2, LeastIs
  <2>4. e \in 2..(Len(a) - 1) /\ a[e] = "]" /\ a[e + 1] = ":" /\ a[1] = "["
    BY <1>2, <2>3
  <2> HIDE DEF e
  <2>5. p.host = SubSeq(a, 2, e - 1) /\ p.port = SubSeq(a, e + 2, Len(a))
    BY <1>1, <2>1, ParsedIs
  <2>6. a = <<a[1]>> \o SubSeq(a, 2, e - 1) \o <<a[e], a[e + 1]>> \o SubSeq(a, e + 2, Len(a))
    BY <2>4, SplitBrackets
  <2>7. a = <<"[">> \o p.host \o <<"]", ":">> \o p.port
    BY <2>4, <2>5, <2>6, Zenon
  <2> QED
    BY <2>7 DEF p
<1>3. CASE ~(a # <<>> /\ Head(a) = "[")
  <2> DEFINE colons == Cn!Positions(a, ":")
             k == Cn!Greatest(colons)
  <2>1. /\ colons # {}
        /\ p = Cn!Parsed(SubSeq(a, 1, k - 1), SubSeq(a, k + 1, Len(a)))
    BY <1>3 DEF Cn!parse_address
  <2>0. Len(a) \in Nat
    OBVIOUS
  <2>2. colons \in SUBSET (1..Len(a)) /\ \A i \in colons : a[i] = ":"
    BY DEF Cn!Positions
  <2> HIDE DEF p, colons
  <2>3. k \in colons
    BY <2>0, <2>1, <2>2, GreatestIs
  <2>4. k \in 1..Len(a) /\ a[k] = ":"
    BY <2>2, <2>3
  <2> HIDE DEF k
  <2>5. p.host = SubSeq(a, 1, k - 1) /\ p.port = SubSeq(a, k + 1, Len(a))
    BY <1>1, <2>1, ParsedIs
  <2>6. a = SubSeq(a, 1, k - 1) \o <<a[k]>> \o SubSeq(a, k + 1, Len(a))
    BY <2>4, SplitAt
  <2>7. a = p.host \o <<":">> \o p.port
    BY <2>4, <2>5, <2>6, Zenon
  <2> QED
    BY <2>7 DEF p
<1> QED
  BY <1>2, <1>3

-----------------------------------------------------------------------------
(* Servers and slots *)

FirstOnes(servers) == {i \in Cn!Indices(servers) : Cn!First(servers, i)}

\* How many of S come no later than i.
Rank(S, i) == Cardinality({j \in S : j <= i})

\* The ranks of a set of n numbers are 1 to n, each of one element.
LEMMA RanksCount ==
  ASSUME NEW n \in Nat, NEW S \in SUBSET (1..n)
  PROVE  /\ Cardinality(S) \in Nat
         /\ \A i \in S : Rank(S, i) \in 1..Cardinality(S)
         /\ \A i, j \in S : Rank(S, i) = Rank(S, j) => i = j
         /\ \A r \in 1..Cardinality(S) : \E i \in S : Rank(S, i) = r
<1> DEFINE Upto(i) == {j \in S : j <= i}
           m == Cardinality(S)
<1>1. IsFiniteSet(S) /\ m \in Nat
  <2>1. IsFiniteSet(1..n)
    BY FS_Interval
  <2> QED
    BY <2>1, FS_Subset, FS_CardinalityType
<1>2. \A i \in S : /\ IsFiniteSet(Upto(i)) /\ Cardinality(Upto(i)) \in Nat
                   /\ Cardinality(Upto(i)) <= m
  <2> SUFFICES ASSUME NEW i \in S
               PROVE  /\ IsFiniteSet(Upto(i)) /\ Cardinality(Upto(i)) \in Nat
                      /\ Cardinality(Upto(i)) <= m
    OBVIOUS
  <2>1. Upto(i) \in SUBSET S
    OBVIOUS
  <2>2. IsFiniteSet(Upto(i)) /\ Cardinality(Upto(i)) <= m
    BY <1>1, <2>1, FS_Subset
  <2> QED
    BY <2>2, FS_CardinalityType
<1>3. \A i \in S : Rank(S, i) \in 1..m
  <2> SUFFICES ASSUME NEW i \in S PROVE Rank(S, i) \in 1..m
    OBVIOUS
  <2>1. i \in Upto(i)
    OBVIOUS
  <2>2. Cardinality(Upto(i)) # 0
    BY <1>2, <2>1, FS_EmptySet
  <2>3. Rank(S, i) = Cardinality(Upto(i))
    BY DEF Rank
  <2> HIDE DEF m
  <2> QED
    BY <1>1, <1>2, <2>2, <2>3
<1>4. ASSUME NEW i \in S, NEW j \in S, i < j, Rank(S, i) = Rank(S, j)
      PROVE  FALSE
  <2>0. \A x \in S : x \in Nat
    OBVIOUS
  <2>1. Upto(i) \in SUBSET Upto(j)
    <3> SUFFICES ASSUME NEW x \in Upto(i) PROVE x \in Upto(j)
      OBVIOUS
    <3>1. x \in S /\ x <= i
      OBVIOUS
    <3>2. x <= j
      BY <1>4, <2>0, <3>1
    <3> QED
      BY <3>1, <3>2
  <2>2. Cardinality(Upto(i)) = Cardinality(Upto(j))
    BY <1>4 DEF Rank
  <2>3. Upto(j) = Upto(i)
    BY <1>2, <2>1, <2>2, FS_Subset
  <2>4. j \in Upto(j) /\ j \notin Upto(i)
    BY <1>4
  <2> QED
    BY <2>3, <2>4
<1>5. \A i, j \in S : Rank(S, i) = Rank(S, j) => i = j
  <2> SUFFICES ASSUME NEW i \in S, NEW j \in S, Rank(S, i) = Rank(S, j), i # j
               PROVE  FALSE
    OBVIOUS
  <2>1. i < j \/ j < i
    OBVIOUS
  <2> QED
    BY <1>4, <2>1
<1>6. \A r \in 1..m : \E i \in S : Rank(S, i) = r
  <2> DEFINE f == [i \in S |-> Rank(S, i)]
  <2>1. f \in Injection(S, 1..m)
    BY <1>3, <1>5 DEF Injection, IsInjective
  <2>2. IsFiniteSet(1..m) /\ Cardinality(1..m) = m
    BY <1>1, FS_Interval
  <2> HIDE DEF f, m
  <2>3. Cardinality(S) = m
    BY DEF m
  <2>4. f \in Surjection(S, 1..m)
    BY <2>1, <2>2, <2>3, FS_Injection
  <2>5. \A r \in 1..m : \E i \in S : f[i] = r
    BY <2>4 DEF Surjection
  <2> QED
    BY <2>5 DEF f
<1> QED
  BY <1>1, <1>3, <1>5, <1>6

\* The servers that are dialled are those of the list, and the slot of an entry leads to it.
LEMMA PlanIs ==
  ASSUME NEW T, NEW servers \in Seq(T)
  PROVE  LET p == Cn!plan_servers(servers) IN
         /\ Len(p.slots) = Len(servers)
         /\ {p.unique[i] : i \in Cn!Indices(p.unique)}
              = {servers[i] : i \in Cn!Indices(servers)}
         /\ \A i \in 1..Len(servers) :
              p.slots[i] \in Cn!Indices(p.unique) /\ p.unique[p.slots[i]] = servers[i]
<1> DEFINE n == Len(servers)
           S == FirstOnes(servers)
           m == Cardinality(S)
           at(r) == CHOOSE i \in S : Rank(S, i) = r
           u == [r \in 1..m |-> servers[at(r)]]
           slots == [i \in 1..n |-> CHOOSE r \in 1..m : u[r] = servers[i]]
<1>1. n \in Nat /\ S \in SUBSET (1..n)
  BY DEF FirstOnes, Cn!Indices
<1>2. /\ m \in Nat
      /\ \A i \in S : Rank(S, i) \in 1..m
      /\ \A i, j \in S : Rank(S, i) = Rank(S, j) => i = j
      /\ \A r \in 1..m : \E i \in S : Rank(S, i) = r
  BY <1>1, RanksCount
<1> HIDE DEF m
<1>3. \A r \in 1..m : at(r) \in S /\ Rank(S, at(r)) = r
  BY <1>2
<1>4. \A i \in S : at(Rank(S, i)) = i
  BY <1>2, <1>3
<1>5. Cn!Unique(servers) = u
  BY DEF Cn!Unique, FirstOnes, Rank, m, Cn!Cardinality, Cardinality
<1>6. u \in Seq(T) /\ Len(u) = m
  <2>1. \A r \in 1..m : servers[at(r)] \in T
    BY <1>1, <1>3
  <2> HIDE DEF at, S
  <2>2. u \in [1..m -> T]
    BY <2>1
  <2> QED
    BY <1>2, <2>2
<1>7. Cn!Indices(u) = 1..m /\ Cn!Indices(servers) = 1..n
  BY <1>6 DEF Cn!Indices
<1>8. Cn!plan_servers(servers) = [unique |-> u, slots |-> slots]
  <2> HIDE DEF u
  <2> QED
    BY <1>5, <1>7 DEF Cn!plan_servers
<1>9. \A i \in 1..n : \E r \in 1..m : u[r] = servers[i]
  <2> SUFFICES ASSUME NEW i \in 1..n PROVE \E r \in 1..m : u[r] = servers[i]
    OBVIOUS
  <2> DEFINE same == {j \in 1..n : servers[j] = servers[i]}
             l == Cn!Least(same)
  <2>1. same \in SUBSET Nat /\ same # {}
    BY <1>1
  <2>2. l \in same /\ \A j \in same : l <= j
    BY <2>1, LeastIs
  <2> HIDE DEF l
  <2>3. l \in 1..n /\ servers[l] = servers[i]
    BY <2>2
  <2>4. Cn!First(servers, l)
    <3> SUFFICES ASSUME NEW j \in 1..(l - 1), servers[j] = servers[l] PROVE FALSE
      BY DEF Cn!First
    <3>1. j \in same
      BY <2>3
    <3> QED
      BY <2>2, <2>3, <3>1
  <2>5. l \in S
    BY <1>7, <2>3, <2>4 DEF FirstOnes
  <2>6. Rank(S, l) \in 1..m /\ u[Rank(S, l)] = servers[l]
    BY <1>2, <1>4, <2>5
  <2> QED
    BY <2>3, <2>6
<1>10. \A i \in 1..n : slots[i] \in 1..m /\ u[slots[i]] = servers[i]
  <2> HIDE DEF u
  <2> QED
    BY <1>9
<1>11. {u[r] : r \in 1..m} = {servers[i] : i \in 1..n}
  <2>1. \A r \in 1..m : \E i \in 1..n : u[r] = servers[i]
    BY <1>1, <1>3
  <2> HIDE DEF u
  <2>2. {u[r] : r \in 1..m} \subseteq {servers[i] : i \in 1..n}
    BY <2>1
  <2>3. {servers[i] : i \in 1..n} \subseteq {u[r] : r \in 1..m}
    BY <1>9
  <2> QED
    BY <2>2, <2>3
<1>12. Len(slots) = n
  <2>1. slots \in [1..n -> 1..m]
    <3> HIDE DEF u
    <3> QED
      BY <1>10
  <2> QED
    BY <1>1, <2>1
<1> HIDE DEF u, slots
<1> DEFINE p == Cn!plan_servers(servers)
<1>13. p.unique = u /\ p.slots = slots
  BY <1>8
<1> HIDE DEF p
<1>14. /\ Len(p.slots) = n
       /\ {p.unique[i] : i \in Cn!Indices(p.unique)} = {servers[i] : i \in Cn!Indices(servers)}
       /\ \A i \in 1..n :
            p.slots[i] \in Cn!Indices(p.unique) /\ p.unique[p.slots[i]] = servers[i]
  BY <1>7, <1>10, <1>11, <1>12, <1>13
<1> QED
  BY <1>14 DEF p

-----------------------------------------------------------------------------
(* The connection *)

Configured == conf \in Cn!MemcachedConfigs \cup Cn!RedisConfigs \cup Cn!DragonflyConfigs

\* What the checks have established, once they have let the configuration pass.
Checked ==
  /\ phase \in {"checking", "dialling", "probing", "ready", "failed", "closed"}
  /\ phase \notin {"checking", "failed"} =>
       /\ conf.dial # "After0"
       /\ conf.backend = "memcached" =>
            conf.servers # <<>> /\ plan = Cn!plan_servers(conf.servers)
       /\ conf.backend # "memcached" => Cn!parse_address(Cn!Address(conf)) # None

\* Who has answered: nobody before the dial, the servers of the list after it.
Answered ==
  /\ phase = "checking" => dialled = {}
  /\ phase \notin {"checking", "failed"} /\ conf.backend = "memcached" =>
       dialled \subseteq Cn!Members
  /\ phase \in {"probing", "ready", "closed"} =>
       /\ conf.backend = "memcached" => Cn!Members \subseteq dialled
       /\ conf.backend # "memcached" => "resp" \in dialled
  /\ phase \in {"ready", "closed"} => proved \in dialled

Routed ==
  /\ DOMAIN calls = Crcs
  /\ Cn!NoCallWithoutClient
  /\ \A crc \in Crcs : calls[crc] # None => calls[crc] = Cn!Target(crc)

LinkInv == Configured /\ Checked /\ Answered /\ Routed

LEMMA ConfigTypes ==
  ASSUME Cn!ConnectAssumption, Configured
  PROVE  /\ conf.backend = "memcached" => \E T : conf.servers \in Seq(T)
         /\ conf.backend # "memcached" => \E T : Cn!Address(conf) \in Seq(T)
<1>1. CASE conf.backend = "memcached"
  <2>1. conf.servers \in ServerLists
    BY <1>1 DEF Configured, Cn!MemcachedConfigs, Cn!RedisConfigs, Cn!DragonflyConfigs,
                Cn!RespConfigs
  <2>2. conf.servers \in Seq(STRING)
    BY <2>1, Zenon DEF Cn!ConnectAssumption
  <2> QED
    BY <1>1, <2>2, Zenon
<1>2. CASE conf.backend # "memcached"
  <2>1. conf.address \in Addresses
    BY <1>2 DEF Configured, Cn!MemcachedConfigs, Cn!RedisConfigs, Cn!DragonflyConfigs,
                Cn!RespConfigs
  <2>2. conf.address \in Seq(STRING)
    BY <2>1, Zenon DEF Cn!ConnectAssumption
  <2>3. Cn!DefaultAddress \in Seq({"localhost", ":", "port"})
    BY DEF Cn!DefaultAddress
  <2>4. Cn!Address(conf) = conf.address \/ Cn!Address(conf) = Cn!DefaultAddress
    BY DEF Cn!Address
  <2> QED
    BY <1>2, <2>2, <2>3, <2>4, Zenon
<1> QED
  BY <1>1, <1>2

\* The servers of the plan, and the one a call goes to.
LEMMA RoutesAre ==
  ASSUME Cn!ConnectAssumption, Configured, conf.backend = "memcached",
         conf.servers # <<>>, plan = Cn!plan_servers(conf.servers)
  PROVE  /\ Cn!Members = {conf.servers[i] : i \in Cn!Indices(conf.servers)}
         /\ \A crc \in Nat : /\ Cn!Target(crc) = conf.servers[(crc % Len(conf.servers)) + 1]
                             /\ Cn!Target(crc) \in Cn!Members
<1> DEFINE s == conf.servers
           n == Len(s)
<1>1. PICK T : s \in Seq(T)
  BY ConfigTypes
<1>2. n \in Nat /\ n > 0
  BY <1>1, EmptySeq
<1>3. /\ Len(plan.slots) = n
      /\ Cn!Members = {s[i] : i \in Cn!Indices(s)}
      /\ \A i \in 1..n :
           plan.slots[i] \in Cn!Indices(plan.unique) /\ plan.unique[plan.slots[i]] = s[i]
  <2> HIDE DEF s
  <2>1. plan = Cn!plan_servers(s)
    BY DEF s
  <2>2. LET p == Cn!plan_servers(s) IN
        /\ Len(p.slots) = Len(s)
        /\ {p.unique[i] : i \in Cn!Indices(p.unique)} = {s[i] : i \in Cn!Indices(s)}
        /\ \A i \in 1..Len(s) :
             p.slots[i] \in Cn!Indices(p.unique) /\ p.unique[p.slots[i]] = s[i]
    BY <1>1, PlanIs
  <2> QED
    BY <2>1, <2>2, Zenon DEF Cn!Members
<1>4. ASSUME NEW crc \in Nat
      PROVE  Cn!Target(crc) = s[(crc % n) + 1] /\ Cn!Target(crc) \in Cn!Members
  <2> DEFINE i == (crc % n) + 1
  <2>1. i \in 1..n
    <3> HIDE DEF n
    <3> QED
      BY <1>2, Z3T(30)
  <2>2. Cn!Target(crc) = plan.unique[plan.slots[i]]
    BY <1>3 DEF Cn!Target, Cn!server_index, Cn!route_slot
  <2> HIDE DEF i, n
  <2>3. plan.slots[i] \in Cn!Indices(plan.unique) /\ plan.unique[plan.slots[i]] = s[i]
    BY <1>3, <2>1
  <2>4. Cn!Target(crc) \in Cn!Members
    BY <2>2, <2>3 DEF Cn!Members
  <2> QED
    BY <2>2, <2>3, <2>4 DEF i
<1> QED
  BY <1>3, <1>4

LEMMA TargetStays ==
  ASSUME plan' = plan
  PROVE  Cn!Members' = Cn!Members /\ \A crc : Cn!Target(crc)' = Cn!Target(crc)
BY DEF Cn!Members, Cn!Target, Cn!server_index

\* A check lets a configuration pass or fails it.
LEMMA ChecksKeep ==
  ASSUME Cn!ConnectAssumption, LinkInv,
         Cn!CheckMemcached \/ Cn!CheckRedis \/ Cn!CheckDragonfly
  PROVE  LinkInv'
<1>1. /\ phase = "checking" /\ conf' = conf /\ dialled' = dialled /\ calls' = calls
      /\ phase' \in {"failed", "dialling"}
  <2>1. CASE Cn!CheckMemcached
    BY <2>1, Zenon DEF Cn!CheckMemcached, Cn!To, Cn!Planned
  <2>2. CASE Cn!connect_with_profile
    BY <2>2 DEF Cn!connect_with_profile, Cn!To, Cn!Planned
  <2> QED
    BY <2>1, <2>2 DEF Cn!CheckRedis, Cn!CheckDragonfly
<1>2. phase' = "dialling" =>
        /\ conf.dial # "After0"
        /\ conf.backend = "memcached" =>
             conf.servers # <<>> /\ plan' = Cn!plan_servers(conf.servers)
        /\ conf.backend # "memcached" => Cn!parse_address(Cn!Address(conf)) # None
  <2>1. CASE Cn!CheckMemcached
    <3>1. conf.backend = "memcached"
      BY <2>1, Zenon DEF Cn!CheckMemcached
    <3>2. phase' = "dialling" =>
            /\ Cn!resolve_timeout(conf.dial) # None /\ conf.servers # <<>>
            /\ plan' = Cn!plan_servers(conf.servers)
      <4>1. "failed" # "dialling"
        OBVIOUS
      <4> QED
        BY <2>1, <4>1, Zenon DEF Cn!CheckMemcached, Cn!To, Cn!Planned
    <3> QED
      BY <3>1, <3>2 DEF Cn!resolve_timeout
  <2>2. CASE Cn!CheckRedis \/ Cn!CheckDragonfly
    <3>1. conf.backend # "memcached" /\ Cn!connect_with_profile
      BY <2>2 DEF Cn!CheckRedis, Cn!CheckDragonfly
    <3> QED
      BY <3>1 DEF Cn!connect_with_profile, Cn!To, Cn!connection_manager_config
  <2> QED
    BY <2>1, <2>2
<1>3. dialled = {} /\ \A crc \in Crcs : calls[crc] = None
  BY <1>1 DEF LinkInv, Answered, Routed, Cn!NoCallWithoutClient
<1>4. Configured' /\ Checked'
  BY <1>1, <1>2 DEF LinkInv, Configured, Checked, Cn!Address, Cn!MemcachedConfigs,
     Cn!RedisConfigs, Cn!DragonflyConfigs, Cn!RespConfigs
<1>5. Answered'
  BY <1>1, <1>3 DEF Answered
<1>6. Routed'
  BY <1>1, <1>3 DEF LinkInv, Routed, Cn!NoCallWithoutClient
<1> QED
  BY <1>4, <1>5, <1>6 DEF LinkInv

\* Every other step keeps the configuration and the plan.
LEMMA RestKeeps ==
  ASSUME Cn!ConnectAssumption, LinkInv,
         UNCHANGED conf, UNCHANGED plan,
         phase' \in {"dialling", "probing", "ready", "failed", "closed"} \cup {phase},
         phase \in {"checking", "failed"} => phase' \in {phase, "failed"},
         Answered', Routed'
  PROVE  LinkInv'
<1>1. Configured'
  BY DEF LinkInv, Configured
<1>2. Checked'
  BY DEF LinkInv, Checked, Cn!Address
<1> QED
  BY <1>1, <1>2 DEF LinkInv

LEMMA CallsAside ==
  ASSUME LinkInv, UNCHANGED <<plan, calls>>,
         phase' = phase \/ phase \in {"checking", "dialling", "probing"} \/ phase' = "closed"
  PROVE  Routed'
<1>1. \A crc : Cn!Target(crc)' = Cn!Target(crc)
  BY TargetStays
<1>2. Cn!NoCallWithoutClient'
  BY DEF LinkInv, Routed, Checked, Cn!NoCallWithoutClient
<1> QED
  BY <1>1, <1>2 DEF LinkInv, Routed

LEMMA DialKeeps ==
  ASSUME Cn!ConnectAssumption, LinkInv,
         \/ UNCHANGED <<conf, phase, plan, dialled, proved, calls>>
         \/ \E h \in Cn!Hosts : Cn!DialAnswered(h) \/ Cn!DialFailed(h)
         \/ Cn!Dialled \/ Cn!Managed \/ Cn!CloseMemcached \/ Cn!CloseResp
  PROVE  LinkInv'
<1>1. UNCHANGED conf /\ UNCHANGED plan /\ UNCHANGED calls /\ proved' = proved
  BY DEF Cn!DialAnswered, Cn!DialFailed, Cn!Dialled, Cn!Managed, Cn!CloseMemcached,
         Cn!CloseResp, Cn!Taken, Cn!To
<1>2. \/ phase' = phase /\ dialled' = dialled
      \/ /\ phase = "dialling" /\ phase' = "dialling"
         /\ \E h \in Cn!Members : dialled' = dialled \cup {h}
      \/ phase = "dialling" /\ phase' = "failed" /\ dialled' = dialled
      \/ /\ phase = "dialling" /\ phase' = "probing" /\ dialled' = dialled
         /\ conf.backend = "memcached" => Cn!Members \subseteq dialled
         /\ conf.backend # "memcached" => "resp" \in dialled
      \/ phase = "ready" /\ phase' = "closed" /\ dialled' = dialled
  BY DEF Cn!DialAnswered, Cn!DialFailed, Cn!Dialled, Cn!Managed, Cn!CloseMemcached,
         Cn!CloseResp, Cn!Taken, Cn!To, Cn!AllDialled
<1>3. Cn!Members' = Cn!Members
  BY <1>1, TargetStays
<1>4. Answered'
  BY <1>1, <1>2, <1>3 DEF LinkInv, Answered
<1>5. Routed'
  BY <1>1, <1>2, CallsAside
<1>6. phase' \in {"dialling", "probing", "ready", "failed", "closed"} \cup {phase}
  BY <1>2
<1>7. phase \in {"checking", "failed"} => phase' \in {phase, "failed"}
  BY <1>2
<1> QED
  BY <1>1, <1>4, <1>5, <1>6, <1>7, RestKeeps

LEMMA ProbeKeeps ==
  ASSUME Cn!ConnectAssumption, LinkInv, Cn!Probe \/ Cn!Ping
  PROVE  LinkInv'
<1>1. /\ UNCHANGED conf /\ UNCHANGED plan /\ UNCHANGED calls /\ UNCHANGED dialled
      /\ phase = "probing" /\ phase' \in {"ready", "failed"}
      /\ phase' = "ready" =>
           \/ conf.backend = "memcached" /\ proved' = Cn!Target(ProbeCrc)
           \/ conf.backend # "memcached" /\ proved' = "resp"
  BY DEF Cn!Probe, Cn!Ping, Cn!Proof, Cn!To
<1>2. phase' = "ready" => proved' \in dialled
  <2>1. conf.backend = "memcached" => Cn!Target(ProbeCrc) \in Cn!Members
    BY <1>1, RoutesAre DEF LinkInv, Checked, Cn!ConnectAssumption
  <2> QED
    BY <1>1, <2>1 DEF LinkInv, Answered
<1>3. Cn!Members' = Cn!Members
  BY <1>1, TargetStays
<1>4. Answered'
  BY <1>1, <1>2, <1>3 DEF LinkInv, Answered
<1>5. Routed'
  BY <1>1, CallsAside
<1> QED
  BY <1>1, <1>4, <1>5, RestKeeps

LEMMA CallKeeps ==
  ASSUME Cn!ConnectAssumption, LinkInv, NEW crc \in Crcs, Cn!Call(crc) \/ Cn!CallEnds(crc)
  PROVE  LinkInv'
<1>1. /\ UNCHANGED conf /\ UNCHANGED plan /\ UNCHANGED phase /\ UNCHANGED dialled
      /\ UNCHANGED proved /\ phase \in {"ready", "closed"}
  BY DEF LinkInv, Routed, Checked, Cn!NoCallWithoutClient, Cn!Call, Cn!CallEnds
<1>2. /\ DOMAIN calls' = Crcs
      /\ \A c \in Crcs \ {crc} : calls'[c] = calls[c]
      /\ calls'[crc] = None \/ calls'[crc] = Cn!Target(crc)
  BY DEF LinkInv, Routed, Cn!Call, Cn!CallEnds
<1>3. Cn!Members' = Cn!Members /\ \A c : Cn!Target(c)' = Cn!Target(c)
  BY <1>1, TargetStays
<1>4. Answered'
  BY <1>1, <1>3 DEF LinkInv, Answered
<1>5. Routed'
  BY <1>1, <1>2, <1>3 DEF LinkInv, Routed, Cn!NoCallWithoutClient
<1> QED
  BY <1>1, <1>4, <1>5, RestKeeps

LEMMA LinkInit == ASSUME Cn!Init PROVE LinkInv
BY DEF Cn!Init, LinkInv, Configured, Checked, Answered, Routed, Cn!NoCallWithoutClient

LEMMA LinkStep ==
  ASSUME Cn!ConnectAssumption, LinkInv, [Cn!Next]_(Cn!conVars)
  PROVE  LinkInv'
<1>1. CASE UNCHANGED Cn!conVars
  BY <1>1, DialKeeps DEF Cn!conVars
<1>2. ASSUME NEW h \in Cn!Hosts, Cn!Change(h)
      PROVE  LinkInv'
  BY <1>2, DialKeeps DEF Cn!Change
<1> QED
  BY <1>1, <1>2, ChecksKeep, DialKeeps, ProbeKeeps, CallKeeps DEF Cn!Next

LEMMA LinkKeeps ==
  ASSUME Cn!ConnectAssumption, LinkInv
  PROVE  Cn!ConnectHonest
<1>1. Cn!RoutedAsListed
  <2> SUFFICES ASSUME NEW crc \in Crcs, calls[crc] # None, conf.backend = "memcached"
               PROVE  calls[crc] = conf.servers[(crc % Len(conf.servers)) + 1]
    BY DEF Cn!RoutedAsListed
  <2>1. phase \in {"ready", "closed"} /\ calls[crc] = Cn!Target(crc)
    BY DEF LinkInv, Routed, Cn!NoCallWithoutClient
  <2>2. crc \in Nat
    BY DEF Cn!ConnectAssumption
  <2> QED
    BY <2>1, <2>2, RoutesAre DEF LinkInv, Checked
<1>2. Cn!ReadyIsProved
  <2> SUFFICES ASSUME phase \in {"ready", "closed"}
               PROVE  /\ proved \in dialled
                      /\ conf.backend = "memcached" =>
                           dialled = {conf.servers[i] : i \in Cn!Indices(conf.servers)}
                      /\ conf.dial # "After0"
    BY DEF Cn!ReadyIsProved
  <2>1. proved \in dialled /\ conf.dial # "After0"
    BY DEF LinkInv, Answered, Checked
  <2>2. ASSUME conf.backend = "memcached"
        PROVE  dialled = {conf.servers[i] : i \in Cn!Indices(conf.servers)}
    <3>1. dialled = Cn!Members
      BY <2>2 DEF LinkInv, Answered
    <3>2. Cn!Members = {conf.servers[i] : i \in Cn!Indices(conf.servers)}
      BY <2>2, RoutesAre DEF LinkInv, Checked
    <3> QED
      BY <3>1, <3>2
  <2> QED
    BY <2>1, <2>2
<1>3. Cn!AddressExact
  <2> SUFFICES ASSUME conf.backend # "memcached", phase \notin {"checking", "failed"}
               PROVE  LET a == Cn!Address(conf)  p == Cn!parse_address(a) IN
                      \/ a = p.host \o <<":">> \o p.port
                      \/ a = <<"[">> \o p.host \o <<"]", ":">> \o p.port
    BY Zenon DEF Cn!AddressExact
  <2>1. PICK T : Cn!Address(conf) \in Seq(T)
    BY ConfigTypes DEF LinkInv
  <2>2. Cn!parse_address(Cn!Address(conf)) # None
    BY DEF LinkInv, Checked
  <2> QED
    BY <2>1, <2>2, PartsOfAddress
<1> QED
  BY <1>1, <1>2, <1>3 DEF LinkInv, Routed, Cn!ConnectHonest

\* What a connected client stands for: every server of the list answered its dial and one
\* answered a command before there was a client, no call runs without one, a call goes to
\* the entry of the list that its key's CRC selects, however often a server is listed, and
\* the address of a RESP server is read as it was written (connect, plan_servers,
\* route_slot, parse_address).
THEOREM ConnectHonestHolds ==
  ASSUME Cn!ConnectAssumption
  PROVE  Cn!Spec => []Cn!ConnectHonest
<1>1. Cn!Init => LinkInv
  BY LinkInit
<1>2. LinkInv /\ [Cn!Next]_(Cn!conVars) => LinkInv'
  BY LinkStep
<1>3. LinkInv => Cn!ConnectHonest
  BY LinkKeeps
<1> QED
  BY <1>1, <1>2, <1>3, PTL DEF Cn!Spec

-----------------------------------------------------------------------------
(* Provider: the escape of a head and the glob match of the backend, both   *)
(* recursions over a string, by their least counterexamples; the layout of  *)
(* keys; and the invariant.                                                 *)

LEMMA LeastOf ==
  ASSUME NEW S \in SUBSET Nat, S # {}
  PROVE  \E x \in S : \A j \in S : x <= j
BY LeastIs

LEMMA Concatenated ==
  ASSUME NEW T, NEW a \in Seq(T), NEW b \in Seq(T)
  PROVE  /\ a \o b \in Seq(T) /\ Len(a \o b) = Len(a) + Len(b)
         /\ \A i \in 1..Len(a) : (a \o b)[i] = a[i]
         /\ \A i \in 1..Len(b) : (a \o b)[Len(a) + i] = b[i]
<1>1. Len(a) \in Nat /\ Len(b) \in Nat
  BY LenProperties
<1>2. /\ a \o b \in Seq(T) /\ Len(a \o b) = Len(a) + Len(b)
      /\ \A i \in 1..(Len(a) + Len(b)) : (a \o b)[i] = IF i <= Len(a) THEN a[i] ELSE b[i - Len(a)]
  BY ConcatProperties
<1>3. \A i \in 1..Len(a) : (a \o b)[i] = a[i]
  BY <1>1, <1>2
<1>4. ASSUME NEW i \in 1..Len(b) PROVE (a \o b)[Len(a) + i] = b[i]
  <2>1. Len(a) + i \in 1..(Len(a) + Len(b)) /\ ~(Len(a) + i <= Len(a)) /\ Len(a) + i - Len(a) = i
    BY <1>1
  <2> QED
    BY <1>2, <2>1
<1> QED
  BY <1>2, <1>3, <1>4

-----------------------------------------------------------------------------
(* The escaped head *)

Block(c) == IF c \in Pr!Special THEN <<"\\", c>> ELSE <<c>>
IsUpto(g, s, n) == g = [m \in 0..n |-> IF m = 0 THEN <<>> ELSE g[m - 1] \o Block(s[m])]

Words == STRING \cup Pr!Special \cup {":", "cache", "vol", "db0", "db1"}
Text == Seq(Words)

LEMMA UptoExists ==
  ASSUME NEW s \in Text, NEW n \in 0..Len(s)
  PROVE  \E g : IsUpto(g, s, n)
<1>0. Len(s) \in Nat
  BY LenProperties DEF Text
<1> SUFFICES ASSUME {m \in 0..Len(s) : \A g : ~IsUpto(g, s, m)} # {} PROVE FALSE
  OBVIOUS
<1> DEFINE Bad == {m \in 0..Len(s) : \A g : ~IsUpto(g, s, m)}
<1>1. PICK b \in Bad : \A m \in Bad : b <= m
  <2>1. Bad \in SUBSET Nat
    BY <1>0
  <2> QED
    BY <2>1, LeastOf
<1>2. b # 0
  <2>1. IsUpto([m \in 0..0 |-> <<>>], s, 0)
    BY DEF IsUpto
  <2> QED
    BY <2>1
<1>3. PICK g : IsUpto(g, s, b - 1)
  <2>1. b - 1 \in 0..Len(s) /\ ~(b <= b - 1)
    BY <1>0, <1>2
  <2>2. b - 1 \notin Bad
    BY <1>1, <2>1
  <2> QED
    BY <2>1, <2>2
<1> DEFINE h == [m \in 0..b |-> IF m = b THEN g[b - 1] \o Block(s[b]) ELSE g[m]]
<1>4. b \in Nat /\ b >= 1
  BY <1>0, <1>2
<1>5. ASSUME NEW m \in 0..b
      PROVE  h[m] = IF m = 0 THEN <<>> ELSE h[m - 1] \o Block(s[m])
  <2>1. CASE m = 0
    BY <1>3, <1>4, <2>1 DEF IsUpto
  <2>2. CASE m = b
    <3>1. h[m - 1] = g[b - 1]
      BY <1>4, <2>2
    <3>2. h[m] = g[b - 1] \o Block(s[b])
      BY <1>4, <2>2
    <3>3. m # 0
      BY <1>4, <2>2
    <3> HIDE DEF h
    <3> QED
      BY <2>2, <3>1, <3>2, <3>3, Zenon
  <2>3. CASE m # 0 /\ m # b
    <3>1. m \in 0..(b - 1) /\ m - 1 \in 0..b /\ m - 1 # b
      BY <1>4, <2>3
    <3>2. h[m] = g[m] /\ h[m - 1] = g[m - 1]
      BY <2>3, <3>1
    <3>3. g[m] = g[m - 1] \o Block(s[m])
      BY <1>3, <2>3, <3>1 DEF IsUpto
    <3> QED
      BY <2>3, <3>2, <3>3
  <2> QED
    BY <2>1, <2>2, <2>3
<1>6. IsUpto(h, s, b)
  <2>1. h = [m \in 0..b |-> IF m = 0 THEN <<>> ELSE h[m - 1] \o Block(s[m])]
    <3>1. h = [m \in 0..b |-> h[m]]
      OBVIOUS
    <3> HIDE DEF h
    <3> QED
      BY <1>5, <3>1
  <2> QED
    BY <2>1 DEF IsUpto
<1> QED
  BY <1>1, <1>6

Upto(s) == CHOOSE g : IsUpto(g, s, Len(s))

LEMMA EscapeIs ==
  ASSUME NEW s \in Text
  PROVE  IsUpto(Upto(s), s, Len(s)) /\ Pr!escape_glob_literal(s) = Upto(s)[Len(s)]
<1>1. IsUpto(Upto(s), s, Len(s))
  <2>1. Len(s) \in 0..Len(s)
    BY LenProperties DEF Text
  <2> QED
    BY <2>1, UptoExists DEF Upto
<1>2. Pr!escape_glob_literal(s) = Upto(s)[Len(s)]
  BY DEF Pr!escape_glob_literal, Upto, IsUpto, Block
<1> QED
  BY <1>1, <1>2

LEMMA Single == ASSUME NEW S, NEW c \in S PROVE <<c>> \in Seq(S) /\ Len(<<c>>) = 1 /\ <<c>>[1] = c
OBVIOUS
LEMMA Double ==
  ASSUME NEW S, NEW c \in S, NEW d \in S
  PROVE  <<c, d>> \in Seq(S) /\ Len(<<c, d>>) = 2 /\ <<c, d>>[1] = c /\ <<c, d>>[2] = d
OBVIOUS

LEMMA TextJoins ==
  ASSUME NEW a \in Text, NEW b \in Text
  PROVE  /\ a \o b \in Text /\ Len(a \o b) = Len(a) + Len(b)
         /\ \A i \in 1..Len(a) : (a \o b)[i] = a[i]
         /\ \A i \in 1..Len(b) : (a \o b)[Len(a) + i] = b[i]
         /\ Len(a) \in Nat /\ Len(b) \in Nat
<1>1. a \in Seq(Words) /\ b \in Seq(Words)
  BY DEF Text
<1>2. Len(a) \in Nat /\ Len(b) \in Nat
  BY <1>1, LenProperties
<1> QED
  BY <1>1, <1>2, Concatenated DEF Text

LEMMA BlockIs ==
  ASSUME NEW c \in Words
  PROVE  /\ Block(c) \in Text
         /\ c \in Pr!Special => Len(Block(c)) = 2 /\ Block(c)[1] = "\\" /\ Block(c)[2] = c
         /\ c \notin Pr!Special => Len(Block(c)) = 1 /\ Block(c)[1] = c
<1>0. "\\" \in Words
  BY DEF Words, Pr!Special
<1>1. CASE c \in Pr!Special
  <2>1. Block(c) = <<"\\", c>>
    BY <1>1 DEF Block
  <2>2. <<"\\", c>> \in Seq(Words) /\ Len(<<"\\", c>>) = 2 /\ <<"\\", c>>[1] = "\\" /\ <<"\\", c>>[2] = c
    BY <1>0, Double, Zenon
  <2> QED
    BY <1>1, <2>1, <2>2, Zenon DEF Text
<1>2. CASE c \notin Pr!Special
  <2>1. Block(c) = <<c>>
    BY <1>2 DEF Block
  <2>2. <<c>> \in Seq(Words) /\ Len(<<c>>) = 1 /\ <<c>>[1] = c
    BY Single, Zenon
  <2> QED
    BY <1>2, <2>1, <2>2, Zenon DEF Text
<1> QED
  BY <1>1, <1>2

LEMMA UptoSteps ==
  ASSUME NEW s \in Text
  PROVE  /\ Upto(s)[0] = <<>>
         /\ \A k \in 1..Len(s) : Upto(s)[k] = Upto(s)[k - 1] \o Block(s[k])
<1> DEFINE g == Upto(s)
<1>1. Len(s) \in Nat
  BY LenProperties DEF Text
<1>2. g = [m \in 0..Len(s) |-> IF m = 0 THEN <<>> ELSE g[m - 1] \o Block(s[m])]
  BY EscapeIs DEF IsUpto
<1> HIDE DEF g
<1>3. \A m \in 0..Len(s) : g[m] = IF m = 0 THEN <<>> ELSE g[m - 1] \o Block(s[m])
  BY <1>2
<1>4. g[0] = <<>>
  BY <1>1, <1>3
<1>5. ASSUME NEW k \in 1..Len(s) PROVE g[k] = g[k - 1] \o Block(s[k])
  <2>1. k \in 0..Len(s) /\ k # 0
    BY <1>1
  <2> QED
    BY <1>3, <2>1, Zenon
<1> QED
  BY <1>4, <1>5 DEF g

LEMMA UptoTyped ==
  ASSUME NEW s \in Text
  PROVE  \A k \in 0..Len(s) : Upto(s)[k] \in Text
<1> DEFINE Bad == {k \in 0..Len(s) : Upto(s)[k] \notin Text}
<1>0. Len(s) \in Nat
  BY LenProperties DEF Text
<1>1. SUFFICES ASSUME Bad # {} PROVE FALSE
  OBVIOUS
<1>2. PICK b \in Bad : \A k \in Bad : b <= k
  <2>1. Bad \in SUBSET Nat
    BY <1>0
  <2> QED
    BY <1>1, <2>1, LeastOf
<1>3. b # 0
  <2>1. <<>> \in Seq(Words)
    OBVIOUS
  <2> QED
    BY <2>1, UptoSteps DEF Text
<1>4. b \in 1..Len(s) /\ b - 1 \in 0..Len(s) /\ ~(b <= b - 1)
  BY <1>0, <1>3
<1>5. Upto(s)[b - 1] \in Text
  BY <1>2, <1>4
<1>6. s[b] \in Words
  BY <1>4, ElementOfSeq DEF Text
<1>7. Upto(s)[b] = Upto(s)[b - 1] \o Block(s[b])
  BY <1>4, UptoSteps
<1>8. Upto(s)[b] \in Text
  <2>1. Block(s[b]) \in Text
    BY <1>6, BlockIs
  <2> QED
    BY <1>5, <1>7, <2>1, TextJoins
<1> QED
  BY <1>8

\* What the escape of the first k characters and the one before it have in common.
Extends(t, s) == Len(s) <= Len(t) /\ \A i \in 1..Len(s) : t[i] = s[i]

LEMMA UptoExtends ==
  ASSUME NEW s \in Text, NEW k \in 0..Len(s)
  PROVE  \A m \in k..Len(s) : Extends(Upto(s)[m], Upto(s)[k])
<1> DEFINE Bad == {m \in k..Len(s) : ~Extends(Upto(s)[m], Upto(s)[k])}
<1>0. Len(s) \in Nat
  BY LenProperties DEF Text
<1>1. SUFFICES ASSUME Bad # {} PROVE FALSE
  OBVIOUS
<1>2. PICK b \in Bad : \A m \in Bad : b <= m
  <2>1. Bad \in SUBSET Nat
    BY <1>0
  <2> QED
    BY <1>1, <2>1, LeastOf
<1>t. \A m \in 0..Len(s) : Upto(s)[m] \in Text /\ Len(Upto(s)[m]) \in Nat
  BY UptoTyped, LenProperties DEF Text
<1>3. b # k
  BY <1>t DEF Extends
<1>4. b \in 1..Len(s) /\ b - 1 \in k..Len(s) /\ ~(b <= b - 1)
  BY <1>0, <1>3
<1>5. Extends(Upto(s)[b - 1], Upto(s)[k])
  BY <1>2, <1>4
<1>6. Block(s[b]) \in Text
  BY <1>4, ElementOfSeq, BlockIs DEF Text
<1>7. Upto(s)[b] = Upto(s)[b - 1] \o Block(s[b])
  BY <1>4, UptoSteps
<1>8. /\ Len(Upto(s)[b]) = Len(Upto(s)[b - 1]) + Len(Block(s[b]))
      /\ \A i \in 1..Len(Upto(s)[b - 1]) : Upto(s)[b][i] = Upto(s)[b - 1][i]
      /\ Len(Block(s[b])) \in Nat
  <2> DEFINE u == Upto(s)[b - 1]  v == Block(s[b])
  <2>1. u \in Text /\ v \in Text
    BY <1>0, <1>4, <1>6, <1>t
  <2>2. Upto(s)[b] = u \o v
    BY <1>7
  <2> HIDE DEF u, v
  <2>3. Len(u \o v) = Len(u) + Len(v) /\ (\A i \in 1..Len(u) : (u \o v)[i] = u[i]) /\ Len(v) \in Nat
    BY <2>1, TextJoins
  <2> QED
    BY <2>2, <2>3 DEF u, v
<1>9. Extends(Upto(s)[b], Upto(s)[k])
  <2> DEFINE t == Upto(s)[b]  u == Upto(s)[b - 1]  v == Upto(s)[k]
  <2>1. Len(v) \in Nat /\ Len(u) \in Nat
    BY <1>0, <1>4, <1>t
  <2>2. Len(v) <= Len(u) /\ \A i \in 1..Len(v) : u[i] = v[i]
    BY <1>5 DEF Extends
  <2>3. Len(t) = Len(u) + Len(Block(s[b])) /\ \A i \in 1..Len(u) : t[i] = u[i]
    BY <1>8
  <2> HIDE DEF t, u, v
  <2>4. Len(v) <= Len(t) /\ \A i \in 1..Len(v) : t[i] = v[i]
    BY <1>8, <2>1, <2>2, <2>3
  <2> QED
    BY <2>4 DEF Extends, t, v
<1> QED
  BY <1>9

-----------------------------------------------------------------------------
(* The glob match of an escaped head *)

RestAt(after, beyond, p, s, n) ==
  LET i == Len(p) - n + 1
  IN CASE n = 0 -> {Len(s) + 1}
       [] n > 0 /\ p[i] = "*" -> {j \in 1..(Len(s) + 1) : \E k \in after : j <= k}
       [] n > 1 /\ p[i] = "\\" -> {j \in 1..Len(s) : s[j] = p[i + 1] /\ j + 1 \in beyond}
       [] OTHER -> {j \in 1..Len(s) : s[j] = p[i] /\ j + 1 \in after}
IsRest(g, p, s, n) == g = [m \in 0..n |-> RestAt(g[m - 1], g[m - 2], p, s, m)]

LEMMA RestCases ==
  ASSUME NEW u, NEW v, NEW p, NEW s, NEW n \in Nat
  PROVE  LET i == Len(p) - n + 1 IN
         /\ n = 0 => RestAt(u, v, p, s, n) = {Len(s) + 1}
         /\ n > 0 /\ p[i] = "*" => RestAt(u, v, p, s, n) = {j \in 1..(Len(s) + 1) : \E k \in u : j <= k}
         /\ n > 1 /\ p[i] = "\\" =>
              RestAt(u, v, p, s, n) = {j \in 1..Len(s) : s[j] = p[i + 1] /\ j + 1 \in v}
         /\ n > 0 /\ p[i] # "*" /\ ~(n > 1 /\ p[i] = "\\") =>
              RestAt(u, v, p, s, n) = {j \in 1..Len(s) : s[j] = p[i] /\ j + 1 \in u}
<1> DEFINE i == Len(p) - n + 1
           A == {Len(s) + 1}
           B == {j \in 1..(Len(s) + 1) : \E k \in u : j <= k}
           C == {j \in 1..Len(s) : s[j] = p[i + 1] /\ j + 1 \in v}
           D == {j \in 1..Len(s) : s[j] = p[i] /\ j + 1 \in u}
           star == p[i] = "*"
           slash == p[i] = "\\"
<1>1. RestAt(u, v, p, s, n) = CASE n = 0 -> A [] n > 0 /\ star -> B [] n > 1 /\ slash -> C [] OTHER -> D
  BY DEF RestAt
<1>2. ~(star /\ slash)
  OBVIOUS
<1> HIDE DEF A, B, C, D, star, slash
<1>3. /\ n = 0 => RestAt(u, v, p, s, n) = A
      /\ n > 0 /\ star => RestAt(u, v, p, s, n) = B
      /\ n > 1 /\ slash => RestAt(u, v, p, s, n) = C
      /\ n > 0 /\ ~star /\ ~(n > 1 /\ slash) => RestAt(u, v, p, s, n) = D
  BY <1>1, <1>2
<1> QED
  BY <1>3 DEF A, B, C, D, star, slash

LEMMA RestBase ==
  ASSUME NEW u, NEW v, NEW p, NEW s, NEW n, n = 0
  PROVE  RestAt(u, v, p, s, n) = {Len(s) + 1}
BY DEF RestAt

LEMMA RestEnds ==
  ASSUME NEW u, NEW v, NEW w, NEW x, NEW p, NEW s
  PROVE  /\ RestAt(u, v, p, s, 0) = {Len(s) + 1}
         /\ RestAt(u, v, p, s, 1) = RestAt(u, x, p, s, 1)
<1>1. RestAt(u, v, p, s, 0) = {Len(s) + 1}
  BY DEF RestAt
<1> DEFINE i == Len(p) - 1 + 1
           A == {Len(s) + 1}
           B == {j \in 1..(Len(s) + 1) : \E k \in u : j <= k}
           C(y) == {j \in 1..Len(s) : s[j] = p[i + 1] /\ j + 1 \in y}
           D == {j \in 1..Len(s) : s[j] = p[i] /\ j + 1 \in u}
           star == p[i] = "*"
           slash == p[i] = "\\"
<1>2. RestAt(u, v, p, s, 1) = CASE 1 = 0 -> A [] 1 > 0 /\ star -> B [] 1 > 1 /\ slash -> C(v) [] OTHER -> D
  BY DEF RestAt
<1>3. RestAt(u, x, p, s, 1) = CASE 1 = 0 -> A [] 1 > 0 /\ star -> B [] 1 > 1 /\ slash -> C(x) [] OTHER -> D
  BY DEF RestAt
<1> HIDE DEF A, B, C, D, star, slash
<1>4. RestAt(u, v, p, s, 1) = RestAt(u, x, p, s, 1)
  BY <1>2, <1>3
<1> QED
  BY <1>1, <1>4

LEMMA RestExists ==
  ASSUME NEW p, NEW s, Len(p) \in Nat
  PROVE  \E g : IsRest(g, p, s, Len(p))
<1> DEFINE Bad == {m \in 0..Len(p) : \A g : ~IsRest(g, p, s, m)}
<1>1. SUFFICES ASSUME Bad # {} PROVE FALSE
  OBVIOUS
<1>2. PICK b \in Bad : \A m \in Bad : b <= m
  <2>1. Bad \in SUBSET Nat
    OBVIOUS
  <2> QED
    BY <1>1, <2>1, LeastOf
<1>3. b # 0
  <2> DEFINE g == [m \in 0..0 |-> {Len(s) + 1}]
  <2>1. \A m \in 0..0 : RestAt(g[m - 1], g[m - 2], p, s, m) = {Len(s) + 1}
    BY RestEnds
  <2>2. g = [m \in 0..0 |-> RestAt(g[m - 1], g[m - 2], p, s, m)]
    <3> HIDE DEF g
    <3>1. g = [m \in 0..0 |-> {Len(s) + 1}]
      BY DEF g
    <3> QED
      BY <2>1, <3>1
  <2>3. IsRest(g, p, s, 0)
    BY <2>2 DEF IsRest
  <2> QED
    BY <2>3
<1>4. b \in Nat /\ b >= 1
  BY <1>3
<1>5. PICK g : IsRest(g, p, s, b - 1)
  <2>1. b - 1 \in 0..Len(p) /\ ~(b <= b - 1)
    BY <1>4
  <2> QED
    BY <1>2, <2>1
<1> DEFINE h == [m \in 0..b |-> IF m = b THEN RestAt(g[b - 1], g[b - 2], p, s, b) ELSE g[m]]
<1>6. ASSUME NEW m \in 0..b PROVE h[m] = RestAt(h[m - 1], h[m - 2], p, s, m)
  <2>1. m > 0 => h[m - 1] = g[m - 1]
    BY <1>4
  <2>2. m > 1 => h[m - 2] = g[m - 2]
    BY <1>4
  <2>3. RestAt(h[m - 1], h[m - 2], p, s, m) = RestAt(g[m - 1], g[m - 2], p, s, m)
    <3> HIDE DEF h
    <3>1. CASE m = 0
      <4>1. RestAt(h[m - 1], h[m - 2], p, s, m) = {Len(s) + 1}
        BY <3>1 DEF RestAt
      <4>2. RestAt(g[m - 1], g[m - 2], p, s, m) = {Len(s) + 1}
        BY <3>1 DEF RestAt
      <4> QED
        BY <4>1, <4>2, Zenon
    <3>2. CASE m = 1
      <4>1. h[m - 1] = g[m - 1]
        BY <2>1, <3>2
      <4> QED
        BY <3>2, <4>1, RestEnds
    <3>3. CASE m > 1
      BY <2>1, <2>2, <3>3
    <3> QED
      BY <1>4, <3>1, <3>2, <3>3
  <2>4. CASE m = b
    BY <2>3, <2>4
  <2>5. CASE m # b
    <3>1. m \in 0..(b - 1)
      BY <1>4, <2>5
    <3>2. g[m] = RestAt(g[m - 1], g[m - 2], p, s, m)
      BY <1>5, <3>1 DEF IsRest
    <3> QED
      BY <2>3, <2>5, <3>2
  <2> QED
    BY <2>4, <2>5
<1>7. h = [m \in 0..b |-> RestAt(h[m - 1], h[m - 2], p, s, m)]
  <2>1. h = [m \in 0..b |-> h[m]]
    OBVIOUS
  <2> HIDE DEF h
  <2> QED
    BY <1>6, <2>1
<1>8. IsRest(h, p, s, b)
  BY <1>7 DEF IsRest
<1> QED
  BY <1>8

Rest(p, s) == CHOOSE g : IsRest(g, p, s, Len(p))

LEMMA MatchIs ==
  ASSUME NEW p, NEW s, Len(p) \in Nat
  PROVE  /\ Pr!Matches(p, s) <=> 1 \in Rest(p, s)[Len(p)]
         /\ \A n \in 0..Len(p) :
              Rest(p, s)[n] = RestAt(Rest(p, s)[n - 1], Rest(p, s)[n - 2], p, s, n)
<1>1. IsRest(Rest(p, s), p, s, Len(p))
  BY RestExists DEF Rest
<1>2. Pr!Matches(p, s) <=> 1 \in Rest(p, s)[Len(p)]
  BY DEF Pr!Matches, Rest, IsRest, RestAt
<1> QED
  BY <1>1, <1>2 DEF IsRest

(* How a pattern of a head matches: from its end, one escaped character at a time. *)

Ends(head, s, k) ==
  {j \in 1..(Len(s) + 1) : /\ j + (Len(head) - k) <= Len(s) + 1
                           /\ \A x \in 1..(Len(head) - k) : s[j + x - 1] = head[k + x]}
From(head, k) == Len(Upto(head)[Len(head)]) - Len(Upto(head)[k]) + 1
PatternOf(head) == Pr!prefix_pattern(head)

LEMMA PatternIs ==
  ASSUME NEW head \in Text
  PROVE  /\ Len(head) \in Nat
         /\ Upto(head)[Len(head)] \in Text /\ Len(Upto(head)[Len(head)]) \in Nat
         /\ PatternOf(head) = Upto(head)[Len(head)] \o <<"*">>
         /\ Len(PatternOf(head)) = Len(Upto(head)[Len(head)]) + 1
         /\ \A i \in 1..Len(Upto(head)[Len(head)]) : PatternOf(head)[i] = Upto(head)[Len(head)][i]
         /\ PatternOf(head)[Len(PatternOf(head))] = "*"
<1>1. Len(head) \in Nat
  BY LenProperties DEF Text
<1> DEFINE e == Upto(head)[Len(head)]
<1>2. e \in Text
  BY <1>1, UptoTyped
<1>3. PatternOf(head) = e \o <<"*">>
  BY EscapeIs DEF PatternOf, Pr!prefix_pattern
<1>4. <<"*">> \in Text /\ Len(<<"*">>) = 1 /\ <<"*">>[1] = "*"
  <2>1. "*" \in Words
    BY DEF Words, Pr!Special
  <2> QED
    BY <2>1, Single, Zenon DEF Text
<1> DEFINE t == <<"*">>
<1> HIDE DEF e, t
<1>5. t \in Text /\ Len(t) = 1 /\ t[1] = "*" /\ PatternOf(head) = e \o t
  BY <1>3, <1>4 DEF t
<1>6. /\ Len(e \o t) = Len(e) + 1 /\ Len(e) \in Nat
      /\ \A i \in 1..Len(e) : (e \o t)[i] = e[i]
      /\ (e \o t)[Len(e) + 1] = "*"
  <2>1. /\ Len(e \o t) = Len(e) + Len(t) /\ Len(e) \in Nat
        /\ \A i \in 1..Len(e) : (e \o t)[i] = e[i]
        /\ \A i \in 1..Len(t) : (e \o t)[Len(e) + i] = t[i]
    BY <1>2, <1>5, TextJoins
  <2>2. 1 \in 1..Len(t)
    BY <1>5
  <2>3. (e \o t)[Len(e) + 1] = t[1]
    BY <2>1, <2>2
  <2> QED
    BY <1>5, <2>1, <2>3
<1> QED
  BY <1>1, <1>2, <1>3, <1>5, <1>6 DEF e

\* The characters of the pattern that stand for the k-th of the head.
LEMMA PatternBlock ==
  ASSUME NEW head \in Text, NEW k \in 1..Len(head)
  PROVE  LET i == Len(Upto(head)[k - 1]) + 1
             p == PatternOf(head)
         IN /\ Len(Upto(head)[k - 1]) \in Nat /\ Len(Upto(head)[k]) \in Nat
            /\ Len(Upto(head)[k]) <= Len(Upto(head)[Len(head)])
            /\ head[k] \in Pr!Special =>
                 p[i] = "\\" /\ p[i + 1] = head[k] /\ Len(Upto(head)[k]) = Len(Upto(head)[k - 1]) + 2
            /\ head[k] \notin Pr!Special =>
                 p[i] = head[k] /\ Len(Upto(head)[k]) = Len(Upto(head)[k - 1]) + 1
<1>1. Len(head) \in Nat /\ head[k] \in Words /\ k - 1 \in 0..Len(head) /\ k \in 0..Len(head)
      /\ Len(head) \in k..Len(head)
  <2>1. Len(head) \in Nat
    BY LenProperties DEF Text
  <2>2. head[k] \in Words
    BY ElementOfSeq DEF Text
  <2> QED
    BY <2>1, <2>2
<1> DEFINE u == Upto(head)[k - 1]  v == Block(head[k])  w == Upto(head)[k]
           e == Upto(head)[Len(head)]  p == PatternOf(head)  c == head[k]
<1>2. w = u \o v /\ u \in Text /\ v \in Text
  BY <1>1, UptoSteps, UptoTyped, BlockIs
<1>3. Len(w) <= Len(e) /\ \A i \in 1..Len(w) : e[i] = w[i]
  BY <1>1, UptoExtends DEF Extends
<1>4. Len(e) \in Nat /\ \A i \in 1..Len(e) : p[i] = e[i]
  BY PatternIs
<1>5. /\ c \in Pr!Special => Len(v) = 2 /\ v[1] = "\\" /\ v[2] = c
      /\ c \notin Pr!Special => Len(v) = 1 /\ v[1] = c
  BY <1>1, BlockIs
<1> HIDE DEF u, v, w, e, p, c
<1>6. /\ Len(w) = Len(u) + Len(v) /\ Len(u) \in Nat /\ Len(v) \in Nat
      /\ \A i \in 1..Len(v) : w[Len(u) + i] = v[i]
  BY <1>2, TextJoins
<1>7. \A i \in 1..Len(v) : p[Len(u) + i] = v[i]
  <2> SUFFICES ASSUME NEW i \in 1..Len(v) PROVE p[Len(u) + i] = v[i]
    OBVIOUS
  <2>1. Len(u) + i \in 1..Len(w) /\ Len(u) + i \in 1..Len(e)
    BY <1>3, <1>4, <1>6
  <2> QED
    BY <1>3, <1>4, <1>6, <2>1
<1>8. ASSUME c \in Pr!Special PROVE p[Len(u) + 1] = "\\" /\ p[Len(u) + 1 + 1] = c /\ Len(w) = Len(u) + 2
  <2>1. Len(v) = 2 /\ v[1] = "\\" /\ v[2] = c
    BY <1>5, <1>8
  <2>2. p[Len(u) + 1] = v[1] /\ p[Len(u) + 2] = v[2]
    BY <1>7, <2>1
  <2> QED
    BY <1>6, <2>1, <2>2
<1>9. ASSUME c \notin Pr!Special PROVE p[Len(u) + 1] = c /\ Len(w) = Len(u) + 1
  <2>1. Len(v) = 1 /\ v[1] = c
    BY <1>5, <1>9
  <2>2. p[Len(u) + 1] = v[1]
    BY <1>7, <2>1
  <2> QED
    BY <1>6, <2>1, <2>2
<1>10. Len(u) \in Nat /\ Len(w) \in Nat /\ Len(w) <= Len(e)
  BY <1>3, <1>6
<1> QED
  BY <1>8, <1>9, <1>10 DEF u, w, e, p, c

LEMMA MatchEnds ==
  ASSUME NEW head \in Text, NEW s \in Text
  PROVE  Rest(PatternOf(head), s)[From(head, Len(head))] = Ends(head, s, Len(head))
<1> DEFINE p == PatternOf(head)  r == Rest(p, s)
<1>1. Len(head) \in Nat /\ Len(s) \in Nat /\ Len(p) \in Nat /\ Len(p) >= 1
  BY PatternIs, LenProperties DEF Text
<1>2. From(head, Len(head)) = 1 /\ p[Len(p)] = "*"
  BY PatternIs DEF From
<1>3. r[0] = {Len(s) + 1}
  <2>1. r[0] = RestAt(r[0 - 1], r[0 - 2], p, s, 0)
    BY <1>1, MatchIs
  <2> QED
    BY <2>1 DEF RestAt
<1>4. r[1] = {j \in 1..(Len(s) + 1) : \E k \in r[0] : j <= k}
  <2>1. r[1] = RestAt(r[0], r[1 - 2], p, s, 1)
    BY <1>1, MatchIs
  <2>2. p[Len(p) - 1 + 1] = "*"
    BY <1>1, <1>2
  <2> HIDE DEF p, r
  <2>3. RestAt(r[0], r[1 - 2], p, s, 1) = {j \in 1..(Len(s) + 1) : \E k \in r[0] : j <= k}
    BY <2>2, RestCases
  <2> QED
    BY <2>1, <2>3
<1>5. Ends(head, s, Len(head)) = 1..(Len(s) + 1)
  BY <1>1 DEF Ends
<1> HIDE DEF r
<1>6. r[1] = 1..(Len(s) + 1)
  BY <1>1, <1>3, <1>4
<1> QED
  BY <1>2, <1>5, <1>6 DEF r

LEMMA MatchSteps ==
  ASSUME NEW head \in Text, NEW s \in Text, NEW k \in 1..Len(head),
         Rest(PatternOf(head), s)[From(head, k)] = Ends(head, s, k)
  PROVE  Rest(PatternOf(head), s)[From(head, k - 1)] = Ends(head, s, k - 1)
<1> DEFINE p == PatternOf(head)  r == Rest(p, s)  h == Len(head)  c == head[k]
           n == From(head, k - 1)  i == Len(Upto(head)[k - 1]) + 1
           f == From(head, k)
<1>1. Len(p) \in Nat /\ Len(s) \in Nat /\ h \in Nat /\ k \in Nat /\ k >= 1 /\ k <= h
  BY PatternIs, LenProperties DEF Text
<1>2. i \in Nat /\ i >= 1 /\ Len(p) - n + 1 = i /\ n \in 0..Len(p) /\ n > 1
      /\ (c \in Pr!Special => f = n - 2) /\ (c \notin Pr!Special => f = n - 1)
  <2> DEFINE x == Len(Upto(head)[k - 1])  y == Len(Upto(head)[k])  z == Len(Upto(head)[h])
  <2>1. /\ x \in Nat /\ y \in Nat /\ y <= z
        /\ c \in Pr!Special => y = x + 2
        /\ c \notin Pr!Special => y = x + 1
    BY PatternBlock
  <2>2. z \in Nat /\ Len(p) = z + 1
    BY PatternIs
  <2>3. n = z - x + 1 /\ f = z - y + 1 /\ i = x + 1
    BY DEF From
  <2> HIDE DEF x, y, z, n, f, i, p, c
  <2>4. i \in Nat /\ i >= 1 /\ Len(p) - n + 1 = i /\ n \in 0..Len(p) /\ n > 1
    BY <2>1, <2>2, <2>3
  <2>5. (c \in Pr!Special => f = n - 2) /\ (c \notin Pr!Special => f = n - 1)
    BY <2>1, <2>2, <2>3
  <2> QED
    BY <2>4, <2>5
<1>3. /\ c \in Pr!Special => p[i] = "\\" /\ p[i + 1] = c
      /\ c \notin Pr!Special => p[i] = c
  BY PatternBlock
<1>4. r[n] = RestAt(r[n - 1], r[n - 2], p, s, n)
  BY <1>1, <1>2, MatchIs
<1>5. r[f] = Ends(head, s, k)
  OBVIOUS
<1>6. (c # "*" /\ c # "\\") \/ c \in Pr!Special
  BY DEF Pr!Special
<1>7. Ends(head, s, k) = {j \in 1..(Len(s) + 1) : /\ j + (h - k) <= Len(s) + 1
                           /\ \A x \in 1..(h - k) : s[j + x - 1] = head[k + x]}
  BY DEF Ends
<1>8. Ends(head, s, k - 1) = {j \in 1..(Len(s) + 1) : /\ j + (h - (k - 1)) <= Len(s) + 1
                           /\ \A x \in 1..(h - (k - 1)) : s[j + x - 1] = head[k - 1 + x]}
  BY DEF Ends
<1> HIDE DEF p, r, h, c, n, i, f
<1>9. r[n] = {j \in 1..Len(s) : s[j] = c /\ j + 1 \in r[f]}
  <2>1. CASE c \in Pr!Special
    <3>1. p[Len(p) - n + 1] = "\\" /\ p[Len(p) - n + 1 + 1] = c
      BY <1>2, <1>3, <2>1
    <3>2. RestAt(r[n - 1], r[n - 2], p, s, n)
            = {j \in 1..Len(s) : s[j] = p[Len(p) - n + 1 + 1] /\ j + 1 \in r[n - 2]}
      BY <1>1, <1>2, <3>1, RestCases
    <3>3. r[n - 2] = r[f]
      BY <1>2, <2>1
    <3> QED
      BY <1>4, <3>1, <3>2, <3>3, Zenon
  <2>2. CASE c \notin Pr!Special
    <3>1. p[Len(p) - n + 1] = c /\ c # "*" /\ c # "\\"
      BY <1>2, <1>3, <1>6, <2>2
    <3>2. RestAt(r[n - 1], r[n - 2], p, s, n)
            = {j \in 1..Len(s) : s[j] = p[Len(p) - n + 1] /\ j + 1 \in r[n - 1]}
      BY <1>1, <1>2, <3>1, RestCases
    <3>3. r[n - 1] = r[f]
      BY <1>2, <2>2
    <3> QED
      BY <1>4, <3>1, <3>2, <3>3, Zenon
  <2> QED
    BY <2>1, <2>2
<1>10. c = head[k]
  BY DEF c
<1>11. ASSUME NEW j \in 1..Len(s), s[j] = c, j + 1 \in Ends(head, s, k)
       PROVE  j \in Ends(head, s, k - 1)
  <2>1. j + 1 + (h - k) <= Len(s) + 1 /\ \A x \in 1..(h - k) : s[j + 1 + x - 1] = head[k + x]
    BY <1>7, <1>11
  <2>2. j + (h - (k - 1)) <= Len(s) + 1 /\ j \in 1..(Len(s) + 1)
    BY <1>1, <2>1
  <2>3. ASSUME NEW x \in 1..(h - (k - 1)) PROVE s[j + x - 1] = head[k - 1 + x]
    <3>1. CASE x = 1
      <4>1. j + x - 1 = j /\ k - 1 + x = k
        BY <1>1, <3>1
      <4> QED
        BY <1>10, <1>11, <4>1
    <3>2. CASE x # 1
      <4>1. x - 1 \in 1..(h - k) /\ j + 1 + (x - 1) - 1 = j + x - 1 /\ k + (x - 1) = k - 1 + x
        BY <1>1, <3>2
      <4>2. s[j + 1 + (x - 1) - 1] = head[k + (x - 1)]
        BY <2>1, <4>1
      <4> QED
        BY <4>1, <4>2
    <3> QED
      BY <3>1, <3>2
  <2> QED
    BY <1>8, <2>2, <2>3
<1>12. ASSUME NEW j \in Ends(head, s, k - 1)
       PROVE  j \in 1..Len(s) /\ s[j] = c /\ j + 1 \in Ends(head, s, k)
  <2>1. /\ j \in 1..(Len(s) + 1) /\ j + (h - (k - 1)) <= Len(s) + 1
        /\ \A x \in 1..(h - (k - 1)) : s[j + x - 1] = head[k - 1 + x]
    BY <1>8
  <2>2. j \in 1..Len(s) /\ j + 1 \in 1..(Len(s) + 1) /\ j + 1 + (h - k) <= Len(s) + 1
    BY <1>1, <2>1
  <2>3. s[j] = c
    <3>1. 1 \in 1..(h - (k - 1)) /\ j + 1 - 1 = j /\ k - 1 + 1 = k
      BY <1>1, <2>1
    <3>2. s[j + 1 - 1] = head[k - 1 + 1]
      BY <2>1, <3>1
    <3> QED
      BY <1>10, <3>1, <3>2
  <2>4. ASSUME NEW x \in 1..(h - k) PROVE s[j + 1 + x - 1] = head[k + x]
    <3>1. x + 1 \in 1..(h - (k - 1)) /\ j + (x + 1) - 1 = j + 1 + x - 1 /\ k - 1 + (x + 1) = k + x
      BY <1>1, <2>1
    <3>2. s[j + (x + 1) - 1] = head[k - 1 + (x + 1)]
      BY <2>1, <3>1
    <3> QED
      BY <3>1, <3>2
  <2> QED
    BY <1>7, <2>2, <2>3, <2>4
<1>13. r[n] = Ends(head, s, k - 1)
  BY <1>5, <1>9, <1>11, <1>12
<1> QED
  BY <1>13 DEF r, n, p

LEMMA StartsIs ==
  ASSUME NEW s \in Text, NEW head \in Text
  PROVE  Pr!StartsWith(s, head) <=> Extends(s, head)
<1>0. Len(head) \in Nat /\ Len(s) \in Nat
  BY LenProperties DEF Text
<1>1. CASE Len(head) <= Len(s)
  <2> DEFINE t == SubSeq(s, 1, Len(head))
  <2>1. \A i \in 1..Len(head) : s[i] \in Words
    BY <1>0, <1>1, ElementOfSeq DEF Text
  <2>2. t \in Seq(Words) /\ Len(t) = Len(head) /\ \A i \in 1..Len(head) : t[i] = s[i]
    <3>1. /\ SubSeq(s, 1, Len(head)) \in Seq(Words)
          /\ Len(SubSeq(s, 1, Len(head))) = IF 1 <= Len(head) THEN Len(head) - 1 + 1 ELSE 0
          /\ \A i \in 1..(Len(head) - 1 + 1) : SubSeq(s, 1, Len(head))[i] = s[1 + i - 1]
      BY <1>0, <2>1, SubSeqProperties
    <3> HIDE DEF t
    <3>2. t = SubSeq(s, 1, Len(head))
      BY DEF t
    <3>3. Len(head) - 1 + 1 = Len(head) /\ \A i \in 1..Len(head) : 1 + i - 1 = i
      BY <1>0
    <3>4. ASSUME NEW i \in 1..Len(head) PROVE t[i] = s[i]
      BY <3>1, <3>2, <3>3, <3>4
    <3> QED
      BY <1>0, <3>1, <3>2, <3>4
  <2> HIDE DEF t
  <2>3. t = head <=> \A i \in 1..Len(head) : s[i] = head[i]
    <3>1. ASSUME \A i \in 1..Len(head) : s[i] = head[i] PROVE t = head
      <4>1. head \in Seq(Words) /\ \A i \in 1..Len(t) : t[i] = head[i]
        BY <2>2, <3>1 DEF Text
      <4> QED
        BY <2>2, <4>1, SeqEqual
    <3> QED
      BY <2>2, <3>1
  <2> QED
    BY <1>1, <2>3 DEF Extends, Pr!StartsWith, t
<1>2. CASE ~(Len(head) <= Len(s))
  BY <1>2 DEF Extends, Pr!StartsWith
<1> QED
  BY <1>1, <1>2

\* A pattern made of a head matches the strings that begin with it, whatever characters it
\* has.
LEMMA PatternMatches ==
  ASSUME NEW head \in Text, NEW s \in Text
  PROVE  Pr!Matches(PatternOf(head), s) <=> Pr!StartsWith(s, head)
<1> DEFINE r == Rest(PatternOf(head), s)
           Bad == {m \in 0..Len(head) : r[From(head, Len(head) - m)] # Ends(head, s, Len(head) - m)}
<1>0. Len(head) \in Nat /\ Len(s) \in Nat /\ Len(PatternOf(head)) \in Nat
  BY PatternIs, LenProperties DEF Text
<1>1. Bad = {}
  <2> SUFFICES ASSUME Bad # {} PROVE FALSE
    OBVIOUS
  <2>1. PICK b \in Bad : \A m \in Bad : b <= m
    <3>1. Bad \in SUBSET Nat
      BY <1>0
    <3> QED
      BY <3>1, LeastOf
  <2>2. b # 0
    <3>1. Len(head) - 0 = Len(head)
      BY <1>0
    <3> QED
      BY <3>1, MatchEnds
  <2>3. b - 1 \in 0..Len(head) /\ ~(b <= b - 1) /\ Len(head) - (b - 1) \in 1..Len(head)
        /\ Len(head) - (b - 1) - 1 = Len(head) - b
    BY <1>0, <2>2
  <2>4. r[From(head, Len(head) - (b - 1))] = Ends(head, s, Len(head) - (b - 1))
    BY <2>1, <2>3
  <2>5. r[From(head, Len(head) - (b - 1) - 1)] = Ends(head, s, Len(head) - (b - 1) - 1)
    BY <2>3, <2>4, MatchSteps
  <2> QED
    BY <2>3, <2>5
<1>2. r[From(head, 0)] = Ends(head, s, 0)
  <2>1. Len(head) \in 0..Len(head) /\ Len(head) - Len(head) = 0
    BY <1>0
  <2> QED
    BY <1>1, <2>1
<1>3. From(head, 0) = Len(PatternOf(head))
  <2>1. Upto(head)[0] = <<>>
    BY UptoSteps
  <2> QED
    BY <2>1, PatternIs DEF From
<1>4. Pr!Matches(PatternOf(head), s) <=> 1 \in Ends(head, s, 0)
  BY <1>0, <1>2, <1>3, MatchIs
<1>5. 1 \in Ends(head, s, 0) <=> Extends(s, head)
  <2>1. 1 \in Ends(head, s, 0) <=>
          /\ 1 + (Len(head) - 0) <= Len(s) + 1
          /\ \A x \in 1..(Len(head) - 0) : s[1 + x - 1] = head[0 + x]
    BY <1>0 DEF Ends
  <2>2. Len(head) - 0 = Len(head) /\ \A x \in 1..Len(head) : 1 + x - 1 = x /\ 0 + x = x
    BY <1>0
  <2>3. (1 + (Len(head) - 0) <= Len(s) + 1) <=> Len(head) <= Len(s)
    BY <1>0
  <2> QED
    BY <2>1, <2>2, <2>3 DEF Extends
<1>6. Extends(s, head) <=> Pr!StartsWith(s, head)
  BY StartsIs
<1> QED
  BY <1>4, <1>5, <1>6

-----------------------------------------------------------------------------
(* The layout of keys *)

SP == Pr!Segment(Prefix)
Plain(n) == \A i \in 1..Len(n) : n[i] # ":"

LEMMA ExtendsEach ==
  ASSUME NEW s \in Text, NEW t \in Text, NEW u \in Text, Extends(s, t), Extends(s, u)
  PROVE  Extends(t, u) \/ Extends(u, t)
<1>1. Len(s) \in Nat /\ Len(t) \in Nat /\ Len(u) \in Nat
  BY LenProperties DEF Text
<1> QED
  BY <1>1 DEF Extends

LEMMA Marks ==
  /\ <<":">> \in Text /\ Len(<<":">>) = 1 /\ <<":">>[1] = ":"
  /\ <<"cache", ":">> \in Text /\ Len(<<"cache", ":">>) = 2
  /\ <<"cache", ":">>[1] = "cache" /\ <<"cache", ":">>[2] = ":"
  /\ <<"vol", ":">> \in Text /\ Len(<<"vol", ":">>) = 2
  /\ <<"vol", ":">>[1] = "vol" /\ <<"vol", ":">>[2] = ":"
  /\ <<>> \in Text /\ Len(<<>>) = 0
  /\ \A i : <<Pr!DbWord(i), ":">> \in Text
<1>1. ":" \in Words /\ "cache" \in Words /\ "vol" \in Words /\ \A i : Pr!DbWord(i) \in Words
  BY DEF Words, Pr!DbWord
<1>2. <<":">> \in Seq(Words) /\ Len(<<":">>) = 1 /\ <<":">>[1] = ":"
  BY <1>1, Single, Zenon
<1>3. <<"cache", ":">> \in Seq(Words) /\ Len(<<"cache", ":">>) = 2
      /\ <<"cache", ":">>[1] = "cache" /\ <<"cache", ":">>[2] = ":"
  BY <1>1, Double, Zenon
<1>4. <<"vol", ":">> \in Seq(Words) /\ Len(<<"vol", ":">>) = 2
      /\ <<"vol", ":">>[1] = "vol" /\ <<"vol", ":">>[2] = ":"
  BY <1>1, Double, Zenon
<1>5. \A i : <<Pr!DbWord(i), ":">> \in Seq(Words)
  BY <1>1, Double, Zenon
<1>6. <<>> \in Seq(Words) /\ Len(<<>>) = 0
  BY EmptySeq
<1> QED
  BY <1>2, <1>3, <1>4, <1>5, <1>6 DEF Text

LEMMA SegmentIs ==
  ASSUME NEW n \in Text
  PROVE  LET g == Pr!Segment(n) IN
         /\ g \in Text /\ Len(n) \in Nat /\ Len(g) \in Nat
         /\ n = <<>> => Len(g) = 0 /\ Len(n) = 0
         /\ n # <<>> => /\ Len(g) = Len(n) + 1 /\ g[Len(n) + 1] = ":"
                        /\ \A i \in 1..Len(n) : g[i] = n[i]
<1>1. Len(n) \in Nat
  BY LenProperties DEF Text
<1>2. CASE n = <<>>
  <2>1. Pr!Segment(n) = <<>>
    BY <1>2 DEF Pr!Segment
  <2> QED
    BY <1>2, <2>1, Marks
<1>3. CASE n # <<>>
  <2> DEFINE c == <<":">>
  <2>1. Pr!Segment(n) = n \o c
    BY <1>3 DEF Pr!Segment
  <2>2. c \in Text /\ Len(c) = 1 /\ c[1] = ":"
    BY Marks
  <2> HIDE DEF c
  <2>3. /\ n \o c \in Text /\ Len(n \o c) = Len(n) + Len(c)
        /\ \A i \in 1..Len(n) : (n \o c)[i] = n[i]
        /\ \A i \in 1..Len(c) : (n \o c)[Len(n) + i] = c[i]
    BY <2>2, TextJoins
  <2>4. (n \o c)[Len(n) + 1] = c[1]
    <3>1. 1 \in 1..Len(c)
      BY <2>2
    <3> QED
      BY <2>3, <3>1
  <2> QED
    BY <1>1, <1>3, <2>1, <2>2, <2>3, <2>4
<1> QED
  BY <1>2, <1>3

HeadAt(n, i) == Pr!Keyspace(Prefix, n, i, FALSE)

LEMMA KeyspaceTyped ==
  ASSUME NEW p \in Text, NEW n \in Text, NEW i, NEW e \in BOOLEAN
  PROVE  Pr!Keyspace(p, n, i, e) \in Text
<1> DEFINE m == IF e THEN <<Pr!DbWord(i), ":">> ELSE <<>>
           a == Pr!Segment(p)  b == Pr!Segment(n)  c == <<"cache", ":">>
<1>1. Pr!Keyspace(p, n, i, e) = ((a \o b) \o m) \o c
  BY DEF Pr!Keyspace
<1>2. a \in Text /\ b \in Text /\ m \in Text /\ c \in Text
  BY SegmentIs, Marks
<1> HIDE DEF a, b, c, m
<1>3. a \o b \in Text
  BY <1>2, TextJoins
<1>4. (a \o b) \o m \in Text
  BY <1>2, <1>3, TextJoins
<1> QED
  BY <1>1, <1>2, <1>4, TextJoins

LEMMA HeadIs ==
  ASSUME Prefix \in Text, NEW n \in Text, NEW i
  PROVE  LET h == HeadAt(n, i)  p == Len(SP)  m == Len(Pr!Segment(n)) IN
         /\ h \in Text /\ p \in Nat /\ m \in Nat /\ Len(h) = p + m + 2
         /\ \A j \in 1..m : h[p + j] = Pr!Segment(n)[j]
         /\ h[p + m + 1] = "cache" /\ h[p + m + 2] = ":"
<1> DEFINE a == SP  b == Pr!Segment(n)  c == <<"cache", ":">>  h == HeadAt(n, i)
           p == Len(a)  m == Len(b)
<1>1. a \in Text /\ b \in Text /\ p \in Nat /\ m \in Nat
  BY SegmentIs DEF SP
<1>2. c \in Text /\ Len(c) = 2 /\ c[1] = "cache" /\ c[2] = ":"
  BY Marks
<1>3. h = (a \o b) \o c
  <2>1. h = ((a \o b) \o <<>>) \o c
    BY DEF HeadAt, Pr!Keyspace, SP
  <2> HIDE DEF a, b, c, h
  <2>2. a \o b \in Seq(Words)
    BY <1>1, TextJoins DEF Text
  <2>3. (a \o b) \o <<>> = a \o b
    BY <2>2, ConcatEmptySeq
  <2> QED
    BY <2>1, <2>3
<1> HIDE DEF a, b, c, h
<1>4. /\ a \o b \in Text /\ Len(a \o b) = p + m
      /\ \A j \in 1..m : (a \o b)[p + j] = b[j]
  BY <1>1, TextJoins
<1>5. /\ h \in Text /\ Len(h) = p + m + 2
      /\ \A j \in 1..(p + m) : h[j] = (a \o b)[j]
      /\ \A j \in 1..2 : h[p + m + j] = c[j]
  <2> DEFINE d == a \o b
  <2>1. d \in Text /\ h = d \o c /\ Len(d) = p + m
    BY <1>3, <1>4
  <2> HIDE DEF d
  <2>2. /\ h \in Text /\ Len(h) = Len(d) + Len(c)
        /\ \A j \in 1..Len(d) : h[j] = d[j]
        /\ \A j \in 1..Len(c) : h[Len(d) + j] = c[j]
    BY <1>2, <2>1, TextJoins
  <2>3. /\ h \in Text /\ Len(h) = p + m + 2
        /\ \A j \in 1..(p + m) : h[j] = d[j]
        /\ \A j \in 1..2 : h[p + m + j] = c[j]
    BY <1>2, <2>1, <2>2
  <2> QED
    BY <2>3 DEF d
<1>6. h[p + m + 1] = "cache" /\ h[p + m + 2] = ":"
  <2>1. 1 \in 1..2 /\ 2 \in 1..2
    OBVIOUS
  <2> QED
    BY <1>2, <1>5, <2>1
<1>7. ASSUME NEW j \in 1..m PROVE h[p + j] = b[j]
  <2>1. p + j \in 1..(p + m)
    BY <1>1
  <2> QED
    BY <1>4, <1>5, <2>1
<1> QED
  BY <1>1, <1>5, <1>6, <1>7 DEF a, b, h

LEMMA EntryIs ==
  ASSUME NEW h \in Text, NEW key \in Text
  PROVE  LET v == Pr!vol_entry(h, key) IN
         /\ v \in Text /\ Extends(v, h) /\ Len(v) \in Nat /\ Len(h) \in Nat
         /\ Len(v) >= Len(h) + 2
         /\ v[Len(h) + 1] = "vol" /\ v[Len(h) + 2] = ":"
<1> DEFINE w == <<"vol", ":">>  v == Pr!vol_entry(h, key)
<1>1. w \in Text /\ Len(w) = 2 /\ w[1] = "vol" /\ w[2] = ":"
  BY Marks
<1>2. v = (h \o w) \o key
  BY DEF Pr!vol_entry, Pr!vol_prefix
<1> HIDE DEF w, v
<1>3. /\ h \o w \in Text /\ Len(h \o w) = Len(h) + 2 /\ Len(h) \in Nat
      /\ \A j \in 1..Len(h) : (h \o w)[j] = h[j]
      /\ \A j \in 1..2 : (h \o w)[Len(h) + j] = w[j]
  <2>1. /\ h \o w \in Text /\ Len(h \o w) = Len(h) + Len(w) /\ Len(h) \in Nat
        /\ \A j \in 1..Len(h) : (h \o w)[j] = h[j]
        /\ \A j \in 1..Len(w) : (h \o w)[Len(h) + j] = w[j]
    BY <1>1, TextJoins
  <2> QED
    BY <1>1, <2>1
<1>4. /\ v \in Text /\ Len(v) = Len(h) + 2 + Len(key) /\ Len(key) \in Nat
      /\ \A j \in 1..(Len(h) + 2) : v[j] = (h \o w)[j]
  <2> DEFINE d == h \o w
  <2>1. d \in Text /\ v = d \o key /\ Len(d) = Len(h) + 2
    BY <1>2, <1>3
  <2> HIDE DEF d
  <2>2. /\ v \in Text /\ Len(v) = Len(d) + Len(key) /\ Len(key) \in Nat
        /\ \A j \in 1..Len(d) : v[j] = d[j]
    BY <2>1, TextJoins
  <2>3. /\ v \in Text /\ Len(v) = Len(h) + 2 + Len(key) /\ Len(key) \in Nat
        /\ \A j \in 1..(Len(h) + 2) : v[j] = d[j]
    BY <2>1, <2>2
  <2> QED
    BY <2>3 DEF d
<1>5. v[Len(h) + 1] = "vol" /\ v[Len(h) + 2] = ":"
  <2>1. 1 \in 1..2 /\ 2 \in 1..2 /\ Len(h) + 1 \in 1..(Len(h) + 2) /\ Len(h) + 2 \in 1..(Len(h) + 2)
    BY <1>3
  <2> QED
    BY <1>1, <1>3, <1>4, <2>1
<1>6. Extends(v, h)
  BY <1>3, <1>4 DEF Extends
<1> QED
  BY <1>3, <1>4, <1>5, <1>6 DEF v

\* A key of one database begins with the head of another only if they have one name: the
\* first separator after the prefix ends the name, and "vol" follows the head.
LEMMA SameName ==
  ASSUME Prefix \in Text, NEW n \in Text, Plain(n), NEW o \in Text, Plain(o), o # <<>>,
         NEW i, NEW j, NEW key \in Text,
         Extends(Pr!vol_entry(HeadAt(n, i), key), HeadAt(o, j))
  PROVE  n = o
<1> DEFINE v == Pr!vol_entry(HeadAt(n, i), key)  h == HeadAt(n, i)  g == HeadAt(o, j)
           p == Len(SP)  sn == Pr!Segment(n)  so == Pr!Segment(o)
<1>1. /\ h \in Text /\ p \in Nat /\ Len(sn) \in Nat /\ Len(h) = p + Len(sn) + 2
      /\ \A x \in 1..Len(sn) : h[p + x] = sn[x]
      /\ h[p + Len(sn) + 1] = "cache" /\ h[p + Len(sn) + 2] = ":"
  BY HeadIs
<1>2. /\ Len(so) \in Nat /\ Len(g) = p + Len(so) + 2
      /\ \A x \in 1..Len(so) : g[p + x] = so[x]
      /\ g[p + Len(so) + 1] = "cache" /\ g[p + Len(so) + 2] = ":"
  BY HeadIs
<1>3. Len(v) >= Len(h) + 2 /\ v[Len(h) + 1] = "vol" /\ Len(v) \in Nat
      /\ \A x \in 1..Len(h) : v[x] = h[x]
  BY <1>1, EntryIs DEF Extends
<1>4. Len(g) <= Len(v) /\ \A x \in 1..Len(g) : v[x] = g[x]
  BY DEF Extends
<1>5. /\ Len(n) \in Nat
      /\ n = <<>> => Len(sn) = 0 /\ Len(n) = 0
      /\ n # <<>> => /\ Len(sn) = Len(n) + 1 /\ sn[Len(n) + 1] = ":"
                     /\ \A x \in 1..Len(n) : sn[x] = n[x]
  BY SegmentIs
<1>6. /\ Len(o) \in Nat /\ Len(so) = Len(o) + 1 /\ so[Len(o) + 1] = ":"
      /\ \A x \in 1..Len(o) : so[x] = o[x]
  BY SegmentIs
<1>7. (\A x \in 1..Len(n) : n[x] # ":") /\ \A x \in 1..Len(o) : o[x] # ":"
  BY DEF Plain
<1> HIDE DEF v, h, g, p, sn, so
<1>8. /\ \A x \in 1..Len(o) : v[p + x] = o[x]
      /\ v[p + Len(o) + 1] = ":" /\ v[p + Len(o) + 2] = "cache"
  <2>1. ASSUME NEW x \in 1..Len(so) PROVE v[p + x] = so[x]
    <3>1. p + x \in 1..Len(g)
      BY <1>1, <1>2
    <3> QED
      BY <1>2, <1>4, <3>1
  <2>2. ASSUME NEW x \in 1..Len(o) PROVE v[p + x] = o[x]
    <3>1. x \in 1..Len(so)
      BY <1>6
    <3> QED
      BY <1>6, <2>1, <3>1
  <2>3. v[p + (Len(o) + 1)] = ":"
    <3>1. Len(o) + 1 \in 1..Len(so)
      BY <1>6
    <3> QED
      BY <1>6, <2>1, <3>1
  <2>4. v[p + Len(so) + 1] = "cache"
    <3>1. p + Len(so) + 1 \in 1..Len(g)
      BY <1>1, <1>2
    <3> QED
      BY <1>2, <1>4, <3>1
  <2>5. p + (Len(o) + 1) = p + Len(o) + 1 /\ p + Len(so) + 1 = p + Len(o) + 2
    BY <1>1, <1>6
  <2> QED
    BY <2>2, <2>3, <2>4, <2>5
<1>9. CASE n = <<>>
  <2>1. Len(h) = p + 2
    BY <1>1, <1>5, <1>9
  <2>2. v[p + 1] = "cache" /\ v[p + 2] = ":" /\ v[p + 3] = "vol"
    <3>1. p + 1 \in 1..Len(h) /\ p + 2 \in 1..Len(h)
      BY <1>1, <2>1
    <3>2. h[p + 1] = "cache" /\ h[p + 2] = ":"
      <4>1. p + Len(sn) + 1 = p + 1 /\ p + Len(sn) + 2 = p + 2
        BY <1>1, <1>5, <1>9
      <4> QED
        BY <1>1, <4>1
    <3>3. Len(h) + 1 = p + 3
      BY <1>1, <2>1
    <3> QED
      BY <1>3, <3>1, <3>2, <3>3
  <2>3. CASE Len(o) = 0
    BY <1>8, <2>2, <2>3, <1>1
  <2>4. CASE Len(o) = 1
    <3>1. p + Len(o) + 2 = p + 3
      BY <1>1, <2>4
    <3> QED
      BY <1>8, <2>2, <3>1
  <2>5. CASE Len(o) > 1
    <3>1. 2 \in 1..Len(o)
      BY <1>6, <2>5
    <3> QED
      BY <1>7, <1>8, <2>2, <3>1
  <2> QED
    BY <1>6, <2>3, <2>4, <2>5
<1>10. CASE n # <<>>
  <2>1. ASSUME NEW x \in 1..Len(sn) PROVE v[p + x] = sn[x]
    <3>1. p + x \in 1..Len(h)
      BY <1>1
    <3> QED
      BY <1>1, <1>3, <3>1
  <2>2. ASSUME NEW x \in 1..Len(n) PROVE v[p + x] = n[x]
    <3>1. x \in 1..Len(sn)
      BY <1>5, <1>10
    <3> QED
      BY <1>5, <1>10, <2>1, <3>1
  <2>3. v[p + (Len(n) + 1)] = ":"
    <3>1. Len(n) + 1 \in 1..Len(sn)
      BY <1>5, <1>10
    <3> QED
      BY <1>5, <1>10, <2>1, <3>1
  <2>4. v[p + (Len(o) + 1)] = ":"
    <3>1. p + (Len(o) + 1) = p + Len(o) + 1
      BY <1>1, <1>6
    <3> QED
      BY <1>8, <3>1
  <2>5. ~(Len(n) < Len(o))
    <3> SUFFICES ASSUME Len(n) < Len(o) PROVE FALSE
      OBVIOUS
    <3>1. Len(n) + 1 \in 1..Len(o)
      BY <1>5, <1>6
    <3> QED
      BY <1>7, <1>8, <2>3, <3>1
  <2>6. ~(Len(o) < Len(n))
    <3> SUFFICES ASSUME Len(o) < Len(n) PROVE FALSE
      OBVIOUS
    <3>1. Len(o) + 1 \in 1..Len(n)
      BY <1>5, <1>6
    <3> QED
      BY <1>7, <2>2, <2>4, <3>1
  <2>7. Len(n) = Len(o)
    BY <1>5, <1>6, <2>5, <2>6
  <2>8. ASSUME NEW x \in 1..Len(n) PROVE n[x] = o[x]
    BY <1>8, <2>2, <2>7
  <2>9. n \in Seq(Words) /\ o \in Seq(Words)
    BY DEF Text
  <2> QED
    BY <2>7, <2>8, <2>9, SeqEqual
<1> QED
  BY <1>9, <1>10

-----------------------------------------------------------------------------
(* Provider: who wrote a key, and what a drop is about to delete *)

Holders ==
  /\ family \in {"resp", "memcached"}
  /\ handle \in [Handles -> Pr!Opened \cup {Pr!Closed}]
  /\ keys \subseteq Pr!Universe /\ Pr!Foreign \subseteq keys
  /\ writers \in [Pr!Universe -> SUBSET Pr!Opened]
  /\ \A k \in Pr!Universe : \A d \in writers[k] : \E key \in VolKeys : k = Pr!KeyOf(d, key)

Inside(k) == k[1] = Current /\ Pr!StartsWith(k[2], drop.head)
Dropping ==
  /\ DOMAIN drop = DOMAIN Pr!NoDrop
  /\ drop.at \in {"none", "scan", "delete", "ok", "error", "partial"}
  /\ drop.unseen \subseteq Pr!Universe /\ drop.found \subseteq Pr!Universe
  /\ drop.at = "none" => drop.found = {} /\ drop.steady = {}
  /\ drop.at # "none" =>
       /\ family = "resp" /\ drop.name \in Names /\ drop.name # <<>> /\ Pr!Plain(drop.name)
       /\ drop.head = HeadAt(drop.name, Current)
  /\ \A k \in drop.found : Inside(k)
  /\ drop.at = "scan" =>
       drop.steady \subseteq keys /\ drop.steady \subseteq drop.unseen \cup drop.found
                                  /\ \A k \in drop.steady : Inside(k)
  /\ drop.at = "delete" => drop.steady \subseteq drop.found
  /\ drop.at = "ok" => drop.steady = {}
  /\ drop.at = "error" => drop.deleted = 0

SpaceInv == Holders /\ Dropping

LEMMA Strings ==
  ASSUME Pr!ProviderAssumption
  PROVE  /\ Prefix \in Text
         /\ \A n \in Names : n \in Text /\ (Pr!Plain(n) => Plain(n))
         /\ \A key \in VolKeys : key \in Text
         /\ \A o \in Others : o[1] \in Text /\ o[2] \in Text
         /\ <<>> \in Text /\ Plain(<<>>)
<1>1. STRING \subseteq Words
  BY DEF Words
<1>2. ASSUME NEW s \in Seq(STRING) PROVE s \in Text /\ (Pr!Plain(s) => Plain(s))
  <2>1. s \in Text
    BY <1>1, SeqMonotonic DEF Text
  <2>2. DOMAIN s = 1..Len(s)
    BY LenProperties
  <2> QED
    BY <2>1, <2>2 DEF Plain, Pr!Plain
<1>3. Prefix \in Seq(STRING) /\ Names \subseteq Seq(STRING) /\ VolKeys \subseteq Seq(STRING)
      /\ Others \subseteq Seq(STRING) \X Seq(STRING)
  BY DEF Pr!ProviderAssumption
<1>4. <<>> \in Text /\ Plain(<<>>)
  BY Marks DEF Plain
<1>5. \A o \in Others : o[1] \in Seq(STRING) /\ o[2] \in Seq(STRING)
  BY <1>3
<1> QED
  BY <1>2, <1>3, <1>4, <1>5

LEMMA OpenedIs ==
  ASSUME Pr!ProviderAssumption, NEW d \in Pr!Opened
  PROVE  /\ d = [name |-> d.name, index |-> d.index]
         /\ d.name \in Text /\ Plain(d.name)
         /\ d.name # <<>> => d.name \in Names /\ d.index = Current
         /\ d.name = <<>> => d.index \in Indexes
         /\ d \in Pr!Database
BY Strings DEF Pr!Opened, Pr!Database

LEMMA HeadOpened ==
  ASSUME Pr!ProviderAssumption, NEW d \in Pr!Opened
  PROVE  Pr!HeadOf(d) \in Pr!OurHeads /\ Pr!HeadOf(d) \in Text
         /\ (family = "resp" => Pr!HeadOf(d) = HeadAt(d.name, d.index))
<1> DEFINE e == family = "memcached" /\ d.name = <<>>
<1>1. Pr!HeadOf(d) = Pr!Keyspace(Prefix, d.name, d.index, e)
  BY DEF Pr!HeadOf
<1>2. Pr!HeadOf(d) \in Text
  <2>1. e \in BOOLEAN
    OBVIOUS
  <2> HIDE DEF e
  <2> QED
    BY <1>1, <2>1, OpenedIs, Strings, KeyspaceTyped
<1>3. CASE e
  <2>1. Pr!HeadOf(d) = Pr!Keyspace(Prefix, <<>>, d.index, TRUE)
    BY <1>1, <1>3
  <2>2. d.index \in Indexes
    BY <1>3, OpenedIs
  <2>3. family # "resp"
    BY <1>3
  <2> QED
    BY <1>2, <2>1, <2>2, <2>3 DEF Pr!OurHeads
<1>4. CASE ~e
  <2>1. e = FALSE
    BY <1>4
  <2>2. Pr!HeadOf(d) = Pr!Keyspace(Prefix, d.name, d.index, FALSE)
    BY <1>1, <2>1
  <2> QED
    BY <1>2, <2>2 DEF Pr!OurHeads, HeadAt
<1> QED
  BY <1>3, <1>4

LEMMA ForeignKey ==
  ASSUME Pr!ProviderAssumption, NEW k \in Pr!Foreign
  PROVE  \E h \in Text :
           /\ k[2] \in Text /\ Extends(k[2], h)
           /\ \A ours \in Pr!OurHeads : ours \in Text => ~Extends(ours, h) /\ ~Extends(h, ours)
<1>1. PICK o \in Others, key \in VolKeys :
        k = <<Current, Pr!vol_entry(Pr!Keyspace(o[1], o[2], 0, FALSE), key)>>
  <2> DEFINE F(o, key) == <<Current, Pr!vol_entry(Pr!Keyspace(o[1], o[2], 0, FALSE), key)>>
  <2>1. Pr!Foreign = {F(o, key) : o \in Others, key \in VolKeys}
    BY DEF Pr!Foreign
  <2> HIDE DEF F
  <2>2. \E o \in Others, key \in VolKeys : k = F(o, key)
    BY <2>1
  <2> QED
    BY <2>2 DEF F
<1> DEFINE h == Pr!Keyspace(o[1], o[2], 0, FALSE)
<1>2. h \in Text /\ key \in Text
  BY Strings, KeyspaceTyped
<1>3. \A ours \in Pr!OurHeads : ~Pr!StartsWith(ours, h) /\ ~Pr!StartsWith(h, ours)
  BY DEF Pr!ProviderAssumption
<1> HIDE DEF h
<1>4. k[2] = Pr!vol_entry(h, key)
  BY <1>1 DEF h
<1>5. k[2] \in Text /\ Extends(k[2], h)
  BY <1>2, <1>4, EntryIs
<1>6. \A ours \in Pr!OurHeads : ours \in Text => ~Extends(ours, h) /\ ~Extends(h, ours)
  BY <1>2, <1>3, StartsIs
<1> QED
  BY <1>2, <1>5, <1>6

LEMMA KeyOfIs ==
  ASSUME Pr!ProviderAssumption, NEW d \in Pr!Opened, NEW key \in VolKeys
  PROVE  LET k == Pr!KeyOf(d, key) IN
         /\ k[1] = Pr!Native(d) /\ k[2] = Pr!vol_entry(Pr!HeadOf(d), key)
         /\ k[2] \in Text /\ Extends(k[2], Pr!HeadOf(d))
         /\ k \in Pr!Universe /\ k \notin Pr!Foreign
<1> DEFINE k == Pr!KeyOf(d, key)
<1>1. k[1] = Pr!Native(d) /\ k[2] = Pr!vol_entry(Pr!HeadOf(d), key)
  BY DEF Pr!KeyOf
<1>2. k[2] \in Text /\ Extends(k[2], Pr!HeadOf(d))
  BY <1>1, Strings, HeadOpened, EntryIs
<1>3. k \in Pr!Universe
  BY OpenedIs DEF Pr!Universe
<1>4. k \notin Pr!Foreign
  <2> SUFFICES ASSUME k \in Pr!Foreign PROVE FALSE
    OBVIOUS
  <2>1. PICK h \in Text :
          /\ Extends(k[2], h)
          /\ \A ours \in Pr!OurHeads : ours \in Text => ~Extends(ours, h) /\ ~Extends(h, ours)
    BY ForeignKey
  <2> QED
    BY <1>2, <2>1, HeadOpened, ExtendsEach
<1> QED
  BY <1>1, <1>2, <1>3, <1>4

\* What lies under the head of a drop is not another application's.
LEMMA InsideIsOurs ==
  ASSUME Pr!ProviderAssumption, Dropping, drop.at # "none", NEW k \in Pr!Foreign
  PROVE  ~Inside(k)
<1> SUFFICES ASSUME Inside(k) PROVE FALSE
  OBVIOUS
<1>1. drop.name \in Names /\ drop.name # <<>> /\ Pr!Plain(drop.name)
      /\ drop.head = HeadAt(drop.name, Current)
  BY DEF Dropping
<1>2. drop.head \in Pr!OurHeads
  <2> DEFINE d == [name |-> drop.name, index |-> Current]
  <2>1. d \in Pr!Opened
    BY <1>1 DEF Pr!Opened
  <2>2. drop.head = Pr!Keyspace(Prefix, d.name, d.index, FALSE)
    BY <1>1 DEF HeadAt
  <2> QED
    BY <2>1, <2>2 DEF Pr!OurHeads
<1>3. drop.head \in Text
  BY <1>1, Strings, HeadIs
<1>4. PICK h \in Text :
        /\ k[2] \in Text /\ Extends(k[2], h)
        /\ \A ours \in Pr!OurHeads : ours \in Text => ~Extends(ours, h) /\ ~Extends(h, ours)
  BY ForeignKey
<1>5. Extends(k[2], drop.head)
  BY <1>3, <1>4, StartsIs DEF Inside
<1> QED
  BY <1>2, <1>3, <1>4, <1>5, ExtendsEach

LEMMA SpaceKeeps ==
  ASSUME Pr!ProviderAssumption, SpaceInv
  PROVE  Pr!DatabasesApart /\ Pr!DropStaysInside /\ Pr!DropComplete
<1>1. ASSUME family = "resp", NEW k \in keys, NEW d \in writers[k], NEW o \in Pr!Opened,
             NEW h, Extends(k[2], h), h = HeadAt(o.name, o.index), o.name # <<>>
      PROVE  d.name = o.name
  <2>1. d \in Pr!Opened /\ \E key \in VolKeys : k = Pr!KeyOf(d, key)
    BY DEF SpaceInv, Holders
  <2>2. PICK key \in VolKeys : k = Pr!KeyOf(d, key)
    BY <2>1
  <2>3. k[2] = Pr!vol_entry(HeadAt(d.name, d.index), key)
    BY <1>1, <2>1, <2>2, KeyOfIs, HeadOpened
  <2>4. d.name \in Text /\ Plain(d.name) /\ o.name \in Text /\ Plain(o.name)
    BY <2>1, OpenedIs
  <2>5. Prefix \in Text /\ key \in Text
    BY Strings
  <2> QED
    BY <1>1, <2>3, <2>4, <2>5, SameName
<1>2. Pr!DatabasesApart
  <2> SUFFICES ASSUME family = "resp", NEW k \in keys
               PROVE  Cardinality(writers[k]) <= 1 /\ (k \in Pr!Foreign => writers[k] = {})
    <3>1. \A S : Pr!Cardinality(S) = Cardinality(S)
      BY DEF Cardinality, Pr!Cardinality
    <3> QED
      BY <3>1 DEF Pr!DatabasesApart
  <2>1. k \in Pr!Universe /\ writers[k] \subseteq Pr!Opened
        /\ \A d \in writers[k] : \E key \in VolKeys : k = Pr!KeyOf(d, key)
    BY DEF SpaceInv, Holders
  <2>2. k \in Pr!Foreign => writers[k] = {}
    BY <2>1, KeyOfIs
  <2>3. ASSUME NEW d \in writers[k], NEW o \in writers[k] PROVE d = o
    <3>1. PICK kd \in VolKeys, ko \in VolKeys : k = Pr!KeyOf(d, kd) /\ k = Pr!KeyOf(o, ko)
      BY <2>1
    <3>2. d \in Pr!Opened /\ o \in Pr!Opened
      BY <2>1
    <3>3. d.index = o.index
      <4>1. Pr!Native(d) = d.index /\ Pr!Native(o) = o.index
        BY DEF Pr!Native
      <4>2. k[1] = Pr!Native(d) /\ k[1] = Pr!Native(o)
        BY <3>1, <3>2, KeyOfIs
      <4> QED
        BY <4>1, <4>2
    <3>4. Extends(k[2], HeadAt(d.name, d.index)) /\ Extends(k[2], HeadAt(o.name, o.index))
      BY <3>1, <3>2, KeyOfIs, HeadOpened
    <3>5. d.name = o.name
      <4>1. CASE o.name # <<>>
        BY <1>1, <3>2, <3>4, <4>1
      <4>2. CASE d.name # <<>>
        BY <1>1, <3>2, <3>4, <4>2
      <4> QED
        BY <4>1, <4>2
    <3> QED
      BY <3>2, <3>3, <3>5, OpenedIs
  <2>4. Cardinality(writers[k]) <= 1
    <3>1. CASE writers[k] = {}
      BY <3>1, FS_EmptySet
    <3>2. CASE writers[k] # {}
      <4>1. PICK d : writers[k] = {d}
        BY <2>3, <3>2
      <4> QED
        BY <4>1, FS_Singleton
    <3> QED
      BY <3>1, <3>2
  <2> QED
    BY <2>2, <2>4
<1>3. Pr!DropStaysInside
  <2>1. drop.at # "refused" /\ Pr!Foreign \subseteq keys
    BY DEF SpaceInv, Holders, Dropping
  <2>2. ASSUME NEW k \in drop.found, NEW d \in writers[k] PROVE d.name = drop.name
    <3>1. drop.at # "none" /\ Inside(k) /\ k \in Pr!Universe
      BY DEF SpaceInv, Dropping
    <3>2. /\ family = "resp" /\ drop.name \in Names /\ drop.name # <<>> /\ Pr!Plain(drop.name)
          /\ drop.head = HeadAt(drop.name, Current)
      BY <3>1 DEF SpaceInv, Dropping
    <3>3. d \in Pr!Opened
      BY <3>1 DEF SpaceInv, Holders
    <3>4. PICK key \in VolKeys : k = Pr!KeyOf(d, key)
      BY <3>1 DEF SpaceInv, Holders
    <3>5. k[2] \in Text /\ k[2] = Pr!vol_entry(HeadAt(d.name, d.index), key)
      BY <3>2, <3>3, <3>4, KeyOfIs, HeadOpened
    <3>6. drop.name \in Text /\ Plain(drop.name) /\ Prefix \in Text /\ key \in Text
      BY <3>2, Strings
    <3>7. drop.head \in Text
      BY <3>2, <3>6, HeadIs
    <3>8. Extends(k[2], HeadAt(drop.name, Current))
      BY <3>1, <3>2, <3>5, <3>7, StartsIs DEF Inside
    <3>9. d.name \in Text /\ Plain(d.name)
      BY <3>3, OpenedIs
    <3> QED
      BY <3>2, <3>5, <3>6, <3>8, <3>9, SameName
  <2> QED
    BY <2>1, <2>2 DEF Pr!DropStaysInside
<1>4. Pr!DropComplete
  BY DEF SpaceInv, Dropping, Pr!DropComplete
<1> QED
  BY <1>2, <1>3, <1>4

LEMMA SpaceInit == ASSUME Pr!Init PROVE SpaceInv
<1>1. Pr!Foreign \subseteq Pr!Universe
  BY DEF Pr!Universe
<1>2. Holders
  <2>1. /\ family \in {"resp", "memcached"} /\ handle = [h \in Handles |-> Pr!Closed]
        /\ keys = Pr!Foreign /\ writers = [k \in Pr!Universe |-> {}]
    BY DEF Pr!Init
  <2>2. handle \in [Handles -> Pr!Opened \cup {Pr!Closed}]
    BY <2>1
  <2>3. writers \in [Pr!Universe -> SUBSET Pr!Opened] /\ \A k \in Pr!Universe : writers[k] = {}
    BY <2>1
  <2> QED
    BY <1>1, <2>1, <2>2, <2>3 DEF Holders
<1>3. Dropping
  <2>1. drop = Pr!NoDrop
    BY DEF Pr!Init
  <2>2. drop.at = "none" /\ drop.unseen = {} /\ drop.found = {} /\ drop.steady = {}
    BY <2>1 DEF Pr!NoDrop
  <2> QED
    BY <2>1, <2>2 DEF Dropping
<1> QED
  BY <1>2, <1>3 DEF SpaceInv

\* What of Dropping does not look at the drop itself.
LEMMA DropStays ==
  ASSUME Dropping, UNCHANGED <<family, drop>>, keys \subseteq keys'
  PROVE  Dropping'
<1>1. Pr!Universe' = Pr!Universe
  BY DEF Pr!Universe, Pr!KeyOf, Pr!HeadOf, Pr!Native
<1>2. \A x : Inside(x)' <=> Inside(x)
  BY DEF Inside
<1>3. drop' = drop /\ family' = family
  OBVIOUS
<1>4. drop.at = "scan" => drop.steady \subseteq keys'
  BY DEF Dropping
<1> QED
  BY <1>1, <1>2, <1>3, <1>4 DEF Dropping

LEMMA HoldersStay ==
  ASSUME Holders, UNCHANGED <<family, handle, writers>>,
         keys' \subseteq Pr!Universe, Pr!Foreign \subseteq keys'
  PROVE  Holders'
<1>1. \A d, key : Pr!KeyOf(d, key)' = Pr!KeyOf(d, key)
  BY DEF Pr!KeyOf, Pr!HeadOf, Pr!Native
<1>2. Pr!Universe' = Pr!Universe
  BY DEF Pr!Universe, Pr!KeyOf, Pr!HeadOf, Pr!Native
<1> QED
  BY <1>1, <1>2 DEF Holders

LEMMA HandlesKeep ==
  ASSUME Pr!ProviderAssumption, SpaceInv, NEW h \in Handles,
         \/ \E name \in Names : Pr!set_database(h, name)
         \/ \E i \in Indexes : Pr!select_index(h, i)
         \/ Pr!Release(h)
  PROVE  SpaceInv'
<1>1. UNCHANGED <<family, keys, writers, drop>>
  BY DEF Pr!set_database, Pr!select_index, Pr!Release
<1>2. handle' \in [Handles -> Pr!Opened \cup {Pr!Closed}]
  <2>1. handle \in [Handles -> Pr!Opened \cup {Pr!Closed}]
    BY DEF SpaceInv, Holders
  <2>2. ASSUME NEW name \in Names, Pr!set_database(h, name)
        PROVE  handle' \in [Handles -> Pr!Opened \cup {Pr!Closed}]
    <3>1. [name |-> name, index |-> Current] \in Pr!Opened
      BY <2>2 DEF Pr!set_database, Pr!check_namespace, Pr!Opened
    <3> QED
      BY <2>1, <2>2, <3>1 DEF Pr!set_database
  <2>3. ASSUME NEW i \in Indexes, Pr!select_index(h, i)
        PROVE  handle' \in [Handles -> Pr!Opened \cup {Pr!Closed}]
    <3>1. [name |-> <<>>, index |-> i] \in Pr!Opened
      BY DEF Pr!Opened
    <3> QED
      BY <2>1, <2>3, <3>1 DEF Pr!select_index
  <2>4. CASE Pr!Release(h)
    BY <2>1, <2>4 DEF Pr!Release
  <2> QED
    BY <2>2, <2>3, <2>4
<1>3. Dropping'
  BY <1>1, DropStays DEF SpaceInv
<1>4. Holders'
  <2>1. \A d, key : Pr!KeyOf(d, key)' = Pr!KeyOf(d, key)
    BY <1>1 DEF Pr!KeyOf, Pr!HeadOf, Pr!Native
  <2>2. Pr!Universe' = Pr!Universe
    BY <1>1 DEF Pr!Universe, Pr!KeyOf, Pr!HeadOf, Pr!Native
  <2> QED
    BY <1>1, <1>2, <2>1, <2>2 DEF SpaceInv, Holders
<1> QED
  BY <1>3, <1>4 DEF SpaceInv

LEMMA VolSetKeeps ==
  ASSUME Pr!ProviderAssumption, SpaceInv, NEW h \in Handles, NEW key \in VolKeys, Pr!VolSet(h, key)
  PROVE  SpaceInv'
<1> DEFINE d == handle[h]  k == Pr!KeyOf(d, key)
<1>1. /\ d # Pr!Closed /\ keys' = keys \cup {k}
      /\ writers' = [writers EXCEPT ![k] = @ \cup {d}] /\ UNCHANGED <<family, handle, drop>>
  BY DEF Pr!VolSet
<1>2. d \in Pr!Opened
  BY <1>1 DEF SpaceInv, Holders
<1>3. k \in Pr!Universe
  BY <1>2, KeyOfIs
<1>4. Dropping'
  BY <1>1, DropStays DEF SpaceInv
<1>5. \A e, y : Pr!KeyOf(e, y)' = Pr!KeyOf(e, y)
  BY <1>1 DEF Pr!KeyOf, Pr!HeadOf, Pr!Native
<1>6. Pr!Universe' = Pr!Universe
  BY <1>1 DEF Pr!Universe, Pr!KeyOf, Pr!HeadOf, Pr!Native
<1>7. writers \in [Pr!Universe -> SUBSET Pr!Opened]
      /\ \A x \in Pr!Universe : \A e \in writers[x] : \E y \in VolKeys : x = Pr!KeyOf(e, y)
  BY DEF SpaceInv, Holders
<1>0. k = Pr!KeyOf(d, key)
  OBVIOUS
<1> HIDE DEF d, k
<1>8. writers' \in [Pr!Universe -> SUBSET Pr!Opened]
  BY <1>1, <1>2, <1>7
<1>9. ASSUME NEW x \in Pr!Universe, NEW e \in writers'[x] PROVE \E y \in VolKeys : x = Pr!KeyOf(e, y)
  <2>1. CASE e \in writers[x]
    BY <1>7, <2>1
  <2>2. CASE e \notin writers[x]
    <3>1. x = k /\ e = d
      BY <1>1, <1>7, <1>9, <2>2
    <3> QED
      BY <1>0, <3>1
  <2> QED
    BY <2>1, <2>2
<1>10. keys \subseteq Pr!Universe /\ Pr!Foreign \subseteq keys /\ family \in {"resp", "memcached"}
       /\ handle \in [Handles -> Pr!Opened \cup {Pr!Closed}]
  BY DEF SpaceInv, Holders
<1>11. keys' \subseteq Pr!Universe /\ Pr!Foreign \subseteq keys'
  BY <1>1, <1>3, <1>10
<1>12. Holders'
  <2>1. \A x \in Pr!Universe' : \A e \in writers'[x] : \E y \in VolKeys : x = Pr!KeyOf(e, y)'
    BY <1>5, <1>6, <1>9
  <2> QED
    BY <1>1, <1>6, <1>8, <1>10, <1>11, <2>1 DEF Holders
<1> QED
  BY <1>4, <1>12 DEF SpaceInv

LEMMA DeleteKeeps ==
  ASSUME Pr!ProviderAssumption, SpaceInv, NEW h \in Handles, NEW key \in VolKeys, Pr!VolDelete(h, key)
  PROVE  SpaceInv'
<1> DEFINE d == handle[h]  k == Pr!KeyOf(d, key)
<1>1. /\ d # Pr!Closed /\ keys' = keys \ {k}
      /\ drop' = [drop EXCEPT !.steady = @ \ {k}] /\ UNCHANGED <<family, handle, writers>>
  BY DEF Pr!VolDelete
<1>2. d \in Pr!Opened
  BY <1>1 DEF SpaceInv, Holders
<1>3. k \notin Pr!Foreign
  BY <1>2, KeyOfIs
<1> HIDE DEF d, k
<1>4. keys' \subseteq Pr!Universe /\ Pr!Foreign \subseteq keys'
  BY <1>1, <1>3 DEF SpaceInv, Holders
<1>5. Holders'
  BY <1>1, <1>4, HoldersStay DEF SpaceInv
<1>6. Dropping
  BY DEF SpaceInv
<1>7. /\ DOMAIN drop' = DOMAIN drop /\ drop'.steady = drop.steady \ {k}
      /\ UNCHANGED <<drop.at, drop.head, drop.name, drop.unseen, drop.found, drop.deleted>>
  BY <1>1, <1>6 DEF Dropping, Pr!NoDrop
<1>8. Pr!Universe' = Pr!Universe
  BY <1>1 DEF Pr!Universe, Pr!KeyOf, Pr!HeadOf, Pr!Native
<1>9. \A x : Inside(x)' <=> Inside(x)
  BY <1>7 DEF Inside
<1>10. Dropping'
  <2>1. DOMAIN drop' = DOMAIN Pr!NoDrop
    BY <1>6, <1>7 DEF Dropping
  <2>2. (drop.at = "scan" => drop'.steady \subseteq keys')
        /\ (drop.at = "none" => drop'.steady = {})
    BY <1>1, <1>6, <1>7 DEF Dropping
  <2> QED
    BY <1>1, <1>6, <1>7, <1>8, <1>9, <2>1, <2>2 DEF Dropping
<1> QED
  BY <1>5, <1>10 DEF SpaceInv

LEMMA BeginKeeps ==
  ASSUME Pr!ProviderAssumption, SpaceInv, NEW name \in Names, Pr!DropBegin(name)
  PROVE  SpaceInv'
<1> DEFINE head == Pr!Keyspace(Prefix, name, Current, FALSE)
<1>1. /\ family = "resp" /\ name # <<>> /\ Pr!Plain(name) /\ UNCHANGED <<family, handle, keys, writers>>
      /\ drop' = [Pr!NoDrop EXCEPT !.at = "scan", !.head = head, !.name = name,
                    !.unseen = Pr!Universe,
                    !.steady = {k \in keys : k[1] = Current /\ Pr!StartsWith(k[2], head)}]
  BY DEF Pr!DropBegin, Pr!check_namespace
<1>2. keys \subseteq Pr!Universe /\ Pr!Foreign \subseteq keys
  BY DEF SpaceInv, Holders
<1>3. Holders'
  BY <1>1, <1>2, HoldersStay DEF SpaceInv
<1>4. Pr!Universe' = Pr!Universe
  BY <1>1 DEF Pr!Universe, Pr!KeyOf, Pr!HeadOf, Pr!Native
<1>5. head = HeadAt(name, Current)
  BY DEF HeadAt
<1> HIDE DEF head
<1>6. /\ DOMAIN drop' = DOMAIN Pr!NoDrop /\ drop'.at = "scan" /\ drop'.head = head /\ drop'.name = name
      /\ drop'.unseen = Pr!Universe /\ drop'.found = {}
      /\ drop'.steady = {k \in keys : k[1] = Current /\ Pr!StartsWith(k[2], head)}
  BY <1>1 DEF Pr!NoDrop
<1>7. \A k \in drop'.steady : Inside(k)'
  BY <1>6 DEF Inside
<1>8. Dropping'
  BY <1>1, <1>2, <1>4, <1>5, <1>6, <1>7 DEF Dropping
<1> QED
  BY <1>3, <1>8 DEF SpaceInv

LEMMA ScanKeeps ==
  ASSUME Pr!ProviderAssumption, SpaceInv, Pr!ScanNext
  PROVE  SpaceInv'
<1> DEFINE k == CHOOSE k \in drop.unseen : TRUE
           hit == k \in keys /\ k[1] = Current /\ Pr!Matches(Pr!prefix_pattern(drop.head), k[2])
<1>0. Dropping /\ drop.at = "scan"
  BY DEF SpaceInv, Pr!ScanNext
<1>1. /\ drop.unseen # {} /\ UNCHANGED <<family, handle, keys, writers>>
      /\ drop' = [drop EXCEPT !.unseen = @ \ {k}, !.found = IF hit THEN @ \cup {k} ELSE @]
  BY DEF Pr!ScanNext
<1>2. k \in drop.unseen /\ k \in Pr!Universe
  BY <1>0, <1>1 DEF Dropping
<1>3. keys \subseteq Pr!Universe /\ Pr!Foreign \subseteq keys
  BY DEF SpaceInv, Holders
<1>4. Holders'
  BY <1>1, <1>3, HoldersStay DEF SpaceInv
<1>5. Pr!Universe' = Pr!Universe
  BY <1>1 DEF Pr!Universe, Pr!KeyOf, Pr!HeadOf, Pr!Native
<1>6. drop.head \in Text
  BY <1>0, Strings, HeadIs DEF Dropping
<1>7. k[2] \in Text /\ k \in Pr!Universe
  <2>1. CASE k \in Pr!Foreign
    BY <1>2, <2>1, ForeignKey
  <2>2. CASE \E d \in Pr!Database, key \in VolKeys : k = Pr!KeyOf(d, key)
    <3>1. PICK d \in Pr!Database, key \in VolKeys : k = Pr!KeyOf(d, key)
      BY <2>2
    <3>2. d.name \in Text
      BY Strings DEF Pr!Database
    <3>3. Pr!HeadOf(d) \in Text
      <4> DEFINE e == family = "memcached" /\ d.name = <<>>
      <4>1. e \in BOOLEAN /\ Pr!HeadOf(d) = Pr!Keyspace(Prefix, d.name, d.index, e)
        BY DEF Pr!HeadOf
      <4> HIDE DEF e
      <4> QED
        BY <3>2, <4>1, Strings, KeyspaceTyped
    <3>4. k[2] = Pr!vol_entry(Pr!HeadOf(d), key)
      <4>1. Pr!KeyOf(d, key)[2] = Pr!vol_entry(Pr!HeadOf(d), key)
        BY DEF Pr!KeyOf
      <4> QED
        BY <3>1, <4>1
    <3> QED
      BY <1>2, <3>3, <3>4, Strings, EntryIs
  <2> QED
    BY <1>2, <2>1, <2>2 DEF Pr!Universe
<1>8. Pr!Matches(Pr!prefix_pattern(drop.head), k[2]) <=> Pr!StartsWith(k[2], drop.head)
  BY <1>6, <1>7, PatternMatches DEF PatternOf
<1>9. hit => Inside(k)
  BY <1>8 DEF Inside
<1>10. k \in drop.steady => hit
  BY <1>0, <1>8 DEF Dropping, Inside
<1> HIDE DEF k, hit
<1>11. /\ DOMAIN drop' = DOMAIN drop /\ drop'.unseen = drop.unseen \ {k}
       /\ drop'.found = IF hit THEN drop.found \cup {k} ELSE drop.found
       /\ UNCHANGED <<drop.at, drop.head, drop.name, drop.steady, drop.deleted>>
  BY <1>0, <1>1 DEF Dropping, Pr!NoDrop
<1>12. \A x : Inside(x)' <=> Inside(x)
  BY <1>11 DEF Inside
<1>13. drop'.found \subseteq Pr!Universe /\ drop'.unseen \subseteq Pr!Universe
  BY <1>0, <1>2, <1>11 DEF Dropping
<1>14. \A x \in drop'.found : Inside(x)
  BY <1>0, <1>9, <1>11 DEF Dropping
<1>15. drop'.steady \subseteq drop'.unseen \cup drop'.found
  <2> SUFFICES ASSUME NEW x \in drop.steady PROVE x \in drop'.unseen \/ x \in drop'.found
    BY <1>11
  <2>1. x \in drop.unseen \/ x \in drop.found
    BY <1>0 DEF Dropping
  <2>2. CASE x = k
    BY <1>10, <1>11, <2>2
  <2>3. CASE x # k
    BY <1>11, <2>1, <2>3
  <2> QED
    BY <2>2, <2>3
<1>16. Dropping'
  <2>1. drop'.at = "scan" /\ DOMAIN drop' = DOMAIN Pr!NoDrop
    BY <1>0, <1>11 DEF Dropping
  <2>2. drop'.steady \subseteq keys' /\ \A x \in drop'.steady : Inside(x)'
    BY <1>0, <1>1, <1>11, <1>12 DEF Dropping
  <2>3. /\ family' = "resp" /\ drop'.name \in Names /\ drop'.name # <<>> /\ Pr!Plain(drop'.name)
        /\ drop'.head = HeadAt(drop'.name, Current)
    BY <1>0, <1>1, <1>11 DEF Dropping
  <2> QED
    BY <1>5, <1>12, <1>13, <1>14, <1>15, <2>1, <2>2, <2>3 DEF Dropping
<1> QED
  BY <1>4, <1>16 DEF SpaceInv

\* A step of the drop that only moves on.
LEMMA MovesOn ==
  ASSUME SpaceInv, UNCHANGED <<family, handle, writers>>, keys' \subseteq Pr!Universe,
         Pr!Foreign \subseteq keys',
         drop.at # "none", DOMAIN drop' = DOMAIN drop,
         UNCHANGED <<drop.head, drop.name, drop.unseen>>, drop'.found \subseteq drop.found,
         \/ drop'.at = "delete" /\ drop'.steady \subseteq drop'.found
         \/ drop'.at = "ok" /\ drop'.steady = {}
         \/ drop'.at = "error" /\ drop'.deleted = 0
         \/ drop'.at = "partial"
  PROVE  SpaceInv'
<1>1. Holders'
  BY HoldersStay DEF SpaceInv
<1>2. Pr!Universe' = Pr!Universe
  BY DEF Pr!Universe, Pr!KeyOf, Pr!HeadOf, Pr!Native
<1>3. \A x : Inside(x)' <=> Inside(x)
  BY DEF Inside
<1>4. Dropping
  BY DEF SpaceInv
<1>5. /\ DOMAIN drop' = DOMAIN Pr!NoDrop /\ drop'.at \in {"delete", "ok", "error", "partial"}
      /\ drop'.unseen \subseteq Pr!Universe' /\ drop'.found \subseteq Pr!Universe'
      /\ family' = "resp" /\ drop'.name \in Names /\ drop'.name # <<>> /\ Pr!Plain(drop'.name)
      /\ drop'.head = HeadAt(drop'.name, Current)
      /\ \A x \in drop'.found : Inside(x)'
  BY <1>2, <1>3, <1>4 DEF Dropping
<1>6. /\ drop'.at = "delete" => drop'.steady \subseteq drop'.found
      /\ drop'.at = "ok" => drop'.steady = {}
      /\ drop'.at = "error" => drop'.deleted = 0
  OBVIOUS
<1>7. Dropping'
  BY <1>5, <1>6 DEF Dropping
<1> QED
  BY <1>1, <1>7 DEF SpaceInv

LEMMA CheckKeeps ==
  ASSUME Pr!ProviderAssumption, SpaceInv, Pr!DropCheck \/ Pr!DropEmpty
  PROVE  SpaceInv'
<1>0. Dropping /\ DOMAIN drop = DOMAIN Pr!NoDrop /\ keys \subseteq Pr!Universe /\ Pr!Foreign \subseteq keys
  BY DEF SpaceInv, Dropping, Holders
<1>1. CASE Pr!DropCheck
  <2>1. ~\E k \in drop.found : ~Pr!StartsWith(k[2], drop.head)
    BY <1>0 DEF Dropping, Inside
  <2>2. drop.at = "scan" /\ drop.unseen = {} /\ UNCHANGED <<family, handle, keys, writers>>
        /\ drop' = [drop EXCEPT !.at = "delete"]
    BY <1>1, <2>1 DEF Pr!DropCheck
  <2>3. drop'.at = "delete" /\ DOMAIN drop' = DOMAIN drop
        /\ UNCHANGED <<drop.head, drop.name, drop.unseen, drop.found, drop.steady>>
    BY <1>0, <2>2 DEF Pr!NoDrop
  <2>4. drop.steady \subseteq drop.found
    BY <1>0, <2>2 DEF Dropping
  <2> QED
    BY <1>0, <2>2, <2>3, <2>4, MovesOn
<1>2. CASE Pr!DropEmpty
  <2>1. drop.at = "delete" /\ drop.found = {} /\ UNCHANGED <<family, handle, keys, writers>>
        /\ drop' = [drop EXCEPT !.at = "ok"]
    BY <1>2 DEF Pr!DropEmpty
  <2>2. drop'.at = "ok" /\ DOMAIN drop' = DOMAIN drop
        /\ UNCHANGED <<drop.head, drop.name, drop.unseen, drop.found, drop.steady>>
    BY <1>0, <2>1 DEF Pr!NoDrop
  <2>3. drop.steady = {}
    BY <1>0, <2>1 DEF Dropping
  <2> QED
    BY <1>0, <2>1, <2>2, <2>3, MovesOn
<1> QED
  BY <1>1, <1>2

LEMMA BatchKeeps ==
  ASSUME Pr!ProviderAssumption, SpaceInv, NEW batch \in SUBSET drop.found, Pr!DropBatch(batch)
  PROVE  SpaceInv'
<1>0. /\ Dropping /\ DOMAIN drop = DOMAIN Pr!NoDrop /\ keys \subseteq Pr!Universe
      /\ Pr!Foreign \subseteq keys /\ drop.at = "delete" /\ drop.steady \subseteq drop.found
      /\ UNCHANGED <<family, handle, writers>>
  BY DEF SpaceInv, Dropping, Holders, Pr!DropBatch
<1>1. \A k \in Pr!Foreign : k \notin batch
  <2>1. \A k \in batch : Inside(k)
    BY <1>0 DEF Dropping
  <2>2. drop.at # "none"
    BY <1>0
  <2> QED
    BY <1>0, <2>1, <2>2, InsideIsOurs
<1>2. ASSUME keys' = keys \ batch, NEW n,
             drop' = [drop EXCEPT !.found = @ \ batch, !.steady = @ \ batch, !.deleted = n,
                                  !.at = IF batch = drop.found THEN "ok" ELSE "delete"]
      PROVE  SpaceInv'
  <2>1. /\ DOMAIN drop' = DOMAIN drop /\ UNCHANGED <<drop.head, drop.name, drop.unseen>>
        /\ drop'.found = drop.found \ batch /\ drop'.steady = drop.steady \ batch
        /\ drop'.at = IF batch = drop.found THEN "ok" ELSE "delete"
    BY <1>0, <1>2 DEF Pr!NoDrop
  <2>2. \/ drop'.at = "delete" /\ drop'.steady \subseteq drop'.found
        \/ drop'.at = "ok" /\ drop'.steady = {}
    BY <1>0, <2>1
  <2>3. keys' \subseteq Pr!Universe /\ Pr!Foreign \subseteq keys' /\ drop'.found \subseteq drop.found
        /\ drop.at # "none"
    BY <1>0, <1>1, <1>2, <2>1
  <2> QED
    BY <1>0, <2>1, <2>2, <2>3, MovesOn
<1>3. ASSUME keys' \in {keys, keys \ batch},
             drop' = [drop EXCEPT !.at = IF drop.deleted = 0 THEN "error" ELSE "partial"]
      PROVE  SpaceInv'
  <2>1. /\ DOMAIN drop' = DOMAIN drop
        /\ UNCHANGED <<drop.head, drop.name, drop.unseen, drop.found, drop.deleted>>
        /\ drop'.at = IF drop.deleted = 0 THEN "error" ELSE "partial"
    BY <1>0, <1>3 DEF Pr!NoDrop
  <2>2. (drop'.at = "error" /\ drop'.deleted = 0) \/ drop'.at = "partial"
    BY <2>1
  <2>3. keys' \subseteq Pr!Universe /\ Pr!Foreign \subseteq keys' /\ drop'.found \subseteq drop.found
        /\ drop.at # "none"
    BY <1>0, <1>1, <1>3, <2>1
  <2> QED
    BY <1>0, <2>1, <2>2, <2>3, MovesOn
<1> QED
  BY <1>2, <1>3 DEF Pr!DropBatch

LEMMA ReturnKeeps ==
  ASSUME SpaceInv, Pr!DropReturn
  PROVE  SpaceInv'
<1>1. drop' = Pr!NoDrop /\ UNCHANGED <<family, handle, keys, writers>>
  BY DEF Pr!DropReturn
<1>2. Holders'
  BY <1>1, HoldersStay DEF SpaceInv, Holders
<1>3. /\ DOMAIN drop' = DOMAIN Pr!NoDrop /\ drop'.at = "none" /\ drop'.unseen = {}
      /\ drop'.found = {} /\ drop'.steady = {}
  BY <1>1 DEF Pr!NoDrop
<1>4. Dropping'
  BY <1>3 DEF Dropping
<1> QED
  BY <1>2, <1>4 DEF SpaceInv

LEMMA SpaceStep ==
  ASSUME Pr!ProviderAssumption, SpaceInv, [Pr!Next]_(Pr!vars)
  PROVE  SpaceInv'
<1>1. CASE UNCHANGED Pr!vars
  <2>1. UNCHANGED <<family, handle, keys, writers, drop>>
    BY <1>1 DEF Pr!vars
  <2>2. Holders' /\ Dropping'
    BY <2>1, HoldersStay, DropStays DEF SpaceInv, Holders
  <2> QED
    BY <2>2 DEF SpaceInv
<1>2. CASE Pr!Next
  BY <1>2, HandlesKeep, VolSetKeeps, DeleteKeeps, BeginKeeps, ScanKeeps, CheckKeeps, BatchKeeps,
     ReturnKeeps DEF Pr!Next
<1> QED
  BY <1>1, <1>2

\* The databases of a provider stay apart and a drop deletes what is its own, all of it and
\* nothing else (keyspace.rs, drop.rs, redis.rs).
THEOREM SpacesKept ==
  ASSUME Pr!ProviderAssumption
  PROVE  Pr!Spec => [](Pr!DatabasesApart /\ Pr!DropStaysInside /\ Pr!DropComplete)
<1>1. Pr!Init => SpaceInv
  BY SpaceInit
<1>2. SpaceInv /\ [Pr!Next]_(Pr!vars) => SpaceInv'
  BY SpaceStep
<1>3. SpaceInv => Pr!DatabasesApart /\ Pr!DropStaysInside /\ Pr!DropComplete
  BY SpaceKeeps
<1> QED
  BY <1>1, <1>2, <1>3, PTL DEF Pr!Spec

-----------------------------------------------------------------------------
(* The run: one part moves, the others stand still *)

TimePart == part = "expiry" => TimeInv

\* Whatever part a behaviour runs, an entry is served for the life its writer was promised
\* and called fresh or stale when it is (aside.rs, volatile.rs, document.rs).
THEOREM LifetimesKeptHolds == MCSpec => []LifetimesKept
<1>1. MCInit => TimePart
  BY TimesInit, Assumptions DEF MCInit, TimePart
<1>2. TimePart /\ [MCNext]_mcVars => TimePart'
  <2> SUFFICES ASSUME TimePart, [MCNext]_mcVars, part' = "expiry" PROVE TimeInv'
    BY DEF TimePart
  <2>1. part' = part
    BY DEF MCNext, Still, mcVars
  <2>2. TimeInv
    BY <2>1 DEF TimePart
  <2>3. [Ex!Next]_(Ex!expVars)
    BY <2>1 DEF MCNext, Still, mcVars, exVars, Ex!expVars
  <2> QED
    BY <2>2, <2>3, TimesStep, Assumptions
<1>3. TimePart => LifetimesKept
  BY TimeInvKeeps DEF TimePart, LifetimesKept
<1> QED
  BY <1>1, <1>2, <1>3, PTL DEF MCSpec

BackendsInv == (part = "provider" => SpaceInv) /\ (part = "connect" => LinkInv)

\* Whatever part a behaviour runs, databases of one provider stay apart, a drop deletes its
\* own keys, all of them and no others (keyspace.rs, drop.rs), and a client has proved its
\* servers and routes as their list says (memcached.rs, redis.rs).
THEOREM BackendsHonestHolds == MCSpec => []BackendsHonest
<1>1. MCInit => BackendsInv
  BY SpaceInit, LinkInit DEF MCInit, BackendsInv
<1>2. BackendsInv /\ [MCNext]_mcVars => BackendsInv'
  <2> SUFFICES ASSUME BackendsInv, [MCNext]_mcVars PROVE BackendsInv'
    OBVIOUS
  <2>1. part' = part
    BY DEF MCNext, Still, mcVars
  <2>2. ASSUME part = "provider" PROVE SpaceInv'
    <3>1. SpaceInv
      BY <2>2 DEF BackendsInv
    <3>2. [Pr!Next]_(Pr!vars)
      BY <2>2 DEF MCNext, Still, mcVars, prVars, Pr!vars
    <3> QED
      BY <3>1, <3>2, SpaceStep, Assumptions
  <2>3. ASSUME part = "connect" PROVE LinkInv'
    <3>1. LinkInv
      BY <2>3 DEF BackendsInv
    <3>2. [Cn!Next]_(Cn!conVars)
      BY <2>3 DEF MCNext, Still, mcVars, cnVars, Cn!conVars
    <3> QED
      BY <3>1, <3>2, LinkStep, Assumptions
  <2> QED
    BY <2>1, <2>2, <2>3 DEF BackendsInv
<1>3. BackendsInv => BackendsHonest
  BY SpaceKeeps, LinkKeeps, Assumptions DEF BackendsInv, BackendsHonest
<1> QED
  BY <1>1, <1>2, <1>3, PTL DEF MCSpec
=============================================================================
