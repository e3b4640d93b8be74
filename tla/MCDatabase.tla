----------------------------- MODULE MCDatabase -----------------------------
(***************************************************************************)
(* The cache database with two slots, two readers of two IDs and two       *)
(* closers: with two task names a refresh is admitted while another has    *)
(* returned its slot and still has to notify.  Beside it, what else in the *)
(* cache must come to an end: a flight whose loads may panic, with the one *)
(* permit that Concurrency 0 is raised to, and the read-through strategy   *)
(* with three callers in two processes, of which one is fenced.  The parts *)
(* share nothing, so a behaviour runs one of them.                         *)
(***************************************************************************)
EXTENDS Database, SequencesExt

CONSTANTS Callers, Keys, FlightTasks, Tokens

VARIABLES
  part,   \* the part this behaviour runs; the others stand still
  calls, permits, task, key, outcome, channel, joined, answer,
  source, entry, lock, load, detached, call, floor

InOrder(S) == LET N == 1..Cardinality(S) IN CHOOSE q \in [N -> S] : \A i, j \in N : i # j => q[i] # q[j]
TaskSeq == InOrder(Tasks)
IdSeq == InOrder(Ids)
ReaderSeq == InOrder(Readers)
CloserSeq == InOrder(Closers)
CallerSeq == InOrder(Callers)
FlightSeq == InOrder(FlightTasks)
TokenSeq == InOrder(Tokens)

Processes == <<"p1", "p2">>
Askers == <<"a", "b", "c">>
HomeOf == [c \in ToSet(Askers) |-> IF c = "c" THEN "p2" ELSE "p1"]

Fl == INSTANCE Flight WITH
  Tasks <- FlightTasks, Concurrency <- 0, MayPanic <- TRUE
As == INSTANCE Aside WITH
  Procs <- ToSet(Processes), Callers <- ToSet(Askers), Home <- HomeOf, MaxVersion <- 0,
  Fenced <- {"p1"}, Failures <- FALSE

flVars == <<calls, permits, task, key, outcome, channel, joined, answer>>
asVars == <<source, entry, lock, load, detached, call, floor>>

MCInit ==
  /\ part \in {"database", "flight", "aside"}
  /\ Init
  /\ IF part = "flight" THEN Fl!Init
     ELSE /\ calls = None /\ permits = None /\ task = None /\ key = None /\ outcome = None
          /\ channel = None /\ joined = None /\ answer = None
  /\ IF part = "aside" THEN As!Init
     ELSE /\ source = None /\ entry = None /\ lock = None /\ load = None /\ detached = None
          /\ call = None /\ floor = None

\* Every part but p stands still.
Still(p) ==
  /\ UNCHANGED part
  /\ IF p = "database" THEN TRUE ELSE UNCHANGED vars
  /\ IF p = "flight" THEN TRUE ELSE UNCHANGED flVars
  /\ IF p = "aside" THEN TRUE ELSE UNCHANGED asVars

MCNext ==
  \/ part = "database" /\ Next /\ Still("database")
  \/ part = "flight" /\ Fl!Next /\ Still("flight")
  \/ part = "aside" /\ As!Next /\ Still("aside")

mcVars == <<part, vars, flVars, asVars>>

\* Fairness, as the modules state it.  A behaviour has the steps of one part only, so
\* the n-th step of one can share a formula with the n-th of another.
moving == CASE part = "database" -> vars [] part = "flight" -> flVars [] part = "aside" -> asVars
Due(n) ==
  \/ /\ part = "database" /\ n <= 12
     /\ CASE n <= 2 -> EndRefresh(TaskSeq[n])
          [] n \in 3..4 -> FinishTask(TaskSeq[n - 2])
          [] n \in 5..6 -> Cleanup(IdSeq[n - 4])
          [] n \in 7..8 -> LET r == ReaderSeq[n - 6] IN Decline(r) \/ \E t \in Tasks : Admit(r, t)
          [] n \in 9..10 -> CloseReturns(CloserSeq[n - 8])
          [] n = 11 -> Drain
          [] n = 12 -> CloseTaskStep
     /\ UNCHANGED part
  \/ /\ part = "flight"
     /\ CASE n <= 3 -> Fl!Panic(FlightSeq[n]) \/ \E r \in Fl!Results : Fl!Finish(FlightSeq[n], r)
          [] n \in 4..6 -> Fl!Remove(FlightSeq[n - 3])
          [] n \in 7..9 -> Fl!Send(FlightSeq[n - 6])
          [] n \in 10..12 -> Fl!Release(FlightSeq[n - 9])
          [] n \in 13..14 -> Fl!Receive(CallerSeq[n - 12])
     /\ UNCHANGED part
  \/ /\ part = "aside" /\ n <= 9
     /\ CASE n <= 2 -> As!LoadStep(Processes[n]) \/ As!Timeout(Processes[n])
          [] n \in 3..6 -> As!ReleaseDetached(Processes[IF n <= 4 THEN 1 ELSE 2], TokenSeq[((n - 3) % 2) + 1])
          [] n \in 7..9 -> As!ReadStep(Askers[n - 6])
     /\ UNCHANGED part
MCFairness == \A n \in 1..14 : WF_moving(Due(n))

MCSpec == MCInit /\ [][MCNext]_mcVars /\ MCFairness

-----------------------------------------------------------------------------
\* What waits, and what says that it no longer does.  Of callers, tokens, tasks and
\* IDs that are interchangeable one is enough.
Waiting(n) ==
  \/ /\ part = "database"
     /\ CASE n = 1 -> IdSeq[1] \in refreshing [] n = 2 -> receiver [] n = 3 -> drain[CloseTask] = "loop"
  \/ part = "flight" /\ n <= 2 /\ IF n = 1 THEN joined[CallerSeq[1]] # None ELSE task[FlightSeq[1]] # "ended"
  \/ part = "aside" /\ IF n = 3 THEN lock = TokenSeq[1] ELSE call[Askers[n + 1]].at # "idle"
Answered(n) ==
  CASE part = "database" -> (CASE n = 1 -> IdSeq[1] \notin refreshing
                               [] n = 2 -> release # "kept"
                               [] n = 3 -> drain[CloseTask] \in {"ok", "timedout"})
    [] part = "flight" -> IF n = 1 THEN joined[CallerSeq[1]] = None ELSE task[FlightSeq[1]] = "ended"
    [] part = "aside" -> IF n = 3 THEN lock # TokenSeq[1] ELSE call[Askers[n + 1]].at = "idle"

\* Every wait in the cache ends: no ID stays claimed for ever, a drain does not need
\* its timeout, and once close is called cleanup happens though every caller is
\* dropped (database.rs, refresher.rs); a call of a
\* flight is answered and its permit comes back, also when the load panics
\* (flight.rs); a read is answered, and a claim is given back without waiting for
\* its lease (aside.rs).
WaitsEnd == \A n \in 1..3 : Waiting(n) ~> Answered(n)
=============================================================================
