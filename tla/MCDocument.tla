----------------------------- MODULE MCDocument -----------------------------
(***************************************************************************)
(* The cache's documents, with two callers that interleave, and beside     *)
(* them the indexed strategy, with fields and values that hold the         *)
(* separator, and the drivers, with leases around the rounding of both wire *)
(* formats.  The parts share nothing, so a behaviour runs one of them.     *)
(* Drivers stands still in an initial state, so that ImplementsDriver can  *)
(* be stated of every behaviour.                                           *)
(***************************************************************************)
EXTENDS Document, TLC

CONSTANTS
  Ttls, MaxTime, MaxCalls, Milli, Second, ThirtyDays, MaxStamp,  \* of Drivers
  Pairs, Indexes, Attempts, MaxOps                               \* of Indexed

VARIABLES
  part,   \* the part this behaviour runs; the others stand still
  backend, slot, now, command, commands, open, held,
  stored, listed, member, record, running, ops, gone, met, cut

Odd == << <<"a", "=", "b">>, <<"y">> >>
PairSet == {<< <<"a">>, <<"x">> >>, << <<"b">>, <<"x", "=", "y">> >>, Odd}
IndexSets == {{}, PairSet \ {Odd}, {Odd}}

Symmetry == Permutations(Actors) \cup Permutations(Ids)

Dr == INSTANCE Drivers WITH
  Keys <- Ids, Clients <- Actors, call <- command, calls <- commands
Ix == INSTANCE Indexed WITH
  entry <- stored, index <- listed, op <- running, shared <- met

ASSUME DriversInstance == Dr!DriversAssumption
ASSUME IndexedInstance == Ix!IndexedAssumption

drVars == <<backend, slot, now, command, commands, open, held>>
ixVars == <<stored, listed, member, record, running, ops, gone, met, cut>>

MCInit ==
  /\ part \in {"document", "drivers", "indexed"}
  /\ Init
  /\ Dr!Init
  /\ part = "drivers" \/ (backend = "memory" /\ slot = [k \in Ids |-> None])
  /\ IF part = "indexed" THEN Ix!Init
     ELSE /\ stored = None /\ listed = None /\ member = None /\ record = None /\ running = None
          /\ ops = None /\ gone = None /\ met = None /\ cut = None

\* Every part but p stands still.
Still(p) ==
  /\ UNCHANGED part
  /\ IF p = "document" THEN TRUE ELSE UNCHANGED vars
  /\ IF p = "drivers" THEN TRUE ELSE UNCHANGED drVars
  /\ IF p = "indexed" THEN TRUE ELSE UNCHANGED ixVars

MCNext ==
  \/ part = "document" /\ Next /\ Still("document")
  \/ part = "drivers" /\ Dr!Next /\ Still("drivers")
  \/ part = "indexed" /\ Ix!Next /\ Still("indexed")

mcVars == <<part, vars, drVars, ixVars>>

MCSpec == MCInit /\ [][MCNext]_mcVars

-----------------------------------------------------------------------------
\* Every backend implements one atomic map (module Driver): memory, RESP and
\* memcached, at the limits of their wire formats (redis.rs, memcached.rs).
ImplementsDriver == Dr!ImplementsDriver

\* An indexed entry is found under the fields it was written with and, once
\* deleted, under none, also after an operation that stopped halfway was retried
\* (indexed.rs).
IndexAgrees == part = "indexed" => Ix!FiledIsFound /\ Ix!DeletedIsGone
=============================================================================
