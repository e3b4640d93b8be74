--------------------------- MODULE MCBatchWriter ----------------------------
(***************************************************************************)
(* Ingestion with two callers, batches of two and two slots, so that a     *)
(* barrier meets a batch in flight, a partial batch and a full queue; and  *)
(* beside it the stores behind it: the arrow store, the buffered and the   *)
(* mirrored one, and the records, filters and values they exchange.  The   *)
(* parts share nothing, so a behaviour runs one of them.  The liveness of  *)
(* BatchWriter is checked in MCServices.                                   *)
(***************************************************************************)
EXTENDS BatchWriter, Arrow, Stores, Records, TLC

VARIABLE part   \* the part this behaviour runs; the others stand still

BatchSet == {<<1>>, <<2, 1>>}
Query(kind, from, to, down) ==
  [op |-> kind, start |-> from, end |-> to, descending |-> down, filtered |-> kind = "scan", shape |-> 1]
QuerySet == {Query("list", 0, 9, TRUE), Query("scan", 0, 2, FALSE)}

PointSet == {<<1, 1>>, <<1, 2>>}
PointSets == {PointSet}

\* Callers (of the writer, of a store, readers) are interchangeable.
Symmetry == Permutations(Callers)

ASSUME Instances == ArrowAssumption /\ StoresAssumption

MCInit ==
  /\ part \in {"batch_writer", "arrow", "stores", "records"}
  /\ Init
  /\ IF part = "arrow" THEN AInit
     ELSE /\ file = None /\ sidecar = None /\ open = None /\ bounds = None /\ w = None
          /\ drop = None /\ index = None /\ rd = None /\ confirmed = None /\ orphans = None
          /\ writes = None /\ asks = None /\ failures = None
  /\ IF part = "stores" THEN SInit
     ELSE /\ primary = None /\ copy = None /\ closed = None /\ writers = None /\ bw = None
          /\ request = None /\ rel = None /\ rdr = None /\ settled = None /\ entered = None
          /\ creates = None /\ faults = None
  /\ IF part = "records" THEN RInit
     ELSE /\ in = None /\ out = None

\* Every part but p stands still.
Still(p) ==
  /\ UNCHANGED part
  /\ IF p = "batch_writer" THEN TRUE ELSE UNCHANGED vars
  /\ IF p = "arrow" THEN TRUE ELSE UNCHANGED avars
  /\ IF p = "stores" THEN TRUE ELSE UNCHANGED svars
  /\ IF p = "records" THEN TRUE ELSE UNCHANGED <<in, out>>

\* A bound: a behaviour of the stores closes them or reads pages.
ClosesOrReads == ~closed' \/ rdr'.pc = "idle"

MCNext ==
  \/ part = "batch_writer" /\ Next /\ Still("batch_writer")
  \/ part = "arrow" /\ ANext /\ Still("arrow")
  \/ part = "stores" /\ SNext /\ ClosesOrReads /\ Still("stores")
  \/ part = "records" /\ RNext /\ Still("records")

mcVars == <<part, vars, avars, svars, <<in, out>>>>

MCSpec == MCInit /\ [][MCNext]_mcVars

-----------------------------------------------------------------------------
\* A page of the arrow store misses nothing and repeats nothing, and what was
\* acknowledged is visible, whatever is written, indexed or torn meanwhile
\* (seek.rs, segment.rs); what a mirrored or buffered store acknowledged is in
\* both its stores, and its pages cover it (mirror.rs, buffered.rs).
StoresHonest ==
  /\ part = "arrow" => PagesComplete /\ AckedVisible
  /\ part = "stores" => DurableInBoth /\ PagesCover

\* A filter selects what it says, and a value is stored and read back as it was
\* given or refused, at the limits of its width (store/filter.rs, arrow/codec.rs,
\* arrow/aggregate.rs).
RecordsExact == part = "records" => FilterExact /\ ValuesExact
=============================================================================
