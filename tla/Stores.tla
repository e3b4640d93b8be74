-------------------------------- MODULE Stores --------------------------------
(***************************************************************************)
(* Stores put together: buffered(mirror(influx, copy)), the arrangement of *)
(* database/README.md, from database/src/buffered.rs, mirror.rs,           *)
(* influxdb/* and the typed view of store/typed.rs.                        *)
(*                                                                         *)
(* A point is its identity, <<time, tag>>.  The primary merges a rewritten *)
(* point, the copy keeps every row.  The batch writer is taken at what     *)
(* BatchWriter.tla shows of it: a queue whose batches are sent in order,   *)
(* stopped by the first that fails.                                        *)
(***************************************************************************)
EXTENDS Integers, Sequences, FiniteSets, SequencesExt

CONSTANTS
  Users, Points, Writers, Nothing,
  Many,        \* the batches callers pass to create_many
  StoreLimit,  \* range.limit
  MAX_POINTS,  \* points in one write request
  MaxCreates, MaxFailures   \* bounds

VARIABLES
  primary, copy,   \* the points each store holds
  closed,          \* Buffer.closed
  writers,         \* the writer in Buffer.writers, or Nothing (one table)
  bw,              \* bw[w]: the batch writer's queue, batch being sent, and failure
  request,         \* request[c]: the create or create_many of c
  rel,             \* rel[c]: the close of c, who holds a clone of the DB
  rdr,             \* a reader of pages or of a stream
  settled,         \* points a caller was told are durable (history)
  entered,        \* entered[w]: the points taken into w's queue (history)
  creates, faults

\* How a write ended at one store, and a batch writer; Nothing is neither a writer nor a set.
\* A page has a row (window.rs validate).
Outcomes == {"none", "ok", "err"}
WriterType == [queue : Seq(Points), batch : (SUBSET Points) \cup {Nothing}, primary : Outcomes,
               copy : Outcomes, failed : BOOLEAN]
StoresAssumption ==
  /\ Points \subseteq Int \X Int /\ IsFiniteSet(Points) /\ Nothing \notin Points
  /\ StoreLimit \in Nat \ {0}
  /\ Many \subseteq SUBSET Points
  /\ Nothing \notin Writers /\ Nothing \notin WriterType
  /\ \A S \in SUBSET Points : S # Nothing

svars == <<primary, copy, closed, writers, bw, request, rel, rdr, settled, entered, creates, faults>>

-----------------------------------------------------------------------------
(* Buffer::create *)

IdleCall == [pc |-> "idle", op |-> "create", points |-> {}, writer |-> Nothing, primary |-> "none", copy |-> "none"]
NewWriter == [queue |-> <<>>, batch |-> Nothing, primary |-> "none", copy |-> "none", failed |-> FALSE]

Create(c, p) ==
  /\ request[c].pc = "idle" /\ creates < MaxCreates /\ ~closed
  /\ creates' = creates + 1
  /\ request' = [request EXCEPT ![c] = [IdleCall EXCEPT !.pc = "writer", !.points = {p}]]
  /\ UNCHANGED <<primary, copy, closed, writers, bw, rel, rdr, settled, entered, faults>>

\* Under the lock of the map: the table's writer, or a new one.
GetWriter(c, w) ==
  /\ request[c].pc = "writer"
  /\ IF writers = Nothing THEN bw[w] = Nothing /\ w = CHOOSE x \in Writers : bw[x] = Nothing ELSE w = writers
  /\ writers' = w
  /\ bw' = IF writers = Nothing THEN [bw EXCEPT ![w] = NewWriter] ELSE bw
  /\ request' = [request EXCEPT ![c].pc = "write", ![c].writer = w]
  /\ UNCHANGED <<primary, copy, closed, rel, rdr, settled, entered, creates, faults>>

\* Admitted, and answered with pending.
Enqueue(c) ==
  LET w == request[c].writer IN
  /\ request[c].pc = "write"
  /\ bw' = IF bw[w].failed THEN bw ELSE [bw EXCEPT ![w].queue = @ \o SetToSeq(request[c].points)]
  /\ entered' = IF bw[w].failed THEN entered ELSE [entered EXCEPT ![w] = @ \cup request[c].points]
  /\ request' = [request EXCEPT ![c] = IdleCall]
  /\ UNCHANGED <<primary, copy, closed, writers, rel, rdr, settled, creates, faults>>

-----------------------------------------------------------------------------
(* Mirror: both stores at once, and the primary's error first *)

\* Mutant: the copy's error is not looked at.
PrimaryOnly(p, q) == p
both(p, q) == IF p # "ok" THEN p ELSE q

\* create_many passes the buffer by.
CreateMany(c, ps) ==
  /\ request[c].pc = "idle" /\ creates < MaxCreates
  /\ creates' = creates + 1
  /\ request' = [request EXCEPT ![c] = [IdleCall EXCEPT !.pc = "mirror", !.op = "create_many", !.points = ps]]
  /\ UNCHANGED <<primary, copy, closed, writers, bw, rel, rdr, settled, entered, faults>>

\* Points go out in chunks; a failed one leaves the chunks before it (and maybe itself) written.
InfluxWrite(ps, how, done) ==
  /\ IF how = "ok" THEN done = ps ELSE done \subseteq ps /\ faults < MaxFailures
  /\ how = "err" => \/ Cardinality(done) % MAX_POINTS = 0 \/ done = ps
  /\ primary' = primary \cup done
CopyWrite(ps, how, done) ==
  /\ IF how = "ok" THEN done = ps ELSE done \in {{}, ps} /\ faults < MaxFailures
  /\ copy' = copy \cup done
Fault(how) == faults' = IF how = "ok" THEN faults ELSE faults + 1

CallPrimary(c, how, done) ==
  /\ request[c].pc = "mirror" /\ request[c].primary = "none"
  /\ InfluxWrite(request[c].points, how, done) /\ Fault(how)
  /\ request' = [request EXCEPT ![c].primary = how]
  /\ UNCHANGED <<copy, closed, writers, bw, rel, rdr, settled, entered, creates>>
CallCopy(c, how, done) ==
  /\ request[c].pc = "mirror" /\ request[c].copy = "none"
  /\ CopyWrite(request[c].points, how, done) /\ Fault(how)
  /\ request' = [request EXCEPT ![c].copy = how]
  /\ UNCHANGED <<primary, closed, writers, bw, rel, rdr, settled, entered, creates>>
CallReturns(c) ==
  /\ request[c].primary # "none" /\ request[c].copy # "none"
  /\ settled' = IF both(request[c].primary, request[c].copy) = "ok" THEN settled \cup request[c].points ELSE settled
  /\ request' = [request EXCEPT ![c] = IdleCall]
  /\ UNCHANGED <<primary, copy, closed, writers, bw, rel, rdr, entered, creates, faults>>

SendBatch(w) ==
  /\ bw[w] # Nothing /\ (bw[w] # Nothing => bw[w].queue # <<>> /\ bw[w].batch = Nothing /\ ~bw[w].failed)
  /\ \E n \in 1..Len(bw[w].queue) :
       bw' = [bw EXCEPT ![w].batch = ToSet(SubSeq(bw[w].queue, 1, n)), ![w].queue = SubSeq(@, n + 1, Len(@))]
  /\ UNCHANGED <<primary, copy, closed, writers, request, rel, rdr, settled, entered, creates, faults>>
Sending(w) == bw[w] # Nothing /\ (bw[w] # Nothing => bw[w].batch # Nothing)
BatchPrimary(w, how, done) ==
  /\ Sending(w) /\ (Sending(w) => bw[w].primary = "none")
  /\ InfluxWrite(bw[w].batch, how, done) /\ Fault(how)
  /\ bw' = [bw EXCEPT ![w].primary = how]
  /\ UNCHANGED <<copy, closed, writers, request, rel, rdr, settled, entered, creates>>
BatchCopy(w, how, done) ==
  /\ Sending(w) /\ (Sending(w) => bw[w].copy = "none")
  /\ CopyWrite(bw[w].batch, how, done) /\ Fault(how)
  /\ bw' = [bw EXCEPT ![w].copy = how]
  /\ UNCHANGED <<primary, closed, writers, request, rel, rdr, settled, entered, creates>>
BatchSettles(w) ==
  /\ Sending(w) /\ (Sending(w) => bw[w].primary # "none" /\ bw[w].copy # "none")
  /\ bw' = [bw EXCEPT ![w] = [@ EXCEPT !.batch = Nothing, !.primary = "none", !.copy = "none",
                              !.failed = both(bw[w].primary, bw[w].copy) # "ok"]]
  /\ UNCHANGED <<primary, copy, closed, writers, request, rel, rdr, settled, entered, creates, faults>>

-----------------------------------------------------------------------------
(* Buffer::release, which DB::close calls: again, at once or after a failure, it begins anew *)

IdleRelease == [pc |-> "idle", writer |-> Nothing, due |-> {}, first |-> "none"]

ReleaseBegin(c) ==
  /\ rel[c].pc = "idle"
  /\ closed' = TRUE /\ rel' = [rel EXCEPT ![c].pc = "drain"]
  /\ UNCHANGED <<primary, copy, writers, bw, request, rdr, settled, entered, creates, faults>>
\* Under the lock of the map: a release that finds it empty has nothing to flush.
Drain(c) ==
  /\ rel[c].pc = "drain"
  /\ writers' = Nothing
  /\ rel' = [rel EXCEPT ![c] = IF writers = Nothing THEN [IdleRelease EXCEPT !.pc = "close"]
                               ELSE [IdleRelease EXCEPT !.pc = "flush", !.writer = writers, !.due = entered[writers]]]
  /\ UNCHANGED <<primary, copy, closed, bw, request, rdr, settled, entered, creates, faults>>

\* Mutant: a writer whose queue is empty counts as flushed while a batch is out.
FlushedQueue(b, due) == b.failed \/ due \cap ToSet(b.queue) = {}
Flushed(b, due) == b.failed \/ (due \cap ToSet(b.queue) = {} /\ (b.batch # Nothing => due \cap b.batch = {}))
FlushReturns(c) ==
  LET b == bw[rel[c].writer] IN
  /\ rel[c].pc = "flush" /\ Flushed(b, rel[c].due)
  /\ rel' = [rel EXCEPT ![c].pc = "close", ![c].first = IF b.failed THEN "err" ELSE "none"]
  /\ UNCHANGED <<primary, copy, closed, writers, bw, request, rdr, settled, entered, creates, faults>>
\* The inner DB closes, or fails to; the error of a flush comes first.
ReleaseReturns(c, how) ==
  /\ rel[c].pc = "close" /\ (how = "err" => faults < MaxFailures) /\ Fault(how)
  /\ rel' = [rel EXCEPT ![c] = IdleRelease]
  /\ settled' = IF rel[c].first = "none" /\ how = "ok" THEN settled \cup rel[c].due ELSE settled
  /\ UNCHANGED <<primary, copy, closed, writers, bw, request, rdr, entered, creates>>
\* Its caller drops it while it waits: the writer it took stays out of the map.
ReleaseDropped(c) ==
  /\ rel[c].pc \in {"flush", "close"}
  /\ rel' = [rel EXCEPT ![c] = IdleRelease]
  /\ UNCHANGED <<primary, copy, closed, writers, bw, request, rdr, settled, entered, creates, faults>>

-----------------------------------------------------------------------------
(* Pages of the primary, and For::all over them *)

IdleRead == [pc |-> "idle", op |-> "all", descending |-> FALSE, cursor |-> Nothing, seen |-> {}, out |-> <<>>,
             before |-> {}, pending |-> <<>>, remaining |-> 0, reported |-> 0]
OrderBy(a, b, d) ==
  IF a[1] # b[1] THEN IF d THEN a[1] > b[1] ELSE a[1] < b[1] ELSE a[2] < b[2]
\* Mutant: the tags compare in the direction of the time.
AfterAll(k, p, d) == (IF d THEN k[1] < p[1] ELSE k[1] > p[1]) \/ (k[1] = p[1] /\ IF d THEN k[2] < p[2] ELSE k[2] > p[2])
\* The clauses of the cursor: (time op $0) OR (time = $0 AND tag > $1).
After(k, p, d) == (IF d THEN k[1] < p[1] ELSE k[1] > p[1]) \/ (k[1] = p[1] /\ k[2] > p[2])
\* A row's place is behind the rows before it.
InOrder(S, d) ==
  [i \in 1..Cardinality(S) |-> CHOOSE k \in S : Cardinality({j \in S : OrderBy(j, k, d)}) = i - 1]
RangeQuery(d, cursor, n) ==
  LET hits == {k \in primary : cursor = Nothing \/ (cursor # Nothing => After(k, cursor, d))}
      rows == InOrder(hits, d) IN
  SubSeq(rows, 1, IF Len(rows) < n THEN Len(rows) ELSE n)

Read(op, d) ==
  /\ rdr.pc = "idle"
  /\ rdr' = [IdleRead EXCEPT !.pc = op, !.op = op, !.descending = d, !.before = primary, !.remaining = StoreLimit,
             !.pending = IF op = "stream" THEN RangeQuery(d, Nothing, StoreLimit) ELSE <<>>]
  /\ UNCHANGED <<primary, copy, closed, writers, bw, request, rel, settled, entered, creates, faults>>

\* A token seen before ends the loop of For::all.
AllStep(token) == IF token \in rdr.seen THEN "failed" ELSE "all"
\* One more row than the page says whether there is another.
Page ==
  LET rows == RangeQuery(rdr.descending, rdr.cursor, StoreLimit + 1)
      more == Len(rows) > StoreLimit
      page == IF more THEN Front(rows) ELSE rows IN
  /\ rdr.pc = "all"
  /\ rdr' = [rdr EXCEPT !.out = @ \o page,
             !.pc = IF more THEN AllStep(Last(page)) ELSE "done",
             !.cursor = IF more THEN Last(page) ELSE Nothing, !.seen = IF more THEN @ \cup {Last(page)} ELSE @]
  /\ UNCHANGED <<primary, copy, closed, writers, bw, request, rel, settled, entered, creates, faults>>

\* A row of a stream, its end, or its deadline, after which nothing is delivered.
StreamNext ==
  LET end == rdr.remaining = 0 \/ rdr.pending = <<>> IN
  /\ rdr.pc = "stream"
  /\ rdr' = IF end THEN [rdr EXCEPT !.pc = "done"]
            ELSE [rdr EXCEPT !.out = Append(@, Head(rdr.pending)), !.pending = Tail(@),
                  !.remaining = @ - 1, !.reported = @ + 1]
  /\ UNCHANGED <<primary, copy, closed, writers, bw, request, rel, settled, entered, creates, faults>>
StreamTimeout ==
  /\ rdr.pc = "stream"
  /\ rdr' = [rdr EXCEPT !.pc = "failed", !.pending = <<>>]
  /\ UNCHANGED <<primary, copy, closed, writers, bw, request, rel, settled, entered, creates, faults>>

-----------------------------------------------------------------------------
SInit ==
  /\ primary = {} /\ copy = {} /\ closed = FALSE /\ writers = Nothing /\ bw = [w \in Writers |-> Nothing]
  /\ request = [c \in Users |-> IdleCall] /\ rel = [c \in Users |-> IdleRelease] /\ rdr = IdleRead
  /\ settled = {} /\ entered = [w \in Writers |-> {}] /\ creates = 0 /\ faults = 0

SNext ==
  \/ \E c \in Users, p \in Points : Create(c, p)
  \/ \E c \in Users, w \in Writers : GetWriter(c, w)
  \/ \E c \in Users, ps \in Many : CreateMany(c, ps)
  \/ \E c \in Users, how \in {"ok", "err"}, done \in SUBSET Points : CallPrimary(c, how, done) \/ CallCopy(c, how, done)
  \/ \E c \in Users : Enqueue(c) \/ CallReturns(c)
  \/ \E w \in Writers : SendBatch(w) \/ BatchSettles(w)
  \/ \E w \in Writers, how \in {"ok", "err"}, done \in SUBSET Points : BatchPrimary(w, how, done) \/ BatchCopy(w, how, done)
  \/ \E c \in Users : ReleaseBegin(c) \/ Drain(c) \/ FlushReturns(c) \/ ReleaseDropped(c)
  \/ \E c \in Users, how \in {"ok", "err"} : ReleaseReturns(c, how)
  \/ \E op \in {"all", "stream"}, d \in BOOLEAN : Read(op, d)
  \/ Page \/ StreamNext \/ StreamTimeout

SSpec == SInit /\ [][SNext]_svars

-----------------------------------------------------------------------------
(* Properties *)

\* What a caller was told is stored is in both stores: a create_many that returned Ok, and of
\* a close that returned Ok every create that the writer it took had admitted, whichever
\* batches were out, whatever failed, and whoever else closes meanwhile or again.  A close
\* that found the map empty vouches for nothing (buffered.rs release, mirror.rs both).
DurableInBoth == settled \subseteq primary /\ settled \subseteq copy

\* Reading page after page while points are written: in key order, none twice, none that was
\* there at the start missing, and the loop never takes a moving table for a repeated token;
\* a stream reports the rows it delivered (cursor.rs apply, reader.rs page, typed.rs all).
PagesCover ==
  /\ rdr.op = "all" => rdr.pc # "failed"
  /\ \A i \in 1..(Len(rdr.out) - 1) : OrderBy(rdr.out[i], rdr.out[i + 1], rdr.descending)
  /\ rdr.pc = "done" /\ rdr.op = "all" => rdr.before \subseteq ToSet(rdr.out)
  /\ rdr.op = "stream" => rdr.reported = Len(rdr.out)
=============================================================================
