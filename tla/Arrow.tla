-------------------------------- MODULE Arrow --------------------------------
(***************************************************************************)
(* Captures in Arrow files: database/src/arrow.                            *)
(*                                                                         *)
(* One table: a directory of append-only segments written under a lock,    *)
(* read without it through a sidecar with a segment's time range and an    *)
(* index of blocks that is extended while the segment grows.  A row is     *)
(* its time; its key is <<time, segment, row number>>.  A segment's name   *)
(* begins with the wall clock, which may step back, so a new segment is    *)
(* any unused number.                                                      *)
(***************************************************************************)
EXTENDS Integers, Sequences, FiniteSets, SequencesExt, FiniteSetsExt

CONSTANTS
  Segments,    \* file names, as numbers in the order names sort in
  Batches,     \* the batches callers write: sequences of times
  Matching,    \* the times of the rows that a predicate keeps
  Shapes,      \* column lists
  Readers, Absent,
  Queries,     \* [op, start, end, descending, filtered, shape]
  Limit,       \* range.limit: rows per page
  BLOCK_ROWS,
  MaxWrites,   \* bound: writes
  MaxAsks,     \* bound: queries
  MaxFaults    \* bound: failures, drops and crashes; together with the queries, at most MaxAsks

\* A write of no rows returns at once (driver.rs write), a page has a row (window.rs
\* validate), and Absent is no segment, bounds or key.
ArrowAssumption ==
  /\ Batches \subseteq Seq(Int) \ {<<>>}
  /\ Queries \subseteq [op : {"list", "scan"}, start : Int, end : Int, descending : BOOLEAN,
                        filtered : BOOLEAN, shape : Shapes]
  /\ Segments \subseteq Int /\ IsFiniteSet(Segments) /\ Limit \in Nat \ {0}
  /\ Absent \notin Segments /\ Absent \notin [min : Int, max : Int] /\ Absent \notin Int \X Segments \X Int

VARIABLES
  file,        \* file[s]: what the directory holds under s
  sidecar,     \* sidecar[s]: [min, max], or Absent
  open,        \* the open segment, or Absent
  bounds,      \* its bounds so far, or Absent
  w,           \* the write that holds the lock
  drop,        \* how far drop_schema has come
  index,       \* index[s]: the segment's index, or Absent
  rd,          \* rd[r]: what reader r is doing
  confirmed,   \* keys of rows whose write returned Ok (history)
  orphans,     \* segments open while their directory was removed (history)
  writes, asks, failures

wvars == <<file, sidecar, open, bounds, w, confirmed, writes>>
avars == <<wvars, drop, index, rd, orphans, asks, failures>>

-----------------------------------------------------------------------------
(* Keys, blocks and bounds *)

order(a, b, descending) ==
  IF a[1] # b[1] THEN IF descending THEN a[1] > b[1] ELSE a[1] < b[1]
  ELSE a[2] < b[2] \/ (a[2] = b[2] /\ a[3] < b[3])

\* Names and keys in order: each is behind those before it.
NamesInOrder(S) ==
  [i \in 1..Cardinality(S) |-> CHOOSE s \in S : Cardinality({t \in S : t < s}) = i - 1]
KeysInOrder(S, d) ==
  [i \in 1..Cardinality(S) |-> CHOOSE k \in S : Cardinality({j \in S : order(j, k, d)}) = i - 1]

Rows(bs) == FlattenSeq(bs)
KeysOf(s, bs) == {<<Rows(bs)[i], s, i - 1>> : i \in DOMAIN Rows(bs)}
Inside(t, q) == t >= q.start /\ t < q.end
keep(t, q) == Inside(t, q) /\ (q.filtered => t \in Matching)
\* An end-of-stream marker and half a batch change the length of a file too.
FileLen(f) == 3 * Len(f.batches) + (IF f.tail = "torn" THEN 1 ELSE IF f.tail = "eos" THEN 2 ELSE 0)

Outside(b, q) == b.max < q.start \/ b.min >= q.end
\* Mutant: the sidecar holds the range of the last batch.
LastBounds(b, batch) == [min |-> Min(ToSet(batch)), max |-> Max(ToSet(batch))]
extend_bounds(b, batch) ==
  LET min == Min(ToSet(batch))  max == Max(ToSet(batch)) IN
  IF b = Absent THEN [min |-> min, max |-> max]
  ELSE [min |-> Min({b.min, min}), max |-> Max({b.max, max})]

NewBlock(offset, row) == [offset |-> offset, end |-> offset, first |-> row, rows |-> 0, min |-> 99, max |-> -99]
last_row(b) == b.first + (IF b.rows = 0 THEN 0 ELSE b.rows - 1)
Grow(acc, batch) ==
  LET b == acc.block
      g == [b EXCEPT !.rows = b.rows + Len(batch), !.end = b.end + 1,
                     !.min = Min({b.min} \cup ToSet(batch)), !.max = Max({b.max} \cup ToSet(batch))] IN
  IF g.rows >= BLOCK_ROWS
  THEN [blocks |-> Append(acc.blocks, g), block |-> NewBlock(g.end, g.first + g.rows)]
  ELSE [acc EXCEPT !.block = g]

Unfinished(blocks) == blocks # <<>> /\ Last(blocks).rows < BLOCK_ROWS
\* Mutant: the rows of an extended block are numbered from the start of the file.
NextRowZero(blocks) == 0
next_row(blocks) == IF blocks = <<>> THEN 0 ELSE Last(blocks).first + Last(blocks).rows

\* Batches that are whole; a torn tail ends the stream (UnexpectedEof), as does the marker.
extended(s, known, len) ==
  LET fresh  == known = Absent \/ (known # Absent /\ 3 * known.indexed > len)
      blocks == IF fresh THEN <<>> ELSE known.blocks
      from   == IF fresh THEN 0 ELSE known.indexed
      start  == IF Unfinished(blocks) THEN [blocks |-> Front(blocks), block |-> Last(blocks)]
                ELSE [blocks |-> blocks, block |-> NewBlock(from, next_row(blocks))]
      grown[i \in from..Len(file[s].batches)] ==
        IF i = from THEN start ELSE Grow(grown[i - 1], file[s].batches[i])
      end    == grown[Len(file[s].batches)]
      all    == IF end.block.rows > 0 THEN Append(end.blocks, end.block) ELSE end.blocks IN
  [blocks |-> all, seen |-> len, indexed |-> IF all = <<>> THEN from ELSE Last(all).end]

-----------------------------------------------------------------------------
(* Searching a page *)

after_cursor(k, r) == r.cursor = Absent \/ order(r.cursor, k, r.q.descending)
Smallest(S, n, d) == {k \in S : Cardinality({j \in S : order(j, k, d)}) < n}
capacity == Limit + 1
Worst(best, d) == CHOOSE k \in best : \A j \in best \ {k} : order(j, k, d)

\* Mutant: a block is skipped once its earliest row is at or before the cursor.
NeedsFirst(r, b, s) == after_cursor(<<IF r.q.descending THEN b.max ELSE b.min, s, b.first>>, r)
needs(r, b, s) ==
  LET d == r.q.descending
      first == IF d THEN b.max ELSE b.min
      last  == IF d THEN b.min ELSE b.max IN
  /\ after_cursor(<<last, s, last_row(b)>>, r)
  /\ Cardinality(r.best) < capacity \/ order(<<first, s, b.first>>, Worst(r.best, d), d)

\* The rows of a block are numbered from the block's first row (Indexes::read).
BlockKeys(s, b) ==
  LET rows == Rows(SubSeq(file[s].batches, b.offset + 1, b.end)) IN
  {<<rows[i], s, b.first + i - 1>> : i \in DOMAIN rows}

SearchBlock(r, s, b) ==
  LET inside   == b.min >= r.q.start /\ b.max < r.q.end
      counted  == r.counting /\ ~r.q.filtered /\ inside
      counting == r.counting /\ ~counted
      hits     == {k \in BlockKeys(s, b) : keep(k[1], r.q)} IN
  IF Outside(b, r.q) THEN r
  ELSE [r EXCEPT
    !.matched = @ + (IF counted THEN b.rows ELSE IF counting THEN Cardinality(hits) ELSE 0),
    !.best = IF counting \/ needs(r, b, s)
             THEN Smallest(@ \cup {k \in hits : after_cursor(k, r)}, capacity, r.q.descending) ELSE @]

-----------------------------------------------------------------------------
(* Writing, under the lock *)

matches(stored, wanted) == stored = wanted
FaultLeft == failures < MaxFaults /\ asks + failures < MaxAsks
IdleWrite == [pc |-> "idle", batch |-> <<>>]
NoFile == [st |-> "none", batches |-> <<>>, tail |-> "ok", shape |-> Absent]

\* Dropping a Segment: the end-of-stream marker, then the sidecar.
Finish(s, ok) ==
  /\ file' = IF file[s].st = "yes" /\ ok THEN [file EXCEPT ![s].tail = "eos"] ELSE file
  /\ sidecar' = IF file[s].st = "yes" /\ ok /\ bounds # Absent THEN [sidecar EXCEPT ![s] = bounds] ELSE sidecar
  /\ open' = Absent /\ bounds' = Absent

\* The header of a new segment goes to a .part file, which readers do not list.
BeginWrite(b, c, s) ==
  /\ w.pc = "idle" /\ writes < MaxWrites
  /\ writes' = writes + 1
  /\ CASE open = Absent ->
            /\ file[s].st = "none"
            /\ file' = [file EXCEPT ![s] = [NoFile EXCEPT !.st = "part", !.shape = c]]
            /\ w' = [pc |-> "rename", batch |-> b]
       [] open = s ->
            /\ w' = IF matches(file[s].shape, c) THEN [pc |-> "append", batch |-> b] ELSE w   \* other columns
            /\ UNCHANGED file
       [] OTHER -> FALSE
  /\ UNCHANGED <<sidecar, open, bounds, confirmed, drop, index, rd, orphans, asks, failures>>

Rename(s) ==
  /\ w.pc = "rename" /\ file[s].st = "part"
  /\ file' = [file EXCEPT ![s].st = "yes"]
  /\ open' = s /\ bounds' = Absent
  /\ w' = [w EXCEPT !.pc = "append"]
  /\ UNCHANGED <<sidecar, confirmed, writes, drop, index, rd, orphans, asks, failures>>

\* The directory may also be gone by now.
CreateFails ==
  LET staged == {s \in Segments : file[s].st = "part"} IN
  /\ w.pc = "rename"
  /\ IF staged = {} THEN UNCHANGED failures ELSE FaultLeft /\ failures' = failures + 1
  /\ file' = [s \in Segments |-> IF s \in staged THEN [file[s] EXCEPT !.st = "gone"] ELSE file[s]]
  /\ w' = IdleWrite
  /\ UNCHANGED <<sidecar, open, bounds, confirmed, writes, drop, index, rd, orphans, asks>>

\* Part of the batch has reached the file.
AppendTorn ==
  /\ w.pc = "append"
  /\ file' = [file EXCEPT ![open].tail = "torn"]
  /\ w' = [w EXCEPT !.pc = "flush"]
  /\ UNCHANGED <<sidecar, open, bounds, confirmed, writes, drop, index, rd, orphans, asks, failures>>

Flush ==
  /\ w.pc = "flush"
  /\ file' = [file EXCEPT ![open].tail = "ok", ![open].batches = Append(@, w.batch)]
  /\ w' = [w EXCEPT !.pc = "sync"]
  /\ UNCHANGED <<sidecar, open, bounds, confirmed, writes, drop, index, rd, orphans, asks, failures>>

\* Synced, bounds extended, and the segment dropped when it is full.
Acknowledge(full, ok) ==
  LET grown == extend_bounds(bounds, w.batch) IN
  /\ w.pc = "sync" /\ (ok \/ full)
  /\ confirmed' = confirmed \cup (KeysOf(open, file[open].batches) \ KeysOf(open, Front(file[open].batches)))
  /\ w' = IdleWrite
  /\ IF full
     THEN /\ file' = IF ok THEN [file EXCEPT ![open].tail = "eos"] ELSE file
          /\ sidecar' = IF ok /\ file[open].st = "yes" THEN [sidecar EXCEPT ![open] = grown] ELSE sidecar
          /\ open' = Absent /\ bounds' = Absent
     ELSE bounds' = grown /\ UNCHANGED <<file, sidecar, open>>
  /\ UNCHANGED <<writes, drop, index, rd, orphans, asks, failures>>

\* A failed append closes the segment without marker or sidecar; what was buffered may
\* still be written when the buffer is dropped.
AppendFails(how) ==
  /\ w.pc \in {"append", "flush", "sync"} /\ FaultLeft
  /\ failures' = failures + 1
  /\ file' = CASE w.pc = "sync" -> file
               [] w.pc # "sync" /\ how = "whole" -> [file EXCEPT ![open].tail = "ok", ![open].batches = Append(@, w.batch)]
               [] OTHER -> [file EXCEPT ![open].tail = how]
  /\ open' = Absent /\ bounds' = Absent /\ w' = IdleWrite
  /\ UNCHANGED <<sidecar, confirmed, writes, drop, index, rd, orphans, asks>>

\* close, release, and the last handle dropped.
CloseSegment(ok) ==
  /\ w.pc = "idle" /\ open # Absent
  /\ Finish(open, ok)
  /\ UNCHANGED <<w, confirmed, writes, drop, index, rd, orphans, asks, failures>>

-----------------------------------------------------------------------------
(* drop_schema: close the table, forget its indexes, remove the directory *)

DropClose ==
  /\ drop = "idle" /\ w.pc = "idle" /\ FaultLeft
  /\ failures' = failures + 1 /\ drop' = "forget"
  /\ IF open # Absent THEN Finish(open, TRUE) ELSE UNCHANGED <<file, sidecar, open, bounds>>
  /\ UNCHANGED <<w, confirmed, writes, index, rd, orphans, asks>>

Forget ==
  /\ drop = "forget" /\ drop' = "remove"
  /\ index' = [s \in Segments |-> Absent]
  /\ UNCHANGED <<wvars, rd, orphans, asks, failures>>

RemoveDir ==
  /\ drop = "remove" /\ drop' = "idle"
  /\ file' = [s \in Segments |-> IF file[s].st \in {"yes", "part"} THEN [file[s] EXCEPT !.st = "gone"] ELSE file[s]]
  /\ sidecar' = [s \in Segments |-> Absent]
  /\ orphans' = IF open = Absent THEN orphans ELSE orphans \cup {open}
  /\ confirmed' = {}
  /\ rd' = [r \in Readers |-> [rd[r] EXCEPT !.before = {}]]
  /\ UNCHANGED <<open, bounds, w, writes, index, asks, failures>>

-----------------------------------------------------------------------------
(* Reading, without the lock *)

IdleReader == [pc |-> "idle", q |-> Absent, todo |-> <<>>, len |-> 0, local |-> Absent, counting |-> FALSE,
               matched |-> 0, best |-> {}, cursor |-> Absent, total |-> 0, out |-> <<>>, before |-> {}]
FailedReader == [IdleReader EXCEPT !.pc = "failed"]
Listed == NamesInOrder({s \in Segments : file[s].st = "yes"})
Visible(q) == {k \in UNION {KeysOf(s, file[s].batches) : s \in {t \in Segments : file[t].st = "yes"}} : keep(k[1], q)}

\* list and range page with a cursor; aggregate scans the window once.
Ask(r, q) ==
  /\ rd[r].pc \in {"idle", "done", "failed"} /\ asks + failures < MaxAsks
  /\ asks' = asks + 1
  /\ rd' = [rd EXCEPT ![r] = [IdleReader EXCEPT !.pc = "seg", !.q = q, !.todo = Listed,
                              !.counting = (q.op = "list"), !.before = Visible(q) \cap confirmed]]
  /\ UNCHANGED <<wvars, drop, index, orphans, failures>>

Hidden(s, q) == sidecar[s] # Absent /\ (sidecar[s] # Absent => Outside(sidecar[s], q))
Current(i, len) == i # Absent /\ (i # Absent => i.seen = len)

\* The sidecar, then the file's length and the index known so far.
Metadata(r) ==
  LET s == Head(rd[r].todo)
      len == FileLen(file[s]) IN
  /\ rd[r].pc = "seg" /\ rd[r].todo # <<>> /\ rd[r].q.op = "list"
  /\ rd' = [rd EXCEPT ![r] =
       IF Hidden(s, rd[r].q) THEN [rd[r] EXCEPT !.todo = Tail(rd[r].todo)]
       ELSE IF file[s].st # "yes" THEN FailedReader
       ELSE [rd[r] EXCEPT !.pc = IF Current(index[s], len) THEN "search" ELSE "extend", !.len = len, !.local = index[s]]]
  /\ UNCHANGED <<wvars, drop, index, orphans, asks, failures>>

Extend(r) ==
  LET s == Head(rd[r].todo) IN
  /\ rd[r].pc = "extend"
  /\ rd' = [rd EXCEPT ![r] = IF file[s].st # "yes" THEN FailedReader
                             ELSE [rd[r] EXCEPT !.pc = "insert", !.local = extended(s, rd[r].local, rd[r].len)]]
  /\ UNCHANGED <<wvars, drop, index, orphans, asks, failures>>

\* The index is kept for later pages, then its blocks are searched.
Search(r) ==
  LET s == Head(rd[r].todo)
      n == Len(rd[r].local.blocks)
      found[i \in 0..n] == IF i = 0 THEN rd[r] ELSE SearchBlock(found[i - 1], s, rd[r].local.blocks[i]) IN
  /\ rd[r].pc \in {"insert", "search"}
  /\ index' = IF rd[r].pc = "insert" THEN [index EXCEPT ![s] = rd[r].local] ELSE index
  /\ rd' = [rd EXCEPT ![r] = IF file[s].st # "yes" \/ ~matches(file[s].shape, rd[r].q.shape) THEN FailedReader
                             ELSE [found[n] EXCEPT !.pc = "seg", !.todo = Tail(rd[r].todo), !.local = Absent, !.len = 0]]
  /\ UNCHANGED <<wvars, drop, orphans, asks, failures>>

\* The window behind aggregations: every batch of the segment, filtered.
Scan(r) ==
  LET s == Head(rd[r].todo) IN
  /\ rd[r].pc = "seg" /\ rd[r].todo # <<>> /\ rd[r].q.op = "scan"
  /\ rd' = [rd EXCEPT ![r] =
       IF Hidden(s, rd[r].q) THEN [rd[r] EXCEPT !.todo = Tail(rd[r].todo)]
       ELSE IF file[s].st # "yes" \/ ~matches(file[s].shape, rd[r].q.shape) THEN FailedReader
       ELSE [rd[r] EXCEPT !.todo = Tail(rd[r].todo),
                          !.best = rd[r].best \cup {k \in KeysOf(s, file[s].batches) : keep(k[1], rd[r].q)}]]
  /\ UNCHANGED <<wvars, drop, index, orphans, asks, failures>>

\* limit + 1 keys were kept: one too many says there is another page, which the caller asks
\* for with a token that carries the total and the last key.
PageEnd(r) ==
  LET me   == rd[r]
      d    == me.q.descending
      kept == KeysInOrder(Smallest(me.best, Limit, d), d)
      more == Cardinality(me.best) > Limit IN
  /\ me.pc = "seg" /\ me.todo = <<>>
  /\ rd' = [rd EXCEPT ![r] =
       IF me.q.op = "scan" THEN [me EXCEPT !.pc = "done"]
       ELSE [me EXCEPT !.pc = IF more THEN "seg" ELSE "done", !.out = me.out \o kept,
             !.total = IF me.counting THEN me.matched ELSE me.total,
             !.cursor = IF more THEN Last(kept) ELSE me.cursor, !.todo = IF more THEN Listed ELSE me.todo,
             !.counting = FALSE, !.best = {}, !.matched = 0]]
  /\ UNCHANGED <<wvars, drop, index, orphans, asks, failures>>

\* The process ends; files stay as they are.
Crash ==
  /\ FaultLeft /\ failures' = failures + 1
  /\ open' = Absent /\ bounds' = Absent /\ w' = IdleWrite /\ drop' = "idle"
  /\ file' = [s \in Segments |-> IF file[s].st = "part" THEN [file[s] EXCEPT !.st = "gone"] ELSE file[s]]
  /\ index' = [s \in Segments |-> Absent] /\ rd' = [r \in Readers |-> IdleReader]
  /\ UNCHANGED <<sidecar, confirmed, writes, orphans, asks>>

-----------------------------------------------------------------------------
AInit ==
  /\ file = [s \in Segments |-> NoFile] /\ sidecar = [s \in Segments |-> Absent]
  /\ open = Absent /\ bounds = Absent /\ w = IdleWrite /\ drop = "idle"
  /\ index = [s \in Segments |-> Absent] /\ rd = [r \in Readers |-> IdleReader]
  /\ confirmed = {} /\ orphans = {} /\ writes = 0 /\ asks = 0 /\ failures = 0

ANext ==
  \/ \E b \in Batches, c \in Shapes, s \in Segments : BeginWrite(b, c, s)
  \/ \E s \in Segments : Rename(s)
  \/ CreateFails \/ AppendTorn \/ Flush
  \/ \E full, ok \in BOOLEAN : Acknowledge(full, ok)
  \/ \E how \in {"ok", "torn", "whole"} : AppendFails(how)
  \/ \E ok \in BOOLEAN : CloseSegment(ok)
  \/ DropClose \/ Forget \/ RemoveDir \/ Crash
  \/ \E r \in Readers, q \in Queries : Ask(r, q)
  \/ \E r \in Readers : Metadata(r) \/ Extend(r) \/ Search(r) \/ Scan(r) \/ PageEnd(r)

ASpec == AInit /\ [][ANext]_avars

-----------------------------------------------------------------------------
(* Properties *)

\* Pages read while rows are appended, segments rotate and indexes are extended by several
\* readers: when the last page is out, the rows came in key order without repetition, they
\* were all written, every row acknowledged before the first page is there unless the table
\* was dropped, and the total counted them (seek.rs, search.rs, index.rs).
PagesComplete ==
  \A r \in Readers : rd[r].pc = "done" =>
    LET me == rd[r]
        got == IF me.q.op = "scan" THEN me.best ELSE ToSet(me.out) IN
    /\ me.before \subseteq got
    /\ \A k \in got : keep(k[1], me.q) /\ k \in KeysOf(k[2], file[k[2]].batches)
    /\ me.q.op = "list" =>
         /\ \A i \in 1..(Len(me.out) - 1) : order(me.out[i], me.out[i + 1], me.q.descending)
         /\ me.total >= Cardinality(me.before)
         /\ me.total <= Cardinality({k \in UNION {KeysOf(s, file[s].batches) : s \in Segments} : keep(k[1], me.q)})

\* An acknowledged row is in a listed segment and no sidecar hides it, whatever failed or
\* crashed since; only a segment that was created while its directory was being removed
\* is lost (segment.rs, bounds.rs, crud.rs drop_schema).
AckedVisible ==
  \A k \in confirmed :
    \/ k[2] \in orphans
    \/ /\ file[k[2]].st = "yes" /\ k \in KeysOf(k[2], file[k[2]].batches)
       /\ sidecar[k[2]] # Absent => sidecar[k[2]].min <= k[1] /\ k[1] <= sidecar[k[2]].max
=============================================================================
