---------------------------- MODULE BatchWriter -----------------------------
(***************************************************************************)
(* Continuous ingestion through one background worker:                     *)
(* database/src/ingest (admission.rs, worker.rs, batch.rs, writer.rs).     *)
(*                                                                         *)
(* Callers share the writer by reference; a bounded channel carries their  *)
(* records and barriers to the worker, which collects batches and keeps    *)
(* several in flight.  A write that fails its batch ends the worker: the   *)
(* failure is stored first and the channel dropped after it.  Reserving a  *)
(* slot of the channel and filling it is one step, since no await lies     *)
(* between the two.                                                        *)
(*                                                                         *)
(* Records are numbered in the order of their admission.                   *)
(***************************************************************************)
EXTENDS Integers, Sequences, FiniteSets

CONSTANTS
  Callers,      \* concurrent users of one BatchWriter
  BatchSize,    \* IngestConfig::batch_size
  Capacity,     \* IngestConfig::queue_capacity
  MaxInflight,  \* IngestConfig::max_inflight
  MaxRecords,   \* bound on the records offered
  None

\* What IngestConfig::validate admits.
ASSUME BatchWriterAssumption ==
  /\ BatchSize \in 1 .. 10000
  /\ Capacity \in Nat \ {0}
  /\ MaxInflight \in 1 .. 64
  /\ MaxRecords \in Nat
  /\ None \notin Callers

VARIABLES
  queue,        \* the channel's commands
  admitted,     \* the number of records admitted so far
  pending,      \* the records of the batch being collected
  inflight,     \* the launched batches and how each ended
  acked,        \* the records of batches the server acknowledged (history)
  worker,       \* where the worker stands
  failure,      \* BatchWriter::failure is set
  call,         \* call[c]: the operation of c, and how its last one ended
  reply,        \* reply[c]: the oneshot channel of c's barrier
  handle        \* what became of the BatchWriter value

vars == <<queue, admitted, pending, inflight, acked, worker, failure, call, reply, handle>>

Appended(r) == [kind |-> "append", rec |-> r, by |-> None]
Barrier(c) == [kind |-> "flush", rec |-> 0, by |-> c]

Idle == [at |-> "idle", op |-> "none", since |-> 0, answer |-> "none"]
Begun(op) == [at |-> op, op |-> op, since |-> 0, answer |-> "none"]
Selecting == [at |-> "select", by |-> None, failed |-> FALSE]

Init ==
  /\ queue = <<>>
  /\ admitted = 0
  /\ pending = {}
  /\ inflight = {}
  /\ acked = {}
  /\ worker = Selecting
  /\ failure = FALSE
  /\ call = [c \in Callers |-> Idle]
  /\ reply = [c \in Callers |-> "none"]
  /\ handle = "open"

workerVars == <<pending, inflight, acked, worker, failure>>
callVars == <<call, reply, handle>>

Connected == worker.at # "ended"
\* Mutant: the channel is unbounded.
HasSlotAlways == Connected

\* The channel is open and not full.
HasSlot == Connected /\ Len(queue) < Capacity

-----------------------------------------------------------------------------
(* BatchWriter::write and flush *)

\* stopped(): the stored failure, or Closed without one.
Stopped == IF failure THEN "failed" ELSE "closed"

Answer(c, a) == call' = [call EXCEPT ![c].at = "idle", ![c].answer = a]

\* A record past its validation asks for a slot; MaxRecords bounds the run.
WriteBegin(c) ==
  /\ handle = "open" /\ call[c].at = "idle"
  /\ admitted + Cardinality({d \in Callers : call[d].at = "write"}) < MaxRecords
  /\ call' = [call EXCEPT ![c] = Begun("write")]
  /\ UNCHANGED <<queue, admitted, workerVars, reply, handle>>

\* reserve().await, then permit.send(Append)
Admit(c) ==
  /\ call[c].at = "write" /\ HasSlot
  /\ admitted' = admitted + 1
  /\ queue' = Append(queue, Appended(admitted + 1))
  /\ Answer(c, "ok")
  /\ UNCHANGED <<workerVars, reply, handle>>

FlushBegin(c) ==
  /\ handle = "open" /\ call[c].at = "idle"
  /\ call' = [call EXCEPT ![c] = Begun("flush")]
  /\ reply' = [reply EXCEPT ![c] = "none"]
  /\ UNCHANGED <<queue, admitted, workerVars, handle>>

\* sender.send(Flush).await: everything admitted so far is ahead of it.
SendBarrier(c) ==
  /\ call[c].at = "flush" /\ HasSlot
  /\ queue' = Append(queue, Barrier(c))
  /\ call' = [call EXCEPT ![c].at = "barrier", ![c].since = admitted]
  /\ UNCHANGED <<admitted, workerVars, reply, handle>>

\* The worker dropped the channel: reserve and send fail.
Refused(c) ==
  /\ call[c].at \in {"write", "flush"} /\ ~Connected
  /\ Answer(c, Stopped)
  /\ UNCHANGED <<queue, admitted, workerVars, reply, handle>>

\* The oneshot channel answered, or its sender was dropped with the queue.
Replied(c) ==
  /\ call[c].at = "barrier" /\ reply[c] # "none"
  /\ Answer(c, IF reply[c] = "dropped" THEN Stopped ELSE reply[c])
  /\ UNCHANGED <<queue, admitted, workerVars, reply, handle>>

\* The caller's future is dropped.  A barrier that was sent stays in the
\* queue; its caller is then left out of the rest of the run.
Cancel(c) ==
  /\ call[c].at \in {"write", "flush", "barrier"}
  /\ call' = [call EXCEPT ![c] = IF @.at = "barrier" THEN [Idle EXCEPT !.at = "gone"]
                                                     ELSE Idle]
  /\ UNCHANGED <<queue, admitted, workerVars, reply, handle>>

-----------------------------------------------------------------------------
(* BatchWriter::close, or the drop of the writer: it is borrowed by no call *)

Close ==
  /\ handle = "open"
  /\ \A c \in Callers : call[c].at \in {"idle", "gone"}
  /\ handle' \in {"closing", "dropped"}
  /\ UNCHANGED <<queue, admitted, workerVars, call, reply>>

\* task.await
CloseReturns ==
  /\ handle = "closing" /\ ~Connected
  /\ handle' = IF worker.failed THEN "failed" ELSE "closed"
  /\ UNCHANGED <<queue, admitted, workerVars, call, reply>>

\* Cancelling close does not abort the worker.
CancelClose ==
  /\ handle = "closing"
  /\ handle' = "dropped"
  /\ UNCHANGED <<queue, admitted, workerVars, call, reply>>

-----------------------------------------------------------------------------
(* worker::run *)

\* Mutant: the queue is read while every slot is busy.
RoomAlways == worker.at = "select"

\* The branches guarded by `room`.
Room == worker.at = "select" /\ Cardinality(inflight) < MaxInflight

\* launch(&mut pending)
Launched(recs) == inflight \cup {[recs |-> recs, done |-> "no"]}

\* Mutant: a full batch starts a new one and drops the record that filled it.
RecvAppendForgets ==
  /\ Room /\ queue # <<>> /\ Head(queue).kind = "append"
  /\ queue' = Tail(queue)
  /\ LET batch == pending \cup {Head(queue).rec} IN
       IF Cardinality(batch) >= BatchSize
         THEN pending' = {} /\ inflight' = Launched(pending)
         ELSE pending' = batch /\ UNCHANGED inflight
  /\ UNCHANGED <<admitted, acked, worker, failure, callVars>>

RecvAppend ==
  /\ Room /\ queue # <<>> /\ Head(queue).kind = "append"
  /\ queue' = Tail(queue)
  /\ LET batch == pending \cup {Head(queue).rec} IN
       IF Cardinality(batch) >= BatchSize
         THEN pending' = {} /\ inflight' = Launched(batch)
         ELSE pending' = batch /\ UNCHANGED inflight
  /\ UNCHANGED <<admitted, acked, worker, failure, callVars>>

\* Mutant: a barrier awaits the batches in flight and not the pending one.
RecvFlushInflight ==
  /\ Room /\ queue # <<>> /\ Head(queue).kind = "flush"
  /\ queue' = Tail(queue)
  /\ worker' = [worker EXCEPT !.at = "flush", !.by = Head(queue).by]
  /\ UNCHANGED <<admitted, pending, inflight, acked, failure, callVars>>

RecvFlush ==
  /\ Room /\ queue # <<>> /\ Head(queue).kind = "flush"
  /\ queue' = Tail(queue)
  /\ pending' = {} /\ inflight' = Launched(pending)
  /\ worker' = [worker EXCEPT !.at = "flush", !.by = Head(queue).by]
  /\ UNCHANGED <<admitted, acked, failure, callVars>>

\* Mutant: a closed channel ends the worker at once.
RecvNoneReturns ==
  /\ Room /\ queue = <<>> /\ handle # "open"
  /\ worker' = [worker EXCEPT !.at = "close"]
  /\ UNCHANGED <<queue, admitted, pending, inflight, acked, failure, callVars>>

\* Mutant: the worker drains only while somebody awaits close.
RecvNoneAwaited ==
  /\ Room /\ queue = <<>> /\ handle = "closing"
  /\ pending' = {} /\ inflight' = Launched(pending)
  /\ worker' = [worker EXCEPT !.at = "close"]
  /\ UNCHANGED <<queue, admitted, acked, failure, callVars>>

\* recv() returned None: every sender is gone and the queue is empty.
RecvNone ==
  /\ Room /\ queue = <<>> /\ handle # "open"
  /\ pending' = {} /\ inflight' = Launched(pending)
  /\ worker' = [worker EXCEPT !.at = "close"]
  /\ UNCHANGED <<queue, admitted, acked, failure, callVars>>

Tick ==
  /\ Room /\ pending # {}
  /\ pending' = {} /\ inflight' = Launched(pending)
  /\ UNCHANGED <<queue, admitted, acked, worker, failure, callVars>>

Draining == worker.at \in {"fail", "flush", "close"}

\* batch::flush returns; an empty batch is Ok, and one that misses
\* write_timeout an error.
Complete(b, done) ==
  /\ worker.at = "select" \/ Draining
  /\ b \in inflight /\ b.done = "no"
  /\ done = "err" => b.recs # {}
  /\ inflight' = (inflight \ {b}) \cup {[b EXCEPT !.done = done]}
  /\ acked' = IF done = "ok" THEN acked \cup b.recs ELSE acked
  /\ UNCHANGED <<queue, admitted, pending, worker, failure, callVars>>

\* The branch of inflight.next(): a failed batch ends the loop.
TakeDone(b) ==
  /\ worker.at = "select"
  /\ b \in inflight /\ b.done # "no"
  /\ inflight' = inflight \ {b}
  /\ worker' = IF b.done = "err" THEN [worker EXCEPT !.at = "fail", !.failed = TRUE]
                                 ELSE worker
  /\ UNCHANGED <<queue, admitted, pending, acked, failure, callVars>>

\* drain: the first failure wins.
DrainNext(b) ==
  /\ Draining
  /\ b \in inflight /\ b.done # "no"
  /\ inflight' = inflight \ {b}
  /\ worker' = [worker EXCEPT !.failed = @ \/ b.done = "err"]
  /\ UNCHANGED <<queue, admitted, pending, acked, failure, callVars>>

\* run returns after the drain of a failure or of a closed channel; `pending`
\* goes with it.
RunReturns ==
  /\ worker.at \in {"fail", "close"} /\ inflight = {}
  /\ pending' = {}
  /\ worker' = [worker EXCEPT !.at = IF @ = "close" /\ ~worker.failed THEN "dropping"
                                                                      ELSE "failing"]
  /\ UNCHANGED <<queue, admitted, inflight, acked, failure, callVars>>

\* The drain of a barrier is over: reply, then go on or return its error.
FlushDone ==
  /\ worker.at = "flush" /\ inflight = {}
  /\ reply' = [reply EXCEPT ![worker.by] = IF worker.failed THEN "failed" ELSE "ok"]
  /\ worker' = IF worker.failed THEN [worker EXCEPT !.at = "failing"] ELSE Selecting
  /\ UNCHANGED <<queue, admitted, pending, inflight, acked, failure, call, handle>>

\* Mutant: the channel is dropped before the failure is stored.
DropBeforeFailure ==
  /\ worker.at = "failing"
  /\ worker' = [worker EXCEPT !.at = "ended"]
  /\ queue' = <<>>
  /\ reply' = [c \in Callers |->
                 IF \E i \in DOMAIN queue : queue[i].by = c THEN "dropped" ELSE reply[c]]
  /\ UNCHANGED <<admitted, pending, inflight, acked, failure, call, handle>>

\* worker::start stores the failure...
SetFailure ==
  /\ worker.at = "failing"
  /\ failure' = TRUE
  /\ worker' = [worker EXCEPT !.at = "dropping"]
  /\ UNCHANGED <<queue, admitted, pending, inflight, acked, callVars>>

\* Mutant: the barriers left in the queue are kept, and never answered.
DropReceiverLeaks ==
  /\ worker.at = "dropping"
  /\ worker' = [worker EXCEPT !.at = "ended"]
  /\ queue' = <<>>
  /\ UNCHANGED <<admitted, pending, inflight, acked, failure, callVars>>

\* ... and its end drops the receiver, with whatever is queued.
DropReceiver ==
  /\ worker.at = "dropping"
  /\ worker' = [worker EXCEPT !.at = "ended"]
  /\ queue' = <<>>
  /\ reply' = [c \in Callers |->
                 IF \E i \in DOMAIN queue : queue[i].by = c THEN "dropped" ELSE reply[c]]
  /\ UNCHANGED <<admitted, pending, inflight, acked, failure, call, handle>>

-----------------------------------------------------------------------------
Recv == RecvAppend \/ RecvFlush \/ RecvNone
Serve == \E b \in inflight : TakeDone(b) \/ DrainNext(b)
Wind == RunReturns \/ FlushDone \/ SetFailure \/ DropReceiver

Next ==
  \/ \E c \in Callers :
       \/ WriteBegin(c) \/ Admit(c) \/ FlushBegin(c) \/ SendBarrier(c)
       \/ Refused(c) \/ Replied(c) \/ Cancel(c)
  \/ Close \/ CloseReturns \/ CancelClose
  \/ Recv \/ Tick
  \/ \E b \in inflight : \E done \in {"ok", "err"} : Complete(b, done)
  \/ Serve \/ Wind

Spec == Init /\ [][Next]_vars

\* The worker is a spawned task, every batch is bounded by write_timeout, and
\* the channel serves the senders that wait for a slot in their order (strong
\* fairness).  No tick is assumed: a barrier does not need the timer.
Fairness ==
  /\ WF_vars(Recv) /\ WF_vars(Serve) /\ WF_vars(Wind)
  /\ WF_vars(\E b \in inflight : \E done \in {"ok", "err"} : Complete(b, done))
  /\ \A c \in Callers :
       /\ SF_vars(Admit(c)) /\ SF_vars(SendBarrier(c))
       /\ WF_vars(Refused(c)) /\ WF_vars(Replied(c))
  /\ WF_vars(CloseReturns)

FairSpec == Spec /\ Fairness

-----------------------------------------------------------------------------
(* Properties *)

Records == 1 .. MaxRecords

TypeOK ==
  /\ queue \in Seq([kind : {"append", "flush"}, rec : 0 .. MaxRecords,
                    by : Callers \cup {None}])
  /\ Len(queue) <= Capacity
  /\ admitted \in 0 .. MaxRecords
  /\ pending \subseteq Records /\ acked \subseteq Records
  /\ inflight \subseteq [recs : SUBSET Records, done : {"no", "ok", "err"}]
  /\ worker \in [at : {"select", "fail", "flush", "close", "failing", "dropping", "ended"},
                 by : Callers \cup {None}, failed : BOOLEAN]
  /\ failure \in BOOLEAN
  /\ call \in [Callers -> [at : {"idle", "write", "flush", "barrier", "gone"},
                           op : {"none", "write", "flush"}, since : 0 .. MaxRecords,
                           answer : {"none", "ok", "failed", "closed"}]]
  /\ reply \in [Callers -> {"none", "ok", "failed", "dropped"}]
  /\ handle \in {"open", "closing", "dropped", "closed", "failed"}

\* flush "waits for server acknowledgement of records admitted before this
\* barrier": an Ok says that every one of them was acknowledged, also those of
\* batches that were in flight before the barrier.
BarrierIsDurable ==
  \A c \in Callers :
    call[c].at = "idle" /\ call[c].op = "flush" /\ call[c].answer = "ok"
      => 1 .. call[c].since \subseteq acked

\* A close that returns Ok drained everything ever admitted.
CloseIsDurable == handle = "closed" => 1 .. admitted \subseteq acked

\* "A terminal failure ... is returned by flush/close": a writer whose worker
\* stopped never answers Closed, which would hide the failure from a retry.
FailureIsReported == \A c \in Callers : call[c].answer # "closed"

\* Where a record that was admitted may be.
Queued == {queue[i].rec : i \in {j \in DOMAIN queue : queue[j].kind = "append"}}
Launching == {b \in inflight : b.done # "ok"}

\* While nothing failed, each admitted record is in exactly one place, so
\* none is lost and none is sent to the server twice.
RecordsConserved ==
  ~worker.failed /\ (\A b \in inflight : b.done # "err") =>
    /\ 1 .. admitted = Queued \cup pending \cup acked \cup UNION {b.recs : b \in Launching}
    /\ \A b \in Launching :
         /\ b.recs \cap (Queued \cup pending \cup acked) = {}
         /\ \A d \in Launching : b = d \/ b.recs \cap d.recs = {}
    /\ pending \cap (Queued \cup acked) = {} /\ Queued \cap acked = {}

\* "While every slot is busy the queue is not read, so producers wait": the
\* writer never holds more batches than its slots, barriers included, and
\* never a full one that is not launched.
Backpressure ==
  /\ Cardinality(inflight) <= MaxInflight
  /\ Cardinality(pending) < BatchSize
  /\ \A b \in inflight : Cardinality(b.recs) <= BatchSize

\* Every write and every flush ends, with the worker alive or dead.
CallsEnd ==
  \A c \in Callers :
    call[c].at \in {"write", "flush", "barrier"} ~> call[c].at \in {"idle", "gone"}

\* Dropping the sender makes the worker drain and end, also when the waiter of
\* close is cancelled.
WorkerEnds == handle # "open" ~> worker.at = "ended"
=============================================================================
