-------------------------- MODULE BatchWriterProofs --------------------------
(***************************************************************************)
(* Proofs about BatchWriter, for any callers, sizes and limits, about      *)
(* Stores, for any callers, points, writers, faults and size of a page,    *)
(* and about Arrow, what it acknowledges and the pages it answers, for any *)
(* batches, segments, queries and faults; then about the run of all three. *)
(***************************************************************************)
EXTENDS MCBatchWriter, FiniteSetTheorems, SequenceTheorems, NaturalsInduction, TLAPS

-----------------------------------------------------------------------------
(* The inductive invariant *)

Writing == {c \in Callers : call[c].at = "write"}

\* A call of write that has begun is counted against the records offered.
Offered ==
  /\ IsFiniteSet(Writing)
  /\ admitted + Cardinality(Writing) <= MaxRecords

IsRecord(i) == queue[i].kind = "append"
IsBarrier(i) == queue[i].kind = "flush"

\* A command is a record that was admitted or the barrier of a caller, and is
\* queued once.
Commands ==
  /\ \A i \in DOMAIN queue :
       \/ IsRecord(i) /\ queue[i].by = None /\ queue[i].rec \in 1 .. admitted
       \/ IsBarrier(i) /\ queue[i].by \in Callers
  /\ \A i, j \in DOMAIN queue : i # j =>
       /\ IsRecord(i) /\ IsRecord(j) => queue[i].rec # queue[j].rec
       /\ IsBarrier(i) /\ IsBarrier(j) => queue[i].by # queue[j].by

\* What the worker holds, and what a barrier waits for, was admitted.
Known ==
  /\ pending \subseteq 1 .. admitted /\ acked \subseteq 1 .. admitted
  /\ \A b \in inflight : b.recs \subseteq 1 .. admitted
  /\ \A c \in Callers : call[c].since \in 0 .. admitted

Asked(c) == \E i \in DOMAIN queue : IsBarrier(i) /\ queue[i].by = c
Served(c) == worker.at = "flush" /\ worker.by = c

\* A barrier is in the queue or with the worker, and its caller has no answer
\* yet; a caller that is still to send one starts from an empty channel.
Barriers ==
  /\ worker.at = "flush" => worker.by \in Callers
  /\ \A c \in Callers :
       /\ ~(Asked(c) /\ Served(c))
       /\ Asked(c) \/ Served(c) => reply[c] = "none" /\ call[c].at \in {"barrier", "gone"}
       /\ call[c].at = "flush" => reply[c] = "none"

\* The channel keeps its order: what is queued behind a barrier was admitted
\* after it.
Order ==
  \A c \in Callers, j \in DOMAIN queue :
    call[c].at = "barrier" /\ IsRecord(j) =>
      /\ Served(c) => queue[j].rec > call[c].since
      /\ \A i \in DOMAIN queue :
           i < j /\ IsBarrier(i) /\ queue[i].by = c => queue[j].rec > call[c].since

\* What a barrier is told, before its caller has heard it.
Told ==
  \A c \in Callers :
    /\ call[c].at = "barrier" /\ reply[c] = "ok" => 1 .. call[c].since \subseteq acked
    /\ call[c].at = "write" => call[c].op = "write"

\* The writer is handed to close, or dropped, by a caller that borrows it from
\* nobody.
Released == handle # "open" => \A c \in Callers : call[c].at \in {"idle", "gone"}

\* How far the worker has come says what it has still to do.
Progress ==
  /\ worker.at \in {"fail", "failing"} => worker.failed
  /\ worker.at = "select" => ~worker.failed
  /\ worker.at \in {"flush", "close", "failing", "dropping", "ended"} => pending = {}
  /\ worker.at \in {"failing", "dropping", "ended"} => inflight = {}
  /\ worker.at \in {"close", "dropping", "ended"} =>
       \/ queue = <<>> /\ handle # "open"
       \/ worker.at # "close" /\ worker.failed
  /\ worker.at = "ended" => queue = <<>>
  /\ worker.at \in {"dropping", "ended"} /\ worker.failed => failure
  /\ \A c \in Callers : reply[c] = "dropped" => failure
  /\ handle = "closed" => worker.at = "ended" /\ ~worker.failed

Inflight == IsFiniteSet(inflight)

IInv ==
  /\ TypeOK /\ Offered /\ Commands /\ Known /\ Barriers /\ Order /\ Told
  /\ Released /\ Progress /\ RecordsConserved /\ BarrierIsDurable
  /\ Inflight /\ Backpressure /\ FailureIsReported

-----------------------------------------------------------------------------
(* The queue, and the shapes of records *)

Command == [kind : {"append", "flush"}, rec : 0 .. MaxRecords, by : Callers \cup {None}]
CallType == [at : {"idle", "write", "flush", "barrier", "gone"},
             op : {"none", "write", "flush"}, since : 0 .. MaxRecords,
             answer : {"none", "ok", "failed", "closed"}]
WorkerType == [at : {"select", "fail", "flush", "close", "failing", "dropping", "ended"},
               by : Callers \cup {None}, failed : BOOLEAN]
Batch == [recs : SUBSET Records, done : {"no", "ok", "err"}]

LEMMA QueueDomain ==
  ASSUME TypeOK
  PROVE  /\ DOMAIN queue = 1 .. Len(queue) /\ Len(queue) \in Nat
         /\ \A i \in DOMAIN queue : queue[i] \in Command
<1>1. queue \in Seq(Command)
  BY DEF TypeOK, Command
<1>2. DOMAIN queue = 1 .. Len(queue) /\ Len(queue) \in Nat
  BY <1>1, LenProperties
<1> QED
  BY <1>1, <1>2, ElementOfSeq

\* A command that is sent goes to the end.
LEMMA QueueAppend ==
  ASSUME TypeOK, NEW x \in Command, queue' = Append(queue, x)
  PROVE  /\ queue' \in Seq(Command) /\ Len(queue') = Len(queue) + 1
         /\ DOMAIN queue' = DOMAIN queue \cup {Len(queue) + 1}
         /\ \A i \in DOMAIN queue : queue'[i] = queue[i]
         /\ queue'[Len(queue) + 1] = x
<1>1. queue \in Seq(Command)
  BY DEF TypeOK, Command
<1>2. queue' \in Seq(Command) /\ Len(queue') = Len(queue) + 1
  BY <1>1, AppendProperties
<1>3. DOMAIN queue' = 1 .. Len(queue) + 1 /\ DOMAIN queue = 1 .. Len(queue) /\ Len(queue) \in Nat
  BY <1>1, <1>2
<1>4. /\ \A i \in 1 .. Len(queue) : queue'[i] = queue[i]
      /\ queue'[Len(queue) + 1] = x
  BY <1>1, AppendProperties
<1> QED
  BY <1>2, <1>3, <1>4

\* A command that is received leaves the front.
LEMMA QueueTail ==
  ASSUME TypeOK, queue # <<>>, queue' = Tail(queue)
  PROVE  /\ queue' \in Seq(Command) /\ Len(queue') = Len(queue) - 1
         /\ 1 \in DOMAIN queue /\ Head(queue) = queue[1]
         /\ \A i \in DOMAIN queue' : i + 1 \in DOMAIN queue /\ queue'[i] = queue[i + 1]
         /\ \A i \in DOMAIN queue : i # 1 => i - 1 \in DOMAIN queue' /\ queue'[i - 1] = queue[i]
<1>1. queue \in Seq(Command)
  BY DEF TypeOK, Command
<1>2. /\ queue' \in Seq(Command) /\ Len(queue') = Len(queue) - 1
      /\ \A i \in 1 .. Len(queue') : queue'[i] = queue[i + 1]
  BY <1>1, HeadTailProperties
<1>3. DOMAIN queue' = 1 .. Len(queue) - 1 /\ DOMAIN queue = 1 .. Len(queue) /\ Len(queue) \in Nat \ {0}
  BY <1>1, <1>2, EmptySeq
<1>4. Head(queue) = queue[1]
  BY <1>1
<1> QED
  BY <1>2, <1>3, <1>4

LEMMA QueueEmpty ==
  /\ queue' = <<>> => DOMAIN queue' = {} /\ queue' \in Seq(Command) /\ Len(queue') = 0
  /\ queue = <<>> => DOMAIN queue = {}
<1>1. /\ queue' = <<>> => queue' \in Seq(Command) /\ Len(queue') = 0
      /\ queue = <<>> => queue \in Seq(Command) /\ Len(queue) = 0
  BY EmptySeq
<1>2. 1 .. 0 = {}
  OBVIOUS
<1> QED
  BY <1>1, <1>2, LenProperties

LEMMA Commanded ==
  ASSUME NEW c \in Callers
  PROVE  /\ Barrier(c) \in Command /\ Barrier(c).kind = "flush" /\ Barrier(c).by = c
         /\ \A r \in 0 .. MaxRecords :
              /\ Appended(r) \in Command
              /\ Appended(r).kind = "append" /\ Appended(r).rec = r /\ Appended(r).by = None
BY BatchWriterAssumption DEF Barrier, Appended, Command

LEMMA IdleShape ==
  /\ Idle \in CallType /\ Idle.at = "idle" /\ Idle.op = "none" /\ Idle.since = 0
  /\ Idle.answer = "none"
BY BatchWriterAssumption DEF Idle, CallType

LEMMA BegunShape ==
  ASSUME NEW o \in {"write", "flush"}
  PROVE  /\ Begun(o) \in CallType /\ Begun(o).at = o /\ Begun(o).op = o
         /\ Begun(o).since = 0 /\ Begun(o).answer = "none"
BY BatchWriterAssumption DEF Begun, CallType

LEMMA SelectingShape ==
  Selecting \in WorkerType /\ Selecting.at = "select" /\ Selecting.failed = FALSE
BY DEF Selecting, WorkerType

-----------------------------------------------------------------------------
(* Initially *)

LEMMA InitIInv == Init => IInv
<1> SUFFICES ASSUME Init PROVE IInv
  OBVIOUS
<1>0. DOMAIN queue = {} /\ queue \in Seq(Command) /\ Len(queue) = 0
  BY EmptySeq, QueueEmpty DEF Init
<1>1. TypeOK
  <2>1. MaxRecords \in Nat /\ Capacity \in Nat
    BY BatchWriterAssumption
  <2>2. call \in [Callers -> CallType]
    BY IdleShape DEF Init
  <2>3. worker \in WorkerType
    BY SelectingShape DEF Init
  <2>4. Len(queue) <= Capacity /\ admitted \in 0 .. MaxRecords
    BY <1>0, <2>1 DEF Init
  <2>5. reply \in [Callers -> {"none", "ok", "failed", "dropped"}]
    BY DEF Init
  <2>6. /\ pending \subseteq Records /\ acked \subseteq Records /\ inflight \subseteq Batch
        /\ failure \in BOOLEAN /\ handle \in {"open", "closing", "dropped", "closed", "failed"}
    BY DEF Init
  <2> QED
    BY <1>0, <2>2, <2>3, <2>4, <2>5, <2>6 DEF TypeOK, Command, CallType, WorkerType, Batch
<1>2. Offered
  <2>1. Writing = {}
    BY IdleShape DEF Init, Writing
  <2> QED
    BY <2>1, FS_EmptySet, BatchWriterAssumption DEF Init, Offered
<1>3. Commands /\ Order /\ Barriers
  BY <1>0, IdleShape, SelectingShape DEF Init, Commands, Order, Barriers, Asked, Served
<1>4. Known /\ Told /\ Released /\ Progress
  BY IdleShape, SelectingShape DEF Init, Known, Told, Released, Progress
<1>5. RecordsConserved
  <2>1. Queued = {} /\ Launching = {} /\ 1 .. admitted = {}
    BY <1>0 DEF Init, Queued, Launching
  <2> QED
    BY <2>1 DEF Init, RecordsConserved
<1>6. BarrierIsDurable /\ FailureIsReported
  BY IdleShape DEF Init, BarrierIsDurable, FailureIsReported
<1>7. Inflight /\ Backpressure
  <2>1. IsFiniteSet({}) /\ Cardinality({}) = 0
    BY FS_EmptySet
  <2>2. MaxInflight \in Nat \ {0} /\ BatchSize \in Nat \ {0}
    BY BatchWriterAssumption
  <2> QED
    BY <2>1, <2>2 DEF Init, Inflight, Backpressure
<1> QED
  BY <1>1, <1>2, <1>3, <1>4, <1>5, <1>6, <1>7 DEF IInv

-----------------------------------------------------------------------------
(* What a step does to a call *)

\* The call of c becomes o, and no other changes.
Moves(c, o) == o \in CallType /\ call' = [call EXCEPT ![c] = o]

LEMMA MovesCall ==
  ASSUME TypeOK, NEW c \in Callers, NEW o, Moves(c, o)
  PROVE  /\ call \in [Callers -> CallType] /\ call' \in [Callers -> CallType]
         /\ call'[c] = o
         /\ \A d \in Callers : d # c => call'[d] = call[d]
BY DEF TypeOK, Moves, CallType

LEMMA AnswerMoves ==
  ASSUME TypeOK, NEW c \in Callers, NEW a \in {"ok", "failed", "closed"}, Answer(c, a)
  PROVE  \E o : /\ Moves(c, o) /\ o.at = "idle" /\ o.answer = a
                /\ o.op = call[c].op /\ o.since = call[c].since
<1> DEFINE o == [call[c] EXCEPT !.at = "idle", !.answer = a]
<1>1. call[c] \in CallType
  BY DEF TypeOK, CallType
<1>2. [call[c] EXCEPT !.at = "idle"] \in CallType
  BY <1>1 DEF CallType
<1>3. \A p \in CallType : [p EXCEPT !.answer = a] \in CallType
  BY DEF CallType
<1>4. [[call[c] EXCEPT !.at = "idle"] EXCEPT !.answer = a] \in CallType
  BY <1>2, <1>3
<1>5. call' = [call EXCEPT ![c] = o]
  BY DEF TypeOK, Answer
<1>6. o.at = "idle" /\ o.answer = a /\ o.op = call[c].op /\ o.since = call[c].since
  BY <1>1 DEF CallType
<1> QED
  BY <1>4, <1>5, <1>6 DEF Moves

LEMMA RefusedMoves ==
  ASSUME TypeOK, NEW c \in Callers, Refused(c)
  PROVE  \E o : /\ Moves(c, o) /\ o.at = "idle" /\ o.answer = Stopped
                /\ o.op = call[c].op /\ o.since = call[c].since
<1>1. Stopped \in {"ok", "failed", "closed"}
  BY DEF Stopped
<1> QED
  BY <1>1, AnswerMoves DEF Refused

LEMMA RepliedMoves ==
  ASSUME TypeOK, NEW c \in Callers, Replied(c)
  PROVE  \E o : /\ Moves(c, o) /\ o.at = "idle"
                /\ o.answer = (IF reply[c] = "dropped" THEN Stopped ELSE reply[c])
                /\ o.op = call[c].op /\ o.since = call[c].since
<1> DEFINE a == IF reply[c] = "dropped" THEN Stopped ELSE reply[c]
<1>1. reply[c] \in {"ok", "failed", "dropped"}
  BY DEF Replied, TypeOK
<1>2. a \in {"ok", "failed", "closed"}
  BY <1>1 DEF Stopped
<1>3. Answer(c, a)
  BY DEF Replied
<1> HIDE DEF a
<1>4. \E o : /\ Moves(c, o) /\ o.at = "idle" /\ o.answer = a
             /\ o.op = call[c].op /\ o.since = call[c].since
  BY <1>2, <1>3, AnswerMoves
<1> QED
  BY <1>4 DEF a

LEMMA SendBarrierMoves ==
  ASSUME TypeOK, NEW c \in Callers, SendBarrier(c)
  PROVE  \E o : /\ Moves(c, o) /\ o.at = "barrier" /\ o.since = admitted
                /\ o.op = call[c].op /\ o.answer = call[c].answer
<1> DEFINE o == [call[c] EXCEPT !.at = "barrier", !.since = admitted]
<1>1. call[c] \in CallType /\ admitted \in 0 .. MaxRecords
  BY DEF TypeOK, CallType
<1>2. [call[c] EXCEPT !.at = "barrier"] \in CallType
  BY <1>1 DEF CallType
<1>3. \A p \in CallType : [p EXCEPT !.since = admitted] \in CallType
  BY <1>1 DEF CallType
<1>4. [[call[c] EXCEPT !.at = "barrier"] EXCEPT !.since = admitted] \in CallType
  BY <1>2, <1>3
<1>5. call' = [call EXCEPT ![c] = o]
  BY DEF TypeOK, SendBarrier
<1>6. /\ o.at = "barrier" /\ o.since = admitted
      /\ o.op = call[c].op /\ o.answer = call[c].answer
  BY <1>1 DEF CallType
<1> QED
  BY <1>4, <1>5, <1>6 DEF Moves

LEMMA CancelMoves ==
  ASSUME TypeOK, NEW c \in Callers, Cancel(c)
  PROVE  \E o : /\ Moves(c, o) /\ o.op = "none" /\ o.since = 0 /\ o.answer = "none"
                /\ o.at = IF call[c].at = "barrier" THEN "gone" ELSE "idle"
<1>1. CASE call[c].at = "barrier"
  <2> DEFINE o == [Idle EXCEPT !.at = "gone"]
  <2>1. /\ o \in CallType /\ o.at = "gone" /\ o.op = "none" /\ o.since = 0
        /\ o.answer = "none"
    BY BatchWriterAssumption DEF Idle, CallType
  <2>2. call' = [call EXCEPT ![c] = o]
    BY <1>1 DEF Cancel
  <2> QED
    BY <1>1, <2>1, <2>2 DEF Moves
<1>2. CASE call[c].at # "barrier"
  <2>1. call' = [call EXCEPT ![c] = Idle]
    BY <1>2 DEF Cancel
  <2> QED
    BY <1>2, <2>1, IdleShape DEF Moves
<1> QED
  BY <1>1, <1>2

-----------------------------------------------------------------------------
(* What a step does to the worker *)

LEMMA RecvFlushWorker ==
  ASSUME TypeOK, RecvFlush
  PROVE  /\ worker' \in WorkerType /\ worker'.at = "flush"
         /\ worker'.by = Head(queue).by /\ worker'.failed = worker.failed
<1>1. worker \in WorkerType
  BY DEF TypeOK, WorkerType
<1>2. Head(queue).by \in Callers \cup {None}
  <2>1. queue # <<>> /\ queue \in Seq(Command)
    BY DEF RecvFlush, TypeOK, Command
  <2>2. Head(queue) \in Command
    BY <2>1, HeadTailProperties
  <2> QED
    BY <2>2 DEF Command
<1>3. worker' = [worker EXCEPT !.at = "flush", !.by = Head(queue).by]
  BY DEF RecvFlush
<1>4. [worker EXCEPT !.at = "flush"] \in WorkerType
  BY <1>1 DEF WorkerType
<1>5. \A p \in WorkerType : [p EXCEPT !.by = Head(queue).by] \in WorkerType
  BY <1>2 DEF WorkerType
<1>6. [[worker EXCEPT !.at = "flush"] EXCEPT !.by = Head(queue).by] \in WorkerType
  BY <1>4, <1>5
<1> QED
  BY <1>1, <1>3, <1>6 DEF WorkerType

\* A batch that ended is taken; the first failure marks the worker.
LEMMA TakeWorker ==
  ASSUME TypeOK, NEW b \in inflight, TakeDone(b) \/ DrainNext(b)
  PROVE  /\ worker' \in WorkerType /\ worker'.by = worker.by
         /\ worker'.failed <=> worker.failed \/ b.done = "err"
         /\ worker'.at = IF worker.at = "select" /\ b.done = "err" THEN "fail" ELSE worker.at
<1>1. worker \in WorkerType
  BY DEF TypeOK, WorkerType
<1>2. CASE TakeDone(b) /\ b.done = "err"
  <2>1. worker' = [worker EXCEPT !.at = "fail", !.failed = TRUE]
    BY <1>2 DEF TakeDone
  <2>2. [worker EXCEPT !.at = "fail"] \in WorkerType
    BY <1>1 DEF WorkerType
  <2>3. \A p \in WorkerType : [p EXCEPT !.failed = TRUE] \in WorkerType
    BY DEF WorkerType
  <2>4. [[worker EXCEPT !.at = "fail"] EXCEPT !.failed = TRUE] \in WorkerType
    BY <2>2, <2>3
  <2>5. /\ worker'.at = "fail" /\ worker'.failed = TRUE /\ worker'.by = worker.by
        /\ worker' \in WorkerType
    BY <1>1, <2>1, <2>4 DEF WorkerType
  <2>6. worker.at = "select"
    BY <1>2 DEF TakeDone
  <2> QED
    BY <1>2, <2>5, <2>6
<1>3. CASE TakeDone(b) /\ b.done # "err"
  BY <1>1, <1>3 DEF TakeDone, WorkerType
<1>4. CASE DrainNext(b)
  BY <1>1, <1>4 DEF DrainNext, Draining, WorkerType
<1> QED
  BY <1>2, <1>3, <1>4

\* The end of a drain, of run, and of the task.
LEMMA WindWorker ==
  ASSUME TypeOK, Wind
  PROVE  /\ worker' \in WorkerType
         /\ RunReturns => /\ worker'.failed = worker.failed
                          /\ worker'.at = IF worker.at = "close" /\ ~worker.failed
                                            THEN "dropping" ELSE "failing"
         /\ FlushDone => /\ worker'.failed = worker.failed
                         /\ worker'.at = IF worker.failed THEN "failing" ELSE "select"
         /\ SetFailure => worker'.failed = worker.failed /\ worker'.at = "dropping"
         /\ DropReceiver => worker'.failed = worker.failed /\ worker'.at = "ended"
<1>1. worker \in WorkerType
  BY DEF TypeOK, WorkerType
<1>2. CASE RunReturns
  <2>1. worker.at \in {"fail", "close"}
    BY <1>2 DEF RunReturns
  <2> QED
    BY <1>1, <1>2, <2>1 DEF RunReturns, FlushDone, SetFailure, DropReceiver, WorkerType
<1>3. CASE FlushDone
  <2>1. worker.at = "flush"
    BY <1>3 DEF FlushDone
  <2> QED
    BY <1>1, <1>3, <2>1, SelectingShape
    DEF RunReturns, FlushDone, SetFailure, DropReceiver, WorkerType
<1>4. CASE SetFailure
  BY <1>1, <1>4 DEF RunReturns, FlushDone, SetFailure, DropReceiver, WorkerType
<1>5. CASE DropReceiver
  BY <1>1, <1>5 DEF RunReturns, FlushDone, SetFailure, DropReceiver, WorkerType
<1> QED
  BY <1>2, <1>3, <1>4, <1>5 DEF Wind

-----------------------------------------------------------------------------
(* Types *)

\* A caller's step changes its call and perhaps the end of the queue.
LEMMA CallerType ==
  ASSUME TypeOK, Offered, NEW c \in Callers,
         \/ WriteBegin(c) \/ FlushBegin(c) \/ SendBarrier(c) \/ Admit(c)
         \/ Refused(c) \/ Replied(c) \/ Cancel(c)
  PROVE  TypeOK'
<1> USE DEF callVars, workerVars
<1>1. (\E o : Moves(c, o)) => call' \in [Callers -> CallType]
  BY MovesCall
<1>2. CASE WriteBegin(c) \/ FlushBegin(c)
  <2>1. \E o : Moves(c, o)
    BY <1>2, BegunShape DEF WriteBegin, FlushBegin, Moves
  <2>2. reply' \in [Callers -> {"none", "ok", "failed", "dropped"}]
    BY <1>2 DEF TypeOK, WriteBegin, FlushBegin
  <2> QED
    BY <1>1, <1>2, <2>1, <2>2 DEF TypeOK, CallType, WriteBegin, FlushBegin
<1>3. CASE SendBarrier(c)
  <2>1. call' \in [Callers -> CallType]
    BY <1>1, <1>3, SendBarrierMoves
  <2>2. queue' \in Seq(Command) /\ Len(queue') = Len(queue) + 1 /\ Len(queue) \in Nat
    BY <1>3, Commanded, QueueAppend, QueueDomain DEF SendBarrier
  <2>3. Len(queue') <= Capacity
    BY <1>3, <2>2, BatchWriterAssumption DEF SendBarrier, HasSlot
  <2> QED
    BY <1>3, <2>1, <2>2, <2>3 DEF TypeOK, Command, CallType, SendBarrier
<1>4. CASE Admit(c)
  <2>1. admitted + 1 \in 0 .. MaxRecords
    <3>1. c \in Writing
      BY <1>4 DEF Admit, Writing
    <3>2. Cardinality(Writing) \in Nat /\ Cardinality(Writing) # 0
      BY <3>1, FS_CardinalityType, FS_EmptySet DEF Offered
    <3> QED
      BY <3>2, BatchWriterAssumption DEF Offered, TypeOK
  <2>2. call' \in [Callers -> CallType]
    BY <1>1, <1>4, AnswerMoves DEF Admit
  <2>3. Appended(admitted + 1) \in Command
    BY <2>1, Commanded
  <2>4. queue' \in Seq(Command) /\ Len(queue') = Len(queue) + 1 /\ Len(queue) \in Nat
    BY <1>4, <2>3, QueueAppend, QueueDomain DEF Admit
  <2>5. Len(queue') <= Capacity
    BY <1>4, <2>4, BatchWriterAssumption DEF Admit, HasSlot
  <2> QED
    BY <1>4, <2>1, <2>2, <2>4, <2>5 DEF TypeOK, Command, CallType, Admit
<1>5. CASE Refused(c) \/ Replied(c)
  <2>1. \E o : Moves(c, o)
    BY <1>5, RefusedMoves, RepliedMoves
  <2>2. call' \in [Callers -> CallType]
    BY <1>1, <2>1
  <2> QED
    BY <1>5, <2>2 DEF TypeOK, CallType, Refused, Replied
<1>6. CASE Cancel(c)
  <2>1. call' \in [Callers -> CallType]
    BY <1>1, <1>6, CancelMoves
  <2> QED
    BY <1>6, <2>1 DEF TypeOK, CallType, Cancel
<1> QED
  BY <1>2, <1>3, <1>4, <1>5, <1>6

LEMMA LaunchType ==
  ASSUME TypeOK, NEW recs \in SUBSET Records
  PROVE  Launched(recs) \subseteq Batch
BY DEF TypeOK, Launched, Batch

\* What the worker receives.
LEMMA RecvType ==
  ASSUME TypeOK, Commands, Recv \/ Tick
  PROVE  TypeOK'
<1> USE DEF callVars
<1>1. inflight \subseteq Batch /\ pending \subseteq Records /\ Launched(pending) \subseteq Batch
  BY LaunchType DEF TypeOK, Batch
<1>2. ASSUME queue' = Tail(queue), queue # <<>>
      PROVE  queue' \in Seq(Command) /\ Len(queue') <= Capacity /\ Head(queue) = queue[1]
             /\ 1 \in DOMAIN queue
  BY <1>2, QueueTail, QueueDomain, BatchWriterAssumption DEF TypeOK
<1>3. CASE RecvAppend
  <2>1. Head(queue).rec \in Records
    BY <1>2, <1>3, BatchWriterAssumption DEF RecvAppend, Commands, IsRecord, IsBarrier, TypeOK, Records
  <2>2. pending \cup {Head(queue).rec} \subseteq Records
    BY <1>1, <2>1
  <2>3. pending' \subseteq Records /\ inflight' \subseteq Batch
    BY <1>1, <1>3, <2>2, LaunchType DEF RecvAppend
  <2> QED
    BY <1>2, <1>3, <2>3 DEF RecvAppend, TypeOK, Command, Batch
<1>4. CASE RecvFlush
  BY <1>1, <1>2, <1>4, RecvFlushWorker DEF RecvFlush, TypeOK, Command, Batch, WorkerType
<1>5. CASE RecvNone
  <2>1. worker' \in WorkerType
    BY <1>5 DEF RecvNone, TypeOK, WorkerType
  <2> QED
    BY <1>1, <1>5, <2>1 DEF RecvNone, TypeOK, Batch, WorkerType
<1>6. CASE Tick
  BY <1>1, <1>6 DEF Tick, TypeOK, Batch
<1> QED
  BY <1>3, <1>4, <1>5, <1>6 DEF Recv

\* A batch that ends, and one that is taken.
LEMMA ServeType ==
  ASSUME TypeOK, NEW b \in inflight,
         (\E done \in {"ok", "err"} : Complete(b, done)) \/ TakeDone(b) \/ DrainNext(b)
  PROVE  TypeOK'
<1> USE DEF callVars
<1>1. b \in Batch /\ inflight \subseteq Batch
  BY DEF TypeOK, Batch
<1>2. ASSUME NEW done \in {"ok", "err"}, Complete(b, done) PROVE TypeOK'
  <2>1. [b EXCEPT !.done = done] \in Batch
    BY <1>1 DEF Batch
  <2>2. inflight' \subseteq Batch /\ acked' \subseteq Records
    BY <1>1, <1>2, <2>1 DEF Complete, TypeOK, Batch
  <2> QED
    BY <1>2, <2>2 DEF Complete, TypeOK, Batch
<1>3. CASE TakeDone(b) \/ DrainNext(b)
  <2>1. worker' \in WorkerType /\ inflight' \subseteq Batch
    BY <1>1, <1>3, TakeWorker DEF TakeDone, DrainNext
  <2> QED
    BY <1>3, <2>1 DEF TakeDone, DrainNext, TypeOK, WorkerType, Batch
<1> QED
  BY <1>2, <1>3

LEMMA WindType ==
  ASSUME TypeOK, Barriers, Wind
  PROVE  TypeOK'
<1> USE DEF callVars
<1>1. worker' \in WorkerType
  BY WindWorker
<1>2. CASE RunReturns
  BY <1>1, <1>2 DEF RunReturns, TypeOK, WorkerType
<1>3. CASE FlushDone
  <2>1. reply' \in [Callers -> {"none", "ok", "failed", "dropped"}]
    BY <1>3 DEF FlushDone, TypeOK
  <2> QED
    BY <1>1, <1>3, <2>1 DEF FlushDone, TypeOK, WorkerType
<1>4. CASE SetFailure
  BY <1>1, <1>4 DEF SetFailure, TypeOK, WorkerType
<1>5. CASE DropReceiver
  <2>1. reply' \in [Callers -> {"none", "ok", "failed", "dropped"}]
    BY <1>5 DEF DropReceiver, TypeOK
  <2>2. queue' \in Seq(Command) /\ Len(queue') <= Capacity
    BY <1>5, QueueEmpty, BatchWriterAssumption DEF DropReceiver
  <2> QED
    BY <1>1, <1>5, <2>1, <2>2 DEF DropReceiver, TypeOK, Command, WorkerType
<1> QED
  BY <1>2, <1>3, <1>4, <1>5 DEF Wind

LEMMA HandleType ==
  ASSUME TypeOK, Close \/ CloseReturns \/ CancelClose
  PROVE  TypeOK'
BY DEF TypeOK, Close, CloseReturns, CancelClose, workerVars

-----------------------------------------------------------------------------
(* The steps of Next that are no caller's *)

WorkerStep ==
  \/ Recv \/ Tick \/ Wind
  \/ \E b \in inflight :
       TakeDone(b) \/ DrainNext(b) \/ \E done \in {"ok", "err"} : Complete(b, done)

HandleStep == Close \/ CloseReturns \/ CancelClose

CallerStep(c) ==
  \/ WriteBegin(c) \/ Admit(c) \/ FlushBegin(c) \/ SendBarrier(c)
  \/ Refused(c) \/ Replied(c) \/ Cancel(c)

LEMMA Steps == Next => (\E c \in Callers : CallerStep(c)) \/ WorkerStep \/ HandleStep
BY DEF Next, CallerStep, WorkerStep, HandleStep, Serve

\* The worker and close leave the calls alone.
LEMMA OtherSteps ==
  ASSUME WorkerStep \/ HandleStep
  PROVE  UNCHANGED <<admitted, call>>
<1>1. Recv \/ Tick => UNCHANGED <<admitted, call>>
  BY DEF Recv, RecvAppend, RecvFlush, RecvNone, Tick, callVars
<1>2. Wind => UNCHANGED <<admitted, call>>
  BY DEF Wind, RunReturns, FlushDone, SetFailure, DropReceiver, callVars
<1>3. ASSUME NEW b \in inflight, NEW done \in {"ok", "err"},
             TakeDone(b) \/ DrainNext(b) \/ Complete(b, done)
      PROVE  UNCHANGED <<admitted, call>>
  BY <1>3 DEF TakeDone, DrainNext, Complete, callVars
<1>4. HandleStep => UNCHANGED <<admitted, call>>
  BY DEF HandleStep, Close, CloseReturns, CancelClose, workerVars
<1> QED
  BY <1>1, <1>2, <1>3, <1>4 DEF WorkerStep

-----------------------------------------------------------------------------
(* The records offered *)

LEMMA WritingMoves ==
  ASSUME TypeOK, NEW c \in Callers, NEW o, Moves(c, o)
  PROVE  Writing' = IF o.at = "write" THEN Writing \cup {c} ELSE Writing \ {c}
BY MovesCall DEF Writing

\* A call that ends leaves room, and one that begins took the room it needed.
LEMMA OfferedStep ==
  ASSUME TypeOK, Offered, Next
  PROVE  Offered'
<1>1. Cardinality(Writing) \in Nat /\ admitted \in Nat /\ MaxRecords \in Nat
  BY FS_CardinalityType, BatchWriterAssumption DEF Offered, TypeOK
<1>2. ASSUME NEW c \in Callers, NEW o, Moves(c, o), o.at # "write",
             \/ admitted' = admitted
             \/ admitted' = admitted + 1 /\ c \in Writing
      PROVE  Offered'
  <2>1. Writing' = Writing \ {c}
    BY <1>2, WritingMoves
  <2>2. /\ IsFiniteSet(Writing')
        /\ Cardinality(Writing') =
             IF c \in Writing THEN Cardinality(Writing) - 1 ELSE Cardinality(Writing)
    BY <2>1, FS_RemoveElement DEF Offered
  <2> QED
    BY <1>1, <1>2, <2>2 DEF Offered
<1>3. ASSUME NEW c \in Callers, WriteBegin(c) PROVE Offered'
  <2>1. Moves(c, Begun("write")) /\ Begun("write").at = "write"
    BY <1>3, BegunShape DEF WriteBegin, Moves
  <2>2. Writing' = Writing \cup {c}
    BY <2>1, WritingMoves
  <2>3. c \notin Writing /\ admitted + Cardinality(Writing) < MaxRecords /\ admitted' = admitted
    BY <1>3 DEF WriteBegin, Writing
  <2>4. IsFiniteSet(Writing') /\ Cardinality(Writing') = Cardinality(Writing) + 1
    BY <2>2, <2>3, FS_AddElement DEF Offered
  <2> QED
    BY <1>1, <2>3, <2>4 DEF Offered
<1>4. ASSUME NEW c \in Callers, Admit(c) PROVE Offered'
  <2>1. PICK o : Moves(c, o) /\ o.at = "idle"
    BY <1>4, AnswerMoves DEF Admit
  <2>2. c \in Writing /\ admitted' = admitted + 1
    BY <1>4 DEF Admit, Writing
  <2> QED
    BY <1>2, <2>1, <2>2
<1>5. ASSUME NEW c \in Callers, FlushBegin(c) PROVE Offered'
  BY <1>2, <1>5, BegunShape DEF FlushBegin, Moves
<1>6. ASSUME NEW c \in Callers, SendBarrier(c) PROVE Offered'
  <2>1. PICK o : Moves(c, o) /\ o.at = "barrier"
    BY <1>6, SendBarrierMoves
  <2>2. admitted' = admitted
    BY <1>6 DEF SendBarrier
  <2> QED
    BY <1>2, <2>1, <2>2
<1>7. ASSUME NEW c \in Callers, Refused(c) \/ Replied(c) PROVE Offered'
  <2>1. PICK o : Moves(c, o) /\ o.at = "idle"
    BY <1>7, RefusedMoves, RepliedMoves
  <2>2. admitted' = admitted
    BY <1>7 DEF Refused, Replied
  <2> QED
    BY <1>2, <2>1, <2>2
<1>8. ASSUME NEW c \in Callers, Cancel(c) PROVE Offered'
  <2>1. PICK o : Moves(c, o) /\ o.at # "write"
    BY <1>8, CancelMoves
  <2>2. admitted' = admitted
    BY <1>8 DEF Cancel
  <2> QED
    BY <1>2, <2>1, <2>2
<1>9. ASSUME UNCHANGED <<admitted, call>> PROVE Offered'
  BY <1>9 DEF Offered, Writing
<1>10. CASE \E c \in Callers : CallerStep(c)
  BY <1>3, <1>4, <1>5, <1>6, <1>7, <1>8, <1>10 DEF CallerStep
<1> QED
  BY <1>9, <1>10, OtherSteps, Steps

-----------------------------------------------------------------------------
(* The queue *)

\* A caller moves only its call, and may send a command.
LEMMA CallerFrame ==
  ASSUME TypeOK, NEW c \in Callers, CallerStep(c)
  PROVE  /\ UNCHANGED <<pending, inflight, acked, worker, failure, handle>>
         /\ Admit(c) \/ SendBarrier(c) \/ UNCHANGED <<queue, admitted>>
         /\ FlushBegin(c) \/ reply' = reply
         /\ \A d \in Callers : d # c => reply'[d] = reply[d]
         /\ \E o : Moves(c, o)
<1> USE DEF workerVars
<1>1. CASE WriteBegin(c)
  BY <1>1, BegunShape DEF WriteBegin, Moves
<1>2. CASE FlushBegin(c)
  BY <1>2, BegunShape DEF FlushBegin, Moves, TypeOK
<1>3. CASE Admit(c)
  BY <1>3, AnswerMoves DEF Admit
<1>4. CASE SendBarrier(c)
  BY <1>4, SendBarrierMoves DEF SendBarrier
<1>5. CASE Refused(c)
  BY <1>5, RefusedMoves DEF Refused
<1>6. CASE Replied(c)
  BY <1>6, RepliedMoves DEF Replied
<1>7. CASE Cancel(c)
  BY <1>7, CancelMoves DEF Cancel
<1> QED
  BY <1>1, <1>2, <1>3, <1>4, <1>5, <1>6, <1>7 DEF CallerStep

\* How a call goes on.
LEMMA CallerMoves ==
  ASSUME TypeOK, NEW c \in Callers, CallerStep(c)
  PROVE  \E o : /\ Moves(c, o)
                /\ o.since \in {call[c].since, 0, admitted}
                /\ o.at = "write" => o.op = "write"
                /\ o.at = "flush" => FlushBegin(c)
                /\ o.at = "barrier" => SendBarrier(c)
                /\ call[c].at \in {"barrier", "gone"} => o.at = "gone" \/ Replied(c)
                /\ o.at \notin {"idle", "gone"} => handle = "open" \/ SendBarrier(c)
<1>1. CASE WriteBegin(c)
  BY <1>1, BegunShape DEF WriteBegin, Moves
<1>2. CASE FlushBegin(c)
  BY <1>2, BegunShape DEF FlushBegin, Moves
<1>3. CASE Admit(c)
  <2>1. call[c].at = "write" /\ Answer(c, "ok")
    BY <1>3 DEF Admit
  <2> QED
    BY <2>1, AnswerMoves
<1>4. CASE SendBarrier(c)
  <2>1. call[c].at = "flush"
    BY <1>4 DEF SendBarrier
  <2> QED
    BY <1>4, <2>1, SendBarrierMoves
<1>5. CASE Refused(c)
  <2>1. call[c].at \in {"write", "flush"}
    BY <1>5 DEF Refused
  <2> QED
    BY <1>5, <2>1, RefusedMoves
<1>6. CASE Replied(c)
  BY <1>6, RepliedMoves
<1>7. CASE Cancel(c)
  <2>1. call[c].at \in {"write", "flush", "barrier"}
    BY <1>7 DEF Cancel
  <2> QED
    BY <1>7, <2>1, CancelMoves
<1> QED
  BY <1>1, <1>2, <1>3, <1>4, <1>5, <1>6, <1>7 DEF CallerStep

\* The worker takes commands from the front.
Shifts(k) ==
  k \in Nat /\ \A i \in DOMAIN queue' : i + k \in DOMAIN queue /\ queue'[i] = queue[i + k]

LEMMA Unshifted == ASSUME TypeOK, queue' = queue PROVE Shifts(0)
BY QueueDomain DEF Shifts

LEMMA QueueShifts ==
  ASSUME TypeOK, WorkerStep \/ HandleStep
  PROVE  \E k : Shifts(k)
<1>1. ASSUME queue # <<>>, queue' = Tail(queue) PROVE Shifts(1)
  BY <1>1, QueueTail DEF Shifts
<1>2. ASSUME queue' = <<>> PROVE Shifts(0)
  BY <1>2, QueueEmpty DEF Shifts
<1>3. CASE Recv \/ Tick
  BY <1>1, <1>3, Unshifted DEF Recv, RecvAppend, RecvFlush, RecvNone, Tick
<1>4. CASE Wind
  BY <1>2, <1>4, Unshifted DEF Wind, RunReturns, FlushDone, SetFailure, DropReceiver
<1>5. ASSUME NEW b \in inflight, NEW done \in {"ok", "err"},
             TakeDone(b) \/ DrainNext(b) \/ Complete(b, done)
      PROVE  Shifts(0)
  BY <1>5, Unshifted DEF TakeDone, DrainNext, Complete
<1>6. CASE HandleStep
  BY <1>6, Unshifted DEF HandleStep, Close, CloseReturns, CancelClose
<1> QED
  BY <1>3, <1>4, <1>5, <1>6 DEF WorkerStep

LEMMA CommandsShift ==
  ASSUME TypeOK', Commands, admitted' = admitted, NEW k, Shifts(k)
  PROVE  Commands'
<1>1. \A i, j \in DOMAIN queue' : i # j => i + k # j + k
  <2>1. queue' \in Seq(Command)
    BY DEF TypeOK, Command
  <2>2. (\A i \in DOMAIN queue' : i \in Int) /\ k \in Int
    BY <2>1, LenProperties DEF Shifts
  <2>3. \A x, y, z \in Int : x # y => x + z # y + z
    OBVIOUS
  <2> QED
    BY <2>2, <2>3
<1> QED
  BY <1>1 DEF Commands, Shifts, IsRecord, IsBarrier

LEMMA CommandsStep ==
  ASSUME TypeOK, Commands, Barriers, Offered, Next, TypeOK'
  PROVE  Commands'
<1>1. CASE WorkerStep \/ HandleStep
  BY <1>1, QueueShifts, CommandsShift, OtherSteps
<1>2. ASSUME NEW c \in Callers, CallerStep(c), UNCHANGED <<queue, admitted>> PROVE Commands'
  BY <1>2, Unshifted, CommandsShift
<1> DEFINE n == Len(queue) + 1
<1>3. n \notin DOMAIN queue
  BY QueueDomain
<1>4. ASSUME NEW c \in Callers, Admit(c) PROVE Commands'
  <2>1. admitted' = admitted + 1 /\ admitted' \in 1 .. MaxRecords /\ admitted \in Nat
    BY <1>4, BatchWriterAssumption DEF Admit, TypeOK
  <2>2. /\ Appended(admitted') \in Command /\ Appended(admitted').kind = "append"
        /\ Appended(admitted').rec = admitted' /\ Appended(admitted').by = None
    BY <2>1, Commanded
  <2>3. /\ DOMAIN queue' = DOMAIN queue \cup {n}
        /\ \A i \in DOMAIN queue : queue'[i] = queue[i]
        /\ queue'[n] = Appended(admitted')
    BY <1>4, <2>1, <2>2, QueueAppend DEF Admit
  <2>4. \A i \in DOMAIN queue : IsRecord(i) => queue[i].rec # admitted'
    BY <2>1 DEF Commands, IsRecord, IsBarrier
  <2> HIDE DEF n
  <2> QED
    BY <1>3, <2>1, <2>2, <2>3, <2>4 DEF Commands, IsRecord, IsBarrier
<1>5. ASSUME NEW c \in Callers, SendBarrier(c) PROVE Commands'
  <2>1. Barrier(c) \in Command /\ Barrier(c).kind = "flush" /\ Barrier(c).by = c
    BY Commanded
  <2>2. /\ DOMAIN queue' = DOMAIN queue \cup {n}
        /\ \A i \in DOMAIN queue : queue'[i] = queue[i]
        /\ queue'[n] = Barrier(c) /\ admitted' = admitted
    BY <1>5, <2>1, QueueAppend DEF SendBarrier
  <2>3. ~Asked(c)
    BY <1>5 DEF SendBarrier, Barriers
  <2> HIDE DEF n
  <2> QED
    BY <1>3, <2>1, <2>2, <2>3 DEF Commands, IsRecord, IsBarrier, Asked
<1> QED
  BY <1>1, <1>2, <1>4, <1>5, Steps, CallerFrame

-----------------------------------------------------------------------------
(* What is known to the worker and to the barriers *)

LEMMA HeadCommand ==
  ASSUME TypeOK, Commands, queue # <<>>
  PROVE  /\ 1 \in DOMAIN queue /\ Head(queue) = queue[1] /\ queue[1] \in Command
         /\ Head(queue).kind = "append" => IsRecord(1) /\ Head(queue).rec \in 1 .. admitted
         /\ Head(queue).kind = "flush" => IsBarrier(1) /\ Head(queue).by \in Callers
<1>1. queue \in Seq(Command) /\ Len(queue) \in Nat \ {0}
  <2>1. queue \in Seq(Command)
    BY DEF TypeOK, Command
  <2> QED
    BY <2>1, EmptySeq
<1>2. Head(queue) = queue[1] /\ 1 \in DOMAIN queue
  BY <1>1, LenProperties
<1> QED
  BY <1>2, QueueDomain DEF Commands, IsRecord, IsBarrier

\* The admitted records only grow in number.
LEMMA AdmittedGrows ==
  ASSUME TypeOK, Next
  PROVE  admitted \in Nat /\ admitted' \in Nat /\ admitted <= admitted'
<1>1. admitted \in Nat
  BY BatchWriterAssumption DEF TypeOK
<1>2. ASSUME NEW c \in Callers, CallerStep(c) PROVE admitted' = admitted \/ admitted' = admitted + 1
  BY <1>2, CallerFrame DEF Admit, SendBarrier
<1> QED
  BY <1>1, <1>2, Steps, OtherSteps

LEMMA KnownStep ==
  ASSUME TypeOK, Commands, Known, Next, TypeOK'
  PROVE  Known'
<1>0. /\ admitted \in Nat /\ admitted' \in Nat /\ admitted <= admitted'
      /\ \A s \in 0 .. admitted : s \in 0 .. admitted'
      /\ 1 .. admitted \subseteq 1 .. admitted'
  BY AdmittedGrows
<1>1. ASSUME NEW c \in Callers, CallerStep(c) PROVE Known'
  <2>1. PICK o : Moves(c, o) /\ o.since \in {call[c].since, 0, admitted}
    BY <1>1, CallerMoves
  <2>2. call[c].since \in 0 .. admitted
    BY DEF Known
  <2>3. \A d \in Callers : call'[d].since \in 0 .. admitted'
    BY <1>0, <2>1, <2>2, MovesCall DEF Known
  <2>4. UNCHANGED <<pending, inflight, acked>>
    BY <1>1, CallerFrame
  <2> QED
    BY <1>0, <2>3, <2>4 DEF Known
<1>2. CASE UNCHANGED <<admitted, call, pending, inflight, acked>>
  BY <1>2 DEF Known
<1>3. CASE Recv \/ Tick
  <2>1. admitted' = admitted /\ call' = call /\ acked' = acked
    BY <1>3, OtherSteps DEF WorkerStep, Recv, RecvAppend, RecvFlush, RecvNone, Tick
  <2>2. PICK recs : /\ recs \subseteq 1 .. admitted
                    /\ pending' \subseteq recs
                    /\ \A b \in inflight' : b \in inflight \/ b.recs = recs
    <3>1. CASE RecvAppend
      <4>1. pending \cup {Head(queue).rec} \subseteq 1 .. admitted
        BY <3>1, HeadCommand DEF RecvAppend, Known
      <4>2. /\ pending' \subseteq pending \cup {Head(queue).rec}
            /\ \A b \in inflight' : b \in inflight \/ b.recs = pending \cup {Head(queue).rec}
        BY <3>1 DEF RecvAppend, Launched
      <4> QED
        BY <4>1, <4>2
    <3>2. CASE RecvFlush \/ RecvNone \/ Tick
      <4>1. pending \subseteq 1 .. admitted
        BY DEF Known
      <4> QED
        BY <3>2, <4>1 DEF RecvFlush, RecvNone, Tick, Launched
    <3> QED
      BY <1>3, <3>1, <3>2 DEF Recv
  <2> QED
    BY <2>1, <2>2 DEF Known
<1>4. ASSUME NEW b \in inflight, TakeDone(b) \/ DrainNext(b) PROVE Known'
  BY <1>4 DEF TakeDone, DrainNext, callVars, Known
<1>5. ASSUME NEW b \in inflight, NEW done \in {"ok", "err"}, Complete(b, done) PROVE Known'
  <2>1. b.recs \subseteq 1 .. admitted /\ b \in Batch
    BY DEF Known, TypeOK, Batch
  <2>2. [b EXCEPT !.done = done].recs = b.recs
    BY <2>1 DEF Batch
  <2> QED
    BY <1>5, <2>1, <2>2 DEF Complete, callVars, Known
<1>6. CASE Wind
  BY <1>6 DEF Wind, RunReturns, FlushDone, SetFailure, DropReceiver, callVars, Known
<1>7. CASE HandleStep
  BY <1>2, <1>7 DEF HandleStep, Close, CloseReturns, CancelClose, workerVars
<1> QED
  BY <1>1, <1>3, <1>4, <1>5, <1>6, <1>7, Steps DEF WorkerStep

-----------------------------------------------------------------------------
(* Barriers *)

\* A step that takes no barrier neither asks nor serves anew.
LEMMA AskedShift == ASSUME NEW k, Shifts(k), NEW c, Asked(c)' PROVE Asked(c)
BY DEF Shifts, Asked, IsBarrier

LEMMA BarriersStep ==
  ASSUME TypeOK, Commands, Barriers, Next, TypeOK'
  PROVE  Barriers'
<1>1. ASSUME NEW c \in Callers, CallerStep(c), ~SendBarrier(c) PROVE Barriers'
  <2>1. PICK o : /\ Moves(c, o) /\ (o.at = "flush" => FlushBegin(c))
                 /\ (call[c].at \in {"barrier", "gone"} => o.at = "gone" \/ Replied(c))
    BY <1>1, CallerMoves
  <2>2. \A d \in Callers : Asked(d)' => Asked(d)
    <3>1. CASE Admit(c)
      <4>1. admitted + 1 \in 0 .. MaxRecords
        BY <3>1 DEF Admit, TypeOK
      <4>2. Appended(admitted + 1) \in Command /\ Appended(admitted + 1).kind = "append"
        BY <4>1, Commanded
      <4>3. queue' = Append(queue, Appended(admitted + 1))
        BY <3>1 DEF Admit
      <4> QED
        BY <4>2, <4>3, QueueAppend DEF Asked, IsBarrier
    <3>2. CASE ~Admit(c)
      BY <1>1, <3>2, CallerFrame DEF Asked, IsBarrier
    <3> QED
      BY <3>1, <3>2
  <2>3. worker' = worker
    BY <1>1, CallerFrame
  <2>4. \A d \in Callers : d # c => call'[d] = call[d] /\ reply'[d] = reply[d]
    BY <1>1, <2>1, MovesCall, CallerFrame
  <2>5. call'[c] = o
    BY <2>1, MovesCall
  <2>6. Asked(c) \/ Served(c) => ~Replied(c) /\ ~FlushBegin(c) /\ reply'[c] = reply[c]
    BY <1>1, CallerFrame DEF Barriers, Replied, FlushBegin
  <2>7. FlushBegin(c) => reply'[c] = "none"
    BY DEF FlushBegin, TypeOK
  <2>8. ASSUME NEW d \in Callers
        PROVE  /\ ~(Asked(d)' /\ Served(d)')
               /\ Asked(d)' \/ Served(d)' => reply'[d] = "none" /\ call'[d].at \in {"barrier", "gone"}
               /\ call'[d].at = "flush" => reply'[d] = "none"
    BY <2>1, <2>2, <2>3, <2>4, <2>5, <2>6, <2>7 DEF Barriers, Served
  <2> QED
    BY <2>3, <2>8 DEF Barriers
<1>2. ASSUME NEW c \in Callers, SendBarrier(c) PROVE Barriers'
  <2>1. PICK o : Moves(c, o) /\ o.at = "barrier"
    BY <1>2, SendBarrierMoves
  <2>2. Barrier(c) \in Command /\ queue' = Append(queue, Barrier(c)) /\ Barrier(c).by = c
    BY <1>2, Commanded DEF SendBarrier
  <2>3. \A d \in Callers : d # c /\ Asked(d)' => Asked(d)
    BY <2>2, QueueAppend DEF Asked, IsBarrier
  <2>4. worker' = worker /\ reply' = reply
    BY <1>2 DEF SendBarrier, workerVars
  <2>5. call[c].at = "flush"
    BY <1>2 DEF SendBarrier
  <2> QED
    BY <2>1, <2>3, <2>4, <2>5, MovesCall DEF Barriers, Served
<1>3. ASSUME WorkerStep \/ HandleStep, reply' = reply,
             worker'.at = "flush" => worker.at = "flush" /\ worker'.by = worker.by
      PROVE  Barriers'
  <2>1. \A c \in Callers : Asked(c)' => Asked(c)
    BY <1>3, QueueShifts, AskedShift
  <2>2. \A c \in Callers : Served(c)' => Served(c)
    BY <1>3 DEF Served
  <2> QED
    BY <1>3, <2>1, <2>2, OtherSteps DEF Barriers
<1>4. CASE RecvFlush
  <2>1. worker'.at = "flush" /\ worker'.by = Head(queue).by
    BY <1>4, RecvFlushWorker
  <2>2. /\ queue # <<>> /\ queue' = Tail(queue) /\ Head(queue).kind = "flush"
        /\ UNCHANGED <<call, reply>> /\ worker.at # "flush"
    BY <1>4 DEF RecvFlush, Room, callVars
  <2>3. IsBarrier(1) /\ 1 \in DOMAIN queue /\ Head(queue) = queue[1] /\ Head(queue).by \in Callers
    BY <2>2, HeadCommand
  <2>4. ASSUME NEW i \in DOMAIN queue' PROVE i + 1 \in DOMAIN queue /\ queue'[i] = queue[i + 1] /\ i + 1 # 1
    <3>1. i \in Nat \ {0}
      <4>1. queue' \in Seq(Command)
        BY <2>2, QueueTail
      <4> QED
        BY <4>1, LenProperties
    <3> QED
      BY <2>2, <3>1, QueueTail
  <2>5. \A c \in Callers : Asked(c)' => Asked(c)
    BY <2>4 DEF Asked, IsBarrier
  <2>6. PICK h \in Callers : h = Head(queue).by
    BY <2>3
  <2>7. Asked(h)
    BY <2>3, <2>6 DEF Asked
  <2>8. ~Asked(h)'
    BY <2>3, <2>4, <2>6 DEF Asked, IsBarrier, Commands
  <2>9. \A c \in Callers : Served(c)' => c = h
    BY <2>1, <2>6 DEF Served
  <2> QED
    BY <2>1, <2>2, <2>5, <2>6, <2>7, <2>8, <2>9 DEF Barriers
<1>5. CASE FlushDone
  <2>1. worker'.at # "flush" /\ worker.at = "flush" /\ worker.by \in Callers
    BY <1>5, WindWorker DEF Wind, FlushDone, Barriers
  <2>2. queue' = queue /\ call' = call
    BY <1>5 DEF FlushDone
  <2>3. \A c \in Callers : c # worker.by => reply'[c] = reply[c]
    BY <1>5 DEF FlushDone, TypeOK
  <2>4. Served(worker.by)
    BY <2>1 DEF Served
  <2> QED
    BY <2>1, <2>2, <2>3, <2>4 DEF Barriers, Served, Asked, IsBarrier
<1>6. CASE DropReceiver
  <2>1. worker'.at # "flush" /\ queue' = <<>> /\ call' = call
    BY <1>6, WindWorker DEF Wind, DropReceiver
  <2>2. \A c \in Callers : ~Asked(c)' /\ ~Served(c)'
    BY <2>1, QueueEmpty DEF Asked, Served
  <2>3. ASSUME NEW c \in Callers, call[c].at = "flush" PROVE reply'[c] = "none"
    <3>1. ~Asked(c) /\ reply[c] = "none"
      BY <2>3 DEF Barriers
    <3>2. \A i \in DOMAIN queue : queue[i].by # c
      BY <3>1, BatchWriterAssumption DEF Asked, Commands, IsBarrier, IsRecord
    <3> QED
      BY <1>6, <3>1, <3>2 DEF DropReceiver
  <2> QED
    BY <2>1, <2>2, <2>3 DEF Barriers
<1>7. CASE RecvAppend \/ RecvNone \/ Tick
  BY <1>3, <1>7 DEF RecvAppend, RecvNone, Tick, Recv, WorkerStep, callVars, TypeOK
<1>8. ASSUME NEW b \in inflight, NEW done \in {"ok", "err"},
             TakeDone(b) \/ DrainNext(b) \/ Complete(b, done)
      PROVE  Barriers'
  <2>1. reply' = reply
    BY <1>8 DEF TakeDone, DrainNext, Complete, callVars
  <2>2. worker'.at = "flush" => worker.at = "flush" /\ worker'.by = worker.by
    BY <1>8, TakeWorker DEF Complete
  <2> QED
    BY <1>3, <1>8, <2>1, <2>2 DEF WorkerStep
<1>9. CASE RunReturns \/ SetFailure
  <2>1. worker'.at # "flush" /\ reply' = reply
    BY <1>9, WindWorker DEF Wind, RunReturns, SetFailure, callVars
  <2> QED
    BY <1>3, <1>9, <2>1 DEF WorkerStep, Wind
<1>10. CASE HandleStep
  BY <1>3, <1>10 DEF HandleStep, Close, CloseReturns, CancelClose, workerVars
<1> QED
  BY <1>1, <1>2, <1>4, <1>5, <1>6, <1>7, <1>8, <1>9, <1>10, Steps DEF WorkerStep, Recv, Wind

-----------------------------------------------------------------------------
(* The order of records and barriers *)

LEMMA ServedBefore ==
  ASSUME TypeOK, WorkerStep \/ HandleStep, ~RecvFlush, NEW c, Served(c)'
  PROVE  Served(c)
<1>1. CASE RecvAppend \/ RecvNone \/ Tick
  BY <1>1 DEF Served, RecvAppend, RecvNone, Tick, TypeOK
<1>2. ASSUME NEW b \in inflight, NEW done \in {"ok", "err"},
             TakeDone(b) \/ DrainNext(b) \/ Complete(b, done)
      PROVE  Served(c)
  BY <1>2, TakeWorker DEF Served, Complete
<1>3. CASE Wind
  BY <1>3, WindWorker DEF Served, Wind
<1>4. CASE HandleStep
  BY <1>4 DEF Served, HandleStep, Close, CloseReturns, CancelClose, workerVars
<1> QED
  BY <1>1, <1>2, <1>3, <1>4 DEF WorkerStep, Recv

LEMMA OrderStep ==
  ASSUME TypeOK, Commands, Known, Barriers, Order, Next, TypeOK'
  PROVE  Order'
<1>0. queue' \in Seq(Command) /\ \A i \in DOMAIN queue' : i \in Nat \ {0}
  <2>1. queue' \in Seq(Command)
    BY DEF TypeOK, Command
  <2> QED
    BY <2>1, LenProperties
<1>1. ASSUME NEW k, Shifts(k), call' = call, \A c \in Callers : Served(c)' => Served(c)
      PROVE  Order'
  <2>1. \A x, y, z \in Int : x < y => x + z < y + z
    OBVIOUS
  <2>2. \A i, j \in DOMAIN queue' : i < j => i + k < j + k
    BY <1>0, <1>1, <2>1 DEF Shifts
  <2> QED
    BY <1>1, <2>2 DEF Order, Shifts, IsRecord, IsBarrier
<1>2. CASE (WorkerStep \/ HandleStep) /\ ~RecvFlush
  BY <1>1, <1>2, QueueShifts, OtherSteps, ServedBefore
<1>3. CASE RecvFlush
  <2>1. /\ queue # <<>> /\ queue' = Tail(queue) /\ Head(queue).kind = "flush" /\ call' = call
    BY <1>3 DEF RecvFlush, callVars
  <2>2. worker'.at = "flush" /\ worker'.by = queue[1].by /\ IsBarrier(1) /\ 1 \in DOMAIN queue
    BY <1>3, <2>1, RecvFlushWorker, HeadCommand
  <2>3. \A j \in DOMAIN queue' :
          /\ j + 1 \in DOMAIN queue /\ queue'[j] = queue[j + 1]
          /\ 1 < j + 1 /\ \A i \in DOMAIN queue' : i < j => i + 1 < j + 1
    BY <1>0, <2>1, QueueTail
  <2>4. ASSUME NEW c \in Callers, NEW j \in DOMAIN queue', call[c].at = "barrier", IsRecord(j)',
               Served(c)'
        PROVE  queue'[j].rec > call[c].since
    <3>1. queue[1].by = c
      BY <2>2, <2>4 DEF Served
    <3>2. IsRecord(j + 1)
      BY <2>3, <2>4 DEF IsRecord
    <3> QED
      BY <2>2, <2>3, <2>4, <3>1, <3>2 DEF Order
  <2>5. ASSUME NEW c \in Callers, NEW j \in DOMAIN queue', call[c].at = "barrier", IsRecord(j)',
               NEW i \in DOMAIN queue', i < j, IsBarrier(i)', queue'[i].by = c
        PROVE  queue'[j].rec > call[c].since
    <3>1. /\ IsRecord(j + 1) /\ IsBarrier(i + 1) /\ queue[i + 1].by = c /\ i + 1 < j + 1
          /\ i + 1 \in DOMAIN queue /\ j + 1 \in DOMAIN queue
      BY <2>3, <2>5 DEF IsRecord, IsBarrier
    <3> QED
      BY <2>3, <2>5, <3>1 DEF Order
  <2> QED
    BY <2>1, <2>4, <2>5 DEF Order
<1>4. ASSUME NEW c \in Callers, CallerStep(c) PROVE Order'
  <2>1. PICK o : Moves(c, o) /\ (o.at = "barrier" => SendBarrier(c))
    BY <1>4, CallerMoves
  <2>2. /\ worker' = worker /\ call'[c] = o
        /\ \A d \in Callers : d # c => call'[d] = call[d]
    BY <1>4, <2>1, CallerFrame, MovesCall
  <2>3. CASE queue' = queue /\ ~SendBarrier(c)
    BY <2>1, <2>2, <2>3 DEF Order, Served, IsRecord, IsBarrier
  <2> DEFINE n == Len(queue) + 1
  <2>4. /\ n \in Nat /\ \A i \in DOMAIN queue : i < n /\ i # n
    BY QueueDomain
  <2>5. CASE Admit(c)
    <3>1. admitted' = admitted + 1 /\ admitted + 1 \in 0 .. MaxRecords /\ admitted \in Nat
      BY <2>5, BatchWriterAssumption DEF Admit, TypeOK
    <3>2. /\ Appended(admitted + 1) \in Command /\ Appended(admitted + 1).rec = admitted + 1
          /\ Appended(admitted + 1).kind = "append"
      BY <3>1, Commanded
    <3>3. /\ DOMAIN queue' = DOMAIN queue \cup {n}
          /\ \A i \in DOMAIN queue : queue'[i] = queue[i]
          /\ queue'[n] = Appended(admitted + 1)
      BY <2>5, <3>2, QueueAppend DEF Admit
    <3>4. o.at # "barrier"
      <4>1. call[c].at = "write"
        BY <2>5 DEF Admit
      <4> QED
        BY <2>1, <4>1 DEF SendBarrier
    <3>5. \A d \in Callers : admitted + 1 > call[d].since
      BY <3>1 DEF Known
    <3>6. \A i \in DOMAIN queue' : IsBarrier(i)' => i \in DOMAIN queue /\ IsBarrier(i)
      BY <3>2, <3>3 DEF IsBarrier
    <3> HIDE DEF n
    <3>7. ASSUME NEW d \in Callers, NEW j \in DOMAIN queue', call'[d].at = "barrier", IsRecord(j)'
          PROVE  /\ Served(d)' => queue'[j].rec > call'[d].since
                 /\ \A i \in DOMAIN queue' :
                      i < j /\ IsBarrier(i)' /\ queue'[i].by = d => queue'[j].rec > call'[d].since
      <4>1. d # c /\ call'[d] = call[d]
        BY <2>2, <3>4, <3>7
      <4>2. CASE j = n
        BY <3>2, <3>3, <3>5, <4>1, <4>2
      <4>3. CASE j \in DOMAIN queue
        BY <2>2, <3>3, <3>6, <3>7, <4>1, <4>3 DEF Order, Served, IsRecord, IsBarrier
      <4> QED
        BY <3>3, <4>2, <4>3
    <3> QED
      BY <3>7 DEF Order
  <2>6. CASE SendBarrier(c)
    <3>1. Barrier(c) \in Command /\ Barrier(c).kind = "flush" /\ Barrier(c).by = c
      BY Commanded
    <3>2. /\ DOMAIN queue' = DOMAIN queue \cup {n}
          /\ \A i \in DOMAIN queue : queue'[i] = queue[i]
          /\ queue'[n] = Barrier(c)
      BY <2>6, <3>1, QueueAppend DEF SendBarrier
    <3>3. ~Asked(c) /\ ~Served(c)
      BY <2>6 DEF SendBarrier, Barriers
    <3> HIDE DEF n
    <3>4. ASSUME NEW d \in Callers, NEW j \in DOMAIN queue', call'[d].at = "barrier", IsRecord(j)'
          PROVE  /\ Served(d)' => queue'[j].rec > call'[d].since
                 /\ \A i \in DOMAIN queue' :
                      i < j /\ IsBarrier(i)' /\ queue'[i].by = d => queue'[j].rec > call'[d].since
      <4>1. j \in DOMAIN queue /\ IsRecord(j)
        BY <3>1, <3>2, <3>4 DEF IsRecord
      <4>2. \A i \in DOMAIN queue' : i < j => i \in DOMAIN queue
        BY <2>4, <3>2, <4>1, <1>0
      <4>3. CASE d = c
        <5>1. ~Served(d)'
          BY <2>2, <3>3, <4>3 DEF Served
        <5>2. \A i \in DOMAIN queue' : i < j /\ IsBarrier(i)' => queue'[i].by # d
          BY <3>2, <3>3, <4>2, <4>3 DEF Asked, IsBarrier
        <5> QED
          BY <5>1, <5>2
      <4>4. CASE d # c
        BY <2>2, <3>2, <3>4, <4>1, <4>2, <4>4 DEF Order, Served, IsRecord, IsBarrier
      <4> QED
        BY <4>3, <4>4
    <3> QED
      BY <3>4 DEF Order
  <2> QED
    BY <1>4, <2>3, <2>5, <2>6, CallerFrame
<1> QED
  BY <1>2, <1>3, <1>4, Steps

-----------------------------------------------------------------------------
(* The end of the writer and of its worker *)

LEMMA ReleasedStep ==
  ASSUME TypeOK, Released, Next
  PROVE  Released'
<1>1. ASSUME NEW c \in Callers, CallerStep(c) PROVE Released'
  <2>1. PICK o : Moves(c, o) /\ (o.at \notin {"idle", "gone"} => handle = "open" \/ SendBarrier(c))
    BY <1>1, CallerMoves
  <2>2. SendBarrier(c) => handle = "open"
    BY DEF SendBarrier, Released
  <2>3. handle' = handle
    BY <1>1, CallerFrame
  <2> QED
    BY <2>1, <2>2, <2>3, MovesCall DEF Released
<1>2. CASE WorkerStep \/ HandleStep
  <2>1. call' = call
    BY <1>2, OtherSteps
  <2>2. handle' = handle \/ handle # "open" \/ Close
    BY <1>2 DEF WorkerStep, HandleStep, Recv, Tick, Wind, RecvAppend, RecvFlush, RecvNone, RunReturns,
      FlushDone, SetFailure, DropReceiver, TakeDone, DrainNext, Complete, callVars, CloseReturns,
      CancelClose
  <2> QED
    BY <2>1, <2>2 DEF Released, Close
<1> QED
  BY <1>1, <1>2, Steps

LEMMA ProgressCaller ==
  ASSUME TypeOK, Released, Progress, NEW c \in Callers, CallerStep(c)
  PROVE  Progress'
<1>1. UNCHANGED <<pending, inflight, worker, failure, handle>>
  BY CallerFrame
<1>2. CASE queue' = queue
  <2>1. \A d \in Callers : reply'[d] = "dropped" => reply[d] = "dropped"
    BY CallerFrame DEF FlushBegin, TypeOK
  <2> QED
    BY <1>1, <1>2, <2>1 DEF Progress
<1>3. CASE Admit(c) \/ SendBarrier(c)
  <2>1. handle = "open" /\ worker.at # "ended"
    BY <1>3 DEF Admit, SendBarrier, HasSlot, Connected, Released
  <2>2. reply' = reply
    BY <1>3 DEF Admit, SendBarrier
  <2> QED
    BY <1>1, <2>1, <2>2 DEF Progress
<1> QED
  BY <1>2, <1>3, CallerFrame

LEMMA ProgressWorker ==
  ASSUME TypeOK, Commands, Progress, WorkerStep
  PROVE  Progress'
<1>1. CASE RecvAppend \/ Tick
  <2>1. worker.at = "select" /\ UNCHANGED <<worker, failure, reply, handle>>
    BY <1>1 DEF RecvAppend, Tick, Room, callVars
  <2> QED
    BY <2>1 DEF Progress
<1>2. CASE RecvFlush
  <2>1. worker.at = "select" /\ UNCHANGED <<failure, reply, handle>> /\ pending' = {}
    BY <1>2 DEF RecvFlush, Room, callVars
  <2>2. worker'.at = "flush" /\ worker'.failed = worker.failed
    BY <1>2, RecvFlushWorker
  <2> QED
    BY <2>1, <2>2 DEF Progress
<1>3. CASE RecvNone
  <2>1. /\ worker.at = "select" /\ UNCHANGED <<failure, reply, handle, queue>> /\ pending' = {}
        /\ queue = <<>> /\ handle # "open"
    BY <1>3 DEF RecvNone, Room, callVars
  <2>2. worker'.at = "close" /\ worker'.failed = worker.failed
    BY <1>3 DEF RecvNone, TypeOK
  <2> QED
    BY <2>1, <2>2 DEF Progress
<1>4. ASSUME NEW b \in inflight, NEW done \in {"ok", "err"}, Complete(b, done) PROVE Progress'
  <2>1. /\ UNCHANGED <<queue, pending, worker, failure, reply, handle>>
        /\ worker.at \in {"select", "fail", "flush", "close"}
    BY <1>4 DEF Complete, Draining, callVars
  <2> QED
    BY <2>1 DEF Progress
<1>5. ASSUME NEW b \in inflight, TakeDone(b) \/ DrainNext(b) PROVE Progress'
  <2>1. /\ UNCHANGED <<queue, pending, failure, reply, handle>>
        /\ worker.at \in {"select", "fail", "flush", "close"}
    BY <1>5 DEF TakeDone, DrainNext, Draining, callVars
  <2>2. /\ worker'.failed <=> worker.failed \/ b.done = "err"
        /\ worker'.at = IF worker.at = "select" /\ b.done = "err" THEN "fail" ELSE worker.at
    BY <1>5, TakeWorker
  <2>3. worker'.at = "select" => ~worker'.failed
    BY <2>2 DEF Progress
  <2>4. worker'.at = "fail" => worker'.failed
    BY <2>2 DEF Progress
  <2>5. worker'.at \notin {"failing", "dropping", "ended"} /\ worker.at # "ended"
    BY <2>1, <2>2
  <2>6. worker'.at \in {"flush", "close"} => worker'.at = worker.at
    BY <2>2
  <2> QED
    BY <2>1, <2>3, <2>4, <2>5, <2>6 DEF Progress
<1>6. CASE RunReturns
  <2>1. /\ worker.at \in {"fail", "close"} /\ inflight' = {} /\ pending' = {}
        /\ UNCHANGED <<queue, failure, reply, handle>>
    BY <1>6 DEF RunReturns, callVars
  <2>2. /\ worker'.failed = worker.failed
        /\ worker'.at = IF worker.at = "close" /\ ~worker.failed THEN "dropping" ELSE "failing"
    BY <1>6, WindWorker DEF Wind
  <2> QED
    BY <2>1, <2>2 DEF Progress
<1>7. CASE FlushDone
  <2>1. /\ worker.at = "flush" /\ inflight' = {} /\ UNCHANGED <<queue, pending, failure, handle>>
    BY <1>7 DEF FlushDone
  <2>2. /\ worker'.failed = worker.failed
        /\ worker'.at = IF worker.failed THEN "failing" ELSE "select"
    BY <1>7, WindWorker DEF Wind
  <2>3. \A c \in Callers : reply'[c] = "dropped" => reply[c] = "dropped"
    BY <1>7 DEF FlushDone, TypeOK
  <2> QED
    BY <2>1, <2>2, <2>3 DEF Progress
<1>8. CASE SetFailure
  <2>1. /\ worker.at = "failing" /\ failure' = TRUE
        /\ UNCHANGED <<queue, pending, inflight, reply, handle>>
    BY <1>8 DEF SetFailure, callVars
  <2>2. worker'.failed = worker.failed /\ worker'.at = "dropping"
    BY <1>8, WindWorker DEF Wind
  <2> QED
    BY <2>1, <2>2 DEF Progress
<1>9. CASE DropReceiver
  <2>1. /\ worker.at = "dropping" /\ queue' = <<>>
        /\ UNCHANGED <<pending, inflight, failure, handle>>
    BY <1>9 DEF DropReceiver
  <2>2. worker'.failed = worker.failed /\ worker'.at = "ended"
    BY <1>9, WindWorker DEF Wind
  <2>3. \A c \in Callers : reply'[c] = "dropped" => failure
    <3>1. ASSUME NEW c \in Callers, reply'[c] = "dropped" PROVE reply[c] = "dropped" \/ queue # <<>>
      BY <1>9, <3>1, QueueEmpty DEF DropReceiver
    <3> QED
      BY <2>1, <3>1 DEF Progress
  <2> QED
    BY <2>1, <2>2, <2>3 DEF Progress
<1> QED
  BY <1>1, <1>2, <1>3, <1>4, <1>5, <1>6, <1>7, <1>8, <1>9 DEF WorkerStep, Recv, Wind

LEMMA ProgressStep ==
  ASSUME TypeOK, Commands, Released, Progress, Next
  PROVE  Progress'
<1>1. CASE HandleStep
  <2>1. /\ UNCHANGED <<queue, pending, inflight, worker, failure, reply>>
        /\ handle' = "open" => handle = "open"
        /\ handle' = "closed" => worker.at = "ended" /\ ~worker.failed
    BY <1>1 DEF HandleStep, Close, CloseReturns, CancelClose, workerVars, Connected
  <2> QED
    BY <2>1 DEF Progress
<1> QED
  BY <1>1, ProgressCaller, ProgressWorker, Steps

\* A writer never answers Closed: who still calls has not released it, so its
\* worker ended for a failure, which was stored first.
LEMMA ReportedStep ==
  ASSUME TypeOK, Released, Progress, FailureIsReported, Next
  PROVE  FailureIsReported'
<1>1. CASE WorkerStep \/ HandleStep
  BY <1>1, OtherSteps DEF FailureIsReported
<1>2. ASSUME NEW c \in Callers, CallerStep(c) PROVE FailureIsReported'
  <2>1. ASSUME NEW o, Moves(c, o), o.answer # "closed" PROVE FailureIsReported'
    BY <2>1, MovesCall DEF FailureIsReported
  <2>2. CASE WriteBegin(c) \/ FlushBegin(c)
    BY <2>1, <2>2, BegunShape DEF WriteBegin, FlushBegin, Moves
  <2>3. CASE Admit(c)
    <3>1. Answer(c, "ok")
      BY <2>3 DEF Admit
    <3> QED
      BY <2>1, <3>1, AnswerMoves
  <2>4. CASE SendBarrier(c)
    <3>1. call[c].answer # "closed"
      BY DEF FailureIsReported
    <3> QED
      BY <2>1, <2>4, <3>1, SendBarrierMoves
  <2>5. CASE Refused(c)
    <3>1. worker.at = "ended" /\ handle = "open"
      BY <2>5 DEF Refused, Connected, Released
    <3>2. Stopped = "failed"
      BY <3>1 DEF Progress, Stopped
    <3> QED
      BY <2>1, <2>5, <3>2, RefusedMoves
  <2>6. CASE Replied(c)
    <3>1. reply[c] = "dropped" => Stopped = "failed"
      BY DEF Progress, Stopped
    <3>2. reply[c] # "closed"
      BY DEF TypeOK
    <3> QED
      BY <2>1, <2>6, <3>1, <3>2, RepliedMoves
  <2>7. CASE Cancel(c)
    BY <2>1, <2>7, CancelMoves
  <2> QED
    BY <1>2, <2>2, <2>3, <2>4, <2>5, <2>6, <2>7 DEF CallerStep
<1> QED
  BY <1>1, <1>2, Steps

-----------------------------------------------------------------------------
(* Where the records are *)

NothingFailed == ~worker.failed /\ \A b \in inflight : b.done # "err"

InLaunched == UNION {b.recs : b \in Launching}

\* Each admitted record is in one place.
Conserved ==
  /\ 1 .. admitted = Queued \cup pending \cup acked \cup InLaunched
  /\ \A b \in Launching :
       /\ b.recs \cap (Queued \cup pending \cup acked) = {}
       /\ \A d \in Launching : b = d \/ b.recs \cap d.recs = {}
  /\ pending \cap (Queued \cup acked) = {} /\ Queued \cap acked = {}

LEMMA ConservedIff == RecordsConserved <=> (NothingFailed => Conserved)
BY DEF RecordsConserved, NothingFailed, Conserved, InLaunched

LEMMA ConservedIffNext == RecordsConserved' <=> (NothingFailed' => Conserved')
BY DEF RecordsConserved, NothingFailed, Conserved, InLaunched

\* A failure is never forgotten: the batch that failed marks the worker.
LEMMA FailureStays ==
  ASSUME TypeOK, Next, NothingFailed'
  PROVE  NothingFailed
<1>1. ASSUME NEW b \in inflight, TakeDone(b) \/ DrainNext(b) PROVE NothingFailed
  <2>1. inflight' = inflight \ {b}
    BY <1>1 DEF TakeDone, DrainNext
  <2> QED
    BY <1>1, <2>1, TakeWorker DEF NothingFailed
<1>2. ASSUME NEW b \in inflight, NEW done \in {"ok", "err"}, Complete(b, done) PROVE NothingFailed
  <2>1. b.done # "err" /\ inflight \ {b} \subseteq inflight' /\ worker' = worker
    BY <1>2 DEF Complete
  <2> QED
    BY <2>1 DEF NothingFailed
<1>3. CASE Recv \/ Tick
  <2>1. worker'.failed = worker.failed
    BY <1>3, RecvFlushWorker DEF Recv, RecvAppend, RecvNone, Tick, TypeOK
  <2>2. inflight \subseteq inflight'
    BY <1>3 DEF Recv, RecvAppend, RecvFlush, RecvNone, Tick, Launched
  <2> QED
    BY <2>1, <2>2 DEF NothingFailed
<1>4. CASE Wind
  <2>1. worker'.failed = worker.failed
    BY <1>4, WindWorker DEF Wind
  <2>2. inflight' = inflight
    BY <1>4 DEF Wind, RunReturns, FlushDone, SetFailure, DropReceiver
  <2> QED
    BY <2>1, <2>2 DEF NothingFailed
<1>5. CASE HandleStep
  BY <1>5 DEF HandleStep, Close, CloseReturns, CancelClose, workerVars, NothingFailed
<1>6. ASSUME NEW c \in Callers, CallerStep(c) PROVE NothingFailed
  BY <1>6, CallerFrame DEF NothingFailed
<1> QED
  BY <1>1, <1>2, <1>3, <1>4, <1>5, <1>6, Steps DEF WorkerStep

\* Nothing moves.
LEMMA KeepConserves ==
  ASSUME Conserved, Queued' = Queued, Launching' = Launching,
         UNCHANGED <<admitted, pending, acked>>
  PROVE  Conserved'
BY DEF Conserved, InLaunched

\* What was received joins the batch that is collected...
LEMMA CollectConserves ==
  ASSUME Conserved, NEW X \in SUBSET Queued, Queued' = Queued \ X,
         pending' = pending \cup X, Launching' = Launching, UNCHANGED <<admitted, acked>>
  PROVE  Conserved'
<1>1. InLaunched' = InLaunched
  BY DEF InLaunched
<1> QED
  BY <1>1 DEF Conserved

\* ... or is launched with it.
LEMMA LaunchConserves ==
  ASSUME Conserved, NEW X \in SUBSET Queued, Queued' = Queued \ X,
         pending' = {}, inflight' = Launched(pending \cup X), UNCHANGED <<admitted, acked>>
  PROVE  Conserved'
<1> DEFINE new == [recs |-> pending \cup X, done |-> "no"]
<1>1. Launching' = Launching \cup {new}
  BY DEF Launching, Launched
<1>2. new.recs = pending \cup X
  OBVIOUS
<1> HIDE DEF new
<1>3. InLaunched' = InLaunched \cup pending \cup X
  BY <1>1, <1>2 DEF InLaunched
<1>4. 1 .. admitted = Queued' \cup pending' \cup acked' \cup InLaunched'
  BY <1>3 DEF Conserved
<1>5. \A b \in Launching' : b.recs \cap (Queued' \cup pending' \cup acked') = {}
  BY <1>1, <1>2 DEF Conserved
<1>6. \A b \in Launching : b.recs \cap new.recs = {}
  BY <1>2 DEF Conserved
<1>7. \A b, d \in Launching' : b = d \/ b.recs \cap d.recs = {}
  BY <1>1, <1>6 DEF Conserved
<1> QED
  BY <1>4, <1>5, <1>7 DEF Conserved

\* The records in the queue after a command left it.
LEMMA QueuedTail ==
  ASSUME TypeOK, Commands, queue # <<>>, queue' = Tail(queue)
  PROVE  /\ Head(queue).kind = "append" =>
              Head(queue).rec \in Queued /\ Queued' = Queued \ {Head(queue).rec}
         /\ Head(queue).kind = "flush" => Queued' = Queued
<1>1. /\ 1 \in DOMAIN queue /\ Head(queue) = queue[1]
      /\ \A i \in DOMAIN queue' : i + 1 \in DOMAIN queue /\ queue'[i] = queue[i + 1] /\ i + 1 # 1
      /\ \A i \in DOMAIN queue : i # 1 => i - 1 \in DOMAIN queue' /\ queue'[i - 1] = queue[i]
  <2>1. queue' \in Seq(Command)
    BY QueueTail
  <2>2. \A i \in DOMAIN queue' : i + 1 # 1
    BY <2>1, LenProperties
  <2> QED
    BY <2>2, QueueTail
<1>2. \A r : r \in Queued <=> \E i \in DOMAIN queue : IsRecord(i) /\ queue[i].rec = r
  BY DEF Queued, IsRecord
<1>3. \A r : r \in Queued' <=> \E i \in DOMAIN queue' : queue'[i].kind = "append" /\ queue'[i].rec = r
  BY DEF Queued
<1>4. \A r : r \in Queued' <=> \E i \in DOMAIN queue : i # 1 /\ IsRecord(i) /\ queue[i].rec = r
  <2>1. ASSUME NEW r, NEW i \in DOMAIN queue', queue'[i].kind = "append", queue'[i].rec = r
        PROVE  \E j \in DOMAIN queue : j # 1 /\ IsRecord(j) /\ queue[j].rec = r
    <3>1. i + 1 \in DOMAIN queue /\ i + 1 # 1 /\ IsRecord(i + 1) /\ queue[i + 1].rec = r
      BY <1>1, <2>1 DEF IsRecord
    <3> QED
      BY <3>1
  <2>2. ASSUME NEW r, NEW i \in DOMAIN queue, i # 1, IsRecord(i), queue[i].rec = r
        PROVE  \E j \in DOMAIN queue' : queue'[j].kind = "append" /\ queue'[j].rec = r
    <3>1. i - 1 \in DOMAIN queue' /\ queue'[i - 1].kind = "append" /\ queue'[i - 1].rec = r
      BY <1>1, <2>2 DEF IsRecord
    <3> QED
      BY <3>1
  <2> QED
    BY <1>3, <2>1, <2>2
<1>5. ASSUME Head(queue).kind = "append"
      PROVE  Head(queue).rec \in Queued /\ Queued' = Queued \ {Head(queue).rec}
  <2>1. IsRecord(1)
    BY <1>1, <1>5 DEF IsRecord
  <2>2. Head(queue).rec \in Queued
    BY <1>1, <1>2, <2>1
  <2>3. \A i \in DOMAIN queue : i # 1 /\ IsRecord(i) => queue[i].rec # queue[1].rec
    BY <1>1, <2>1 DEF Commands
  <2>4. \A r : r \in Queued' <=> r \in Queued /\ r # queue[1].rec
    BY <1>2, <1>4, <2>3
  <2> QED
    BY <1>1, <2>2, <2>4
<1>6. ASSUME Head(queue).kind = "flush" PROVE Queued' = Queued
  <2>1. ~IsRecord(1)
    BY <1>1, <1>6 DEF IsRecord
  <2>2. \A r : r \in Queued' <=> r \in Queued
    BY <1>2, <1>4, <2>1
  <2> QED
    BY <2>2
<1> QED
  BY <1>5, <1>6

LEMMA QueuedAppend ==
  ASSUME TypeOK, NEW x \in Command, queue' = Append(queue, x)
  PROVE  Queued' = IF x.kind = "append" THEN Queued \cup {x.rec} ELSE Queued
<1>1. \A r : r \in Queued <=> \E i \in DOMAIN queue : queue[i].kind = "append" /\ queue[i].rec = r
  BY DEF Queued
<1>2. \A r : r \in Queued' <=> \E i \in DOMAIN queue' : queue'[i].kind = "append" /\ queue'[i].rec = r
  BY DEF Queued
<1> DEFINE n == Len(queue) + 1
<1>3. /\ DOMAIN queue' = DOMAIN queue \cup {n}
      /\ \A i \in DOMAIN queue : queue'[i] = queue[i]
      /\ queue'[n] = x
  BY QueueAppend
<1>4. n \notin DOMAIN queue
  BY QueueDomain
<1> HIDE DEF n
<1>5. \A r : r \in Queued' <=> r \in Queued \/ (x.kind = "append" /\ r = x.rec)
  BY <1>1, <1>2, <1>3, <1>4
<1> QED
  BY <1>5

LEMMA AdmitConserves ==
  ASSUME TypeOK, TypeOK', Conserved, NEW c \in Callers, Admit(c)
  PROVE  Conserved'
<1> DEFINE r == admitted + 1
<1>1. /\ admitted' = r /\ queue' = Append(queue, Appended(r))
      /\ UNCHANGED <<pending, inflight, acked>> /\ admitted \in Nat
  BY BatchWriterAssumption DEF Admit, workerVars, TypeOK
<1>2. 1 .. admitted' = 1 .. admitted \cup {r} /\ r \notin 1 .. admitted
  BY <1>1
<1>3. r \in 0 .. MaxRecords
  BY <1>1 DEF TypeOK
<1>4. Appended(r) \in Command /\ Appended(r).kind = "append" /\ Appended(r).rec = r
  BY <1>3, Commanded
<1>5. Queued' = Queued \cup {r}
  BY <1>1, <1>4, QueuedAppend
<1>6. r \notin Queued \cup pending \cup acked \cup InLaunched
  BY <1>2 DEF Conserved
<1>7. Launching' = Launching /\ InLaunched' = InLaunched
  BY <1>1 DEF Launching, InLaunched
<1>8. \A b \in Launching : r \notin b.recs
  BY <1>6 DEF InLaunched
<1> HIDE DEF r
<1> QED
  BY <1>1, <1>2, <1>5, <1>6, <1>7, <1>8 DEF Conserved

\* A batch that is acknowledged takes its records with it.
LEMMA CompleteConserves ==
  ASSUME TypeOK, Conserved, NEW b \in inflight, Complete(b, "ok")
  PROVE  Conserved'
<1>1. /\ b \in Batch /\ b.done = "no"
      /\ inflight' = (inflight \ {b}) \cup {[b EXCEPT !.done = "ok"]}
      /\ acked' = acked \cup b.recs /\ UNCHANGED <<queue, admitted, pending>>
  BY DEF Complete, TypeOK, Batch
<1>2. [b EXCEPT !.done = "ok"].done = "ok"
  BY <1>1 DEF Batch
<1>3. b \in Launching /\ Launching' = Launching \ {b}
  BY <1>1, <1>2 DEF Launching
<1>4. Queued' = Queued
  BY <1>1 DEF Queued
<1>5. \A d \in Launching' : d \in Launching /\ d.recs \cap b.recs = {}
  BY <1>3 DEF Conserved
<1>6. InLaunched = InLaunched' \cup b.recs
  BY <1>3 DEF InLaunched
<1> QED
  BY <1>1, <1>3, <1>4, <1>5, <1>6 DEF Conserved

LEMMA ConservedStep ==
  ASSUME TypeOK, Commands, Known, Progress, RecordsConserved, Next, TypeOK'
  PROVE  RecordsConserved'
<1> SUFFICES ASSUME NothingFailed' PROVE Conserved'
  BY ConservedIffNext
<1>0. NothingFailed /\ Conserved
  BY FailureStays, ConservedIff
<1>1. ASSUME queue' = queue, inflight' = inflight, UNCHANGED <<admitted, pending, acked>>
      PROVE  Conserved'
  BY <1>0, <1>1, KeepConserves DEF Queued, Launching
<1>2. ASSUME NEW c \in Callers, CallerStep(c) PROVE Conserved'
  <2>1. UNCHANGED <<pending, inflight, acked>>
    BY <1>2, CallerFrame
  <2>2. CASE Admit(c)
    BY <1>0, <2>2, AdmitConserves
  <2>3. CASE SendBarrier(c)
    <3>1. queue' = Append(queue, Barrier(c)) /\ admitted' = admitted
      BY <2>3 DEF SendBarrier
    <3>2. Barrier(c) \in Command /\ Barrier(c).kind # "append"
      BY Commanded
    <3>3. Queued' = Queued
      BY <3>1, <3>2, QueuedAppend
    <3> QED
      BY <1>0, <2>1, <3>1, <3>3, KeepConserves DEF Launching
  <2> QED
    BY <1>1, <1>2, <2>1, <2>2, <2>3, CallerFrame
<1>3. CASE RecvAppend
  <2> DEFINE r == Head(queue).rec
  <2>1. /\ queue # <<>> /\ queue' = Tail(queue) /\ Head(queue).kind = "append"
        /\ UNCHANGED <<admitted, acked>>
        /\ \/ pending' = {} /\ inflight' = Launched(pending \cup {r})
           \/ pending' = pending \cup {r} /\ inflight' = inflight
    BY <1>3 DEF RecvAppend
  <2>2. {r} \in SUBSET Queued /\ Queued' = Queued \ {r}
    BY <2>1, QueuedTail
  <2> HIDE DEF r
  <2> QED
    BY <1>0, <2>1, <2>2, CollectConserves, LaunchConserves DEF Launching
<1>4. ASSUME pending' = {}, inflight' = Launched(pending), Queued' = Queued,
             UNCHANGED <<admitted, acked>>
      PROVE  Conserved'
  <2>1. {} \in SUBSET Queued /\ Queued' = Queued \ {} /\ inflight' = Launched(pending \cup {})
    BY <1>4
  <2> QED
    BY <1>0, <1>4, <2>1, LaunchConserves
<1>5. CASE RecvFlush
  <2>1. Queued' = Queued
    BY <1>5, QueuedTail DEF RecvFlush
  <2> QED
    BY <1>4, <1>5, <2>1 DEF RecvFlush
<1>6. CASE RecvNone \/ Tick
  <2>1. Queued' = Queued
    BY <1>6 DEF RecvNone, Tick, Queued
  <2> QED
    BY <1>4, <1>6, <2>1 DEF RecvNone, Tick
<1>7. ASSUME NEW b \in inflight, NEW done \in {"ok", "err"}, Complete(b, done) PROVE Conserved'
  <2>1. done = "ok"
    <3>1. [b EXCEPT !.done = done] \in inflight' /\ b \in Batch
      BY <1>7 DEF Complete, TypeOK, Batch
    <3>2. [b EXCEPT !.done = done].done = done
      BY <3>1 DEF Batch
    <3> QED
      BY <3>1, <3>2 DEF NothingFailed
  <2> QED
    BY <1>0, <1>7, <2>1, CompleteConserves
<1>8. ASSUME NEW b \in inflight, TakeDone(b) \/ DrainNext(b) PROVE Conserved'
  <2>1. b.done = "ok"
    <3>1. b.done \in {"no", "ok", "err"} /\ b.done # "no"
      BY <1>8 DEF TakeDone, DrainNext, TypeOK
    <3> QED
      BY <1>0, <3>1 DEF NothingFailed
  <2>2. Launching' = Launching
    BY <1>8, <2>1 DEF Launching, TakeDone, DrainNext
  <2>3. UNCHANGED <<queue, admitted, pending, acked>>
    BY <1>8 DEF TakeDone, DrainNext
  <2> QED
    BY <1>0, <2>2, <2>3, KeepConserves DEF Queued
<1>9. CASE RunReturns
  <2>1. pending = {}
    BY <1>0, <1>9 DEF RunReturns, Progress, NothingFailed
  <2> QED
    BY <1>1, <1>9, <2>1 DEF RunReturns
<1>10. CASE FlushDone \/ SetFailure
  BY <1>1, <1>10 DEF FlushDone, SetFailure
<1>11. CASE DropReceiver
  <2>1. queue = <<>>
    BY <1>0, <1>11 DEF DropReceiver, Progress, NothingFailed
  <2> QED
    BY <1>1, <1>11, <2>1 DEF DropReceiver
<1>12. CASE HandleStep
  BY <1>1, <1>12 DEF HandleStep, Close, CloseReturns, CancelClose, workerVars
<1> QED
  BY <1>2, <1>3, <1>5, <1>6, <1>7, <1>8, <1>9, <1>10, <1>11, <1>12, Steps
  DEF WorkerStep, Recv, Wind

-----------------------------------------------------------------------------
(* What is acknowledged *)

LEMMA AckedGrows == ASSUME TypeOK, Next PROVE acked \subseteq acked'
<1>1. ASSUME NEW c \in Callers, CallerStep(c) PROVE acked' = acked
  BY <1>1, CallerFrame
<1>2. CASE HandleStep
  BY <1>2 DEF HandleStep, Close, CloseReturns, CancelClose, workerVars
<1>3. CASE Recv \/ Tick \/ Wind
  BY <1>3 DEF Recv, RecvAppend, RecvFlush, RecvNone, Tick, Wind, RunReturns, FlushDone,
    SetFailure, DropReceiver
<1>4. ASSUME NEW b \in inflight, NEW done \in {"ok", "err"},
             TakeDone(b) \/ DrainNext(b) \/ Complete(b, done)
      PROVE  acked \subseteq acked'
  BY <1>4 DEF TakeDone, DrainNext, Complete
<1> QED
  BY <1>1, <1>2, <1>3, <1>4, Steps DEF WorkerStep

\* The drain of a barrier ends well only when everything before it is
\* acknowledged: what is still queued is behind it.
LEMMA DrainedBarrier ==
  ASSUME TypeOK, Commands, Known, Order, Progress, RecordsConserved,
         worker.at = "flush", ~worker.failed, inflight = {},
         NEW c \in Callers, worker.by = c, call[c].at = "barrier"
  PROVE  1 .. call[c].since \subseteq acked
<1>1. pending = {} /\ InLaunched = {}
  BY DEF Progress, InLaunched, Launching
<1>2. 1 .. admitted = Queued \cup acked
  BY <1>1, ConservedIff DEF NothingFailed, Conserved
<1>3. \A r \in Queued : r > call[c].since
  <2>1. \A i \in DOMAIN queue : IsRecord(i) => queue[i].rec > call[c].since
    BY DEF Order, Served
  <2> QED
    BY <2>1 DEF Queued, IsRecord
<1>4. call[c].since \in 0 .. admitted /\ admitted \in Nat
  BY BatchWriterAssumption DEF Known, TypeOK
<1>5. \A r \in 1 .. call[c].since : r \in 1 .. admitted /\ ~(r > call[c].since)
  BY <1>4
<1> QED
  BY <1>2, <1>3, <1>5

LEMMA ToldStep ==
  ASSUME TypeOK, Commands, Known, Barriers, Order, Told, Progress, RecordsConserved, Next
  PROVE  Told'
<1>1. acked \subseteq acked'
  BY AckedGrows
<1>2. ASSUME NEW c \in Callers, CallerStep(c) PROVE Told'
  <2>1. PICK o : /\ Moves(c, o) /\ (o.at = "write" => o.op = "write")
                 /\ (o.at = "barrier" => SendBarrier(c))
    BY <1>2, CallerMoves
  <2>2. SendBarrier(c) => reply'[c] = "none"
    BY DEF SendBarrier, Barriers
  <2>3. \A d \in Callers : d # c => reply'[d] = reply[d] /\ call'[d] = call[d]
    BY <1>2, <2>1, CallerFrame, MovesCall
  <2>4. call'[c] = o
    BY <2>1, MovesCall
  <2> QED
    BY <1>1, <2>1, <2>2, <2>3, <2>4 DEF Told
<1>3. CASE (WorkerStep \/ HandleStep)
           /\ \A c \in Callers : reply'[c] = "ok" => reply[c] = "ok"
  BY <1>1, <1>3, OtherSteps DEF Told
<1>4. CASE FlushDone
  <2>1. /\ worker.at = "flush" /\ inflight = {} /\ call' = call
        /\ reply' = [reply EXCEPT ![worker.by] = IF worker.failed THEN "failed" ELSE "ok"]
    BY <1>4 DEF FlushDone
  <2>2. ASSUME NEW c \in Callers, call[c].at = "barrier", reply'[c] = "ok"
        PROVE  1 .. call[c].since \subseteq acked
    <3>1. CASE reply[c] = "ok"
      BY <2>2, <3>1 DEF Told
    <3>2. CASE reply[c] # "ok"
      <4>1. worker.by = c /\ ~worker.failed
        BY <2>1, <2>2, <3>2 DEF TypeOK
      <4> QED
        BY <2>1, <2>2, <4>1, DrainedBarrier
    <3> QED
      BY <3>1, <3>2
  <2> QED
    BY <1>1, <2>1, <2>2 DEF Told
<1>5. CASE Recv \/ Tick \/ RunReturns \/ SetFailure
  <2>1. reply' = reply
    BY <1>5 DEF Recv, RecvAppend, RecvFlush, RecvNone, Tick, RunReturns, SetFailure, callVars
  <2> QED
    BY <1>3, <1>5, <2>1 DEF WorkerStep, Wind
<1>6. CASE DropReceiver
  BY <1>3, <1>6 DEF DropReceiver, WorkerStep, Wind
<1>7. ASSUME NEW b \in inflight, NEW done \in {"ok", "err"},
             TakeDone(b) \/ DrainNext(b) \/ Complete(b, done)
      PROVE  Told'
  <2>1. reply' = reply
    BY <1>7 DEF TakeDone, DrainNext, Complete, callVars
  <2> QED
    BY <1>3, <1>7, <2>1 DEF WorkerStep
<1>8. CASE HandleStep
  BY <1>3, <1>8 DEF HandleStep, Close, CloseReturns, CancelClose
<1> QED
  BY <1>2, <1>4, <1>5, <1>6, <1>7, <1>8, Steps DEF WorkerStep, Wind

LEMMA BarrierDurableStep ==
  ASSUME TypeOK, Told, BarrierIsDurable, Next
  PROVE  BarrierIsDurable'
<1>1. acked \subseteq acked'
  BY AckedGrows
<1>2. ASSUME NEW c \in Callers, CallerStep(c) PROVE BarrierIsDurable'
  <2>1. ASSUME NEW o, Moves(c, o),
               o.at = "idle" /\ o.op = "flush" /\ o.answer = "ok" => 1 .. o.since \subseteq acked
        PROVE  BarrierIsDurable'
    BY <1>1, <2>1, MovesCall DEF BarrierIsDurable
  <2>2. CASE WriteBegin(c) \/ FlushBegin(c)
    BY <2>1, <2>2, BegunShape DEF WriteBegin, FlushBegin, Moves
  <2>3. CASE Admit(c)
    <3>1. Answer(c, "ok") /\ call[c].op = "write"
      BY <2>3 DEF Admit, Told
    <3> QED
      BY <2>1, <3>1, AnswerMoves
  <2>4. CASE SendBarrier(c)
    BY <2>1, <2>4, SendBarrierMoves
  <2>5. CASE Refused(c)
    <3>1. Stopped # "ok"
      BY DEF Stopped
    <3> QED
      BY <2>1, <2>5, <3>1, RefusedMoves
  <2>6. CASE Replied(c)
    <3>1. call[c].at = "barrier" /\ Stopped # "ok"
      BY <2>6 DEF Replied, Stopped
    <3>2. reply[c] = "ok" => 1 .. call[c].since \subseteq acked
      BY <3>1 DEF Told
    <3> QED
      BY <2>1, <2>6, <3>1, <3>2, RepliedMoves
  <2>7. CASE Cancel(c)
    BY <2>1, <2>7, CancelMoves
  <2> QED
    BY <1>2, <2>2, <2>3, <2>4, <2>5, <2>6, <2>7 DEF CallerStep
<1>3. CASE WorkerStep \/ HandleStep
  BY <1>1, <1>3, OtherSteps DEF BarrierIsDurable
<1> QED
  BY <1>2, <1>3, Steps

-----------------------------------------------------------------------------
(* The limits *)

LEMMA PendingFinite ==
  ASSUME TypeOK
  PROVE  /\ IsFiniteSet(pending) /\ Cardinality(pending) \in Nat
         /\ \A b \in inflight : IsFiniteSet(b.recs) /\ Cardinality(b.recs) \in Nat
<1>1. IsFiniteSet(Records)
  BY BatchWriterAssumption, FS_Interval DEF Records
<1>2. pending \in SUBSET Records /\ \A b \in inflight : b.recs \in SUBSET Records
  BY DEF TypeOK
<1> QED
  BY <1>1, <1>2, FS_Subset, FS_CardinalityType

\* A launch finds a free slot and takes one.
LEMMA LaunchRoom ==
  ASSUME TypeOK, Inflight, Backpressure, Room, NEW recs, inflight' = Launched(recs),
         Cardinality(recs) <= BatchSize, Cardinality(pending') < BatchSize
  PROVE  (Inflight /\ Backpressure)'
<1>1. Cardinality(inflight) \in Nat /\ Cardinality(inflight) < MaxInflight /\ MaxInflight \in Nat
  BY FS_CardinalityType, BatchWriterAssumption DEF Inflight, Room
<1> DEFINE new == [recs |-> recs, done |-> "no"]
<1>2. inflight' = inflight \cup {new} /\ new.recs = recs
  BY DEF Launched
<1> HIDE DEF new
<1>3. /\ IsFiniteSet(inflight')
      /\ Cardinality(inflight') = Cardinality(inflight) \/ Cardinality(inflight') = Cardinality(inflight) + 1
  BY <1>2, FS_AddElement DEF Inflight
<1>4. Cardinality(inflight') <= MaxInflight
  BY <1>1, <1>3
<1>5. \A b \in inflight' : Cardinality(b.recs) <= BatchSize
  BY <1>2 DEF Backpressure
<1> QED
  BY <1>3, <1>4, <1>5 DEF Inflight, Backpressure

LEMMA BackpressureStep ==
  ASSUME TypeOK, Inflight, Backpressure, Next
  PROVE  (Inflight /\ Backpressure)'
<1>0. /\ BatchSize \in Nat \ {0} /\ MaxInflight \in Nat /\ Cardinality({}) = 0
      /\ Cardinality(pending) \in Nat /\ Cardinality(pending) < BatchSize
  BY BatchWriterAssumption, PendingFinite, FS_EmptySet DEF Backpressure
<1>1. ASSUME inflight' = inflight, pending' = pending \/ Cardinality(pending') < BatchSize
      PROVE  (Inflight /\ Backpressure)'
  BY <1>1 DEF Inflight, Backpressure
<1>2. CASE RecvAppend
  <2> DEFINE batch == pending \cup {Head(queue).rec}
  <2>1. Cardinality(batch) \in Nat /\ Cardinality(batch) <= BatchSize
    <3>1. Cardinality(batch) = Cardinality(pending) \/ Cardinality(batch) = Cardinality(pending) + 1
      BY PendingFinite, FS_AddElement
    <3> QED
      BY <1>0, <3>1
  <2>2. /\ Room
        /\ \/ Cardinality(batch) >= BatchSize /\ pending' = {} /\ inflight' = Launched(batch)
           \/ ~(Cardinality(batch) >= BatchSize) /\ pending' = batch /\ inflight' = inflight
    BY <1>2 DEF RecvAppend
  <2> HIDE DEF batch
  <2>3. CASE inflight' = Launched(batch) /\ pending' = {}
    BY <1>0, <2>1, <2>2, <2>3, LaunchRoom
  <2>4. CASE ~(Cardinality(batch) >= BatchSize) /\ pending' = batch /\ inflight' = inflight
    BY <1>0, <1>1, <2>1, <2>4
  <2> QED
    BY <2>2, <2>3, <2>4
<1>3. CASE RecvFlush \/ RecvNone \/ Tick
  <2>1. Room /\ pending' = {} /\ inflight' = Launched(pending)
    BY <1>3 DEF RecvFlush, RecvNone, Tick
  <2>2. Cardinality(pending) <= BatchSize /\ Cardinality(pending') < BatchSize
    BY <1>0, <2>1
  <2> QED
    BY <2>1, <2>2, LaunchRoom
<1>4. ASSUME NEW b \in inflight,
             \/ inflight' = inflight \ {b}
             \/ \E done : inflight' = (inflight \ {b}) \cup {[b EXCEPT !.done = done]},
             pending' = pending
      PROVE  (Inflight /\ Backpressure)'
  <2>1. /\ IsFiniteSet(inflight \ {b}) /\ Cardinality(inflight) \in Nat
        /\ Cardinality(inflight \ {b}) = Cardinality(inflight) - 1
    BY FS_RemoveElement, FS_CardinalityType DEF Inflight
  <2>2. Cardinality(inflight) <= MaxInflight
    BY DEF Backpressure
  <2>3. CASE inflight' = inflight \ {b}
    BY <1>0, <1>4, <2>1, <2>2, <2>3 DEF Inflight, Backpressure
  <2>4. ASSUME NEW done, inflight' = (inflight \ {b}) \cup {[b EXCEPT !.done = done]}
        PROVE  (Inflight /\ Backpressure)'
    <3>1. b \in Batch
      BY DEF TypeOK, Batch
    <3>2. PICK e : e = [b EXCEPT !.done = done]
      OBVIOUS
    <3>3. e.recs = b.recs
      BY <3>1, <3>2 DEF Batch
    <3>4. /\ IsFiniteSet(inflight') /\ Cardinality(inflight') \in Nat
          /\ Cardinality(inflight') <= Cardinality(inflight)
      <4>1. inflight' = (inflight \ {b}) \cup {e}
        BY <2>4, <3>2
      <4>2. \/ Cardinality(inflight') = Cardinality(inflight) - 1
            \/ Cardinality(inflight') = Cardinality(inflight) - 1 + 1
        BY <2>1, <4>1, FS_AddElement
      <4>3. IsFiniteSet(inflight')
        BY <2>1, <4>1, FS_AddElement
      <4> QED
        BY <2>1, <4>2, <4>3, FS_CardinalityType
    <3>5. \A d \in inflight' : Cardinality(d.recs) <= BatchSize
      BY <2>4, <3>2, <3>3 DEF Backpressure
    <3> QED
      BY <1>0, <1>4, <2>1, <2>2, <3>4, <3>5 DEF Inflight, Backpressure
  <2> QED
    BY <1>4, <2>3, <2>4
<1>5. ASSUME NEW b \in inflight, NEW done \in {"ok", "err"},
             TakeDone(b) \/ DrainNext(b) \/ Complete(b, done)
      PROVE  (Inflight /\ Backpressure)'
  BY <1>4, <1>5 DEF TakeDone, DrainNext, Complete
<1>6. CASE Wind
  BY <1>0, <1>1, <1>6 DEF Wind, RunReturns, FlushDone, SetFailure, DropReceiver
<1>7. CASE HandleStep
  BY <1>1, <1>7 DEF HandleStep, Close, CloseReturns, CancelClose, workerVars
<1>8. ASSUME NEW c \in Callers, CallerStep(c) PROVE (Inflight /\ Backpressure)'
  BY <1>1, <1>8, CallerFrame
<1> QED
  BY <1>2, <1>3, <1>5, <1>6, <1>7, <1>8, Steps DEF WorkerStep, Recv

-----------------------------------------------------------------------------
(* The theorems *)

LEMMA TypeStep ==
  ASSUME TypeOK, Offered, Commands, Barriers, Next
  PROVE  TypeOK'
<1>1. ASSUME NEW c \in Callers, CallerStep(c) PROVE TypeOK'
  BY <1>1, CallerType DEF CallerStep
<1>2. CASE Recv \/ Tick
  BY <1>2, RecvType
<1>3. CASE Wind
  BY <1>3, WindType
<1>4. ASSUME NEW b \in inflight,
             TakeDone(b) \/ DrainNext(b) \/ \E done \in {"ok", "err"} : Complete(b, done)
      PROVE  TypeOK'
  BY <1>4, ServeType
<1>5. CASE HandleStep
  BY <1>5, HandleType DEF HandleStep
<1> QED
  BY <1>1, <1>2, <1>3, <1>4, <1>5, Steps DEF WorkerStep

LEMMA IInvStep == IInv /\ [Next]_vars => IInv'
<1> SUFFICES ASSUME IInv, [Next]_vars PROVE IInv'
  OBVIOUS
<1>1. CASE Next
  <2>1. TypeOK'
    BY <1>1, TypeStep DEF IInv
  <2>2. Offered' /\ Commands' /\ Known' /\ Barriers' /\ Order'
    BY <1>1, <2>1, OfferedStep, CommandsStep, KnownStep, BarriersStep, OrderStep DEF IInv
  <2>3. Told' /\ Released' /\ Progress'
    BY <1>1, ToldStep, ReleasedStep, ProgressStep DEF IInv
  <2>4. RecordsConserved' /\ BarrierIsDurable' /\ FailureIsReported'
    BY <1>1, <2>1, ConservedStep, BarrierDurableStep, ReportedStep DEF IInv
  <2>5. Inflight' /\ Backpressure'
    BY <1>1, BackpressureStep DEF IInv
  <2> QED
    BY <2>1, <2>2, <2>3, <2>4, <2>5 DEF IInv
<1>2. CASE UNCHANGED vars
  BY <1>2 DEF vars, IInv, TypeOK, Offered, Writing, Commands, IsRecord, IsBarrier, Known,
    Barriers, Asked, Served, Order, Told, Released, Progress, RecordsConserved, Queued,
    Launching, BarrierIsDurable, Inflight, Backpressure, FailureIsReported
<1> QED
  BY <1>1, <1>2

LEMMA Invariance == Spec => []IInv
BY InitIInv, IInvStep, PTL DEF Spec

\* Every variable of the writer keeps its type, and the queue its capacity.
THEOREM TypeCorrect == Spec => []TypeOK
<1>1. IInv => TypeOK
  BY DEF IInv
<1> QED
  BY <1>1, Invariance, PTL

\* A flush that returned Ok was told so after every record admitted before it
\* was acknowledged (writer.rs, worker.rs).
THEOREM BarrierIsDurableHolds == Spec => []BarrierIsDurable
<1>1. IInv => BarrierIsDurable
  BY DEF IInv
<1> QED
  BY <1>1, Invariance, PTL

\* A close that returned Ok left nothing behind.
THEOREM CloseIsDurableHolds == Spec => []CloseIsDurable
<1>1. IInv => CloseIsDurable
  <2> SUFFICES ASSUME IInv, handle = "closed" PROVE 1 .. admitted \subseteq acked
    BY DEF CloseIsDurable
  <2>1. worker.at = "ended" /\ ~worker.failed
    BY DEF IInv, Progress
  <2>2. pending = {} /\ inflight = {} /\ queue = <<>>
    BY <2>1 DEF IInv, Progress
  <2>3. NothingFailed /\ Queued = {} /\ InLaunched = {}
    BY <2>1, <2>2, QueueEmpty DEF NothingFailed, Queued, InLaunched, Launching
  <2>4. Conserved
    BY <2>3, ConservedIff DEF IInv
  <2> QED
    BY <2>2, <2>3, <2>4 DEF Conserved
<1> QED
  BY <1>1, Invariance, PTL

\* No call is told Closed: a writer that stopped by itself has failed, and says
\* so (admission.rs).
THEOREM FailureIsReportedHolds == Spec => []FailureIsReported
<1>1. IInv => FailureIsReported
  BY DEF IInv
<1> QED
  BY <1>1, Invariance, PTL

\* Until a write fails no record is lost and none is sent twice.
THEOREM RecordsConservedHolds == Spec => []RecordsConserved
<1>1. IInv => RecordsConserved
  BY DEF IInv
<1> QED
  BY <1>1, Invariance, PTL

\* The writer never exceeds its slots, and no batch its size (worker.rs).
THEOREM BackpressureHolds == Spec => []Backpressure
<1>1. IInv => Backpressure
  BY DEF IInv
<1> QED
  BY <1>1, Invariance, PTL

-----------------------------------------------------------------------------
(* Two stores behind a buffer (module Stores), for any callers, points,    *)
(* writers and faults.                                                     *)

StoreTypes ==
  /\ bw \in [Writers -> WriterType \cup {Nothing}]
  /\ request \in [Users -> [pc : {"idle", "writer", "write", "mirror"},
                              op : {"create", "create_many"}, points : SUBSET Points,
                              writer : Writers \cup {Nothing},
                              primary : Outcomes, copy : Outcomes]]
  /\ writers \in Writers \cup {Nothing}
  /\ rel \in [Users -> [pc : {"idle", "drain", "flush", "close"}, writer : Writers \cup {Nothing},
                        due : SUBSET Points, first : {"none", "err"}]]
  /\ entered \in [Writers -> SUBSET Points]

\* The map's writer is one that was made; a create has one point and a writer that was made.
Creating ==
  /\ writers # Nothing => bw[writers] # Nothing
  /\ \A c \in Users :
       /\ request[c].pc \in {"writer", "write"} => \E p \in Points : request[c].points = {p}
       /\ request[c].pc = "write" => request[c].writer \in Writers /\ bw[request[c].writer] # Nothing

\* What a call or a batch was told is stored is stored.
TrueAnswers ==
  /\ \A c \in Users :
       /\ request[c].primary = "ok" => request[c].points \subseteq primary
       /\ request[c].copy = "ok" => request[c].points \subseteq copy
  /\ \A x \in Writers : bw[x] # Nothing =>
       IF bw[x].batch = Nothing THEN bw[x].primary = "none" /\ bw[x].copy = "none"
       ELSE /\ bw[x].primary = "ok" => bw[x].batch \subseteq primary
            /\ bw[x].copy = "ok" => bw[x].batch \subseteq copy
            /\ ~bw[x].failed

\* Where a point is that writer b has not lost, kept being what both stores hold.
In(b, p, kept) ==
  \/ \E n \in 1..Len(b.queue) : b.queue[n] = p
  \/ b.batch # Nothing /\ p \in b.batch
  \/ p \in kept
Both == primary \cap copy

\* A point that a writer admitted is with it, or stored, unless the writer failed; a close
\* waits for points its writer admitted, which are stored once it has seen no failure.
EnteredKept ==
  /\ \A x \in Writers :
       IF bw[x] = Nothing THEN entered[x] = {}
       ELSE ~bw[x].failed => \A p \in entered[x] : In(bw[x], p, Both)
  /\ \A c \in Users :
       /\ rel[c].pc = "flush" => /\ rel[c].writer \in Writers /\ bw[rel[c].writer] # Nothing
                                 /\ rel[c].due \subseteq entered[rel[c].writer]
       /\ rel[c].pc = "close" /\ rel[c].first = "none" => rel[c].due \subseteq primary /\ rel[c].due \subseteq copy

StoreInv == StoreTypes /\ Creating /\ TrueAnswers /\ EnteredKept /\ DurableInBoth

\* The sequence of a set of one.
LEMMA OneInOrder ==
  ASSUME NEW p
  PROVE  Len(SetToSeq({p})) = 1 /\ SetToSeq({p})[1] = p
         /\ \A S : p \in S => SetToSeq({p}) \in Seq(S)
<1>2. Cardinality({p}) = 1
  BY FS_Singleton
<1>3. <<p>> \in [1..1 -> {p}] /\ IsInjective(<<p>>)
  BY DEF IsInjective
<1> DEFINE s == SetToSeq({p})
<1>4. s \in [1..1 -> {p}]
  BY <1>2, <1>3 DEF SetToSeq
<1> HIDE DEF s
<1>5. s = <<p>>
  <2>1. <<p>> \in [1..1 -> {p}] /\ <<p>>[1] = p
    OBVIOUS
  <2>2. \A i \in 1..1 : s[i] = <<p>>[i]
    BY <1>4, <2>1
  <2> HIDE DEF s
  <2> QED
    BY <1>4, <2>1, <2>2
<1>6. Len(<<p>>) = 1 /\ <<p>>[1] = p /\ \A S : p \in S => <<p>> \in Seq(S)
  OBVIOUS
<1> QED
  BY <1>5, <1>6 DEF s

\* The two parts of a queue cut after its n-th element.
LEMMA Parts ==
  ASSUME NEW S, NEW q \in Seq(S), NEW n \in 1..Len(q)
  PROVE  /\ SubSeq(q, 1, n) \in Seq(S) /\ Len(SubSeq(q, 1, n)) = n
         /\ \A k \in 1..n : SubSeq(q, 1, n)[k] = q[k]
         /\ SubSeq(q, n + 1, Len(q)) \in Seq(S) /\ Len(SubSeq(q, n + 1, Len(q))) = Len(q) - n
         /\ \A k \in 1..(Len(q) - n) : SubSeq(q, n + 1, Len(q))[k] = q[n + k]
<1>1. /\ SubSeq(q, 1, n) \in Seq(S) /\ Len(SubSeq(q, 1, n)) = n
      /\ \A k \in 1..n : SubSeq(q, 1, n)[k] = q[k]
  OBVIOUS
<1>2. /\ SubSeq(q, n + 1, Len(q)) \in Seq(S) /\ Len(SubSeq(q, n + 1, Len(q))) = Len(q) - n
      /\ \A k \in 1..(Len(q) - n) : SubSeq(q, n + 1, Len(q))[k] = q[n + k]
  OBVIOUS
<1> QED
  BY <1>1, <1>2, Zenon

\* The fields of a call are typed, and replacing one call keeps the others.
LEMMA RequestTyped ==
  ASSUME StoreTypes, NEW c \in Users
  PROVE  /\ request[c].pc \in {"idle", "writer", "write", "mirror"}
         /\ request[c].points \in SUBSET Points
         /\ request[c].writer \in Writers \cup {Nothing}
         /\ request[c].primary \in Outcomes /\ request[c].copy \in Outcomes
<1>1. request[c] \in [pc : {"idle", "writer", "write", "mirror"},
                      op : {"create", "create_many"}, points : SUBSET Points,
                      writer : Writers \cup {Nothing},
                      primary : Outcomes, copy : Outcomes]
  BY DEF StoreTypes
<1> QED
  BY <1>1

\* So are those of a batch writer.
LEMMA WriterTyped ==
  ASSUME StoreTypes, NEW x \in Writers, bw[x] # Nothing
  PROVE  /\ bw[x] \in WriterType
         /\ bw[x].queue \in Seq(Points) /\ bw[x].failed \in BOOLEAN
         /\ bw[x].batch # Nothing => bw[x].batch \in SUBSET Points
         /\ bw[x].primary \in Outcomes /\ bw[x].copy \in Outcomes
<1>1. bw[x] \in WriterType
  BY DEF StoreTypes
<1> QED
  BY <1>1 DEF WriterType

LEMMA IdleTyped ==
  IdleCall \in [pc : {"idle", "writer", "write", "mirror"},
                      op : {"create", "create_many"}, points : SUBSET Points,
                      writer : Writers \cup {Nothing},
                      primary : Outcomes, copy : Outcomes]
BY DEF IdleCall, Outcomes

\* What was admitted stays kept by any step that loses nothing of a writer without failing it.
LEMMA EnteredStays ==
  ASSUME StoreTypes, EnteredKept, primary \subseteq primary', copy \subseteq copy',
         UNCHANGED <<rel, entered>>,
         \A x \in Writers : bw'[x] = Nothing => bw[x] = Nothing,
         \A x \in Writers : bw'[x] # Nothing =>
           IF bw[x] = Nothing THEN TRUE
           ELSE ~bw'[x].failed =>
                  /\ ~bw[x].failed
                  /\ \A p \in entered[x] : In(bw[x], p, Both) => In(bw'[x], p, Both')
  PROVE  EnteredKept'
<1>1. ASSUME NEW x \in Writers
      PROVE  IF bw'[x] = Nothing THEN entered'[x] = {}
             ELSE ~bw'[x].failed => \A p \in entered'[x] : In(bw'[x], p, Both')
  <2>1. CASE bw[x] = Nothing
    BY <2>1 DEF EnteredKept
  <2>2. CASE bw[x] # Nothing
    BY <2>2 DEF EnteredKept
  <2> QED
    BY <2>1, <2>2
<1>2. ASSUME NEW c \in Users
      PROVE  /\ rel'[c].pc = "flush" => /\ rel'[c].writer \in Writers /\ bw'[rel'[c].writer] # Nothing
                                        /\ rel'[c].due \subseteq entered'[rel'[c].writer]
             /\ rel'[c].pc = "close" /\ rel'[c].first = "none" =>
                  rel'[c].due \subseteq primary' /\ rel'[c].due \subseteq copy'
  BY DEF EnteredKept
<1> QED
  BY <1>1, <1>2 DEF EnteredKept

\* A reader changes nothing that is promised.
LEMMA ReaderStep ==
  ASSUME StoreInv,
         UNCHANGED <<primary, copy, closed, writers, bw, request, rel, settled, entered>>
  PROVE  StoreInv'
<1>1. StoreTypes'
  BY DEF StoreInv, StoreTypes
<1>2. Creating'
  BY DEF StoreInv, Creating
<1>3. TrueAnswers'
  BY DEF StoreInv, TrueAnswers
<1>4. EnteredKept'
  BY EnteredStays DEF StoreInv, Both
<1>5. DurableInBoth'
  BY DEF StoreInv, DurableInBoth
<1> QED
  BY <1>1, <1>2, <1>3, <1>4, <1>5 DEF StoreInv

\* A step of one call that changes neither the stores nor the writers nor the release.
LEMMA CallStep ==
  ASSUME StoreInv, NEW c \in Users,
         NEW r \in [pc : {"idle", "writer", "write", "mirror"}, op : {"create", "create_many"},
                    points : SUBSET Points, writer : Writers \cup {Nothing},
                    primary : Outcomes, copy : Outcomes],
         request' = [request EXCEPT ![c] = r],
         r.pc \in {"writer", "write"} => \E p \in Points : r.points = {p},
         r.pc # "write", r.primary = "none", r.copy = "none",
         UNCHANGED <<primary, copy, writers, bw, rel, entered>>,
         settled' \subseteq primary /\ settled' \subseteq copy
  PROVE  StoreInv'
<1>1. StoreTypes'
  BY DEF StoreInv, StoreTypes
<1>2. \A d \in Users : request'[d] = IF d = c THEN r ELSE request[d]
  BY DEF StoreInv, StoreTypes
<1>3. Creating'
  BY <1>2 DEF StoreInv, Creating
<1>4. TrueAnswers'
  BY <1>2 DEF StoreInv, TrueAnswers
<1>5. EnteredKept'
  BY EnteredStays DEF StoreInv, Both
<1>6. DurableInBoth'
  BY DEF DurableInBoth
<1> QED
  BY <1>1, <1>3, <1>4, <1>5, <1>6 DEF StoreInv

LEMMA CreateStep ==
  ASSUME StoreInv, NEW c \in Users, NEW p \in Points, Create(c, p)
  PROVE  StoreInv'
<1> DEFINE r == [IdleCall EXCEPT !.pc = "writer", !.points = {p}]
<1>1. /\ r \in [pc : {"idle", "writer", "write", "mirror"}, op : {"create", "create_many"},
                points : SUBSET Points, writer : Writers \cup {Nothing},
                primary : Outcomes, copy : Outcomes]
      /\ r.pc = "writer" /\ r.points = {p} /\ r.primary = "none" /\ r.copy = "none"
  BY DEF IdleCall, Outcomes
<1>2. /\ request' = [request EXCEPT ![c] = r]
      /\ UNCHANGED <<primary, copy, writers, bw, rel, entered, settled>>
  BY DEF Create
<1>3. settled' \subseteq primary /\ settled' \subseteq copy
  BY <1>2 DEF StoreInv, DurableInBoth
<1> HIDE DEF r
<1> QED
  BY <1>1, <1>2, <1>3, CallStep

LEMMA CreateManyStep ==
  ASSUME StoresAssumption, StoreInv, NEW c \in Users, NEW ps \in Many,
         CreateMany(c, ps)
  PROVE  StoreInv'
<1> DEFINE r == [IdleCall EXCEPT !.pc = "mirror", !.op = "create_many", !.points = ps]
<1>1. ps \in SUBSET Points
  BY DEF StoresAssumption
<1>2. /\ r \in [pc : {"idle", "writer", "write", "mirror"}, op : {"create", "create_many"},
                points : SUBSET Points, writer : Writers \cup {Nothing},
                primary : Outcomes, copy : Outcomes]
      /\ r.pc = "mirror" /\ r.primary = "none" /\ r.copy = "none"
  BY <1>1 DEF IdleCall, Outcomes
<1>3. /\ request' = [request EXCEPT ![c] = r]
      /\ UNCHANGED <<primary, copy, writers, bw, rel, entered, settled>>
  BY DEF CreateMany
<1>4. settled' \subseteq primary /\ settled' \subseteq copy
  BY <1>3 DEF StoreInv, DurableInBoth
<1> HIDE DEF r
<1> QED
  BY <1>2, <1>3, <1>4, CallStep

\* A call that returns Ok was told Ok by both.
LEMMA ReturnStep ==
  ASSUME StoreInv, NEW c \in Users, CallReturns(c)
  PROVE  StoreInv'
<1>1. IdleCall.pc = "idle" /\ IdleCall.primary = "none"
      /\ IdleCall.copy = "none"
  BY DEF IdleCall
<1>2. /\ request' = [request EXCEPT ![c] = IdleCall]
      /\ UNCHANGED <<primary, copy, writers, bw, rel, entered>>
  BY DEF CallReturns
<1>3. settled' \subseteq primary /\ settled' \subseteq copy
  <2>1. settled \subseteq primary /\ settled \subseteq copy
    BY DEF StoreInv, DurableInBoth
  <2>2. CASE request[c].primary = "ok" /\ request[c].copy = "ok"
    <3>1. request[c].points \subseteq primary /\ request[c].points \subseteq copy
      BY <2>2 DEF StoreInv, TrueAnswers
    <3>2. settled' = settled \cup request[c].points
      BY <2>2 DEF CallReturns, both
    <3> QED
      BY <2>1, <3>1, <3>2
  <2>3. CASE ~(request[c].primary = "ok" /\ request[c].copy = "ok")
    <3>1. settled' = settled
      BY <2>3 DEF CallReturns, both
    <3> QED
      BY <2>1, <3>1
  <2> QED
    BY <2>2, <2>3
<1> QED
  BY <1>1, <1>2, <1>3, IdleTyped, CallStep

\* The answer of a store to a call: what it stored is there for good.
LEMMA CallAnswered ==
  ASSUME StoreInv, NEW c \in Users, NEW how \in {"ok", "err"}, NEW done \in SUBSET Points,
         CallPrimary(c, how, done) \/ CallCopy(c, how, done)
  PROVE  StoreInv'
<1>1. /\ primary \subseteq primary' /\ copy \subseteq copy'
      /\ UNCHANGED <<writers, bw, rel, entered, settled>>
  BY DEF CallPrimary, CallCopy, InfluxWrite, CopyWrite
<1>2. \A d \in Users \ {c} : request'[d] = request[d]
  BY DEF CallPrimary, CallCopy, StoreInv, StoreTypes
<1>3. /\ request'[c].pc = request[c].pc /\ request'[c].points = request[c].points
      /\ request'[c].writer = request[c].writer
      /\ \/ /\ request'[c].primary = how /\ request'[c].copy = request[c].copy
            /\ how = "ok" => request[c].points \subseteq primary'
         \/ /\ request'[c].copy = how /\ request'[c].primary = request[c].primary
            /\ how = "ok" => request[c].points \subseteq copy'
  BY DEF CallPrimary, CallCopy, InfluxWrite, CopyWrite, StoreInv,
         StoreTypes
<1>4. StoreTypes'
  <2>1. request' \in [Users -> [pc : {"idle", "writer", "write", "mirror"},
                              op : {"create", "create_many"}, points : SUBSET Points,
                              writer : Writers \cup {Nothing},
                              primary : Outcomes, copy : Outcomes]]
    <3> DEFINE R == [pc : {"idle", "writer", "write", "mirror"}, op : {"create", "create_many"},
                     points : SUBSET Points, writer : Writers \cup {Nothing},
                     primary : Outcomes, copy : Outcomes]
    <3>1. request \in [Users -> R]
      BY DEF StoreInv, StoreTypes
    <3>2. [request[c] EXCEPT !.primary = how] \in R /\ [request[c] EXCEPT !.copy = how] \in R
      BY <3>1 DEF Outcomes
    <3>3. \/ request' = [request EXCEPT ![c] = [request[c] EXCEPT !.primary = how]]
          \/ request' = [request EXCEPT ![c] = [request[c] EXCEPT !.copy = how]]
      BY DEF CallPrimary, CallCopy
    <3> HIDE DEF R
    <3>4. request' \in [Users -> R]
      BY <3>1, <3>2, <3>3
    <3> QED
      BY <3>4 DEF R
  <2> QED
    BY <1>1, <2>1 DEF StoreInv, StoreTypes
<1>5. Creating'
  BY <1>1, <1>2, <1>3 DEF StoreInv, Creating
<1>6. TrueAnswers'
  <2>1. ASSUME NEW d \in Users
        PROVE  /\ request'[d].primary = "ok" => request'[d].points \subseteq primary'
               /\ request'[d].copy = "ok" => request'[d].points \subseteq copy'
    <3>1. /\ request[d].primary = "ok" => request[d].points \subseteq primary'
          /\ request[d].copy = "ok" => request[d].points \subseteq copy'
      BY <1>1 DEF StoreInv, TrueAnswers
    <3>2. CASE d = c
      BY <1>3, <3>1, <3>2
    <3>3. CASE d # c
      BY <1>2, <3>1, <3>3
    <3> QED
      BY <3>2, <3>3
  <2> QED
    BY <1>1, <2>1 DEF StoreInv, TrueAnswers
<1>7. EnteredKept'
  <2>1. \A b, p : In(b, p, Both) => In(b, p, Both')
    BY <1>1 DEF In, Both
  <2> QED
    BY <1>1, <2>1, EnteredStays DEF StoreInv
<1>8. DurableInBoth'
  BY <1>1 DEF StoreInv, DurableInBoth
<1> QED
  BY <1>4, <1>5, <1>6, <1>7, <1>8 DEF StoreInv

\* Taking the map's writer, or a new one, of which nothing has been told yet.
LEMMA GetWriterStep ==
  ASSUME StoresAssumption, StoreInv, NEW c \in Users, NEW x \in Writers,
         GetWriter(c, x)
  PROVE  StoreInv'
<1>1. /\ request[c].pc = "writer" /\ writers' = x /\ x # Nothing
      /\ UNCHANGED <<primary, copy, rel, entered, settled>>
  BY DEF GetWriter, StoresAssumption
<1>2. NewWriter \in WriterType /\ NewWriter # Nothing
      /\ NewWriter.batch = Nothing /\ NewWriter.primary = "none"
      /\ NewWriter.copy = "none"
  <2>1. NewWriter \in WriterType
    BY DEF NewWriter, WriterType, Outcomes
  <2> QED
    BY <2>1 DEF NewWriter, StoresAssumption
<1>3. /\ \A d \in Users \ {c} : request'[d] = request[d]
      /\ request'[c].pc = "write" /\ request'[c].writer = x
      /\ request'[c].points = request[c].points
      /\ request'[c].primary = request[c].primary /\ request'[c].copy = request[c].copy
  BY DEF GetWriter, StoreInv, StoreTypes
<1>4. \/ writers = Nothing /\ bw[x] = Nothing /\ bw' = [bw EXCEPT ![x] = NewWriter]
      \/ writers = x /\ bw' = bw
  BY DEF GetWriter
<1>5. \A y \in Writers :
        \/ bw'[y] = bw[y]
        \/ y = x /\ writers = Nothing /\ bw[y] = Nothing /\ bw'[y] = NewWriter
  BY <1>4 DEF StoreInv, StoreTypes
<1>6. bw[x] # Nothing \/ bw'[x] = NewWriter
  <2>1. CASE writers = Nothing
    BY <1>1, <1>4, <2>1 DEF StoreInv, StoreTypes
  <2>2. CASE writers # Nothing
    BY <1>1, <1>4, <2>2 DEF StoreInv, Creating
  <2> QED
    BY <2>1, <2>2
<1>7. StoreTypes'
  <2>1. bw' \in [Writers -> WriterType \cup {Nothing}]
    BY <1>2, <1>4 DEF StoreInv, StoreTypes
  <2>2. request' \in [Users -> [pc : {"idle", "writer", "write", "mirror"},
                              op : {"create", "create_many"}, points : SUBSET Points,
                              writer : Writers \cup {Nothing},
                              primary : Outcomes, copy : Outcomes]]
    <3> DEFINE R == [pc : {"idle", "writer", "write", "mirror"},
                     op : {"create", "create_many"}, points : SUBSET Points,
                     writer : Writers \cup {Nothing},
                     primary : Outcomes, copy : Outcomes]
               r == [request[c] EXCEPT !.pc = "write", !.writer = x]
    <3>1. request \in [Users -> R]
      BY DEF StoreInv, StoreTypes
    <3>2. r \in R
      BY <3>1
    <3>3. request' = [request EXCEPT ![c] = r]
      BY <3>1 DEF GetWriter
    <3> HIDE DEF r, R
    <3>4. request' \in [Users -> R]
      BY <3>1, <3>2, <3>3
    <3> QED
      BY <3>4 DEF R
  <2> QED
    BY <1>1, <2>1, <2>2 DEF StoreInv, StoreTypes
<1>8. bw'[x] # Nothing
  BY <1>2, <1>5, <1>6
<1>9. Creating'
  <2>1. ASSUME NEW d \in Users
        PROVE  /\ request'[d].pc \in {"writer", "write"} =>
                    \E p \in Points : request'[d].points = {p}
               /\ request'[d].pc = "write" =>
                    request'[d].writer \in Writers /\ bw'[request'[d].writer] # Nothing
    <3>1. CASE d = c
      BY <1>1, <1>3, <1>8, <3>1 DEF StoreInv, Creating
    <3>2. CASE d # c
      <4>1. request'[d] = request[d]
        BY <1>3, <3>2
      <4>2. /\ request[d].pc \in {"writer", "write"} =>
                 \E p \in Points : request[d].points = {p}
            /\ request[d].pc = "write" => request[d].writer \in Writers /\ bw[request[d].writer] # Nothing
        BY DEF StoreInv, Creating
      <4>3. ASSUME request[d].pc = "write"
            PROVE  bw'[request[d].writer] # Nothing
        BY <1>2, <1>5, <4>2, <4>3
      <4> QED
        BY <1>1, <4>1, <4>2, <4>3
    <3> QED
      BY <3>1, <3>2
  <2> QED
    BY <1>1, <1>8, <2>1 DEF Creating
<1>10. TrueAnswers'
  <2>1. ASSUME NEW d \in Users
        PROVE  /\ request'[d].primary = "ok" => request'[d].points \subseteq primary'
               /\ request'[d].copy = "ok" => request'[d].points \subseteq copy'
    BY <1>1, <1>3 DEF StoreInv, TrueAnswers
  <2>2. ASSUME NEW y \in Writers, bw'[y] # Nothing
        PROVE  IF bw'[y].batch = Nothing THEN bw'[y].primary = "none" /\ bw'[y].copy = "none"
               ELSE /\ bw'[y].primary = "ok" => bw'[y].batch \subseteq primary'
                    /\ bw'[y].copy = "ok" => bw'[y].batch \subseteq copy'
                    /\ ~bw'[y].failed
    BY <1>1, <1>2, <1>5, <2>2 DEF StoreInv, TrueAnswers
  <2> QED
    BY <2>1, <2>2 DEF TrueAnswers
<1>11. EnteredKept'
  <2>1. \A b, p : In(b, p, Both) => In(b, p, Both')
    BY <1>1 DEF In, Both
  <2>2. \A y \in Writers : bw'[y] = Nothing => bw[y] = Nothing
    BY <1>5
  <2>3. ASSUME NEW y \in Writers, bw[y] # Nothing
        PROVE  ~bw'[y].failed => ~bw[y].failed /\ \A p \in entered[y] : In(bw[y], p, Both) => In(bw'[y], p, Both')
    BY <1>5, <2>1, <2>3
  <2> QED
    BY <1>1, <2>2, <2>3, EnteredStays DEF StoreInv
<1>12. DurableInBoth'
  BY <1>1 DEF StoreInv, DurableInBoth
<1> QED
  BY <1>1, <1>7, <1>8, <1>9, <1>10, <1>11, <1>12 DEF StoreInv

\* A writer's step that leaves the calls and the release alone.
LEMMA WriterStep ==
  ASSUME StoresAssumption, StoreInv, NEW x \in Writers, bw[x] # Nothing,
         NEW r \in WriterType, bw' = [bw EXCEPT ![x] = r],
         primary \subseteq primary', copy \subseteq copy',
         UNCHANGED <<writers, request, rel, settled, entered>>,
         IF r.batch = Nothing THEN r.primary = "none" /\ r.copy = "none"
         ELSE /\ r.primary = "ok" => r.batch \subseteq primary'
              /\ r.copy = "ok" => r.batch \subseteq copy'
              /\ ~r.failed,
         ~r.failed => ~bw[x].failed,
         ~r.failed => \A p : In(bw[x], p, Both) => In(r, p, Both')
  PROVE  StoreInv'
<1>1. r # Nothing
  BY DEF StoresAssumption
<1>2. \A y \in Writers : bw'[y] = IF y = x THEN r ELSE bw[y]
  BY DEF StoreInv, StoreTypes
<1>3. StoreTypes'
  <2>1. bw' \in [Writers -> WriterType \cup {Nothing}]
    BY DEF StoreInv, StoreTypes
  <2> QED
    BY <2>1 DEF StoreInv, StoreTypes
<1>4. Creating'
  <2>1. \A y \in Writers : bw[y] # Nothing => bw'[y] # Nothing
    BY <1>1, <1>2
  <2>2. writers # Nothing => writers \in Writers
    BY DEF StoreInv, StoreTypes
  <2> QED
    BY <2>1, <2>2 DEF StoreInv, Creating
<1>5. TrueAnswers'
  <2>1. ASSUME NEW d \in Users
        PROVE  /\ request'[d].primary = "ok" => request'[d].points \subseteq primary'
               /\ request'[d].copy = "ok" => request'[d].points \subseteq copy'
    BY DEF StoreInv, TrueAnswers
  <2>2. ASSUME NEW y \in Writers, bw'[y] # Nothing
        PROVE  IF bw'[y].batch = Nothing THEN bw'[y].primary = "none" /\ bw'[y].copy = "none"
               ELSE /\ bw'[y].primary = "ok" => bw'[y].batch \subseteq primary'
                    /\ bw'[y].copy = "ok" => bw'[y].batch \subseteq copy'
                    /\ ~bw'[y].failed
    <3>1. CASE y = x
      BY <1>2, <3>1
    <3>2. CASE y # x
      BY <1>2, <2>2, <3>2 DEF StoreInv, TrueAnswers
    <3> QED
      BY <3>1, <3>2
  <2> QED
    BY <2>1, <2>2 DEF TrueAnswers
<1>6. EnteredKept'
  <2>1. \A b, p : In(b, p, Both) => In(b, p, Both')
    BY DEF In, Both
  <2>2. ASSUME NEW y \in Writers, bw[y] # Nothing
        PROVE  /\ bw'[y] # Nothing
               /\ ~bw'[y].failed => ~bw[y].failed
               /\ ~bw'[y].failed =>
                    \A p \in entered[y] : In(bw[y], p, Both) => In(bw'[y], p, Both')
    <3>1. CASE y = x
      BY <1>1, <1>2, <3>1
    <3>2. CASE y # x
      BY <1>2, <2>1, <2>2, <3>2
    <3> QED
      BY <3>1, <3>2
  <2>3. \A y \in Writers : bw'[y] = Nothing => bw[y] = Nothing
    BY <2>2
  <2> QED
    BY <2>2, <2>3, EnteredStays DEF StoreInv
<1>7. DurableInBoth'
  BY DEF StoreInv, DurableInBoth
<1> QED
  BY <1>3, <1>4, <1>5, <1>6, <1>7 DEF StoreInv

\* A batch is taken from the front of the queue.
LEMMA SendStep ==
  ASSUME StoresAssumption, StoreInv, NEW x \in Writers, SendBatch(x)
  PROVE  StoreInv'
<1>1. /\ bw[x] # Nothing /\ bw[x].batch = Nothing /\ ~bw[x].failed
      /\ UNCHANGED <<primary, copy, writers, request, rel, settled, entered>>
  BY DEF SendBatch
<1>2. PICK n \in 1..Len(bw[x].queue) :
        bw' = [bw EXCEPT ![x].batch = ToSet(SubSeq(bw[x].queue, 1, n)),
                         ![x].queue = SubSeq(@, n + 1, Len(@))]
  BY DEF SendBatch
<1> DEFINE q == bw[x].queue
           front == SubSeq(q, 1, n)
           taken == ToSet(front)
           left == SubSeq(q, n + 1, Len(q))
           r == [bw[x] EXCEPT !.batch = taken, !.queue = left]
<1>3. bw[x] \in WriterType /\ q \in Seq(Points)
  BY <1>1, WriterTyped DEF StoreInv
<1>4. /\ taken \in SUBSET Points /\ left \in Seq(Points)
      /\ \A k \in 1..Len(q) : q[k] \in taken \/ \E j \in 1..Len(left) : left[j] = q[k]
  <2>1. n \in 1..Len(q)
    OBVIOUS
  <2> HIDE DEF q
  <2>2. /\ front \in Seq(Points) /\ Len(front) = n
        /\ \A k \in 1..n : front[k] = q[k]
        /\ left \in Seq(Points) /\ Len(left) = Len(q) - n
        /\ \A k \in 1..(Len(q) - n) : left[k] = q[n + k]
    BY <1>3, <2>1, Parts, Zenon
  <2> HIDE DEF front, left
  <2>3. /\ taken \in SUBSET Points
        /\ \A k \in 1..Len(q) : q[k] \in taken \/ \E j \in 1..Len(left) : left[j] = q[k]
    <3>1. DOMAIN front = 1..n
      BY <2>2, LenProperties
    <3>2. taken = {front[k] : k \in 1..n}
      BY <3>1, Zenon DEF ToSet
    <3>3. taken \subseteq Points
      BY <2>1, <2>2, <3>2
    <3>4. ASSUME NEW k \in 1..Len(q)
          PROVE  q[k] \in taken \/ \E j \in 1..Len(left) : left[j] = q[k]
      <4>1. CASE k <= n
        BY <1>3, <2>1, <2>2, <3>2, <4>1
      <4>2. CASE k > n
        <5>1. k - n \in 1..(Len(q) - n) /\ n + (k - n) = k
          BY <1>3, <2>1, <4>2
        <5> QED
          BY <2>2, <5>1
      <4> QED
        BY <1>3, <2>1, <4>1, <4>2
    <3> QED
      BY <3>3, <3>4
  <2> QED
    BY <2>2, <2>3
<1>5. bw[x].primary = "none" /\ bw[x].copy = "none"
  BY <1>1 DEF StoreInv, TrueAnswers
<1>6. bw' = [bw EXCEPT ![x] = r]
  BY <1>2 DEF StoreInv, StoreTypes
<1> HIDE DEF taken, left
<1>7. r \in WriterType /\ r.batch = taken /\ r.queue = left /\ r.failed = bw[x].failed
      /\ r.primary = "none" /\ r.copy = "none"
  BY <1>3, <1>4, <1>5 DEF WriterType
<1>8. taken # Nothing
  BY <1>4 DEF StoresAssumption
<1>9. \A p : In(bw[x], p, Both) => In(r, p, Both')
  BY <1>1, <1>4, <1>7, <1>8 DEF In, Both
<1> HIDE DEF q, r
<1> QED
  BY <1>1, <1>6, <1>7, <1>9, WriterStep

\* The answer of a store to a batch.
LEMMA BatchAnswered ==
  ASSUME StoresAssumption, StoreInv, NEW x \in Writers, NEW how \in {"ok", "err"},
         NEW done \in SUBSET Points,
         BatchPrimary(x, how, done) \/ BatchCopy(x, how, done)
  PROVE  StoreInv'
<1>1. /\ bw[x] # Nothing /\ bw[x].batch # Nothing
      /\ primary \subseteq primary' /\ copy \subseteq copy'
      /\ UNCHANGED <<writers, request, rel, settled, entered>>
  BY DEF BatchPrimary, BatchCopy, Sending, InfluxWrite,
         CopyWrite
<1>2. bw[x] \in WriterType /\ bw[x].failed \in BOOLEAN
  BY <1>1, WriterTyped DEF StoreInv
<1>3. /\ ~bw[x].failed
      /\ bw[x].primary = "ok" => bw[x].batch \subseteq primary'
      /\ bw[x].copy = "ok" => bw[x].batch \subseteq copy'
  BY <1>1 DEF StoreInv, TrueAnswers
<1>4. PICK r \in WriterType :
        /\ bw' = [bw EXCEPT ![x] = r]
        /\ r.queue = bw[x].queue /\ r.batch = bw[x].batch /\ r.failed = bw[x].failed
        /\ r.primary = "ok" => r.batch \subseteq primary'
        /\ r.copy = "ok" => r.batch \subseteq copy'
  <2>1. CASE BatchPrimary(x, how, done)
    <3> DEFINE r == [bw[x] EXCEPT !.primary = how]
    <3>1. r \in WriterType
      BY <1>2 DEF WriterType, Outcomes
    <3>2. /\ r.queue = bw[x].queue /\ r.batch = bw[x].batch /\ r.failed = bw[x].failed
          /\ r.primary = how /\ r.copy = bw[x].copy
      BY <1>2 DEF WriterType
    <3>3. bw' = [bw EXCEPT ![x] = r]
      BY <2>1 DEF BatchPrimary
    <3>4. how = "ok" => bw[x].batch \subseteq primary'
      BY <2>1 DEF BatchPrimary, InfluxWrite
    <3> HIDE DEF r
    <3> QED
      BY <1>3, <3>1, <3>2, <3>3, <3>4
  <2>2. CASE BatchCopy(x, how, done)
    <3> DEFINE r == [bw[x] EXCEPT !.copy = how]
    <3>1. r \in WriterType
      BY <1>2 DEF WriterType, Outcomes
    <3>2. /\ r.queue = bw[x].queue /\ r.batch = bw[x].batch /\ r.failed = bw[x].failed
          /\ r.copy = how /\ r.primary = bw[x].primary
      BY <1>2 DEF WriterType
    <3>3. bw' = [bw EXCEPT ![x] = r]
      BY <2>2 DEF BatchCopy
    <3>4. how = "ok" => bw[x].batch \subseteq copy'
      BY <2>2 DEF BatchCopy, CopyWrite
    <3> HIDE DEF r
    <3> QED
      BY <1>3, <3>1, <3>2, <3>3, <3>4
  <2> QED
    BY <2>1, <2>2
<1>5. \A p : In(bw[x], p, Both) => In(r, p, Both')
  BY <1>1, <1>4 DEF In, Both
<1> QED
  BY <1>1, <1>3, <1>4, <1>5, WriterStep

\* A batch that settles is in both stores, or its writer has failed.
LEMMA SettleStep ==
  ASSUME StoresAssumption, StoreInv, NEW x \in Writers, BatchSettles(x)
  PROVE  StoreInv'
<1>1. /\ bw[x] # Nothing /\ bw[x].batch # Nothing
      /\ UNCHANGED <<primary, copy, writers, request, rel, settled, entered>>
  BY DEF BatchSettles, Sending
<1>2. bw[x] \in WriterType
  BY <1>1, WriterTyped DEF StoreInv
<1>3. /\ ~bw[x].failed
      /\ bw[x].primary = "ok" => bw[x].batch \subseteq primary
      /\ bw[x].copy = "ok" => bw[x].batch \subseteq copy
  BY <1>1 DEF StoreInv, TrueAnswers
<1> DEFINE bad == both(bw[x].primary, bw[x].copy) # "ok"
           r == [bw[x] EXCEPT !.batch = Nothing, !.primary = "none", !.copy = "none",
                              !.failed = bad]
<1>4. bw' = [bw EXCEPT ![x] = r]
  BY DEF BatchSettles
<1>5. bad \in BOOLEAN
  OBVIOUS
<1>6. ~bad => bw[x].batch \subseteq primary /\ bw[x].batch \subseteq copy
  BY <1>3 DEF both
<1> HIDE DEF bad
<1>7. /\ r \in WriterType /\ r.batch = Nothing /\ r.primary = "none" /\ r.copy = "none"
      /\ r.queue = bw[x].queue
  BY <1>2, <1>5 DEF WriterType, Outcomes
<1>8. r.failed = bad
  BY <1>2 DEF WriterType
<1> HIDE DEF r
<1>9. ~r.failed => \A p : In(bw[x], p, Both) => In(r, p, Both')
  BY <1>1, <1>6, <1>7, <1>8 DEF In, Both
<1> QED
  BY <1>1, <1>3, <1>4, <1>7, <1>9, WriterStep

\* A create is admitted to the queue of its writer, unless that one has failed.
LEMMA EnqueueStep ==
  ASSUME StoresAssumption, StoreInv, NEW c \in Users, Enqueue(c)
  PROVE  StoreInv'
<1> DEFINE x == request[c].writer
<1>1. /\ request[c].pc = "write" /\ request' = [request EXCEPT ![c] = IdleCall]
      /\ UNCHANGED <<primary, copy, writers, rel, settled>>
      /\ x \in Writers /\ bw[x] # Nothing
  BY DEF Enqueue, StoreInv, Creating
<1>2. settled' \subseteq primary /\ settled' \subseteq copy
  BY <1>1 DEF StoreInv, DurableInBoth
<1>3. IdleCall.pc = "idle" /\ IdleCall.primary = "none"
      /\ IdleCall.copy = "none"
  BY DEF IdleCall
<1>4. PICK p \in Points : request[c].points = {p}
  BY <1>1 DEF StoreInv, Creating
<1>5. bw[x] \in WriterType /\ bw[x].queue \in Seq(Points)
  BY <1>1, WriterTyped DEF StoreInv
<1>6. CASE bw[x].failed
  <2>1. UNCHANGED <<bw, entered>>
    BY <1>6 DEF Enqueue
  <2> QED
    BY <1>1, <1>2, <1>3, <2>1, IdleTyped, CallStep
<1>7. CASE ~bw[x].failed
  <2> DEFINE q == bw[x].queue
             one == SetToSeq({p})
             r == [bw[x] EXCEPT !.queue = q \o one]
  <2>1. bw' = [bw EXCEPT ![x] = r]
    BY <1>4, <1>7 DEF Enqueue
  <2>2. entered' = [entered EXCEPT ![x] = @ \cup {p}]
    BY <1>4, <1>7 DEF Enqueue
  <2>3. one \in Seq(Points) /\ Len(one) = 1 /\ one[1] = p
    BY OneInOrder
  <2> HIDE DEF one
  <2>4. /\ q \o one \in Seq(Points) /\ Len(q \o one) = Len(q) + 1
        /\ \A k \in 1..Len(q) : (q \o one)[k] = q[k]
        /\ (q \o one)[Len(q) + 1] = p /\ Len(q) \in Nat
    <3>1. q \in Seq(Points) /\ Len(q) \in Nat
      BY <1>5
    <3> HIDE DEF q
    <3>2. /\ q \o one \in Seq(Points) /\ Len(q \o one) = Len(q) + Len(one)
          /\ \A k \in 1..Len(q) + Len(one) :
               (q \o one)[k] = IF k <= Len(q) THEN q[k] ELSE one[k - Len(q)]
      BY <2>3, <3>1, ConcatProperties
    <3>3. Len(q) + 1 \in 1..Len(q) + Len(one) /\ ~(Len(q) + 1 <= Len(q))
          /\ Len(q) + 1 - Len(q) = 1
      BY <2>3, <3>1
    <3>4. \A k \in 1..Len(q) : k \in 1..Len(q) + Len(one) /\ k <= Len(q)
      BY <2>3, <3>1
    <3> QED
      BY <2>3, <3>1, <3>2, <3>3, <3>4
  <2>5. /\ r \in WriterType /\ r.queue = q \o one /\ r.batch = bw[x].batch
        /\ r.primary = bw[x].primary /\ r.copy = bw[x].copy /\ r.failed = bw[x].failed
    BY <1>5, <2>4 DEF WriterType
  <2> HIDE DEF r
  <2>6. r # Nothing
    BY <2>5 DEF StoresAssumption
  <2>7. \A y \in Writers : bw'[y] = IF y = x THEN r ELSE bw[y]
    BY <2>1 DEF StoreInv, StoreTypes
  <2>8. In(r, p, Both) /\ \A k : In(bw[x], k, Both) => In(r, k, Both)
    <3>1. Len(q) + 1 \in 1..Len(q \o one)
      BY <2>4
    <3>2. In(r, p, Both)
      BY <2>4, <2>5, <3>1 DEF In
    <3>3. ASSUME NEW k, NEW n \in 1..Len(q), q[n] = k
          PROVE  In(r, k, Both)
      <4>1. n \in 1..Len(q \o one) /\ (q \o one)[n] = k
        BY <2>4, <3>3
      <4> QED
        BY <2>5, <4>1 DEF In
    <3> QED
      BY <2>5, <3>2, <3>3 DEF In
  <2>9. Both' = Both
    BY <1>1 DEF Both
  <2>10. StoreTypes'
    <3>1. bw' \in [Writers -> WriterType \cup {Nothing}]
      BY <2>1, <2>5 DEF StoreInv, StoreTypes
    <3>2. request' \in [Users -> [pc : {"idle", "writer", "write", "mirror"},
                                op : {"create", "create_many"}, points : SUBSET Points,
                                writer : Writers \cup {Nothing},
                                primary : Outcomes, copy : Outcomes]]
      BY <1>1, IdleTyped DEF StoreInv, StoreTypes
    <3>3. entered' \in [Writers -> SUBSET Points]
      BY <2>2 DEF StoreInv, StoreTypes
    <3> QED
      BY <1>1, <3>1, <3>2, <3>3 DEF StoreInv, StoreTypes
  <2>11. \A d \in Users : request'[d] = IF d = c THEN IdleCall ELSE request[d]
    BY <1>1 DEF StoreInv, StoreTypes
  <2>12. Creating'
    <3>1. \A y \in Writers : bw[y] # Nothing => bw'[y] # Nothing
      BY <2>6, <2>7
    <3>2. writers # Nothing => writers \in Writers
      BY DEF StoreInv, StoreTypes
    <3> QED
      BY <1>1, <1>3, <2>11, <3>1, <3>2 DEF StoreInv, Creating
  <2>13. TrueAnswers'
    <3>1. ASSUME NEW d \in Users
          PROVE  /\ request'[d].primary = "ok" => request'[d].points \subseteq primary'
                 /\ request'[d].copy = "ok" => request'[d].points \subseteq copy'
      BY <1>1, <1>3, <2>11 DEF StoreInv, TrueAnswers
    <3>2. ASSUME NEW y \in Writers, bw'[y] # Nothing
          PROVE  IF bw'[y].batch = Nothing THEN bw'[y].primary = "none" /\ bw'[y].copy = "none"
                 ELSE /\ bw'[y].primary = "ok" => bw'[y].batch \subseteq primary'
                      /\ bw'[y].copy = "ok" => bw'[y].batch \subseteq copy'
                      /\ ~bw'[y].failed
      <4>1. bw[y] # Nothing
        BY <1>1, <2>7, <3>2
      <4>2. IF bw[y].batch = Nothing THEN bw[y].primary = "none" /\ bw[y].copy = "none"
            ELSE /\ bw[y].primary = "ok" => bw[y].batch \subseteq primary
                 /\ bw[y].copy = "ok" => bw[y].batch \subseteq copy
                 /\ ~bw[y].failed
        BY <4>1 DEF StoreInv, TrueAnswers
      <4>3. CASE y = x
        BY <1>1, <2>5, <2>7, <4>2, <4>3
      <4>4. CASE y # x
        BY <1>1, <2>7, <4>2, <4>4
      <4> QED
        BY <4>3, <4>4
    <3> QED
      BY <3>1, <3>2 DEF TrueAnswers
  <2>14. EnteredKept'
    <3>1. \A y \in Writers : entered'[y] = IF y = x THEN entered[y] \cup {p} ELSE entered[y]
      BY <2>2 DEF StoreInv, StoreTypes
    <3>2. ASSUME NEW y \in Writers
          PROVE  IF bw'[y] = Nothing THEN entered'[y] = {}
                 ELSE ~bw'[y].failed => \A k \in entered'[y] : In(bw'[y], k, Both')
      <4>1. IF bw[y] = Nothing THEN entered[y] = {}
            ELSE ~bw[y].failed => \A k \in entered[y] : In(bw[y], k, Both)
        BY DEF StoreInv, EnteredKept
      <4>2. CASE y = x
        <5>1. \A k \in entered[x] : In(bw[x], k, Both)
          BY <1>1, <1>7, <4>1, <4>2
        <5>2. \A k \in entered[x] \cup {p} : In(r, k, Both)
          BY <2>8, <5>1
        <5>3. bw'[y] = r /\ entered'[y] = entered[x] \cup {p}
          BY <2>7, <3>1, <4>2
        <5> QED
          BY <2>6, <2>9, <5>2, <5>3
      <4>3. CASE y # x
        <5>1. bw'[y] = bw[y] /\ entered'[y] = entered[y]
          BY <2>7, <3>1, <4>3
        <5> QED
          BY <2>9, <4>1, <5>1
      <4> QED
        BY <4>2, <4>3
    <3>3. ASSUME NEW d \in Users
          PROVE  /\ rel'[d].pc = "flush" => /\ rel'[d].writer \in Writers /\ bw'[rel'[d].writer] # Nothing
                                            /\ rel'[d].due \subseteq entered'[rel'[d].writer]
                 /\ rel'[d].pc = "close" /\ rel'[d].first = "none" =>
                      rel'[d].due \subseteq primary' /\ rel'[d].due \subseteq copy'
      BY <1>1, <2>6, <2>7, <3>1 DEF StoreInv, EnteredKept
    <3> QED
      BY <3>2, <3>3 DEF EnteredKept
  <2>15. DurableInBoth'
    BY <1>1 DEF StoreInv, DurableInBoth
  <2> QED
    BY <2>10, <2>12, <2>13, <2>14, <2>15 DEF StoreInv
<1> QED
  BY <1>6, <1>7

\* A release takes the writer of the map, flushes it, and answers or is dropped.
LEMMA ReleaseStep ==
  ASSUME StoresAssumption, StoreInv, NEW c \in Users, NEW how \in {"ok", "err"},
         ReleaseBegin(c) \/ Drain(c) \/ FlushReturns(c) \/ ReleaseReturns(c, how) \/ ReleaseDropped(c)
  PROVE  StoreInv'
<1> DEFINE R == [pc : {"idle", "drain", "flush", "close"}, writer : Writers \cup {Nothing},
                 due : SUBSET Points, first : {"none", "err"}]
<1>1. UNCHANGED <<primary, copy, bw, request, entered>>
  BY DEF ReleaseBegin, Drain, FlushReturns, ReleaseReturns, ReleaseDropped
<1>2. writers' \in {writers, Nothing}
  BY DEF ReleaseBegin, Drain, FlushReturns, ReleaseReturns, ReleaseDropped
<1>3. /\ rel \in [Users -> R] /\ entered \in [Writers -> SUBSET Points]
      /\ writers \in Writers \cup {Nothing}
  BY DEF StoreInv, StoreTypes
<1>4. rel[c] \in R
  BY <1>3
<1>5. /\ rel[c].pc = "flush" => /\ rel[c].writer \in Writers /\ bw[rel[c].writer] # Nothing
                                /\ rel[c].due \subseteq entered[rel[c].writer]
      /\ rel[c].pc = "close" /\ rel[c].first = "none" =>
           rel[c].due \subseteq primary /\ rel[c].due \subseteq copy
  BY DEF StoreInv, EnteredKept
<1>6. PICK k \in R :
        /\ rel' = [rel EXCEPT ![c] = k]
        /\ k.pc = "flush" => /\ k.writer \in Writers /\ bw[k.writer] # Nothing
                             /\ k.due \subseteq entered[k.writer]
        /\ k.pc = "close" /\ k.first = "none" => k.due \subseteq primary /\ k.due \subseteq copy
  <2>1. CASE ReleaseBegin(c)
    <3> DEFINE k == [rel[c] EXCEPT !.pc = "drain"]
    <3>1. k \in R /\ k.pc = "drain"
      BY <1>4
    <3>2. rel' = [rel EXCEPT ![c] = k]
      BY <2>1 DEF ReleaseBegin
    <3> HIDE DEF k, R
    <3> QED
      BY <3>1, <3>2
  <2>2. CASE Drain(c)
    <3>1. CASE writers = Nothing
      <4> DEFINE k == [IdleRelease EXCEPT !.pc = "close"]
      <4>1. k \in R /\ k.pc = "close" /\ k.due = {}
        BY DEF IdleRelease
      <4>2. rel' = [rel EXCEPT ![c] = k]
        BY <2>2, <3>1 DEF Drain
      <4> HIDE DEF k, R
      <4> QED
        BY <4>1, <4>2
    <3>2. CASE writers # Nothing
      <4> DEFINE k == [IdleRelease EXCEPT !.pc = "flush", !.writer = writers, !.due = entered[writers]]
      <4>1. writers \in Writers /\ bw[writers] # Nothing /\ entered[writers] \in SUBSET Points
        BY <1>3, <3>2 DEF StoreInv, Creating
      <4>2. k \in R /\ k.pc = "flush" /\ k.writer = writers /\ k.due = entered[writers]
        BY <4>1 DEF IdleRelease
      <4>3. rel' = [rel EXCEPT ![c] = k]
        BY <2>2, <3>2 DEF Drain
      <4> HIDE DEF k, R
      <4> QED
        BY <4>1, <4>2, <4>3
    <3> QED
      BY <3>1, <3>2
  <2>3. CASE FlushReturns(c)
    <3> DEFINE b == bw[rel[c].writer]
               k == [rel[c] EXCEPT !.pc = "close", !.first = IF b.failed THEN "err" ELSE "none"]
    <3>1. /\ k \in R /\ k.pc = "close" /\ k.due = rel[c].due
          /\ k.first = IF b.failed THEN "err" ELSE "none"
      BY <1>4
    <3>2. rel' = [rel EXCEPT ![c] = k] /\ Flushed(b, rel[c].due) /\ rel[c].pc = "flush"
      <4>1. rel' = [rel EXCEPT ![c].pc = "close", ![c].first = IF b.failed THEN "err" ELSE "none"]
        BY <2>3 DEF FlushReturns
      <4>2. rel' = [rel EXCEPT ![c] = k]
        BY <1>3, <4>1
      <4> QED
        BY <2>3, <4>2 DEF FlushReturns
    <3>3. ASSUME ~b.failed
          PROVE  rel[c].due \subseteq primary /\ rel[c].due \subseteq copy
      <4>1. rel[c].writer \in Writers /\ b # Nothing /\ rel[c].due \subseteq entered[rel[c].writer]
        BY <1>5, <3>2
      <4>2. \A p \in rel[c].due : In(b, p, Both)
        BY <3>3, <4>1 DEF StoreInv, EnteredKept
      <4>3. b.queue \in Seq(Points)
        BY <4>1, WriterTyped DEF StoreInv
      <4>4. ToSet(b.queue) = {b.queue[n] : n \in 1..Len(b.queue)}
        <5>1. DOMAIN b.queue = 1..Len(b.queue)
          BY <4>3, LenProperties
        <5> QED
          BY <5>1, Zenon DEF ToSet
      <4>5. rel[c].due \cap ToSet(b.queue) = {} /\ (b.batch # Nothing => rel[c].due \cap b.batch = {})
        BY <3>2, <3>3 DEF Flushed
      <4> HIDE DEF b
      <4>6. rel[c].due \subseteq Both
        BY <4>2, <4>4, <4>5 DEF In
      <4> QED
        BY <4>6 DEF Both
    <3> HIDE DEF k, R, b
    <3> QED
      BY <3>1, <3>2, <3>3
  <2>4. CASE (\E h \in {"ok", "err"} : ReleaseReturns(c, h)) \/ ReleaseDropped(c)
    <3>1. IdleRelease \in R /\ IdleRelease.pc = "idle"
      BY DEF IdleRelease
    <3>2. rel' = [rel EXCEPT ![c] = IdleRelease]
      BY <2>4 DEF ReleaseReturns, ReleaseDropped
    <3> HIDE DEF R
    <3> QED
      BY <3>1, <3>2
  <2> QED
    BY <2>1, <2>2, <2>3, <2>4
<1> HIDE DEF R
<1>7. \A d \in Users : rel'[d] = IF d = c THEN k ELSE rel[d]
  BY <1>3, <1>6
<1>8. StoreTypes'
  <2>1. rel' \in [Users -> R]
    BY <1>3, <1>6
  <2> QED
    BY <1>1, <1>2, <1>3, <2>1 DEF StoreInv, StoreTypes, R
<1>9. Creating'
  BY <1>1, <1>2 DEF StoreInv, Creating
<1>10. TrueAnswers'
  BY <1>1 DEF StoreInv, TrueAnswers
<1>11. EnteredKept'
  <2>1. Both' = Both
    BY <1>1 DEF Both
  <2>2. \A d \in Users :
         /\ rel'[d].pc = "flush" => /\ rel'[d].writer \in Writers /\ bw'[rel'[d].writer] # Nothing
                                    /\ rel'[d].due \subseteq entered'[rel'[d].writer]
         /\ rel'[d].pc = "close" /\ rel'[d].first = "none" =>
              rel'[d].due \subseteq primary' /\ rel'[d].due \subseteq copy'
    BY <1>1, <1>6, <1>7 DEF StoreInv, EnteredKept
  <2> QED
    BY <1>1, <2>1, <2>2 DEF StoreInv, EnteredKept
<1>12. DurableInBoth'
  <2>1. \/ settled' = settled
        \/ settled' = settled \cup rel[c].due /\ rel[c].pc = "close" /\ rel[c].first = "none"
    BY DEF ReleaseBegin, Drain, FlushReturns, ReleaseReturns, ReleaseDropped
  <2> QED
    BY <1>1, <1>5, <2>1 DEF StoreInv, DurableInBoth
<1> QED
  BY <1>8, <1>9, <1>10, <1>11, <1>12 DEF StoreInv

LEMMA StoreStart ==
  ASSUME StoresAssumption, SInit
  PROVE  StoreInv
<1>1. StoreTypes
  <2>1. request \in [Users -> [pc : {"idle", "writer", "write", "mirror"},
                              op : {"create", "create_many"}, points : SUBSET Points,
                              writer : Writers \cup {Nothing},
                              primary : Outcomes, copy : Outcomes]]
    BY IdleTyped DEF SInit
  <2>2. IdleRelease \in [pc : {"idle", "drain", "flush", "close"}, writer : Writers \cup {Nothing},
                         due : SUBSET Points, first : {"none", "err"}]
    BY DEF IdleRelease
  <2> QED
    BY <2>1, <2>2 DEF SInit, StoreTypes
<1>2. \A c \in Users : request[c].pc = "idle" /\ request[c].primary = "none"
                         /\ request[c].copy = "none"
  BY DEF SInit, IdleCall
<1>3. writers = Nothing /\ \A y \in Writers : bw[y] = Nothing
  BY DEF SInit
<1>4. (\A y \in Writers : entered[y] = {}) /\ \A c \in Users : rel[c].pc = "idle"
  BY DEF SInit, IdleRelease
<1>5. Creating /\ TrueAnswers
  BY <1>2, <1>3 DEF Creating, TrueAnswers
<1>6. EnteredKept
  BY <1>3, <1>4 DEF EnteredKept
<1> QED
  BY <1>1, <1>5, <1>6 DEF StoreInv, DurableInBoth, SInit

LEMMA StoreKeeps == ASSUME StoresAssumption, StoreInv, [SNext]_svars PROVE StoreInv'
<1>1. ASSUME NEW c \in Users, NEW p \in Points, Create(c, p) PROVE StoreInv'
  BY <1>1, CreateStep
<1>2. ASSUME NEW c \in Users, NEW x \in Writers, GetWriter(c, x) PROVE StoreInv'
  BY <1>2, GetWriterStep
<1>3. ASSUME NEW c \in Users, NEW ps \in Many, CreateMany(c, ps) PROVE StoreInv'
  BY <1>3, CreateManyStep
<1>4. ASSUME NEW c \in Users, NEW how \in {"ok", "err"}, NEW done \in SUBSET Points,
             CallPrimary(c, how, done) \/ CallCopy(c, how, done)
      PROVE  StoreInv'
  BY <1>4, CallAnswered
<1>5. ASSUME NEW c \in Users, Enqueue(c) \/ CallReturns(c) PROVE StoreInv'
  BY <1>5, EnqueueStep, ReturnStep
<1>6. ASSUME NEW x \in Writers, SendBatch(x) \/ BatchSettles(x)
      PROVE  StoreInv'
  BY <1>6, SendStep, SettleStep
<1>7. ASSUME NEW x \in Writers, NEW how \in {"ok", "err"}, NEW done \in SUBSET Points,
             BatchPrimary(x, how, done) \/ BatchCopy(x, how, done)
      PROVE  StoreInv'
  BY <1>7, BatchAnswered
<1>8. ASSUME NEW c \in Users, NEW how \in {"ok", "err"},
             ReleaseBegin(c) \/ Drain(c) \/ FlushReturns(c) \/ ReleaseReturns(c, how) \/ ReleaseDropped(c)
      PROVE  StoreInv'
  BY <1>8, ReleaseStep
<1>9. ASSUME \/ \E op \in {"all", "stream"}, d \in BOOLEAN : Read(op, d)
             \/ Page \/ StreamNext \/ StreamTimeout
             \/ UNCHANGED svars
      PROVE  StoreInv'
  <2>1. UNCHANGED <<primary, copy, closed, writers, bw, request, rel, settled, entered>>
    BY <1>9 DEF Read, Page, StreamNext, StreamTimeout, svars
  <2> QED
    BY <2>1, ReaderStep
<1> QED
  BY <1>1, <1>2, <1>3, <1>4, <1>5, <1>6, <1>7, <1>8, <1>9 DEF SNext

\* What a caller was told is stored is in both stores: a create_many that returned Ok, and of
\* a close that returned Ok every create its writer had admitted, whoever else closes, again
\* or meanwhile (buffered.rs release, mirror.rs both), for any number of callers, points,
\* writers and faults.
THEOREM DurableHolds ==
  ASSUME StoresAssumption
  PROVE  SSpec => []DurableInBoth
<1>1. SInit => StoreInv
  BY StoreStart
<1>2. StoreInv /\ [SNext]_svars => StoreInv'
  BY StoreKeeps
<1>3. StoreInv => DurableInBoth
  BY DEF StoreInv
<1> QED
  BY <1>1, <1>2, <1>3, PTL DEF SSpec

-----------------------------------------------------------------------------
(* A finite set in order *)

\* The elements of S that stand before k.
Rank(S, R, k) == Cardinality({j \in S : <<j, k>> \in R})
TotalOrder(S, R) ==
  /\ \A a \in S : ~(<<a, a>> \in R)
  /\ \A a, b \in S : a # b => <<a, b>> \in R \/ <<b, a>> \in R
  /\ \A a, b, c \in S : <<a, b>> \in R /\ <<b, c>> \in R => <<a, c>> \in R

\* Each place of a finite set in order has one element.
LEMMA RankOnto ==
  ASSUME NEW S, IsFiniteSet(S), NEW R, TotalOrder(S, R)
  PROVE  /\ Cardinality(S) \in Nat
         /\ \A k \in S : Rank(S, R, k) \in 0..(Cardinality(S) - 1)
         /\ \A a, b \in S : <<a, b>> \in R => Rank(S, R, a) < Rank(S, R, b)
         /\ \A a, b \in S : Rank(S, R, a) = Rank(S, R, b) => a = b
         /\ \A i \in 1..Cardinality(S) : \E k \in S : Rank(S, R, k) = i - 1
<1> USE DEF TotalOrder
<1> DEFINE n == Cardinality(S)
           Below(k) == {j \in S : <<j, k>> \in R}
           rank == [k \in S |-> Cardinality(Below(k))]
<1>1. n \in Nat
  BY FS_CardinalityType
<1>2. ASSUME NEW k \in S PROVE IsFiniteSet(Below(k)) /\ Cardinality(Below(k)) \in 0..(n - 1)
  <2>1. Below(k) \in SUBSET S /\ k \notin Below(k)
    OBVIOUS
  <2> HIDE DEF Below
  <2>2. Below(k) # S
    BY <2>1
  <2>3. IsFiniteSet(Below(k)) /\ Cardinality(Below(k)) <= n /\ Cardinality(Below(k)) # n
    BY <2>1, <2>2, FS_Subset
  <2>4. Cardinality(Below(k)) \in Nat
    BY <2>3, FS_CardinalityType
  <2> HIDE DEF n
  <2> QED
    BY <1>1, <2>3, <2>4
<1>3. ASSUME NEW a \in S, NEW b \in S, <<a, b>> \in R PROVE rank[a] < rank[b]
  <2>1. Below(a) \in SUBSET Below(b) /\ a \in Below(b) /\ a \notin Below(a)
    BY <1>3
  <2>2. \A k \in S : IsFiniteSet(Below(k)) /\ Cardinality(Below(k)) \in 0..(n - 1)
    BY <1>2
  <2> HIDE DEF Below, n
  <2>3. Cardinality(Below(a)) <= Cardinality(Below(b)) /\ Cardinality(Below(a)) # Cardinality(Below(b))
    BY <2>1, <2>2, FS_Subset
  <2> QED
    BY <1>1, <2>2, <2>3
<1>4. rank \in [S -> 0..(n - 1)]
  BY <1>2
<1>5. \A a, b \in S : rank[a] = rank[b] => a = b
  <2> SUFFICES ASSUME NEW a \in S, NEW b \in S, rank[a] = rank[b], a # b PROVE FALSE
    OBVIOUS
  <2>1. rank[a] \in Int /\ rank[b] \in Int
    BY <1>1, <1>4
  <2>2. rank[a] < rank[b] \/ rank[b] < rank[a]
    BY <1>3
  <2> QED
    BY <2>1, <2>2
<1> HIDE DEF rank, n
<1>6. IsFiniteSet(0..(n - 1)) /\ Cardinality(0..(n - 1)) = n
  <2>1. 0 \in Int /\ n - 1 \in Int /\ n >= 0 /\ (n - 1) - 0 + 1 = n /\ (0 > n - 1 => n = 0)
    BY <1>1
  <2> QED
    BY <2>1, FS_Interval
<1>7. rank \in Injection(S, 0..(n - 1))
  BY <1>4, <1>5 DEF Injection, IsInjective
<1>8. rank \in Surjection(S, 0..(n - 1))
  BY <1>6, <1>7, FS_Injection DEF n
<1>9. \A i \in 0..(n - 1) : \E k \in S : rank[k] = i
  BY <1>8 DEF Surjection
<1>10. ASSUME NEW i \in 1..n PROVE \E k \in S : rank[k] = i - 1
  <2>1. i - 1 \in 0..(n - 1)
    BY <1>1
  <2> QED
    BY <1>9, <2>1
<1>11. \A a, b \in S : <<a, b>> \in R => rank[a] < rank[b]
  BY <1>3
<1>12. \A k \in S : rank[k] = Rank(S, R, k)
  BY DEF rank, Rank
<1>13. (\A k \in S : Rank(S, R, k) \in 0..(n - 1)) /\ \A i \in 1..n : \E k \in S : Rank(S, R, k) = i - 1
  BY <1>4, <1>10, <1>12
<1>14. (\A a, b \in S : <<a, b>> \in R => Rank(S, R, a) < Rank(S, R, b))
       /\ \A a, b \in S : Rank(S, R, a) = Rank(S, R, b) => a = b
  BY <1>5, <1>11, <1>12
<1> QED
  BY <1>1, <1>13, <1>14 DEF n

IsRanking(f, S, R) ==
  f \in [1..Cardinality(S) -> S] /\ \A i \in 1..Cardinality(S) : Rank(S, R, f[i]) = i - 1

\* A finite set as the sequence of its elements, each behind those before it.
LEMMA Ranked ==
  ASSUME NEW S, IsFiniteSet(S), NEW R, TotalOrder(S, R), NEW f, IsRanking(f, S, R)
  PROVE  /\ Cardinality(S) \in Nat /\ f \in Seq(S) /\ Len(f) = Cardinality(S)
         /\ \A i, j \in 1..Cardinality(S) : i < j => <<f[i], f[j]>> \in R
         /\ \A k \in S : \E i \in 1..Cardinality(S) : f[i] = k
<1> DEFINE n == Cardinality(S)
           r(k) == Rank(S, R, k)
<1>1. /\ n \in Nat /\ \A k \in S : r(k) \in 0..(n - 1)
      /\ \A a, b \in S : <<a, b>> \in R => r(a) < r(b)
      /\ \A a, b \in S : r(a) = r(b) => a = b
  BY RankOnto
<1>2. f \in [1..n -> S] /\ \A i \in 1..n : r(f[i]) = i - 1
  BY DEF IsRanking
<1> HIDE DEF r, n
<1>3. \A a, b \in S : a # b => <<a, b>> \in R \/ <<b, a>> \in R
  BY DEF TotalOrder
<1>4. f \in Seq(S) /\ Len(f) = n
  BY <1>1, <1>2
<1>5. ASSUME NEW i \in 1..n, NEW j \in 1..n, i < j PROVE <<f[i], f[j]>> \in R
  <2>1. f[i] \in S /\ f[j] \in S /\ r(f[i]) = i - 1 /\ r(f[j]) = j - 1
    BY <1>2
  <2>2. f[i] # f[j]
    BY <1>1, <1>5, <2>1
  <2>3. ~(r(f[j]) < r(f[i]))
    BY <1>1, <1>5, <2>1
  <2> QED
    BY <1>1, <1>3, <2>1, <2>2, <2>3
<1>6. ASSUME NEW k \in S PROVE \E i \in 1..n : f[i] = k
  <2>1. r(k) \in 0..(n - 1)
    BY <1>1
  <2>2. r(k) + 1 \in 1..n /\ (r(k) + 1) - 1 = r(k)
    BY <1>1, <2>1
  <2>3. r(f[r(k) + 1]) = r(k) /\ f[r(k) + 1] \in S
    BY <1>2, <2>2
  <2> QED
    BY <1>1, <2>2, <2>3
<1> QED
  BY <1>1, <1>4, <1>5, <1>6 DEF n

-----------------------------------------------------------------------------
(* Pages: what a reader has taken, in the order of its query *)

Before(d) == {pair \in Points \X Points : OrderBy(pair[1], pair[2], d)}

Reader == [pc : {"idle", "all", "stream", "done", "failed"}, op : {"all", "stream"}, descending : BOOLEAN,
           cursor : Points \cup {Nothing}, seen : SUBSET Points, out : Seq(Points), before : SUBSET Points,
           pending : Seq(Points), remaining : Int, reported : Int]

Ascends(s, d) == \A i, j \in 1..Len(s) : i < j => <<s[i], s[j]>> \in Before(d)
\* What is after the last page is after the cursor.
Beyond(k, cursor, d) == cursor = Nothing \/ <<cursor, k>> \in Before(d)
\* A reader of all pages has what stood before its cursor; a stream has what it took, and
\* what it will take comes after it.
Paged ==
  /\ rdr \in Reader
  /\ rdr.before \subseteq primary
  /\ Ascends(rdr.out, rdr.descending)
  /\ rdr.pc = "all" => rdr.op = "all"
  /\ rdr.pc = "stream" => rdr.op = "stream"
  /\ rdr.pc = "failed" => rdr.op = "stream"
  /\ rdr.op = "stream" =>
       /\ rdr.reported = Len(rdr.out)
       /\ Ascends(rdr.pending, rdr.descending)
       /\ \A i \in 1..Len(rdr.out), j \in 1..Len(rdr.pending) :
            <<rdr.out[i], rdr.pending[j]>> \in Before(rdr.descending)
  /\ rdr.pc = "all" =>
       /\ rdr.cursor = Nothing => rdr.out = <<>> /\ rdr.seen = {}
       /\ rdr.cursor # Nothing => Len(rdr.out) > 0 /\ rdr.out[Len(rdr.out)] = rdr.cursor
       /\ \A t \in rdr.seen : t = rdr.cursor \/ <<t, rdr.cursor>> \in Before(rdr.descending)
       /\ \A k \in rdr.before :
            (\E i \in 1..Len(rdr.out) : rdr.out[i] = k) \/ Beyond(k, rdr.cursor, rdr.descending)
  /\ rdr.pc = "done" /\ rdr.op = "all" =>
       \A k \in rdr.before : \E i \in 1..Len(rdr.out) : rdr.out[i] = k

PageInv == primary \subseteq Points /\ Paged

LEMMA BeforeIsTotal ==
  ASSUME StoresAssumption, NEW S \in SUBSET Points, NEW d \in BOOLEAN
  PROVE  TotalOrder(S, Before(d)) /\ IsFiniteSet(S)
<1>1. Points \subseteq Int \X Int /\ IsFiniteSet(Points)
  BY DEF StoresAssumption
<1>2. \A p \in Points : p = <<p[1], p[2]>> /\ p[1] \in Int /\ p[2] \in Int
  BY <1>1
<1>3. \A a, b \in Points : <<a, b>> \in Before(d) <=> OrderBy(a, b, d)
  BY DEF Before
<1>4. \A a \in S : ~OrderBy(a, a, d)
  BY <1>2 DEF OrderBy
<1>5. ASSUME NEW a \in S, NEW b \in S, a # b PROVE OrderBy(a, b, d) \/ OrderBy(b, a, d)
  <2>1. a[1] # b[1] \/ a[2] # b[2]
    BY <1>2, <1>5
  <2> QED
    BY <1>2, <2>1 DEF OrderBy
<1>6. ASSUME NEW a \in S, NEW b \in S, NEW c \in S, OrderBy(a, b, d), OrderBy(b, c, d)
      PROVE  OrderBy(a, c, d)
  BY <1>2, <1>6 DEF OrderBy
<1>7. TotalOrder(S, Before(d))
  BY <1>3, <1>4, <1>5, <1>6 DEF TotalOrder
<1> QED
  BY <1>1, <1>7, FS_Subset

\* A query answers with its rows in order.
LEMMA RowsInOrder ==
  ASSUME StoresAssumption, NEW S \in SUBSET Points, NEW d \in BOOLEAN
  PROVE  /\ InOrder(S, d) \in Seq(S) /\ Len(InOrder(S, d)) = Cardinality(S)
         /\ Cardinality(S) \in Nat /\ Ascends(InOrder(S, d), d)
         /\ \A k \in S : \E i \in 1..Cardinality(S) : InOrder(S, d)[i] = k
<1> DEFINE R == Before(d)
           n == Cardinality(S)
           P(k) == Cardinality({j \in S : OrderBy(j, k, d)})
           e(i) == CHOOSE k \in S : P(k) = i - 1
           f == [i \in 1..n |-> e(i)]
<1>1. TotalOrder(S, R) /\ IsFiniteSet(S)
  BY BeforeIsTotal
<1>2. \A k \in S : P(k) = Rank(S, R, k)
  <2> SUFFICES ASSUME NEW k \in S PROVE {j \in S : OrderBy(j, k, d)} = {j \in S : <<j, k>> \in R}
    BY DEF Rank
  <2> QED
    BY DEF Before
<1>3. InOrder(S, d) = f
  BY DEF InOrder
<1> HIDE DEF R, P
<1>n. n = Cardinality(S)
  OBVIOUS
<1> HIDE DEF n
<1>4. \A i \in 1..n : \E k \in S : P(k) = i - 1
  BY <1>1, <1>2, <1>n, RankOnto
<1>5. \A i \in 1..n : e(i) \in S /\ P(e(i)) = i - 1
  BY <1>4
<1> HIDE DEF e
<1>6. f \in [1..n -> S] /\ \A i \in 1..n : Rank(S, R, f[i]) = i - 1
  BY <1>2, <1>5
<1> HIDE DEF f
<1>7. /\ n \in Nat /\ f \in Seq(S) /\ Len(f) = n
      /\ \A i, j \in 1..n : i < j => <<f[i], f[j]>> \in R
      /\ \A k \in S : \E i \in 1..n : f[i] = k
  <2>1. IsRanking(f, S, R)
    BY <1>6, <1>n DEF IsRanking
  <2>2. /\ Cardinality(S) \in Nat /\ f \in Seq(S) /\ Len(f) = Cardinality(S)
        /\ \A i, j \in 1..Cardinality(S) : i < j => <<f[i], f[j]>> \in R
        /\ \A k \in S : \E i \in 1..Cardinality(S) : f[i] = k
    BY <1>1, <2>1, Ranked, Zenon
  <2> QED
    BY <1>n, <2>2
<1> QED
  BY <1>3, <1>7, <1>n DEF R, Ascends

\* What a query answers: rows beyond the cursor in order, and every row beyond it that is not
\* among them comes after them.
Answers(q, d, cursor, n) ==
  /\ q \in Seq(Points) /\ Len(q) \in Nat /\ Len(q) <= n /\ Ascends(q, d)
  /\ \A i \in 1..Len(q) : Beyond(q[i], cursor, d)
  /\ \A k \in primary : Beyond(k, cursor, d) =>
       \/ \E i \in 1..Len(q) : q[i] = k
       \/ Len(q) = n /\ \A i \in 1..Len(q) : <<q[i], k>> \in Before(d)

LEMMA Queried ==
  ASSUME StoresAssumption, primary \subseteq Points, NEW d \in BOOLEAN,
         NEW cursor \in Points \cup {Nothing}, NEW n \in Nat
  PROVE  Answers(RangeQuery(d, cursor, n), d, cursor, n)
<1> DEFINE H == {k \in primary : cursor = Nothing \/ (cursor # Nothing => After(k, cursor, d))}
           rows == InOrder(H, d)
           m == IF Len(rows) < n THEN Len(rows) ELSE n
           q == RangeQuery(d, cursor, n)
<1>1. q = SubSeq(rows, 1, m)
  BY DEF RangeQuery
<1> HIDE DEF q
<1>2. \A k \in primary : k \in H <=> Beyond(k, cursor, d)
  <2> SUFFICES ASSUME NEW k \in primary, cursor # Nothing
               PROVE  After(k, cursor, d) <=> <<cursor, k>> \in Before(d)
    BY DEF Beyond
  <2>1. cursor \in Points /\ k \in Points
    OBVIOUS
  <2>2. \A p \in Points : p[1] \in Int /\ p[2] \in Int
    BY DEF StoresAssumption
  <2>3. After(k, cursor, d) <=> OrderBy(cursor, k, d)
    BY <2>1, <2>2 DEF After, OrderBy
  <2> QED
    BY <2>1, <2>3 DEF Before
<1>3. H \in SUBSET Points
  OBVIOUS
<1> HIDE DEF H
<1>4. /\ rows \in Seq(H) /\ Len(rows) = Cardinality(H) /\ Cardinality(H) \in Nat /\ Ascends(rows, d)
      /\ \A k \in H : \E i \in 1..Cardinality(H) : rows[i] = k
  BY <1>3, RowsInOrder
<1> HIDE DEF rows
<1>5. /\ m \in Nat /\ m <= Len(rows) /\ m <= n /\ (m = Len(rows) \/ m = n)
      /\ Len(rows) \in Nat
  BY <1>4
<1> HIDE DEF m
<1>6. q \in Seq(H) /\ Len(q) = m /\ \A i \in 1..m : q[i] = rows[i]
  BY <1>1, <1>4, <1>5, SubSeqProperties
<1>7. \A i \in 1..m : q[i] \in H
  BY <1>6, ElementOfSeq
<1>8. q \in Seq(Points)
  BY <1>3, <1>6
<1>9. Ascends(q, d)
  BY <1>4, <1>5, <1>6 DEF Ascends
<1>10. \A i \in 1..m : Beyond(q[i], cursor, d)
  <2>1. H \subseteq primary
    BY DEF H
  <2> QED
    BY <1>2, <1>7, <2>1
<1>11. ASSUME NEW k \in primary, Beyond(k, cursor, d)
       PROVE  \/ \E i \in 1..m : q[i] = k
              \/ m = n /\ \A i \in 1..m : <<q[i], k>> \in Before(d)
  <2>1. PICK j \in 1..Len(rows) : rows[j] = k
    BY <1>2, <1>4, <1>11
  <2>2. CASE j <= m
    <3>1. j \in 1..m /\ q[j] = k
      BY <1>5, <1>6, <2>1, <2>2
    <3> QED
      BY <3>1
  <2>3. CASE ~(j <= m)
    <3>1. m = n
      BY <1>5, <2>1, <2>3
    <3>2. ASSUME NEW i \in 1..m PROVE <<q[i], k>> \in Before(d)
      <4>1. i \in 1..Len(rows) /\ i < j /\ q[i] = rows[i]
        BY <1>5, <1>6, <2>1, <2>3
      <4> QED
        BY <1>4, <2>1, <4>1 DEF Ascends
    <3> QED
      BY <3>1, <3>2
  <2> QED
    BY <2>2, <2>3
<1> QED
  BY <1>5, <1>6, <1>8, <1>9, <1>10, <1>11 DEF q, Answers

LEMMA AfterLast ==
  ASSUME StoresAssumption, NEW d \in BOOLEAN, NEW a \in Points, NEW b \in Points, NEW c \in Points,
         <<a, b>> \in Before(d), <<b, c>> \in Before(d)
  PROVE  <<a, c>> \in Before(d)
<1>1. TotalOrder(Points, Before(d))
  BY BeforeIsTotal
<1> QED
  BY <1>1 DEF TotalOrder

\* One sequence in order after another.
LEMMA Joined ==
  ASSUME NEW d, NEW s \in Seq(Points), NEW t \in Seq(Points), Ascends(s, d), Ascends(t, d),
         \A i \in 1..Len(s), j \in 1..Len(t) : <<s[i], t[j]>> \in Before(d)
  PROVE  /\ Ascends(s \o t, d) /\ s \o t \in Seq(Points) /\ Len(s \o t) = Len(s) + Len(t)
         /\ \A i \in 1..Len(s) : (s \o t)[i] = s[i]
         /\ \A j \in 1..Len(t) : (s \o t)[Len(s) + j] = t[j]
<1> DEFINE u == s \o t
<1>1. Len(s) \in Nat /\ Len(t) \in Nat
  BY LenProperties
<1>2. /\ u \in Seq(Points) /\ Len(u) = Len(s) + Len(t)
      /\ \A i \in 1..(Len(s) + Len(t)) : u[i] = IF i <= Len(s) THEN s[i] ELSE t[i - Len(s)]
  BY ConcatProperties
<1> HIDE DEF u
<1>3. \A i \in 1..Len(s) : u[i] = s[i]
  BY <1>1, <1>2
<1>4. ASSUME NEW j \in 1..Len(t) PROVE u[Len(s) + j] = t[j]
  <2>1. Len(s) + j \in 1..(Len(s) + Len(t)) /\ ~(Len(s) + j <= Len(s)) /\ (Len(s) + j) - Len(s) = j
    BY <1>1
  <2> QED
    BY <1>2, <2>1
<1>5. ASSUME NEW i \in 1..Len(u), NEW j \in 1..Len(u), i < j PROVE <<u[i], u[j]>> \in Before(d)
  <2>1. CASE j <= Len(s)
    <3>1. i \in 1..Len(s) /\ j \in 1..Len(s)
      BY <1>1, <1>2, <1>5, <2>1
    <3> QED
      BY <1>3, <1>5, <3>1 DEF Ascends
  <2>2. CASE ~(j <= Len(s)) /\ i <= Len(s)
    <3>1. i \in 1..Len(s) /\ j - Len(s) \in 1..Len(t) /\ Len(s) + (j - Len(s)) = j
      BY <1>1, <1>2, <2>2
    <3>2. u[i] = s[i] /\ u[j] = t[j - Len(s)]
      BY <1>3, <1>4, <3>1
    <3> QED
      BY <3>1, <3>2
  <2>3. CASE ~(i <= Len(s))
    <3>1. /\ i - Len(s) \in 1..Len(t) /\ Len(s) + (i - Len(s)) = i
          /\ j - Len(s) \in 1..Len(t) /\ Len(s) + (j - Len(s)) = j /\ i - Len(s) < j - Len(s)
      BY <1>1, <1>2, <1>5, <2>3
    <3>2. u[i] = t[i - Len(s)] /\ u[j] = t[j - Len(s)]
      BY <1>4, <3>1
    <3> QED
      BY <3>1, <3>2 DEF Ascends
  <2> QED
    BY <2>1, <2>2, <2>3
<1> QED
  BY <1>2, <1>3, <1>4, <1>5 DEF u, Ascends

\* The rows of a page: the first of a query that asks for one more.
LEMMA PageRows ==
  ASSUME StoresAssumption, primary \subseteq Points, NEW d \in BOOLEAN,
         NEW cursor \in Points \cup {Nothing}, NEW rows, rows = RangeQuery(d, cursor, StoreLimit + 1),
         NEW more \in BOOLEAN, more <=> Len(rows) > StoreLimit,
         NEW page, page = IF more THEN Front(rows) ELSE rows
  PROVE  /\ page \in Seq(Points) /\ Len(page) \in Nat /\ Ascends(page, d)
         /\ \A i \in 1..Len(page) : Beyond(page[i], cursor, d)
         /\ more => Len(page) > 0
         /\ \A k \in primary : Beyond(k, cursor, d) =>
              \/ \E i \in 1..Len(page) : page[i] = k
              \/ more /\ <<page[Len(page)], k>> \in Before(d)
<1>1. StoreLimit \in Nat /\ StoreLimit > 0 /\ StoreLimit + 1 \in Nat
  BY DEF StoresAssumption
<1>2. /\ rows \in Seq(Points) /\ Len(rows) \in Nat /\ Len(rows) <= StoreLimit + 1 /\ Ascends(rows, d)
      /\ \A i \in 1..Len(rows) : Beyond(rows[i], cursor, d)
      /\ \A k \in primary : Beyond(k, cursor, d) =>
           \/ \E i \in 1..Len(rows) : rows[i] = k
           \/ Len(rows) = StoreLimit + 1 /\ \A i \in 1..Len(rows) : <<rows[i], k>> \in Before(d)
  <2>1. Answers(RangeQuery(d, cursor, StoreLimit + 1), d, cursor, StoreLimit + 1)
    BY <1>1, Queried, Zenon
  <2> QED
    BY <2>1 DEF Answers
<1>3. CASE ~more
  <2>1. page = rows /\ Len(rows) # StoreLimit + 1
    BY <1>1, <1>2, <1>3
  <2> QED
    BY <1>2, <1>3, <2>1
<1>4. CASE more
  <2>1. page = SubSeq(rows, 1, Len(rows) - 1) /\ Len(rows) = StoreLimit + 1
    BY <1>1, <1>2, <1>4 DEF Front
  <2>2. page \in Seq(Points) /\ Len(page) = StoreLimit /\ \A i \in 1..StoreLimit : page[i] = rows[i]
    BY <1>1, <1>2, <2>1, SubSeqProperties
  <2>3. Ascends(page, d) /\ \A i \in 1..StoreLimit : Beyond(page[i], cursor, d)
    BY <1>1, <1>2, <2>1, <2>2 DEF Ascends
  <2>4. ASSUME NEW k \in primary, Beyond(k, cursor, d)
        PROVE  (\E i \in 1..StoreLimit : page[i] = k) \/ <<page[StoreLimit], k>> \in Before(d)
    <3>1. CASE \E i \in 1..Len(rows) : rows[i] = k
      <4>1. PICK i \in 1..Len(rows) : rows[i] = k
        BY <3>1
      <4>2. CASE i <= StoreLimit
        BY <1>1, <2>2, <4>1, <4>2
      <4>3. CASE ~(i <= StoreLimit)
        <5>1. i = Len(rows) /\ StoreLimit \in 1..Len(rows) /\ StoreLimit < i /\ page[StoreLimit] = rows[StoreLimit]
          BY <1>1, <1>2, <2>1, <2>2, <4>1, <4>3
        <5> QED
          BY <1>2, <4>1, <5>1 DEF Ascends
      <4> QED
        BY <4>2, <4>3
    <3>2. CASE \A i \in 1..Len(rows) : <<rows[i], k>> \in Before(d)
      <4>1. StoreLimit \in 1..Len(rows) /\ page[StoreLimit] = rows[StoreLimit]
        BY <1>1, <2>1, <2>2
      <4> QED
        BY <3>2, <4>1
    <3> QED
      BY <1>2, <2>4, <3>1, <3>2
  <2> QED
    BY <1>1, <1>4, <2>2, <2>3, <2>4
<1> QED
  BY <1>3, <1>4

LEMMA PageKeeps == ASSUME StoresAssumption, PageInv, Page PROVE PageInv'
<1> DEFINE d == rdr.descending
           rows == RangeQuery(d, rdr.cursor, StoreLimit + 1)
           more == Len(rows) > StoreLimit
           page == IF more THEN Front(rows) ELSE rows
           last == page[Len(page)]
           next == rdr.out \o page
<1>1. /\ rdr.pc = "all" /\ primary' = primary
      /\ rdr' = [rdr EXCEPT !.out = rdr.out \o page,
                   !.pc = IF more THEN AllStep(last) ELSE "done",
                   !.cursor = IF more THEN last ELSE Nothing,
                   !.seen = IF more THEN rdr.seen \cup {last} ELSE rdr.seen]
  BY DEF Page, Last
<1>2. /\ rdr \in Reader /\ primary \subseteq Points /\ d \in BOOLEAN /\ rdr.cursor \in Points \cup {Nothing}
      /\ rdr.out \in Seq(Points) /\ rdr.seen \subseteq Points /\ rdr.before \subseteq primary
      /\ rdr.op = "all" /\ Ascends(rdr.out, d)
      /\ rdr.cursor = Nothing => rdr.out = <<>> /\ rdr.seen = {}
      /\ rdr.cursor # Nothing => Len(rdr.out) > 0 /\ rdr.out[Len(rdr.out)] = rdr.cursor
      /\ \A t \in rdr.seen : t = rdr.cursor \/ <<t, rdr.cursor>> \in Before(d)
      /\ \A k \in rdr.before : (\E i \in 1..Len(rdr.out) : rdr.out[i] = k) \/ Beyond(k, rdr.cursor, d)
  BY <1>1 DEF PageInv, Paged, Reader
<1>3. Nothing \notin Points
  BY DEF StoresAssumption
<1>4. /\ page \in Seq(Points) /\ Len(page) \in Nat /\ Ascends(page, d)
      /\ \A i \in 1..Len(page) : Beyond(page[i], rdr.cursor, d)
      /\ more => Len(page) > 0
      /\ \A k \in primary : Beyond(k, rdr.cursor, d) =>
           \/ \E i \in 1..Len(page) : page[i] = k
           \/ more /\ <<page[Len(page)], k>> \in Before(d)
  <2> HIDE DEF d
  <2>1. rows = RangeQuery(d, rdr.cursor, StoreLimit + 1) /\ (more <=> Len(rows) > StoreLimit)
        /\ page = IF more THEN Front(rows) ELSE rows
    OBVIOUS
  <2> HIDE DEF page, rows
  <2>2. more \in BOOLEAN
    OBVIOUS
  <2> HIDE DEF more
  <2> QED
    BY <1>2, <2>1, <2>2, PageRows
<1> HIDE DEF page, rows, more, d
<1>5. Len(rdr.out) \in Nat /\ \A i \in 1..Len(rdr.out) : rdr.out[i] \in Points
  BY <1>2, LenProperties, ElementOfSeq
<1>6. \A i \in 1..Len(page) : page[i] \in Points
  BY <1>4, ElementOfSeq
\* Everything taken so far is before everything on the page.
<1>7. ASSUME NEW i \in 1..Len(rdr.out), NEW j \in 1..Len(page) PROVE <<rdr.out[i], page[j]>> \in Before(d)
  <2>1. rdr.cursor # Nothing /\ rdr.cursor \in Points /\ rdr.out[Len(rdr.out)] = rdr.cursor
    BY <1>2, <1>5, <1>7
  <2>2. <<rdr.cursor, page[j]>> \in Before(d)
    BY <1>4, <2>1 DEF Beyond
  <2>3. CASE i = Len(rdr.out)
    BY <2>1, <2>2, <2>3
  <2>4. CASE i # Len(rdr.out)
    <3>1. <<rdr.out[i], rdr.cursor>> \in Before(d)
      BY <1>2, <1>5, <1>7, <2>1, <2>4 DEF Ascends
    <3> QED
      BY <1>2, <1>5, <1>6, <2>1, <2>2, <3>1, AfterLast
  <2> QED
    BY <2>3, <2>4
<1>8. /\ Ascends(next, d) /\ next \in Seq(Points) /\ Len(next) = Len(rdr.out) + Len(page)
      /\ \A i \in 1..Len(rdr.out) : next[i] = rdr.out[i]
      /\ \A j \in 1..Len(page) : next[Len(rdr.out) + j] = page[j]
  BY <1>2, <1>4, <1>7, Joined
<1> HIDE DEF next
<1>9. ASSUME NEW k \in rdr.before
      PROVE  \/ \E i \in 1..Len(next) : next[i] = k
             \/ more /\ <<page[Len(page)], k>> \in Before(d)
  <2>1. CASE \E i \in 1..Len(rdr.out) : rdr.out[i] = k
    <3>1. PICK i \in 1..Len(rdr.out) : rdr.out[i] = k
      BY <2>1
    <3>2. i \in 1..Len(next) /\ next[i] = k
      BY <1>4, <1>5, <1>8, <3>1
    <3> QED
      BY <3>2
  <2>2. CASE \E i \in 1..Len(page) : page[i] = k
    <3>1. PICK i \in 1..Len(page) : page[i] = k
      BY <2>2
    <3>2. Len(rdr.out) + i \in 1..Len(next) /\ next[Len(rdr.out) + i] = k
      BY <1>4, <1>5, <1>8, <3>1
    <3> QED
      BY <3>2
  <2> QED
    BY <1>2, <1>4, <2>1, <2>2
<1>10. CASE ~more
  <2>1. rdr' = [rdr EXCEPT !.out = next, !.pc = "done", !.cursor = Nothing, !.seen = rdr.seen]
    BY <1>1, <1>10 DEF next
  <2>2. /\ rdr' \in Reader /\ rdr'.out = next /\ rdr'.pc = "done" /\ rdr'.op = "all"
        /\ rdr'.descending = d /\ rdr'.before = rdr.before
    BY <1>2, <1>8, <2>1 DEF Reader, d
  <2>3. \A k \in rdr'.before : \E i \in 1..Len(rdr'.out) : rdr'.out[i] = k
    BY <1>9, <1>10, <2>2
  <2>4. Ascends(rdr'.out, rdr'.descending) /\ rdr'.before \subseteq primary'
    BY <1>1, <1>2, <1>8, <2>2
  <2> QED
    BY <1>1, <1>2, <2>2, <2>3, <2>4 DEF PageInv, Paged, Ascends, Before
<1>11. CASE more
  <2>1. Len(page) \in 1..Len(page) /\ last \in Points
    BY <1>4, <1>6, <1>11
  <2>2. Beyond(last, rdr.cursor, d)
    BY <1>4, <2>1
  <2>3. last \notin rdr.seen
    <3> SUFFICES ASSUME last \in rdr.seen PROVE FALSE
      OBVIOUS
    <3>1. rdr.cursor # Nothing /\ rdr.cursor \in Points /\ <<rdr.cursor, last>> \in Before(d)
      BY <1>2, <2>2 DEF Beyond
    <3>2. <<last, last>> \in Before(d)
      BY <1>2, <2>1, <3>1, AfterLast
    <3>3. TotalOrder(Points, Before(d))
      BY <1>2, BeforeIsTotal
    <3> QED
      BY <2>1, <3>2, <3>3 DEF TotalOrder
  <2>4. \A t \in rdr.seen : <<t, last>> \in Before(d)
    <3> SUFFICES ASSUME NEW t \in rdr.seen PROVE <<t, last>> \in Before(d)
      OBVIOUS
    <3>1. rdr.cursor # Nothing /\ rdr.cursor \in Points /\ <<rdr.cursor, last>> \in Before(d) /\ t \in Points
      BY <1>2, <2>2 DEF Beyond
    <3> QED
      BY <1>2, <2>1, <3>1, AfterLast
  <2> HIDE DEF last
  <2>5. rdr' = [rdr EXCEPT !.out = next, !.pc = "all", !.cursor = last, !.seen = rdr.seen \cup {last}]
    BY <1>1, <1>11, <2>3 DEF next, AllStep
  <2>6. /\ rdr' \in Reader /\ rdr'.out = next /\ rdr'.pc = "all" /\ rdr'.op = "all" /\ rdr'.cursor = last
        /\ rdr'.seen = rdr.seen \cup {last} /\ rdr'.descending = d /\ rdr'.before = rdr.before
    BY <1>2, <1>8, <2>1, <2>5 DEF Reader, d
  <2>7. last # Nothing /\ Len(next) > 0 /\ next[Len(next)] = last
    BY <1>3, <1>4, <1>5, <1>8, <1>11, <2>1 DEF last
  <2>8. \A k \in rdr'.before : (\E i \in 1..Len(rdr'.out) : rdr'.out[i] = k) \/ Beyond(k, rdr'.cursor, rdr'.descending)
    BY <1>9, <1>11, <2>6 DEF Beyond, last
  <2>9. Ascends(rdr'.out, rdr'.descending) /\ rdr'.before \subseteq primary'
    BY <1>1, <1>2, <1>8, <2>6
  <2>10. \A t \in rdr'.seen : t = rdr'.cursor \/ <<t, rdr'.cursor>> \in Before(rdr'.descending)
    BY <2>4, <2>6
  <2> QED
    BY <1>1, <1>2, <2>6, <2>7, <2>8, <2>9, <2>10 DEF PageInv, Paged, Ascends, Before, Beyond
<1> QED
  BY <1>10, <1>11

-----------------------------------------------------------------------------
(* The other steps, and the theorem *)

LEMMA PageStarts == ASSUME StoresAssumption, SInit PROVE PageInv
<1>1. primary = {} /\ rdr = IdleRead
  BY DEF SInit
<1>2. rdr = [pc |-> "idle", op |-> "all", descending |-> FALSE, cursor |-> Nothing, seen |-> {}, out |-> <<>>,
             before |-> {}, pending |-> <<>>, remaining |-> 0, reported |-> 0]
  BY <1>1 DEF IdleRead
<1>3. rdr \in Reader /\ rdr.out = <<>> /\ rdr.before = {} /\ rdr.op = "all" /\ rdr.pc = "idle"
  BY <1>2 DEF Reader
<1>4. Ascends(rdr.out, rdr.descending)
  BY <1>3 DEF Ascends
<1> QED
  BY <1>1, <1>3, <1>4 DEF PageInv, Paged

LEMMA ReadKeeps ==
  ASSUME StoresAssumption, PageInv, NEW op \in {"all", "stream"}, NEW d \in BOOLEAN, Read(op, d)
  PROVE  PageInv'
<1> DEFINE q == IF op = "stream" THEN RangeQuery(d, Nothing, StoreLimit) ELSE <<>>
<1>1. primary' = primary
      /\ rdr' = [pc |-> op, op |-> op, descending |-> d, cursor |-> Nothing, seen |-> {}, out |-> <<>>,
                 before |-> primary, pending |-> q, remaining |-> StoreLimit, reported |-> 0]
  BY DEF Read, IdleRead
<1>2. StoreLimit \in Nat /\ primary \subseteq Points
  BY DEF StoresAssumption, PageInv
<1>3. q \in Seq(Points) /\ (op = "stream" => Ascends(q, d))
  <2>1. CASE op = "stream"
    <3>1. Answers(RangeQuery(d, Nothing, StoreLimit), d, Nothing, StoreLimit)
      BY <1>2, Queried, Zenon
    <3> QED
      BY <2>1, <3>1 DEF Answers
  <2>2. CASE op # "stream"
    BY <2>2
  <2> QED
    BY <2>1, <2>2
<1> HIDE DEF q
<1>4. /\ rdr' \in Reader /\ rdr'.out = <<>> /\ rdr'.before = primary /\ rdr'.op = op /\ rdr'.pc = op
      /\ rdr'.seen = {} /\ rdr'.cursor = Nothing /\ rdr'.pending = q /\ rdr'.reported = 0 /\ rdr'.descending = d
  BY <1>1, <1>2, <1>3 DEF Reader
<1>5. Ascends(rdr'.out, rdr'.descending) /\ Len(rdr'.out) = 0
  BY <1>4 DEF Ascends
<1>6. rdr'.pc = "all" => \A k \in rdr'.before : Beyond(k, rdr'.cursor, rdr'.descending)
  BY <1>4 DEF Beyond
<1> QED
  BY <1>1, <1>2, <1>3, <1>4, <1>5, <1>6 DEF PageInv, Paged, Ascends, Before, Beyond

LEMMA StreamNextKeeps == ASSUME StoresAssumption, PageInv, StreamNext PROVE PageInv'
<1> DEFINE d == rdr.descending
           s == rdr.out
           p == rdr.pending
<1>1. /\ rdr \in Reader /\ primary \subseteq Points /\ d \in BOOLEAN /\ rdr.op = "stream"
      /\ s \in Seq(Points) /\ p \in Seq(Points) /\ rdr.before \subseteq primary
      /\ Ascends(s, d) /\ Ascends(p, d) /\ rdr.reported = Len(s)
      /\ \A i \in 1..Len(s), j \in 1..Len(p) : <<s[i], p[j]>> \in Before(d)
      /\ rdr.pc = "stream" /\ primary' = primary
  BY DEF StreamNext, PageInv, Paged, Reader
<1>2. CASE rdr.remaining = 0 \/ p = <<>>
  <2>1. rdr' = [rdr EXCEPT !.pc = "done"]
    BY <1>2 DEF StreamNext
  <2>2. /\ rdr' \in Reader /\ rdr'.out = s /\ rdr'.pending = p /\ rdr'.op = "stream" /\ rdr'.pc = "done"
        /\ rdr'.descending = d /\ rdr'.before = rdr.before /\ rdr'.reported = rdr.reported
    BY <1>1, <2>1 DEF Reader
  <2> QED
    BY <1>1, <2>2 DEF PageInv, Paged, Ascends, Before
<1>3. CASE ~(rdr.remaining = 0 \/ p = <<>>)
  <2> DEFINE u == Append(s, Head(p))
             v == Tail(p)
  <2>1. rdr' = [rdr EXCEPT !.out = u, !.pending = v, !.remaining = rdr.remaining - 1, !.reported = rdr.reported + 1]
    BY <1>3 DEF StreamNext
  <2>2. /\ Len(s) \in Nat /\ Len(p) \in Nat /\ Len(p) > 0
        /\ \A i \in 1..Len(s) : s[i] \in Points
        /\ \A i \in 1..Len(p) : p[i] \in Points
    BY <1>1, <1>3, LenProperties, ElementOfSeq, EmptySeq
  <2>3. /\ u \in Seq(Points) /\ Len(u) = Len(s) + 1 /\ u[Len(s) + 1] = p[1]
        /\ \A i \in 1..Len(s) : u[i] = s[i]
    BY <1>1, <1>3, <2>2, HeadTailProperties, AppendProperties
  <2>4. /\ v \in Seq(Points) /\ Len(v) = Len(p) - 1
        /\ \A i \in 1..Len(v) : v[i] = p[i + 1]
    BY <1>1, <1>3, <2>2, HeadTailProperties
  <2> HIDE DEF u, v
  <2>5. Ascends(u, d)
    <3> SUFFICES ASSUME NEW i \in 1..Len(u), NEW j \in 1..Len(u), i < j
                 PROVE  <<u[i], u[j]>> \in Before(d)
      BY DEF Ascends
    <3>1. i \in 1..Len(s) /\ u[i] = s[i]
      BY <2>2, <2>3
    <3>2. CASE j \in 1..Len(s)
      BY <1>1, <2>3, <3>1, <3>2 DEF Ascends
    <3>3. CASE j \notin 1..Len(s)
      <4>1. j = Len(s) + 1 /\ 1 \in 1..Len(p)
        BY <2>2, <2>3, <3>3
      <4> QED
        BY <1>1, <2>3, <3>1, <4>1
    <3> QED
      BY <3>2, <3>3
  <2>6. Ascends(v, d)
    <3> SUFFICES ASSUME NEW i \in 1..Len(v), NEW j \in 1..Len(v), i < j
                 PROVE  <<v[i], v[j]>> \in Before(d)
      BY DEF Ascends
    <3>1. i + 1 \in 1..Len(p) /\ j + 1 \in 1..Len(p) /\ i + 1 < j + 1
      BY <2>2, <2>4
    <3> QED
      BY <1>1, <2>4, <3>1 DEF Ascends
  <2>7. ASSUME NEW i \in 1..Len(u), NEW j \in 1..Len(v) PROVE <<u[i], v[j]>> \in Before(d)
    <3>1. j + 1 \in 1..Len(p) /\ v[j] = p[j + 1] /\ 1 \in 1..Len(p) /\ 1 < j + 1
      BY <2>2, <2>4
    <3>2. CASE i \in 1..Len(s)
      BY <1>1, <2>3, <3>1, <3>2
    <3>3. CASE i \notin 1..Len(s)
      <4>1. i = Len(s) + 1
        BY <2>2, <2>3, <3>3
      <4> QED
        BY <1>1, <2>3, <3>1, <4>1 DEF Ascends
    <3> QED
      BY <3>2, <3>3
  <2>8. rdr.remaining - 1 \in Int /\ rdr.reported + 1 \in Int /\ rdr.reported + 1 = Len(u)
    BY <1>1, <2>2, <2>3 DEF Reader
  <2>9. /\ rdr' \in Reader /\ rdr'.out = u /\ rdr'.pending = v /\ rdr'.op = "stream" /\ rdr'.pc = "stream"
        /\ rdr'.descending = d /\ rdr'.before = rdr.before /\ rdr'.reported = Len(u)
    <3> DEFINE a == rdr.remaining - 1
               b == rdr.reported + 1
    <3>1. rdr' = [rdr EXCEPT !.out = u, !.pending = v, !.remaining = a, !.reported = b]
          /\ u \in Seq(Points) /\ v \in Seq(Points) /\ a \in Int /\ b \in Int /\ b = Len(u)
      BY <2>1, <2>3, <2>4, <2>8
    <3> HIDE DEF a, b
    <3> QED
      BY <1>1, <3>1 DEF Reader
  <2> QED
    BY <1>1, <2>5, <2>6, <2>7, <2>9 DEF PageInv, Paged, Ascends, Before
<1> QED
  BY <1>2, <1>3

LEMMA StreamTimeoutKeeps == ASSUME PageInv, StreamTimeout PROVE PageInv'
<1>1. /\ rdr \in Reader /\ primary \subseteq Points /\ rdr.op = "stream" /\ rdr.before \subseteq primary
      /\ Ascends(rdr.out, rdr.descending) /\ rdr.reported = Len(rdr.out) /\ primary' = primary
      /\ rdr' = [rdr EXCEPT !.pc = "failed", !.pending = <<>>]
  BY DEF StreamTimeout, PageInv, Paged
<1>2. /\ rdr' \in Reader /\ rdr'.out = rdr.out /\ rdr'.pending = <<>> /\ rdr'.op = "stream"
      /\ rdr'.pc = "failed" /\ rdr'.descending = rdr.descending /\ rdr'.before = rdr.before
      /\ rdr'.reported = rdr.reported
  <2> DEFINE none == <<>>
  <2>1. none \in Seq(Points) /\ rdr' = [rdr EXCEPT !.pc = "failed", !.pending = none]
    BY <1>1, EmptySeq
  <2>2. rdr'.pending = <<>>
    BY <1>1 DEF Reader
  <2> HIDE DEF none
  <2> QED
    BY <1>1, <2>1, <2>2 DEF Reader
<1>3. Ascends(rdr'.pending, rdr'.descending) /\ Len(rdr'.pending) = 0
  BY <1>2 DEF Ascends
<1> QED
  BY <1>1, <1>2, <1>3 DEF PageInv, Paged, Ascends, Before

\* What others write only adds to what stood there.
LEMMA WritesKeep ==
  ASSUME PageInv, rdr' = rdr, primary \subseteq primary', primary' \subseteq Points
  PROVE  PageInv'
<1>1. rdr'.before \subseteq primary'
  BY DEF PageInv, Paged
<1> QED
  BY <1>1 DEF PageInv, Paged

LEMMA PageShows == ASSUME StoresAssumption, PageInv PROVE PagesCover
<1>1. rdr \in Reader /\ Ascends(rdr.out, rdr.descending) /\ rdr.out \in Seq(Points)
  BY DEF PageInv, Paged, Reader
<1>2. Len(rdr.out) \in Nat
  BY <1>1, LenProperties
<1>3. rdr.op = "all" => rdr.pc # "failed"
  BY DEF PageInv, Paged
<1>4. ASSUME NEW i \in 1..(Len(rdr.out) - 1)
      PROVE  OrderBy(rdr.out[i], rdr.out[i + 1], rdr.descending)
  <2>1. i \in 1..Len(rdr.out) /\ i + 1 \in 1..Len(rdr.out) /\ i < i + 1
    BY <1>2
  <2>2. <<rdr.out[i], rdr.out[i + 1]>> \in Before(rdr.descending)
    BY <1>1, <2>1 DEF Ascends
  <2> QED
    BY <2>2 DEF Before
<1>5. ASSUME rdr.pc = "done", rdr.op = "all" PROVE rdr.before \subseteq ToSet(rdr.out)
  <2>1. \A k \in rdr.before : \E i \in 1..Len(rdr.out) : rdr.out[i] = k
    BY <1>5 DEF PageInv, Paged
  <2>2. DOMAIN rdr.out = 1..Len(rdr.out)
    BY <1>1, LenProperties
  <2> QED
    BY <2>1, <2>2 DEF ToSet
<1>6. rdr.op = "stream" => rdr.reported = Len(rdr.out)
  BY DEF PageInv, Paged
<1> QED
  BY <1>3, <1>4, <1>5, <1>6 DEF PagesCover

LEMMA PagesKeep == ASSUME StoresAssumption, PageInv, [SNext]_svars PROVE PageInv'
<1>1. ASSUME NEW op \in {"all", "stream"}, NEW d \in BOOLEAN, Read(op, d) PROVE PageInv'
  BY <1>1, ReadKeeps
<1>2. ASSUME Page \/ StreamNext \/ StreamTimeout PROVE PageInv'
  BY <1>2, PageKeeps, StreamNextKeeps, StreamTimeoutKeeps
<1>3. ASSUME NEW how \in {"ok", "err"}, NEW done \in SUBSET Points,
             \/ \E c \in Users : CallPrimary(c, how, done) \/ CallCopy(c, how, done)
             \/ \E x \in Writers : BatchPrimary(x, how, done) \/ BatchCopy(x, how, done)
      PROVE  PageInv'
  <2>1. rdr' = rdr /\ (primary' = primary \/ primary' = primary \cup done)
    BY <1>3 DEF CallPrimary, CallCopy, BatchPrimary, BatchCopy, InfluxWrite
  <2>2. primary \subseteq primary' /\ primary' \subseteq Points
    BY <2>1 DEF PageInv
  <2> QED
    BY <2>1, <2>2, WritesKeep
<1>4. ASSUME \/ \E c \in Users, p \in Points : Create(c, p)
             \/ \E c \in Users, x \in Writers : GetWriter(c, x)
             \/ \E c \in Users, ps \in Many : CreateMany(c, ps)
             \/ \E c \in Users : Enqueue(c) \/ CallReturns(c)
             \/ \E x \in Writers : SendBatch(x) \/ BatchSettles(x)
             \/ \E c \in Users : ReleaseBegin(c) \/ Drain(c) \/ FlushReturns(c) \/ ReleaseDropped(c)
             \/ \E c \in Users, how \in {"ok", "err"} : ReleaseReturns(c, how)
             \/ UNCHANGED svars
      PROVE  PageInv'
  <2>1. rdr' = rdr /\ primary' = primary
    BY <1>4 DEF Create, GetWriter, CreateMany, Enqueue, CallReturns,
                SendBatch, BatchSettles, ReleaseBegin, Drain,
                FlushReturns, ReleaseReturns, ReleaseDropped, svars
  <2>2. primary \subseteq primary' /\ primary' \subseteq Points
    BY <2>1 DEF PageInv
  <2> QED
    BY <2>1, <2>2, WritesKeep
<1> QED
  BY <1>1, <1>2, <1>3, <1>4 DEF SNext

\* Page after page while points are written gives the points in key order, none twice, none
\* missing that was there at the start, and no token twice; a stream reports what it delivered
\* (cursor.rs apply, reader.rs page, typed.rs all), for any points, page size and writers.
THEOREM PagesCoverHolds ==
  ASSUME StoresAssumption
  PROVE  SSpec => []PagesCover
<1>1. SInit => PageInv
  BY PageStarts
<1>2. PageInv /\ [SNext]_svars => PageInv'
  BY PagesKeep
<1>3. PageInv => PagesCover
  BY PageShows
<1> QED
  BY <1>1, <1>2, <1>3, PTL DEF SSpec

-----------------------------------------------------------------------------
(* The arrow store (module Arrow), for any segments, batches and faults.   *)

\* The least of a set of numbers.
LEMMA LeastOf ==
  ASSUME NEW S \in SUBSET Nat, S # {}
  PROVE  \E x \in S : \A j \in S : x <= j
<1>1. PICK x \in S : \A y \in S : ~(<<y, x>> \in OpToRel(<, Nat))
  BY NatLessThanWellFounded, WFMin
<1>2. \A j \in S : ~(j < x)
  BY <1>1 DEF OpToRel
<1> QED
  BY <1>2

\* The rows of the first k batches, for each k.
Flattens(f, bs, n) == f = [i \in 1..n |-> IF i = 1 THEN bs[i] ELSE f[i - 1] \o bs[i]]

LEMMA Flattened == ASSUME NEW bs, NEW n \in Nat PROVE \E f : Flattens(f, bs, n)
<1> DEFINE Bad == {k \in Nat : ~(\E f : Flattens(f, bs, k))}
           Glue(x, i) == x \o bs[i]
<1>0. \A f, k : Flattens(f, bs, k) <=> f = [i \in 1..k |-> IF i = 1 THEN bs[i] ELSE Glue(f[i - 1], i)]
  BY DEF Flattens
<1> HIDE DEF Glue
<1> SUFFICES ASSUME Bad # {} PROVE FALSE
  OBVIOUS
<1>1. PICK m \in Bad : \A j \in Bad : m <= j
  BY LeastOf
<1>2. CASE m = 0
  <2> DEFINE e == [i \in 1..0 |-> 0]
             h == [i \in 1..0 |-> IF i = 1 THEN bs[i] ELSE Glue(e[i - 1], i)]
  <2>0. \A i \in 1..0 : e[i] = h[i]
    OBVIOUS
  <2>1. e = h
    BY <2>0
  <2>2. Flattens(e, bs, 0)
    BY <1>0, <2>1
  <2> QED
    BY <1>1, <1>2, <2>2
<1>3. CASE m # 0
  <2>1. m \in Nat /\ m - 1 \in Nat /\ m - 1 \notin Bad
    BY <1>1, <1>3
  <2>2. PICK f : f = [i \in 1..(m - 1) |-> IF i = 1 THEN bs[i] ELSE Glue(f[i - 1], i)]
    BY <1>0, <2>1
  <2> DEFINE g == [i \in 1..m |-> IF i = m THEN (IF m = 1 THEN bs[1] ELSE Glue(f[m - 1], m)) ELSE f[i]]
             h == [i \in 1..m |-> IF i = 1 THEN bs[i] ELSE Glue(g[i - 1], i)]
  <2>3. ASSUME NEW i \in 1..m PROVE g[i] = h[i]
    <3>1. CASE i = m
      <4>1. CASE m = 1
        BY <3>1, <4>1
      <4>2. CASE m # 1
        <5>1. m - 1 \in 1..m /\ m - 1 # m /\ g[m - 1] = f[m - 1]
          BY <2>1, <1>3, <4>2
        <5> QED
          BY <3>1, <4>2, <5>1
      <4> QED
        BY <4>1, <4>2
    <3>2. CASE i # m
      <4>1. i \in 1..(m - 1) /\ g[i] = f[i] /\ (i # 1 => i - 1 \in 1..m /\ i - 1 # m)
        BY <2>1, <3>2
      <4>2. f[i] = IF i = 1 THEN bs[i] ELSE Glue(f[i - 1], i)
        BY <2>2, <4>1
      <4> QED
        BY <4>1, <4>2
    <3> QED
      BY <3>1, <3>2
  <2>4. g = h
    BY <2>3
  <2> HIDE DEF g
  <2>5. Flattens(g, bs, m)
    BY <1>0, <2>4
  <2> QED
    BY <1>1, <2>5
<1> QED
  BY <1>2, <1>3

SameUpTo(f, g, n) == \A i \in 1..n : f[i] = g[i]
\* There is one such function, also of the batches that begin a longer sequence.
LEMMA FlattenedOnce ==
  ASSUME NEW bs, NEW cs, NEW n \in Nat, NEW m \in Nat, n <= m, SameUpTo(bs, cs, n),
         NEW f, Flattens(f, bs, n), NEW g, Flattens(g, cs, m)
  PROVE  SameUpTo(f, g, n)
<1> USE DEF SameUpTo
<1> DEFINE Bad == {k \in 1..n : f[k] # g[k]}
<1>1. \A i \in 1..n : f[i] = IF i = 1 THEN bs[i] ELSE f[i - 1] \o bs[i]
  BY DEF Flattens
<1>2. \A i \in 1..m : g[i] = IF i = 1 THEN cs[i] ELSE g[i - 1] \o cs[i]
  BY DEF Flattens
<1> SUFFICES ASSUME Bad # {} PROVE FALSE
  OBVIOUS
<1>3. PICK k \in Bad : \A j \in Bad : k <= j
  <2>1. Bad \in SUBSET Nat
    OBVIOUS
  <2> HIDE DEF Bad
  <2> QED
    BY <2>1, LeastOf
<1>4. k \in 1..n /\ k \in 1..m /\ f[k] # g[k] /\ bs[k] = cs[k]
  BY <1>3
<1>5. CASE k = 1
  BY <1>1, <1>2, <1>4, <1>5
<1>6. CASE k # 1
  <2>1. k - 1 \in 1..n /\ k - 1 \notin Bad
    BY <1>3, <1>4, <1>6
  <2>2. f[k - 1] = g[k - 1]
    BY <2>1
  <2>3. f[k] = f[k - 1] \o bs[k] /\ g[k] = g[k - 1] \o cs[k]
    BY <1>1, <1>2, <1>4, <1>6
  <2> QED
    BY <1>4, <2>2, <2>3
<1> QED
  BY <1>5, <1>6

LEMMA RowsAre ==
  ASSUME NEW bs \in Seq(Seq(Int)), bs # <<>>
  PROVE  \E f : Flattens(f, bs, Len(bs)) /\ Rows(bs) = f[Len(bs)]
<1> DEFINE F == CHOOSE f : Flattens(f, bs, Len(bs))
<1>1. Len(bs) \in Nat /\ Len(bs) # 0
  BY LenProperties, EmptySeq
<1>2. Flattens(F, bs, Len(bs))
  BY <1>1, Flattened
<1>3. Rows(bs) = F[Len(bs)]
  BY <1>1 DEF Rows, FlattenSeq, Flattens
<1> QED
  BY <1>2, <1>3

LEMMA RowsOf ==
  ASSUME NEW bs \in Seq(Seq(Int)), NEW b \in Seq(Int)
  PROVE  /\ Rows(bs) \in Seq(Int)
         /\ Rows(Append(bs, b)) = Rows(bs) \o b
<1> DEFINE cs == Append(bs, b)
           n == Len(bs)
<1>1. /\ n \in Nat /\ cs \in Seq(Seq(Int)) /\ Len(cs) = n + 1 /\ cs[n + 1] = b /\ cs # <<>>
      /\ \A i \in 1..n : cs[i] = bs[i] /\ bs[i] \in Seq(Int)
  BY LenProperties, AppendProperties, ElementOfSeq
<1>2. PICK g : Flattens(g, cs, n + 1) /\ Rows(cs) = g[n + 1]
  BY <1>1, RowsAre
<1> HIDE DEF cs
<1>3. \A i \in 1..(n + 1) : g[i] = IF i = 1 THEN cs[i] ELSE g[i - 1] \o cs[i]
  BY <1>2 DEF Flattens
<1>4. CASE bs = <<>>
  <2>1. n = 0 /\ Rows(bs) = <<>>
    BY <1>4 DEF Rows, FlattenSeq
  <2>2. Rows(cs) = b
    BY <1>1, <1>2, <1>3, <2>1
  <2>3. <<>> \o b = b
    BY ConcatEmptySeq
  <2> QED
    BY <2>1, <2>2, <2>3 DEF cs
<1>5. CASE bs # <<>>
  <2>1. PICK f : Flattens(f, bs, n) /\ Rows(bs) = f[n]
    BY <1>5, RowsAre
  <2>2. n > 0
    BY <1>1, <1>5, EmptySeq
  <2> HIDE DEF n
  <2>3. \A i \in 1..n : f[i] = g[i]
    <3>1. n \in Nat /\ n + 1 \in Nat /\ n <= n + 1 /\ SameUpTo(bs, cs, n)
      BY <1>1 DEF SameUpTo
    <3>2. SameUpTo(f, g, n)
      BY <1>2, <2>1, <3>1, FlattenedOnce
    <3> QED
      BY <3>2 DEF SameUpTo
  <2>4. Rows(cs) = Rows(bs) \o b
    <3>1. n + 1 \in 1..(n + 1) /\ n + 1 # 1 /\ (n + 1) - 1 = n /\ n \in 1..n
      BY <1>1, <2>2
    <3> QED
      BY <1>1, <1>2, <1>3, <2>1, <2>3, <3>1
  <2>5. \A i \in 1..n : f[i] = IF i = 1 THEN bs[i] ELSE f[i - 1] \o bs[i]
    BY <2>1 DEF Flattens
  <2> DEFINE Bad == {k \in 1..n : f[k] \notin Seq(Int)}
  <2>6. Bad = {}
    <3> SUFFICES ASSUME Bad # {} PROVE FALSE
      OBVIOUS
    <3>1. PICK k \in Bad : \A j \in Bad : k <= j
      <4>1. Bad \in SUBSET Nat
        BY <1>1
      <4> HIDE DEF Bad
      <4> QED
        BY <4>1, LeastOf
    <3>2. k \in 1..n /\ f[k] \notin Seq(Int)
      BY <3>1
    <3>3. CASE k = 1
      BY <1>1, <2>5, <3>2, <3>3
    <3>4. CASE k # 1
      <4>1. k - 1 \in 1..n /\ k - 1 \notin Bad
        BY <1>1, <3>1, <3>2, <3>4
      <4>2. f[k - 1] \in Seq(Int) /\ bs[k] \in Seq(Int) /\ f[k] = f[k - 1] \o bs[k]
        BY <1>1, <2>5, <3>2, <3>4, <4>1
      <4> QED
        BY <3>2, <4>2, ConcatProperties
    <3> QED
      BY <3>3, <3>4
  <2> QED
    BY <1>1, <2>1, <2>2, <2>4, <2>6 DEF cs
<1> QED
  BY <1>4, <1>5

\* A batch adds its rows, and numbers none anew.
LEMMA KeysGrow ==
  ASSUME NEW bs \in Seq(Seq(Int)), NEW b \in Seq(Int), NEW s
  PROVE  /\ KeysOf(s, bs) \subseteq KeysOf(s, Append(bs, b))
         /\ \A k \in KeysOf(s, Append(bs, b)) \ KeysOf(s, bs) :
              k[2] = s /\ k[1] \in ToSet(b) /\ k[1] \in Int
<1> DEFINE r == Rows(bs)
           t == Rows(Append(bs, b))
<1>1. r \in Seq(Int) /\ t = r \o b
  BY RowsOf
<1>2. /\ KeysOf(s, bs) = {<<r[i], s, i - 1>> : i \in DOMAIN r}
      /\ KeysOf(s, Append(bs, b)) = {<<t[i], s, i - 1>> : i \in DOMAIN t}
  BY DEF KeysOf
<1> HIDE DEF r, t
<1>3. /\ Len(r) \in Nat /\ Len(b) \in Nat /\ DOMAIN r = 1..Len(r) /\ DOMAIN b = 1..Len(b)
      /\ \A i \in 1..Len(b) : b[i] \in Int
  BY <1>1, LenProperties, ElementOfSeq
<1>4. /\ t \in Seq(Int) /\ Len(t) = Len(r) + Len(b)
      /\ \A i \in 1..(Len(r) + Len(b)) : t[i] = IF i <= Len(r) THEN r[i] ELSE b[i - Len(r)]
  BY <1>1, ConcatProperties
<1>5. DOMAIN t = 1..(Len(r) + Len(b))
  BY <1>4, LenProperties
<1>6. ASSUME NEW k \in KeysOf(s, bs) PROVE k \in KeysOf(s, Append(bs, b))
  <2>1. PICK i \in 1..Len(r) : k = <<r[i], s, i - 1>>
    BY <1>2, <1>3
  <2>2. i \in DOMAIN t /\ t[i] = r[i]
    BY <1>3, <1>4, <1>5
  <2> QED
    BY <1>2, <2>1, <2>2
<1>7. ASSUME NEW k \in KeysOf(s, Append(bs, b)), k \notin KeysOf(s, bs)
      PROVE  k[2] = s /\ k[1] \in ToSet(b) /\ k[1] \in Int
  <2>1. PICK i \in 1..(Len(r) + Len(b)) : k = <<t[i], s, i - 1>>
    BY <1>2, <1>5
  <2>2. ~(i <= Len(r))
    <3> SUFFICES ASSUME i <= Len(r) PROVE FALSE
      OBVIOUS
    <3>1. i \in DOMAIN r /\ t[i] = r[i]
      BY <1>3, <1>4
    <3> QED
      BY <1>2, <1>7, <2>1, <3>1
  <2>3. i - Len(r) \in 1..Len(b) /\ t[i] = b[i - Len(r)]
    BY <1>3, <1>4, <2>2
  <2>4. b[i - Len(r)] \in ToSet(b) /\ b[i - Len(r)] \in Int
    BY <1>3, <2>3 DEF ToSet
  <2> QED
    BY <2>1, <2>3, <2>4
<1> QED
  BY <1>6, <1>7

-----------------------------------------------------------------------------
(* What a segment keeps of the rows it was acknowledged *)

OnePlaceEach(S, R) ==
  /\ Cardinality(S) \in Nat
  /\ \A k \in S : Rank(S, R, k) \in 0..(Cardinality(S) - 1)
  /\ \A a, b \in S : <<a, b>> \in R => Rank(S, R, a) < Rank(S, R, b)
  /\ \A i \in 1..Cardinality(S) : \E k \in S : Rank(S, R, k) = i - 1

LEMMA PlacesOf ==
  ASSUME NEW S, IsFiniteSet(S), NEW R, TotalOrder(S, R)
  PROVE  OnePlaceEach(S, R)
BY RankOnto DEF OnePlaceEach

\* The bounds of a batch, and of what came before it.
LEMMA SetHasBounds ==
  ASSUME NEW S \in SUBSET Int, IsFiniteSet(S), S # {}
  PROVE  /\ Min(S) \in S /\ \A x \in S : Min(S) <= x
         /\ Max(S) \in S /\ \A x \in S : x <= Max(S)
<1> DEFINE n == Cardinality(S)
<1>1. PICK R : \A a, b \in S : <<a, b>> \in R <=> a < b
  <2> DEFINE Q == {pair \in S \X S : pair[1] < pair[2]}
  <2>1. \A a, b \in S : <<a, b>> \in Q <=> a < b
    OBVIOUS
  <2> HIDE DEF Q
  <2> QED
    BY <2>1
<1>2. TotalOrder(S, R)
  BY <1>1 DEF TotalOrder
<1>3. /\ n \in Nat /\ \A k \in S : Rank(S, R, k) \in 0..(n - 1)
      /\ \A a, b \in S : <<a, b>> \in R => Rank(S, R, a) < Rank(S, R, b)
      /\ \A i \in 1..n : \E k \in S : Rank(S, R, k) = i - 1
  <2>1. OnePlaceEach(S, R)
    BY <1>2, PlacesOf
  <2> QED
    BY <2>1 DEF OnePlaceEach
<1> HIDE DEF n
<1>4. 1 \in 1..n /\ n \in 1..n
  <2>1. PICK k \in S : TRUE
    OBVIOUS
  <2> QED
    BY <1>3, <2>1
<1>5. \E x \in S : \A y \in S : x <= y
  <2>1. PICK x \in S : Rank(S, R, x) = 0
    BY <1>3, <1>4
  <2>2. ASSUME NEW y \in S PROVE x <= y
    <3>1. Rank(S, R, y) \in Nat /\ x \in Int /\ y \in Int
      BY <1>3
    <3>2. <<y, x>> \in R => Rank(S, R, y) < Rank(S, R, x)
      BY <1>3
    <3>3. <<y, x>> \in R <=> y < x
      BY <1>1
    <3> QED
      BY <2>1, <3>1, <3>2, <3>3
  <2> QED
    BY <2>2
<1>6. \E x \in S : \A y \in S : x >= y
  <2>1. PICK x \in S : Rank(S, R, x) = n - 1
    BY <1>3, <1>4
  <2>2. ASSUME NEW y \in S PROVE x >= y
    <3>1. Rank(S, R, y) \in 0..(n - 1) /\ x \in Int /\ y \in Int
      BY <1>3
    <3>2. <<x, y>> \in R => Rank(S, R, x) < Rank(S, R, y)
      BY <1>3
    <3>3. <<x, y>> \in R <=> x < y
      BY <1>1
    <3> QED
      BY <1>3, <2>1, <3>1, <3>2, <3>3
  <2> QED
    BY <2>2
<1> QED
  BY <1>5, <1>6 DEF Min, Max

Bounds == [min : Int, max : Int]
Within(t, b) == b.min <= t /\ t <= b.max

LEMMA BoundsGrow ==
  ASSUME NEW b \in Bounds \cup {Absent}, NEW batch \in Seq(Int), batch # <<>>, Absent \notin Bounds
  PROVE  /\ extend_bounds(b, batch) \in Bounds
         /\ \A t \in ToSet(batch) : Within(t, extend_bounds(b, batch))
         /\ b # Absent => \A t \in Int : Within(t, b) => Within(t, extend_bounds(b, batch))
<1> DEFINE S == ToSet(batch)
           lo == Min(S)
           hi == Max(S)
           x == Min({b.min, lo})
           y == Max({b.max, hi})
<1>1. /\ S = {batch[i] : i \in 1..Len(batch)} /\ Len(batch) \in Nat /\ Len(batch) > 0
      /\ \A i \in 1..Len(batch) : batch[i] \in Int
  BY LenProperties, ElementOfSeq, EmptySeq DEF ToSet
<1> HIDE DEF S
<1>2. S \in SUBSET Int /\ S # {}
  <2>1. 1 \in 1..Len(batch)
    BY <1>1
  <2> QED
    BY <1>1, <2>1
<1>3. IsFiniteSet(S)
  <2> DEFINE g == [i \in 1..Len(batch) |-> batch[i]]
  <2>1. IsFiniteSet(1..Len(batch))
    BY <1>1, FS_Interval
  <2>2. g \in Surjection(1..Len(batch), S)
    BY <1>1 DEF Surjection
  <2> QED
    BY <2>1, <2>2, FS_Surjection
<1>4. lo \in Int /\ hi \in Int /\ \A t \in S : lo <= t /\ t <= hi
  BY <1>2, <1>3, SetHasBounds
<1> HIDE DEF lo, hi
<1>5. CASE b = Absent
  <2>1. extend_bounds(b, batch) = [min |-> lo, max |-> hi]
    BY <1>5 DEF extend_bounds, lo, hi, S
  <2> QED
    BY <1>4, <1>5, <2>1 DEF S, Bounds, Within
<1>6. CASE b # Absent
  <2>1. extend_bounds(b, batch) = [min |-> x, max |-> y]
    BY <1>6 DEF extend_bounds, lo, hi, S
  <2>2. b.min \in Int /\ b.max \in Int
    BY <1>6 DEF Bounds
  <2>3. /\ {b.min, lo} \in SUBSET Int /\ {b.max, hi} \in SUBSET Int
        /\ IsFiniteSet({b.min, lo}) /\ IsFiniteSet({b.max, hi})
    <3>1. \A p, q : IsFiniteSet({p, q})
      <4> TAKE p, q
      <4>1. {p, q} = {p} \cup {q}
        OBVIOUS
      <4>2. IsFiniteSet({p}) /\ IsFiniteSet({q})
        BY FS_Singleton
      <4>3. IsFiniteSet({p} \cup {q})
        BY <4>2, FS_Union, Zenon
      <4> QED
        BY <4>1, <4>3
    <3> QED
      BY <1>4, <2>2, <3>1
  <2>4. x \in {b.min, lo} /\ x <= b.min /\ x <= lo
    BY <2>3, SetHasBounds
  <2>5. y \in {b.max, hi} /\ b.max <= y /\ hi <= y
    BY <2>3, SetHasBounds
  <2> HIDE DEF x, y
  <2>6. x \in Int /\ y \in Int
    BY <1>4, <2>2, <2>4, <2>5
  <2>7. \A t \in S : Within(t, [min |-> x, max |-> y])
    BY <1>2, <1>4, <2>4, <2>5, <2>6, <2>2 DEF Within
  <2>8. \A t \in Int : Within(t, b) => Within(t, [min |-> x, max |-> y])
    BY <2>2, <2>4, <2>5, <2>6 DEF Within
  <2> QED
    BY <2>1, <2>6, <2>7, <2>8 DEF S, Bounds
<1> QED
  BY <1>5, <1>6

-----------------------------------------------------------------------------
(* The inductive invariant of the writing side *)

FileType == [st : {"none", "part", "yes", "gone"}, batches : Seq(Seq(Int)), tail : {"ok", "torn", "eos"},
             shape : Shapes \cup {Absent}]
Written ==
  /\ file \in [Segments -> FileType] /\ sidecar \in [Segments -> Bounds \cup {Absent}]
  /\ open \in Segments \cup {Absent} /\ bounds \in Bounds \cup {Absent}
  /\ w \in [pc : {"idle", "rename", "append", "flush", "sync"}, batch : Seq(Int)]
  /\ w.pc # "idle" => w.batch \in Batches
  /\ \A k \in confirmed : k[1] \in Int /\ k[2] \in Segments
\* Nothing is known of a segment before it has its name.
Fresh == \A s \in Segments : file[s].st \in {"none", "part"} =>
  file[s].batches = <<>> /\ sidecar[s] = Absent /\ open # s /\ \A k \in confirmed : k[2] # s
\* The sidecar is written when the segment is closed, and a segment is not opened again.
Opened == open # Absent => sidecar[open] = Absent /\ (file[open].st = "yes" \/ open \in orphans)
Holds ==
  /\ w.pc = "rename" => open = Absent
  /\ w.pc \in {"append", "flush", "sync"} => open # Absent
  /\ w.pc = "sync" => \E bs \in Seq(Seq(Int)) : file[open].batches = Append(bs, w.batch)
\* The bounds of the open segment hold what was acknowledged in it.
Covered(k) ==
  /\ file[k[2]].st = "yes" /\ k \in KeysOf(k[2], file[k[2]].batches)
  /\ sidecar[k[2]] # Absent => Within(k[1], sidecar[k[2]])
  /\ open = k[2] => bounds # Absent /\ Within(k[1], bounds)
Kept == \A k \in confirmed : k[2] \in orphans \/ Covered(k)

FilesInv == Written /\ Fresh /\ Opened /\ Holds /\ Kept

LEMMA FilesStart == ASSUME ArrowAssumption, AInit PROVE FilesInv
<1>1. /\ file = [s \in Segments |-> NoFile] /\ sidecar = [s \in Segments |-> Absent]
      /\ open = Absent /\ bounds = Absent /\ w = [pc |-> "idle", batch |-> <<>>] /\ confirmed = {}
  BY DEF AInit, IdleWrite
<1>2. NoFile \in FileType /\ NoFile.batches = <<>>
  BY DEF NoFile, FileType
<1>3. Written
  BY <1>1, <1>2 DEF Written
<1>4. Fresh
  BY <1>1, <1>2 DEF Fresh, ArrowAssumption
<1>5. Opened /\ Holds /\ Kept
  BY <1>1 DEF Opened, Holds, Kept
<1> QED
  BY <1>3, <1>4, <1>5 DEF FilesInv

LEMMA KeptStays ==
  ASSUME FilesInv, confirmed' = confirmed, orphans' = orphans,
         \A s \in Segments : s \notin orphans /\ file[s].st = "yes" =>
           /\ file'[s].st = "yes" /\ KeysOf(s, file[s].batches) \subseteq KeysOf(s, file'[s].batches)
           /\ sidecar'[s] = sidecar[s] \/ (s = open /\ sidecar'[s] = bounds)
           /\ open' = s => open = s /\ bounds' = bounds
  PROVE  Kept'
<1> SUFFICES ASSUME NEW k \in confirmed, k[2] \notin orphans PROVE Covered(k)'
  BY DEF Kept
<1> DEFINE s == k[2]
<1>1. s \in Segments /\ file[s].st = "yes" /\ k \in KeysOf(s, file[s].batches)
      /\ (sidecar[s] # Absent => Within(k[1], sidecar[s]))
      /\ (open = s => bounds # Absent /\ Within(k[1], bounds))
  BY DEF FilesInv, Written, Kept, Covered
<1>2. /\ file'[s].st = "yes" /\ k \in KeysOf(s, file'[s].batches)
      /\ sidecar'[s] = sidecar[s] \/ (s = open /\ sidecar'[s] = bounds)
      /\ open' = s => open = s /\ bounds' = bounds
  BY <1>1
<1>3. k \in KeysOf(s, file[s].batches)'
  BY <1>2 DEF KeysOf, Rows
<1> QED
  BY <1>1, <1>2, <1>3 DEF Covered, Within

LEMMA WriteBegins ==
  ASSUME ArrowAssumption, FilesInv, NEW b \in Batches, NEW c \in Shapes, NEW s \in Segments,
         BeginWrite(b, c, s)
  PROVE  FilesInv'
<1>1. /\ UNCHANGED <<sidecar, open, bounds, confirmed, orphans>> /\ w.pc = "idle"
      /\ s # Absent /\ b \in Seq(Int)
  BY DEF BeginWrite, ArrowAssumption
<1>2. CASE open = Absent
  <2> DEFINE f == [st |-> "part", batches |-> <<>>, tail |-> "ok", shape |-> c]
  <2>1. /\ file[s].st = "none" /\ file' = [file EXCEPT ![s] = f] /\ w' = [pc |-> "rename", batch |-> b]
    BY <1>1, <1>2 DEF BeginWrite, NoFile
  <2>2. f \in FileType /\ f.st = "part" /\ f.batches = <<>>
    BY DEF FileType
  <2> HIDE DEF f
  <2>3. \A x \in Segments : file'[x] = IF x = s THEN f ELSE file[x]
    BY <2>1 DEF FilesInv, Written
  <2>4. Written'
    BY <1>1, <2>1, <2>2 DEF FilesInv, Written
  <2>5. Fresh'
    BY <1>1, <1>2, <2>1, <2>2, <2>3 DEF FilesInv, Fresh
  <2>6. Opened' /\ Holds'
    BY <1>1, <1>2, <2>1 DEF Opened, Holds
  <2>7. Kept'
    <3>1. \A x \in Segments : file[x].st = "yes" => file'[x] = file[x]
      BY <2>1, <2>3
    <3> QED
      BY <1>1, <3>1, KeptStays
  <2> QED
    BY <2>4, <2>5, <2>6, <2>7 DEF FilesInv
<1>3. CASE open = s
  <2>1. file' = file /\ (w' = w \/ w' = [pc |-> "append", batch |-> b])
    BY <1>1, <1>3 DEF BeginWrite
  <2>2. Written' /\ Fresh' /\ Opened'
    BY <1>1, <2>1 DEF FilesInv, Written, Fresh, Opened
  <2>3. Holds'
    BY <1>1, <1>3, <2>1 DEF FilesInv, Holds
  <2>4. Kept'
    BY <1>1, <2>1, KeptStays
  <2> QED
    BY <2>2, <2>3, <2>4 DEF FilesInv
<1> QED
  BY <1>2, <1>3 DEF BeginWrite

LEMMA RenameKeeps ==
  ASSUME ArrowAssumption, FilesInv, NEW s \in Segments, Rename(s)
  PROVE  FilesInv'
<1>1. /\ w.pc = "rename" /\ file[s].st = "part" /\ open' = s /\ bounds' = Absent
      /\ UNCHANGED <<sidecar, confirmed, orphans>> /\ s # Absent
      /\ file' = [file EXCEPT ![s] = [file[s] EXCEPT !.st = "yes"]]
      /\ w' = [w EXCEPT !.pc = "append"]
  BY DEF Rename, ArrowAssumption
<1>2. /\ file \in [Segments -> FileType] /\ w \in [pc : {"idle", "rename", "append", "flush", "sync"}, batch : Seq(Int)]
      /\ w.batch \in Batches /\ sidecar[s] = Absent /\ \A k \in confirmed : k[2] # s
  BY <1>1 DEF FilesInv, Written, Fresh
<1>3. /\ file' \in [Segments -> FileType] /\ file'[s].st = "yes"
      /\ \A x \in Segments : x # s => file'[x] = file[x]
  BY <1>1, <1>2 DEF FileType
<1>4. w' \in [pc : {"idle", "rename", "append", "flush", "sync"}, batch : Seq(Int)] /\ w'.pc = "append" /\ w'.batch = w.batch
  BY <1>1, <1>2
<1>5. Written'
  BY <1>1, <1>2, <1>3, <1>4 DEF FilesInv, Written
<1>6. Fresh' /\ Opened' /\ Holds'
  BY <1>1, <1>2, <1>3, <1>4 DEF FilesInv, Fresh, Opened, Holds
<1>7. Kept'
  <2>1. \A k \in confirmed : k[2] \in Segments /\ k[2] # s /\ (k[2] \in orphans \/ Covered(k))
    BY <1>2 DEF FilesInv, Written, Kept
  <2> SUFFICES ASSUME NEW k \in confirmed, k[2] \notin orphans PROVE Covered(k)'
    BY <1>1 DEF Kept
  <2>2. file'[k[2]] = file[k[2]] /\ open' # k[2] /\ Covered(k)
    BY <1>1, <1>3, <2>1
  <2>3. KeysOf(k[2], file[k[2]].batches)' = KeysOf(k[2], file[k[2]].batches)
    BY <2>2 DEF KeysOf, Rows
  <2> QED
    BY <1>1, <2>2, <2>3 DEF Covered, Within
<1> QED
  BY <1>5, <1>6, <1>7 DEF FilesInv

\* A step that leaves the batches, and what is known of a segment, as they were.
LEMMA TailsOnly ==
  ASSUME ArrowAssumption, FilesInv, UNCHANGED <<sidecar, confirmed, orphans>>,
         file' \in [Segments -> FileType],
         \A s \in Segments : file'[s].batches = file[s].batches
                             /\ (file'[s].st = file[s].st \/ (file[s].st = "part" /\ file'[s].st = "gone")),
         \/ open' = open /\ bounds' = bounds
         \/ open' = Absent /\ bounds' = Absent
  PROVE  Fresh' /\ Opened' /\ Kept'
<1>1. Fresh'
  <2> SUFFICES ASSUME NEW s \in Segments, file'[s].st \in {"none", "part"}
               PROVE  file[s].batches = <<>> /\ sidecar[s] = Absent /\ open # s /\ \A k \in confirmed : k[2] # s
    BY DEF FilesInv, Fresh, Written, ArrowAssumption
  <2> QED
    BY DEF FilesInv, Fresh
<1>2. Opened'
  BY DEF FilesInv, Opened, Written, Fresh
<1>3. Kept'
  <2>1. \A s \in Segments : file[s].st = "yes" =>
          /\ file'[s].st = "yes" /\ KeysOf(s, file'[s].batches) = KeysOf(s, file[s].batches)
          /\ sidecar'[s] = sidecar[s]
          /\ open' = s /\ s # Absent => open = s /\ bounds' = bounds
    OBVIOUS
  <2>2. CASE open' = open /\ bounds' = bounds
    BY <2>1, <2>2, KeptStays
  <2>3. CASE open' = Absent /\ bounds' = Absent
    <3> SUFFICES ASSUME NEW k \in confirmed, k[2] \notin orphans PROVE Covered(k)'
      BY DEF Kept
    <3>1. k[2] \in Segments /\ Covered(k)
      BY DEF FilesInv, Written, Kept
    <3>2. file'[k[2]].batches = file[k[2]].batches /\ file'[k[2]].st = "yes"
      BY <3>1 DEF Covered
    <3>3. KeysOf(k[2], file[k[2]].batches)' = KeysOf(k[2], file[k[2]].batches)
      BY <3>2 DEF KeysOf, Rows
    <3>4. open' # k[2]
      BY <2>3, <3>1 DEF ArrowAssumption
    <3> QED
      BY <3>1, <3>2, <3>3, <3>4 DEF Covered, Within
  <2> QED
    BY <2>2, <2>3
<1> QED
  BY <1>1, <1>2, <1>3

LEMMA IdleKeeps ==
  ASSUME w' = IdleWrite
  PROVE  /\ w' \in [pc : {"idle", "rename", "append", "flush", "sync"}, batch : Seq(Int)]
         /\ w'.pc = "idle" /\ Holds'
<1>1. w' = [pc |-> "idle", batch |-> <<>>]
  BY DEF IdleWrite
<1> QED
  BY <1>1 DEF Holds

LEMMA CreateFailsKeeps ==
  ASSUME ArrowAssumption, FilesInv, CreateFails \/ Crash PROVE FilesInv'
<1>1. /\ file' = [s \in Segments |-> IF file[s].st = "part" THEN [file[s] EXCEPT !.st = "gone"] ELSE file[s]]
      /\ w' = IdleWrite /\ UNCHANGED <<sidecar, confirmed, orphans>>
      /\ \/ open' = open /\ bounds' = bounds
         \/ open' = Absent /\ bounds' = Absent
  BY DEF CreateFails, Crash
<1>2. file \in [Segments -> FileType]
  BY DEF FilesInv, Written
<1>3. ASSUME NEW s \in Segments
      PROVE  /\ file'[s] \in FileType /\ file'[s].batches = file[s].batches
             /\ file'[s].st = file[s].st \/ (file[s].st = "part" /\ file'[s].st = "gone")
  BY <1>1, <1>2 DEF FileType
<1>4. file' \in [Segments -> FileType]
  BY <1>1, <1>3
<1>5. Fresh' /\ Opened' /\ Kept'
  BY <1>1, <1>3, <1>4, TailsOnly
<1>6. Written' /\ Holds'
  BY <1>1, <1>4, IdleKeeps DEF FilesInv, Written
<1> QED
  BY <1>5, <1>6 DEF FilesInv

\* The open segment is the one written to.
LEMMA OpenFile ==
  ASSUME FilesInv, w.pc \in {"append", "flush", "sync"}
  PROVE  /\ open \in Segments /\ open # Absent /\ file[open] \in FileType /\ file \in [Segments -> FileType]
         /\ w.batch \in Batches /\ w.batch \in Seq(Int) /\ file[open].st \in {"yes", "gone"}
         /\ sidecar[open] = Absent
<1>1. open \in Segments /\ open # Absent
  BY DEF FilesInv, Holds, Written
<1>2. file[open].st \notin {"none", "part"}
  BY <1>1 DEF FilesInv, Fresh
<1>3. file[open] \in FileType /\ file \in [Segments -> FileType] /\ w.batch \in Batches /\ w.batch \in Seq(Int)
  BY <1>1 DEF FilesInv, Written
<1>4. file[open].st \in {"yes", "gone"}
  BY <1>2, <1>3 DEF FileType
<1> QED
  BY <1>1, <1>3, <1>4 DEF FilesInv, Opened

LEMMA AppendTornKeeps ==
  ASSUME ArrowAssumption, FilesInv, AppendTorn PROVE FilesInv'
<1>1. /\ w.pc = "append" /\ file' = [file EXCEPT ![open] = [file[open] EXCEPT !.tail = "torn"]]
      /\ w' = [w EXCEPT !.pc = "flush"] /\ UNCHANGED <<sidecar, open, bounds, confirmed, orphans>>
  BY DEF AppendTorn
<1>2. /\ open \in Segments /\ open # Absent /\ file[open] \in FileType /\ file \in [Segments -> FileType]
      /\ w \in [pc : {"idle", "rename", "append", "flush", "sync"}, batch : Seq(Int)] /\ w.batch \in Batches
  BY <1>1, OpenFile DEF FilesInv, Written
<1>3. [file[open] EXCEPT !.tail = "torn"] \in FileType
  BY <1>2 DEF FileType
<1>4. file' \in [Segments -> FileType]
      /\ \A s \in Segments : file'[s].batches = file[s].batches /\ file'[s].st = file[s].st
  BY <1>1, <1>2, <1>3 DEF FileType
<1>5. Fresh' /\ Opened' /\ Kept'
  BY <1>1, <1>4, TailsOnly
<1>6. w' \in [pc : {"idle", "rename", "append", "flush", "sync"}, batch : Seq(Int)] /\ w'.pc = "flush" /\ w'.batch = w.batch
  BY <1>1, <1>2
<1>7. Written' /\ Holds'
  BY <1>1, <1>2, <1>4, <1>6 DEF FilesInv, Written, Holds
<1> QED
  BY <1>5, <1>7 DEF FilesInv

\* The batch is in the file: what was there keeps its numbers.
LEMMA BatchAdded ==
  ASSUME ArrowAssumption, FilesInv, w.pc \in {"append", "flush", "sync"},
         file' = [file EXCEPT ![open] = [file[open] EXCEPT !.tail = "ok", !.batches = Append(file[open].batches, w.batch)]],
         UNCHANGED <<sidecar, confirmed, orphans>>,
         \/ open' = open /\ bounds' = bounds
         \/ open' = Absent /\ bounds' = Absent
  PROVE  /\ Fresh' /\ Opened' /\ Kept' /\ file' \in [Segments -> FileType]
         /\ file'[open].batches = Append(file[open].batches, w.batch) /\ file[open].batches \in Seq(Seq(Int))
<1> DEFINE bs == file[open].batches
           f == [file[open] EXCEPT !.tail = "ok", !.batches = Append(bs, w.batch)]
<1>1. /\ open \in Segments /\ open # Absent /\ file[open] \in FileType /\ file \in [Segments -> FileType]
      /\ w.batch \in Seq(Int) /\ file[open].st \in {"yes", "gone"} /\ bs \in Seq(Seq(Int))
  BY OpenFile DEF FileType
<1>2. Append(bs, w.batch) \in Seq(Seq(Int))
  BY <1>1, AppendProperties
<1>3. f \in FileType /\ f.st = file[open].st /\ f.batches = Append(bs, w.batch)
  BY <1>1, <1>2 DEF FileType
<1> HIDE DEF f
<1>4. file' \in [Segments -> FileType] /\ \A s \in Segments : file'[s] = IF s = open THEN f ELSE file[s]
  BY <1>1, <1>3 DEF f
<1>5. Fresh'
  <2> SUFFICES ASSUME NEW s \in Segments, file'[s].st \in {"none", "part"}
               PROVE  file'[s].batches = <<>> /\ sidecar[s] = Absent /\ open' # s /\ \A k \in confirmed : k[2] # s
    BY DEF Fresh
  <2>1. s # open /\ file'[s] = file[s] /\ s # Absent
    BY <1>1, <1>3, <1>4 DEF ArrowAssumption
  <2> QED
    BY <2>1 DEF FilesInv, Fresh
<1>6. Opened'
  BY <1>1, <1>3, <1>4 DEF FilesInv, Opened
<1>7. KeysOf(open, bs) \subseteq KeysOf(open, Append(bs, w.batch))
  BY <1>1, KeysGrow
<1>8. Kept'
  <2>1. \A s \in Segments : file[s].st = "yes" =>
          /\ file'[s].st = "yes" /\ KeysOf(s, file[s].batches) \subseteq KeysOf(s, file'[s].batches)
    BY <1>3, <1>4, <1>7
  <2>2. \A s \in Segments : open' = s => open = s /\ bounds' = bounds
    BY <1>1 DEF ArrowAssumption
  <2> QED
    BY <2>1, <2>2, KeptStays
<1> QED
  BY <1>1, <1>3, <1>4, <1>5, <1>6, <1>8

LEMMA FlushKeeps == ASSUME ArrowAssumption, FilesInv, Flush PROVE FilesInv'
<1>1. /\ w.pc = "flush" /\ UNCHANGED <<sidecar, open, bounds, confirmed, orphans>>
      /\ file' = [file EXCEPT ![open] = [file[open] EXCEPT !.tail = "ok", !.batches = Append(file[open].batches, w.batch)]]
      /\ w' = [w EXCEPT !.pc = "sync"]
  BY OpenFile DEF Flush, FileType
<1>2. /\ Fresh' /\ Opened' /\ Kept' /\ file' \in [Segments -> FileType]
      /\ file'[open].batches = Append(file[open].batches, w.batch) /\ file[open].batches \in Seq(Seq(Int))
  BY <1>1, BatchAdded
<1>3. w \in [pc : {"idle", "rename", "append", "flush", "sync"}, batch : Seq(Int)] /\ w.batch \in Batches /\ open # Absent
  BY <1>1, OpenFile DEF FilesInv, Written
<1>4. w' \in [pc : {"idle", "rename", "append", "flush", "sync"}, batch : Seq(Int)] /\ w'.pc = "sync" /\ w'.batch = w.batch
  BY <1>1, <1>3
<1>5. Written' /\ Holds'
  BY <1>1, <1>2, <1>3, <1>4 DEF FilesInv, Written, Holds
<1> QED
  BY <1>2, <1>5 DEF FilesInv

LEMMA AppendFailsKeeps ==
  ASSUME ArrowAssumption, FilesInv, NEW how \in {"ok", "torn", "whole"}, AppendFails(how)
  PROVE  FilesInv'
<1>1. /\ w.pc \in {"append", "flush", "sync"} /\ UNCHANGED <<sidecar, confirmed, orphans>>
      /\ open' = Absent /\ bounds' = Absent /\ w' = IdleWrite
  BY DEF AppendFails
<1>2. open \in Segments /\ open # Absent /\ file[open] \in FileType /\ file \in [Segments -> FileType]
  BY <1>1, OpenFile
<1>3. \/ file' = file
      \/ file' = [file EXCEPT ![open] = [file[open] EXCEPT !.tail = "ok", !.batches = Append(file[open].batches, w.batch)]]
      \/ how # "whole" /\ file' = [file EXCEPT ![open] = [file[open] EXCEPT !.tail = how]]
  <2>1. CASE w.pc = "sync"
    BY <2>1 DEF AppendFails
  <2>2. CASE w.pc # "sync" /\ how = "whole"
    <3>1. file' = [file EXCEPT ![open].tail = "ok", ![open].batches = Append(@, w.batch)]
      BY <2>2 DEF AppendFails
    <3> QED
      BY <1>2, <3>1 DEF FileType
  <2>3. CASE w.pc # "sync" /\ how # "whole"
    BY <2>3 DEF AppendFails
  <2> QED
    BY <2>1, <2>2, <2>3
<1>4. Fresh' /\ Opened' /\ Kept' /\ file' \in [Segments -> FileType]
  <2>1. CASE file' = file
    BY <1>1, <1>2, <2>1, TailsOnly
  <2>2. CASE file' = [file EXCEPT ![open] = [file[open] EXCEPT !.tail = "ok", !.batches = Append(file[open].batches, w.batch)]]
    BY <1>1, <2>2, BatchAdded
  <2>3. CASE how # "whole" /\ file' = [file EXCEPT ![open] = [file[open] EXCEPT !.tail = how]]
    <3>1. [file[open] EXCEPT !.tail = how] \in FileType
      BY <1>2, <2>3 DEF FileType
    <3>2. file' \in [Segments -> FileType]
          /\ \A s \in Segments : file'[s].batches = file[s].batches /\ file'[s].st = file[s].st
      BY <1>2, <2>3, <3>1 DEF FileType
    <3> QED
      BY <1>1, <3>2, TailsOnly
  <2> QED
    BY <1>3, <2>1, <2>2, <2>3
<1>5. Written' /\ Holds'
  BY <1>1, <1>4, IdleKeeps DEF FilesInv, Written
<1> QED
  BY <1>4, <1>5 DEF FilesInv

\* The end-of-stream marker of the open segment.
LEMMA MarkerOnly ==
  ASSUME file \in [Segments -> FileType], open \in Segments,
         file' = file \/ file' = [file EXCEPT ![open] = [file[open] EXCEPT !.tail = "eos"]]
  PROVE  /\ file' \in [Segments -> FileType]
         /\ \A s \in Segments : file'[s].batches = file[s].batches /\ file'[s].st = file[s].st
<1> DEFINE f == [file[open] EXCEPT !.tail = "eos"]
<1>1. f \in FileType /\ f.batches = file[open].batches /\ f.st = file[open].st
  BY DEF FileType
<1>2. file' = file \/ file' = [file EXCEPT ![open] = f]
  OBVIOUS
<1> HIDE DEF f
<1> QED
  BY <1>1, <1>2

\* Closing writes the bounds of what was acknowledged, or nothing.
LEMMA FinishKeeps ==
  ASSUME ArrowAssumption, FilesInv, w.pc = "idle", open # Absent, NEW ok \in BOOLEAN,
         Finish(open, ok), UNCHANGED <<w, confirmed, orphans>>
  PROVE  FilesInv'
<1>1. /\ open \in Segments /\ file \in [Segments -> FileType] /\ file[open] \in FileType
      /\ sidecar \in [Segments -> Bounds \cup {Absent}] /\ file[open].st \notin {"none", "part"}
      /\ bounds \in Bounds \cup {Absent}
  BY DEF FilesInv, Written, Fresh
<1>3. file' = file \/ file' = [file EXCEPT ![open] = [file[open] EXCEPT !.tail = "eos"]]
  BY DEF Finish
<1>4. /\ file' \in [Segments -> FileType]
      /\ \A s \in Segments : file'[s].batches = file[s].batches /\ file'[s].st = file[s].st
  BY <1>1, <1>3, MarkerOnly
<1>5. sidecar' = sidecar \/ sidecar' = [sidecar EXCEPT ![open] = bounds]
  BY DEF Finish
<1>6. /\ sidecar' \in [Segments -> Bounds \cup {Absent}]
      /\ \A s \in Segments : sidecar'[s] = sidecar[s] \/ (s = open /\ sidecar'[s] = bounds)
  BY <1>1, <1>5
<1>7. open' = Absent /\ bounds' = Absent /\ \A s \in Segments : s # Absent
  BY DEF Finish, ArrowAssumption
<1>8. Written'
  BY <1>4, <1>6, <1>7 DEF FilesInv, Written
<1>9. Fresh'
  <2> SUFFICES ASSUME NEW s \in Segments, file'[s].st \in {"none", "part"}
               PROVE  file'[s].batches = <<>> /\ sidecar'[s] = Absent /\ open' # s /\ \A k \in confirmed : k[2] # s
    BY DEF Fresh
  <2>1. s # open /\ file[s].st \in {"none", "part"} /\ sidecar'[s] = sidecar[s]
    BY <1>1, <1>4, <1>6
  <2> QED
    BY <1>4, <1>7, <2>1 DEF FilesInv, Fresh
<1>10. Opened' /\ Holds'
  BY <1>7 DEF Opened, Holds
<1>11. Kept'
  BY <1>4, <1>6, <1>7, KeptStays
<1> QED
  BY <1>8, <1>9, <1>10, <1>11 DEF FilesInv

\* What a reader does, or forgetting the indexes, is nothing to the files.
LEMMA FilesStand ==
  ASSUME FilesInv, UNCHANGED <<file, sidecar, open, bounds, w, confirmed, orphans>>
  PROVE  FilesInv'
BY DEF FilesInv, Written, Fresh, Opened, Holds, Kept, Covered, Within, KeysOf, Rows

LEMMA CloseKeeps ==
  ASSUME ArrowAssumption, FilesInv, DropClose \/ \E ok \in BOOLEAN : CloseSegment(ok)
  PROVE  FilesInv'
<1>1. CASE open # Absent
  <2>1. PICK ok \in BOOLEAN : Finish(open, ok)
    BY <1>1 DEF DropClose, CloseSegment
  <2>2. w.pc = "idle" /\ UNCHANGED <<w, confirmed, orphans>>
    BY DEF DropClose, CloseSegment
  <2> QED
    BY <1>1, <2>1, <2>2, FinishKeeps
<1>2. CASE open = Absent
  <2>1. UNCHANGED <<file, sidecar, open, bounds, w, confirmed, orphans>>
    BY <1>2 DEF DropClose, CloseSegment
  <2> QED
    BY <2>1, FilesStand
<1> QED
  BY <1>1, <1>2

LEMMA RemoveDirKeeps == ASSUME ArrowAssumption, FilesInv, RemoveDir PROVE FilesInv'
<1>1. /\ file' = [s \in Segments |-> IF file[s].st \in {"yes", "part"} THEN [file[s] EXCEPT !.st = "gone"] ELSE file[s]]
      /\ sidecar' = [s \in Segments |-> Absent] /\ confirmed' = {} /\ UNCHANGED <<open, bounds, w>>
      /\ open # Absent => open \in orphans'
  BY DEF RemoveDir
<1>2. file \in [Segments -> FileType]
  BY DEF FilesInv, Written
<1>3. ASSUME NEW s \in Segments
      PROVE  /\ file'[s] \in FileType /\ file'[s].batches = file[s].batches
             /\ file'[s].st = file[s].st \/ file'[s].st = "gone"
  BY <1>1, <1>2 DEF FileType
<1>4. file' \in [Segments -> FileType]
  BY <1>1, <1>3
<1>5. Written'
  BY <1>1, <1>4 DEF FilesInv, Written
<1>6. Fresh'
  BY <1>1, <1>3 DEF FilesInv, Fresh
<1>7. Opened' /\ Kept'
  BY <1>1 DEF FilesInv, Written, Opened, Kept
<1>8. Holds'
  BY <1>1, <1>3 DEF FilesInv, Written, Holds
<1> QED
  BY <1>5, <1>6, <1>7, <1>8 DEF FilesInv

LEMMA FrontAppended ==
  ASSUME NEW T, NEW s \in Seq(T), NEW e \in T
  PROVE  Front(Append(s, e)) = s
<1> DEFINE t == Append(s, e)
           f == Front(t)
<1>1. /\ Len(s) \in Nat /\ t \in Seq(T) /\ Len(t) = Len(s) + 1
      /\ \A i \in 1..Len(s) : t[i] = s[i]
  BY LenProperties, AppendProperties
<1> HIDE DEF t
<1>2. f = SubSeq(t, 1, Len(s))
  BY <1>1 DEF Front
<1>3. f \in Seq(T) /\ Len(f) = Len(s) /\ \A i \in 1..Len(s) : f[i] = t[i]
  BY <1>1, <1>2, SubSeqProperties
<1> HIDE DEF f
<1>4. f = s
  BY <1>1, <1>3, SeqEqual
<1> QED
  BY <1>4 DEF f, t

\* The rows of the batch are acknowledged, and the bounds hold them.
LEMMA AcknowledgeKeeps ==
  ASSUME ArrowAssumption, FilesInv, NEW full \in BOOLEAN, NEW ok \in BOOLEAN, Acknowledge(full, ok)
  PROVE  FilesInv'
<1> DEFINE grown == extend_bounds(bounds, w.batch)
           here == file[open].batches
           K == KeysOf(open, here) \ KeysOf(open, Front(here))
<1>1. /\ w.pc = "sync" /\ confirmed' = confirmed \cup K /\ w' = IdleWrite /\ orphans' = orphans
      /\ \/ full /\ file' = IF ok THEN [file EXCEPT ![open] = [file[open] EXCEPT !.tail = "eos"]] ELSE file
         \/ ~full /\ file' = file
      /\ \/ full /\ sidecar' = IF ok /\ file[open].st = "yes" THEN [sidecar EXCEPT ![open] = grown] ELSE sidecar
         \/ ~full /\ sidecar' = sidecar
      /\ \/ full /\ open' = Absent /\ bounds' = Absent
         \/ ~full /\ open' = open /\ bounds' = grown
  BY DEF Acknowledge
<1>2. /\ open \in Segments /\ open # Absent /\ file[open] \in FileType /\ file \in [Segments -> FileType]
      /\ w.batch \in Batches /\ w.batch \in Seq(Int) /\ file[open].st \in {"yes", "gone"}
      /\ sidecar[open] = Absent
  BY <1>1, OpenFile
<1>3. /\ sidecar \in [Segments -> Bounds \cup {Absent}] /\ bounds \in Bounds \cup {Absent} /\ Absent \notin Bounds
      /\ w.batch # <<>> /\ \A s \in Segments : s # Absent
  BY <1>2 DEF FilesInv, Written, ArrowAssumption, Bounds
<1>4. \A k \in K : k[2] = open /\ k[1] \in ToSet(w.batch) /\ k[1] \in Int /\ k \in KeysOf(open, here)
  <2>1. PICK bs \in Seq(Seq(Int)) : here = Append(bs, w.batch)
    BY <1>1 DEF FilesInv, Holds
  <2>2. Front(here) = bs
    BY <1>2, <2>1, FrontAppended
  <2> QED
    BY <1>2, <2>1, <2>2, KeysGrow
<1>5. /\ grown \in Bounds /\ \A t \in ToSet(w.batch) : Within(t, grown)
      /\ bounds # Absent => \A t \in Int : Within(t, bounds) => Within(t, grown)
  BY <1>2, <1>3, BoundsGrow
<1> HIDE DEF grown, K
<1>6. /\ file' \in [Segments -> FileType]
      /\ \A s \in Segments : file'[s].batches = file[s].batches /\ file'[s].st = file[s].st
  BY <1>1, <1>2, MarkerOnly
<1>7. /\ sidecar' \in [Segments -> Bounds \cup {Absent}]
      /\ \A s \in Segments : sidecar'[s] = sidecar[s] \/ (s = open /\ sidecar'[s] = grown /\ open' = Absent)
  BY <1>1, <1>2, <1>3, <1>5
<1>8. \A k \in confirmed' : k[1] \in Int /\ k[2] \in Segments
  BY <1>1, <1>2, <1>4 DEF FilesInv, Written
<1>9. Written' /\ Holds'
  BY <1>1, <1>3, <1>5, <1>6, <1>7, <1>8, IdleKeeps DEF FilesInv, Written
<1>10. Fresh'
  <2> SUFFICES ASSUME NEW s \in Segments, file'[s].st \in {"none", "part"}
               PROVE  file'[s].batches = <<>> /\ sidecar'[s] = Absent /\ open' # s /\ \A k \in confirmed' : k[2] # s
    BY DEF Fresh
  <2>1. s # open /\ file[s].st \in {"none", "part"} /\ sidecar'[s] = sidecar[s]
    BY <1>2, <1>6, <1>7
  <2> QED
    BY <1>1, <1>3, <1>4, <1>6, <2>1 DEF FilesInv, Fresh
<1>11. Opened'
  BY <1>1, <1>2, <1>6, <1>7 DEF FilesInv, Opened
<1>12. Kept'
  <2> SUFFICES ASSUME NEW k \in confirmed', k[2] \notin orphans PROVE Covered(k)'
    BY <1>1 DEF Kept
  <2> DEFINE s == k[2]
  <2>1. /\ s \in Segments /\ file[s].st = "yes" /\ k \in KeysOf(s, file[s].batches)
        /\ sidecar[s] # Absent => Within(k[1], sidecar[s])
        /\ s = open => Within(k[1], grown)
    <3>1. CASE k \in K
      BY <1>2, <1>4, <1>5, <3>1 DEF FilesInv, Opened
    <3>2. CASE k \in confirmed
      <4>1. Covered(k) /\ k[1] \in Int /\ s \in Segments
        BY <3>2 DEF FilesInv, Kept, Written
      <4> QED
        BY <1>5, <4>1 DEF Covered
    <3> QED
      BY <1>1, <3>1, <3>2
  <2>2. file'[s].batches = file[s].batches /\ file'[s].st = "yes"
    BY <1>6, <2>1
  <2>3. KeysOf(s, file[s].batches)' = KeysOf(s, file'[s].batches)
    BY DEF KeysOf, Rows
  <2>4. k \in KeysOf(s, file[s].batches)'
    BY <2>1, <2>2, <2>3
  <2>5. sidecar'[s] # Absent => Within(k[1], sidecar'[s])
    BY <1>7, <2>1
  <2>6. open' = s => bounds' # Absent /\ Within(k[1], bounds')
    BY <1>1, <1>3, <1>5, <2>1
  <2> QED
    BY <2>2, <2>4, <2>5, <2>6 DEF Covered, Within
<1> QED
  BY <1>9, <1>10, <1>11, <1>12 DEF FilesInv

LEMMA FilesKeep == ASSUME ArrowAssumption, FilesInv, [ANext]_avars PROVE FilesInv'
<1>1. ASSUME NEW b \in Batches, NEW c \in Shapes, NEW s \in Segments, BeginWrite(b, c, s) PROVE FilesInv'
  BY <1>1, WriteBegins
<1>2. ASSUME NEW s \in Segments, Rename(s) PROVE FilesInv'
  BY <1>2, RenameKeeps
<1>3. ASSUME CreateFails \/ Crash PROVE FilesInv'
  BY <1>3, CreateFailsKeeps
<1>4. ASSUME AppendTorn \/ Flush \/ RemoveDir PROVE FilesInv'
  BY <1>4, AppendTornKeeps, FlushKeeps, RemoveDirKeeps
<1>5. ASSUME NEW full \in BOOLEAN, NEW ok \in BOOLEAN, Acknowledge(full, ok) PROVE FilesInv'
  BY <1>5, AcknowledgeKeeps
<1>6. ASSUME NEW how \in {"ok", "torn", "whole"}, AppendFails(how) PROVE FilesInv'
  BY <1>6, AppendFailsKeeps
<1>7. ASSUME DropClose \/ \E ok \in BOOLEAN : CloseSegment(ok) PROVE FilesInv'
  BY <1>7, CloseKeeps
<1>8. ASSUME \/ Forget \/ UNCHANGED avars
             \/ \E r \in Readers, q \in Queries : Ask(r, q)
             \/ \E r \in Readers : Metadata(r) \/ Extend(r) \/ Search(r) \/ Scan(r) \/ PageEnd(r)
      PROVE  FilesInv'
  <2>1. UNCHANGED <<file, sidecar, open, bounds, w, confirmed, orphans>>
    BY <1>8 DEF Forget, Ask, Metadata, Extend, Search, Scan,
                PageEnd, avars, wvars
  <2> QED
    BY <2>1, FilesStand
<1> QED
  BY <1>1, <1>2, <1>3, <1>4, <1>5, <1>6, <1>7, <1>8 DEF ANext

\* An acknowledged row is in a listed segment and no sidecar hides it, whatever failed or
\* crashed since, but for a segment made while its directory was being removed (segment.rs,
\* bounds.rs, crud.rs drop_schema): for any batches, segments and faults.
THEOREM AckedVisibleHolds ==
  ASSUME ArrowAssumption
  PROVE  ASpec => []AckedVisible
<1>1. AInit => FilesInv
  BY FilesStart
<1>2. FilesInv /\ [ANext]_avars => FilesInv'
  BY FilesKeep
<1>3. FilesInv => AckedVisible
  BY DEF FilesInv, Kept, Covered, Within, AckedVisible
<1> QED
  BY <1>1, <1>2, <1>3, PTL DEF ASpec

-----------------------------------------------------------------------------
(* Readers: the rows of the first batches of a segment, and its blocks *)

LEMMA Climb ==
  ASSUME NEW a \in Nat, NEW n \in Nat, NEW S, a \in S, \A i \in a..(n - 1) : i \in S => i + 1 \in S
  PROVE  \A i \in a..n : i \in S
<1> DEFINE Bad == {i \in a..n : i \notin S}
<1> SUFFICES ASSUME Bad # {} PROVE FALSE
  OBVIOUS
<1>1. Bad \in SUBSET Nat
  OBVIOUS
<1>2. PICK x \in Bad : \A j \in Bad : x <= j
  <2> HIDE DEF Bad
  <2> QED
    BY <1>1, LeastOf
<1>3. x \in a..n /\ x \notin S /\ x # a
  BY <1>2
<1>4. x - 1 \in a..(n - 1) /\ x - 1 \in a..n /\ x - 1 \notin Bad /\ (x - 1) + 1 = x
  BY <1>2, <1>3
<1> QED
  BY <1>3, <1>4

\* A function by recursion, from what each of its steps is.
Recurs(f, a, G, lo, hi) == f = [i \in lo..hi |-> IF i = lo THEN a ELSE G[<<f[i - 1], i>>]]

LEMMA Recursion ==
  ASSUME NEW T, NEW a, NEW lo \in Nat, NEW hi \in Nat, lo <= hi, <<a, lo>> \in T, NEW G,
         \A i \in (lo + 1)..hi : \A x : <<x, i - 1>> \in T => <<G[<<x, i>>], i>> \in T
  PROVE  \E f : Recurs(f, a, G, lo, hi) /\ \A i \in lo..hi : <<f[i], i>> \in T
<1> DEFINE Reaches(f, m) ==
             /\ f = [i \in lo..m |-> IF i = lo THEN a ELSE G[<<f[i - 1], i>>]]
             /\ \A i \in lo..m : <<f[i], i>> \in T
           S == {m \in lo..hi : \E f : Reaches(f, m)}
<1>1. lo \in S
  <2> DEFINE f == [i \in lo..lo |-> a]
             g == [i \in lo..lo |-> IF i = lo THEN a ELSE G[<<f[i - 1], i>>]]
  <2>1. \A i \in lo..lo : f[i] = g[i] /\ <<f[i], i>> \in T
    OBVIOUS
  <2>2. f = g
    BY <2>1
  <2>3. Reaches(f, lo)
    BY <2>1, <2>2
  <2>4. lo \in lo..hi
    OBVIOUS
  <2> HIDE DEF f, Reaches
  <2> QED
    BY <2>3, <2>4
<1>2. ASSUME NEW m \in lo..(hi - 1), m \in S PROVE m + 1 \in S
  <2>1. PICK f : Reaches(f, m)
    BY <1>2
  <2> DEFINE g == [i \in lo..(m + 1) |-> IF i = m + 1 THEN G[<<f[m], m + 1>>] ELSE f[i]]
             h == [i \in lo..(m + 1) |-> IF i = lo THEN a ELSE G[<<g[i - 1], i>>]]
  <2>2. <<f[m], m>> \in T /\ m + 1 \in (lo + 1)..hi /\ (m + 1) - 1 = m
    BY <2>1
  <2>3. ASSUME NEW i \in lo..(m + 1) PROVE g[i] = h[i] /\ <<g[i], i>> \in T
    <3>1. CASE i = m + 1
      <4>1. g[m] = f[m] /\ i # lo /\ i - 1 = m
        BY <3>1
      <4>2. <<G[<<f[m], m + 1>>], m + 1>> \in T
        BY <2>2
      <4> QED
        BY <3>1, <4>1, <4>2
    <3>2. CASE i # m + 1
      <4>1. i \in lo..m /\ g[i] = f[i] /\ (i # lo => i - 1 \in lo..(m + 1) /\ i - 1 # m + 1)
        BY <3>2
      <4>2. f[i] = (IF i = lo THEN a ELSE G[<<f[i - 1], i>>]) /\ <<f[i], i>> \in T
        BY <2>1, <4>1
      <4> QED
        BY <4>1, <4>2
    <3> QED
      BY <3>1, <3>2
  <2>4. g = h
    BY <2>3
  <2>5. Reaches(g, m + 1)
    BY <2>3, <2>4
  <2> HIDE DEF g, Reaches
  <2> QED
    BY <2>5
<1> HIDE DEF S
<1>3. hi \in S
  BY <1>1, <1>2, Climb
<1> QED
  BY <1>3 DEF S, Recurs

-----------------------------------------------------------------------------

Lists == Seq(Int) \ {<<>>}
Upto(bs, e) == SubSeq(bs, 1, e)
RowsBefore(bs, e) == Len(Rows(Upto(bs, e)))
KeysBefore(s, bs, e) == KeysOf(s, Upto(bs, e))

LEMMA Uptos ==
  ASSUME NEW bs \in Seq(Lists)
  PROVE  /\ bs \in Seq(Seq(Int)) /\ Len(bs) \in Nat /\ Upto(bs, 0) = <<>> /\ Upto(bs, Len(bs)) = bs
         /\ \A i \in 1..Len(bs) : bs[i] \in Lists
         /\ \A e \in 0..Len(bs) : Upto(bs, e) \in Seq(Seq(Int)) /\ Len(Upto(bs, e)) = e
         /\ \A e \in 1..Len(bs) : Upto(bs, e) = Append(Upto(bs, e - 1), bs[e])
<1>1. Lists \subseteq Seq(Int)
  BY DEF Lists
<1>2. bs \in Seq(Seq(Int)) /\ Len(bs) \in Nat /\ \A i \in 1..Len(bs) : bs[i] \in Lists
  BY <1>1, LenProperties, ElementOfSeq
<1>3. ASSUME NEW e \in 0..Len(bs)
      PROVE  /\ Upto(bs, e) \in Seq(Seq(Int)) /\ Len(Upto(bs, e)) = e
             /\ \A i \in 1..e : Upto(bs, e)[i] = bs[i]
  BY <1>2, SubSeqProperties DEF Upto
<1>4. Upto(bs, 0) = <<>>
  BY <1>2, <1>3, EmptySeq
<1>5. Upto(bs, Len(bs)) = bs
  <2> DEFINE u == Upto(bs, Len(bs))
  <2>1. Len(bs) \in 0..Len(bs)
    BY <1>2
  <2>2. u \in Seq(Seq(Int)) /\ Len(u) = Len(bs) /\ \A i \in 1..Len(bs) : u[i] = bs[i]
    BY <1>3, <2>1
  <2> HIDE DEF u
  <2>3. u = bs
    BY <1>2, <2>2, SeqEqual
  <2> QED
    BY <2>3 DEF u
<1>6. ASSUME NEW e \in 1..Len(bs) PROVE Upto(bs, e) = Append(Upto(bs, e - 1), bs[e])
  <2> DEFINE u == Upto(bs, e)
             v == Upto(bs, e - 1)
             x == Append(v, bs[e])
  <2>1. /\ e \in 0..Len(bs) /\ e - 1 \in 0..Len(bs) /\ bs[e] \in Seq(Int)
    BY <1>1, <1>2
  <2>2. /\ u \in Seq(Seq(Int)) /\ Len(u) = e /\ v \in Seq(Seq(Int)) /\ Len(v) = e - 1
        /\ (\A i \in 1..e : u[i] = bs[i]) /\ \A i \in 1..(e - 1) : v[i] = bs[i]
    BY <1>3, <2>1
  <2> HIDE DEF u, v
  <2>3. x \in Seq(Seq(Int)) /\ Len(x) = e /\ x[e] = bs[e] /\ \A i \in 1..(e - 1) : x[i] = v[i]
    BY <2>1, <2>2, AppendProperties
  <2> HIDE DEF x
  <2>4. ASSUME NEW i \in 1..e PROVE u[i] = x[i]
    <3>1. i = e \/ i \in 1..(e - 1)
      BY <1>2
    <3> QED
      BY <1>2, <2>2, <2>3, <3>1
  <2>5. u = x
    BY <2>2, <2>3, <2>4, SeqEqual
  <2> QED
    BY <2>5 DEF u, v, x
<1> QED
  BY <1>2, <1>3, <1>4, <1>5, <1>6

\* A batch more leaves the beginning as it was.
LEMMA UptoGrown ==
  ASSUME NEW bs \in Seq(Lists), NEW b \in Lists, NEW e \in 0..Len(bs)
  PROVE  Upto(Append(bs, b), e) = Upto(bs, e)
<1> DEFINE cs == Append(bs, b)
           u == Upto(bs, e)
           v == Upto(cs, e)
<1>1. Len(bs) \in Nat /\ cs \in Seq(Lists) /\ Len(cs) = Len(bs) + 1 /\ \A i \in 1..Len(bs) : cs[i] = bs[i]
  BY LenProperties, AppendProperties
<1> HIDE DEF cs
<1>2. u \in Seq(Lists) /\ Len(u) = e /\ \A i \in 1..e : u[i] = bs[i]
  BY <1>1, SubSeqProperties DEF Upto
<1>3. v \in Seq(Lists) /\ Len(v) = e /\ \A i \in 1..e : v[i] = cs[i]
  BY <1>1, SubSeqProperties DEF Upto
<1> HIDE DEF u, v
<1>4. \A i \in 1..e : u[i] = v[i]
  BY <1>1, <1>2, <1>3
<1>5. u = v
  BY <1>2, <1>3, <1>4, SeqEqual
<1> QED
  BY <1>5 DEF u, v, cs

\* The rows of a batch are numbered from the rows before it.
Fresher(s, bs, e) == {<<bs[e][i], s, RowsBefore(bs, e - 1) + i - 1>> : i \in 1..Len(bs[e])}

LEMMA KeysOfRows ==
  ASSUME NEW cs \in Seq(Seq(Int)), NEW s
  PROVE  /\ Rows(cs) \in Seq(Int) /\ Len(Rows(cs)) \in Nat
         /\ KeysOf(s, cs) = {<<Rows(cs)[i], s, i - 1>> : i \in 1..Len(Rows(cs))}
<1>1. <<>> \in Seq(Int)
  BY EmptySeq
<1>2. Rows(cs) \in Seq(Int)
  BY <1>1, RowsOf
<1>3. Len(Rows(cs)) \in Nat /\ DOMAIN Rows(cs) = 1..Len(Rows(cs))
  BY <1>2, LenProperties
<1> QED
  BY <1>2, <1>3 DEF KeysOf

LEMMA NothingBefore ==
  ASSUME NEW bs \in Seq(Lists), NEW s
  PROVE  RowsBefore(bs, 0) = 0 /\ KeysBefore(s, bs, 0) = {}
<1>1. Rows(Upto(bs, 0)) = <<>>
  BY Uptos DEF Rows, FlattenSeq
<1> QED
  BY <1>1 DEF RowsBefore, KeysBefore, KeysOf

LEMMA BatchBefore ==
  ASSUME NEW bs \in Seq(Lists), NEW e \in 1..Len(bs), NEW s
  PROVE  /\ RowsBefore(bs, e - 1) \in Nat /\ bs[e] \in Lists /\ Len(bs[e]) \in Nat /\ Len(bs[e]) > 0
         /\ RowsBefore(bs, e) = RowsBefore(bs, e - 1) + Len(bs[e])
         /\ KeysBefore(s, bs, e) = KeysBefore(s, bs, e - 1) \cup Fresher(s, bs, e)
<1> DEFINE r == Rows(Upto(bs, e - 1))
           b == bs[e]
           t == Rows(Upto(bs, e))
<1>1. /\ Upto(bs, e) = Append(Upto(bs, e - 1), b) /\ b \in Lists /\ e - 1 \in 0..Len(bs) /\ e \in 0..Len(bs)
      /\ Upto(bs, e - 1) \in Seq(Seq(Int)) /\ Upto(bs, e) \in Seq(Seq(Int))
  <2>1. Len(bs) \in Nat
    BY LenProperties
  <2>2. e - 1 \in 0..Len(bs) /\ e \in 0..Len(bs)
    BY <2>1
  <2> HIDE DEF b
  <2>3. /\ Upto(bs, e) = Append(Upto(bs, e - 1), bs[e]) /\ bs[e] \in Lists
        /\ Upto(bs, e - 1) \in Seq(Seq(Int)) /\ Upto(bs, e) \in Seq(Seq(Int))
    BY <2>2, Uptos, Zenon
  <2> QED
    BY <2>2, <2>3 DEF b
<1>2. b \in Seq(Int) /\ b # <<>>
  BY <1>1 DEF Lists
<1>3. r \in Seq(Int) /\ t = r \o b
  BY <1>1, <1>2, RowsOf
<1>4. /\ KeysBefore(s, bs, e - 1) = {<<r[i], s, i - 1>> : i \in 1..Len(r)}
      /\ KeysBefore(s, bs, e) = {<<t[i], s, i - 1>> : i \in 1..Len(t)}
      /\ RowsBefore(bs, e - 1) = Len(r) /\ RowsBefore(bs, e) = Len(t)
  BY <1>1, KeysOfRows DEF KeysBefore, RowsBefore
<1> HIDE DEF r, t, b
<1>5. Len(r) \in Nat /\ Len(b) \in Nat /\ Len(b) > 0
  BY <1>2, <1>3, LenProperties, EmptySeq
<1>6. /\ Len(t) = Len(r) + Len(b)
      /\ \A i \in 1..(Len(r) + Len(b)) : t[i] = IF i <= Len(r) THEN r[i] ELSE b[i - Len(r)]
  BY <1>2, <1>3, ConcatProperties
<1>7. Fresher(s, bs, e) = {<<b[i], s, Len(r) + i - 1>> : i \in 1..Len(b)}
  BY <1>4 DEF Fresher, b
<1>8. ASSUME NEW k \in KeysBefore(s, bs, e) PROVE k \in KeysBefore(s, bs, e - 1) \cup Fresher(s, bs, e)
  <2>1. PICK i \in 1..Len(t) : k = <<t[i], s, i - 1>>
    BY <1>4
  <2>2. CASE i <= Len(r)
    BY <1>4, <1>5, <1>6, <2>1, <2>2
  <2>3. CASE ~(i <= Len(r))
    <3>1. i - Len(r) \in 1..Len(b) /\ t[i] = b[i - Len(r)] /\ Len(r) + (i - Len(r)) - 1 = i - 1
      BY <1>5, <1>6, <2>3
    <3> QED
      BY <1>7, <2>1, <3>1
  <2> QED
    BY <2>2, <2>3
<1>9. ASSUME NEW k \in KeysBefore(s, bs, e - 1) PROVE k \in KeysBefore(s, bs, e)
  <2>1. PICK i \in 1..Len(r) : k = <<r[i], s, i - 1>>
    BY <1>4
  <2>2. i \in 1..Len(t) /\ t[i] = r[i]
    BY <1>5, <1>6
  <2> QED
    BY <1>4, <2>1, <2>2
<1>10. ASSUME NEW k \in Fresher(s, bs, e) PROVE k \in KeysBefore(s, bs, e)
  <2>1. PICK i \in 1..Len(b) : k = <<b[i], s, Len(r) + i - 1>>
    BY <1>7
  <2> DEFINE j == Len(r) + i
  <2>2. j \in 1..Len(t) /\ ~(j <= Len(r)) /\ j - Len(r) = i /\ j \in 1..(Len(r) + Len(b))
    BY <1>5, <1>6
  <2>3. t[j] = b[i] /\ k = <<b[i], s, j - 1>>
    BY <1>6, <2>1, <2>2
  <2> QED
    BY <1>4, <2>2, <2>3
<1> QED
  BY <1>1, <1>4, <1>5, <1>6, <1>8, <1>9, <1>10 DEF b

\* Rows are numbered through the segment: those of its first batches are the first numbers.
LEMMA RowsClimb ==
  ASSUME NEW bs \in Seq(Lists), NEW a \in 0..Len(bs), NEW e \in a..Len(bs), NEW s
  PROVE  /\ RowsBefore(bs, a) \in Nat /\ RowsBefore(bs, e) \in Nat
         /\ RowsBefore(bs, a) <= RowsBefore(bs, e)
         /\ a < e => RowsBefore(bs, a) < RowsBefore(bs, e)
         /\ KeysBefore(s, bs, a) \subseteq KeysBefore(s, bs, e)
         /\ \A k \in KeysBefore(s, bs, e) :
              /\ k \in Int \X {s} \X Nat /\ k[3] < RowsBefore(bs, e)
              /\ k \in KeysBefore(s, bs, a) <=> k[3] < RowsBefore(bs, a)
<1>1. Len(bs) \in Nat
  BY LenProperties
<1>2. ASSUME NEW x \in 0..Len(bs)
      PROVE  /\ RowsBefore(bs, x) \in Nat
             /\ \A k \in KeysBefore(s, bs, x) : k \in Int \X {s} \X Nat /\ k[3] < RowsBefore(bs, x)
  <2> DEFINE r == Rows(Upto(bs, x))
  <2>1. /\ r \in Seq(Int) /\ Len(r) \in Nat /\ RowsBefore(bs, x) = Len(r)
        /\ KeysBefore(s, bs, x) = {<<r[i], s, i - 1>> : i \in 1..Len(r)}
    BY Uptos, KeysOfRows DEF KeysBefore, RowsBefore
  <2> HIDE DEF r
  <2>2. \A i \in 1..Len(r) : r[i] \in Int
    BY <2>1, ElementOfSeq
  <2> QED
    BY <2>1, <2>2
<1> DEFINE Good(x) == /\ RowsBefore(bs, a) <= RowsBefore(bs, x) /\ (a < x => RowsBefore(bs, a) < RowsBefore(bs, x))
                      /\ KeysBefore(s, bs, a) \subseteq KeysBefore(s, bs, x)
                      /\ \A k \in KeysBefore(s, bs, x) : k \in KeysBefore(s, bs, a) \/ k[3] >= RowsBefore(bs, a)
           S == {x \in a..Len(bs) : Good(x)}
<1>3. a \in S
  BY <1>1, <1>2
<1>4. ASSUME NEW x \in a..(Len(bs) - 1), x \in S PROVE x + 1 \in S
  <2>1. x + 1 \in 1..Len(bs) /\ (x + 1) - 1 = x /\ x \in 0..Len(bs) /\ x + 1 \in a..Len(bs)
    BY <1>1
  <2>2. /\ RowsBefore(bs, x) \in Nat /\ Len(bs[x + 1]) \in Nat /\ Len(bs[x + 1]) > 0
        /\ RowsBefore(bs, x + 1) = RowsBefore(bs, x) + Len(bs[x + 1])
        /\ KeysBefore(s, bs, x + 1) = KeysBefore(s, bs, x) \cup Fresher(s, bs, x + 1)
    BY <2>1, BatchBefore
  <2>3. Good(x) /\ RowsBefore(bs, a) \in Nat
    BY <1>2, <1>4
  <2>4. \A k \in Fresher(s, bs, x + 1) : k[3] >= RowsBefore(bs, x)
    <3> SUFFICES ASSUME NEW k \in Fresher(s, bs, x + 1) PROVE k[3] >= RowsBefore(bs, x)
      OBVIOUS
    <3>1. PICK i \in 1..Len(bs[x + 1]) : k = <<bs[x + 1][i], s, RowsBefore(bs, x) + i - 1>>
      BY <2>1 DEF Fresher
    <3>2. k[3] = RowsBefore(bs, x) + i - 1
      BY <3>1
    <3> QED
      BY <2>2, <3>2
  <2>5. \A k \in Fresher(s, bs, x + 1) : k[3] >= RowsBefore(bs, a)
    <3>1. \A k \in Fresher(s, bs, x + 1) : k \in KeysBefore(s, bs, x + 1)
      BY <2>2
    <3>2. \A k \in Fresher(s, bs, x + 1) : k[3] \in Nat
      BY <1>2, <2>1, <3>1
    <3> QED
      BY <2>2, <2>3, <2>4, <3>2
  <2>6. Good(x + 1)
    BY <2>2, <2>3, <2>5
  <2> HIDE DEF Good
  <2> QED
    BY <2>1, <2>6
<1> HIDE DEF S
<1>5. e \in S
  <2>1. a \in Nat /\ Len(bs) \in Nat
    BY <1>1
  <2>2. \A x \in a..(Len(bs) - 1) : x \in S => x + 1 \in S
    BY <1>4
  <2>3. \A x \in a..Len(bs) : x \in S
    BY <1>3, <2>1, <2>2, Climb, Zenon
  <2> QED
    BY <2>3
<1>6. Good(e)
  BY <1>5 DEF S
<1> HIDE DEF S
<1>7. a \in 0..Len(bs) /\ e \in 0..Len(bs)
  BY <1>1
<1>8. ASSUME NEW k \in KeysBefore(s, bs, e) PROVE k \in KeysBefore(s, bs, a) <=> k[3] < RowsBefore(bs, a)
  <2>1. k[3] \in Nat /\ RowsBefore(bs, a) \in Nat
    BY <1>2, <1>7
  <2> QED
    BY <1>2, <1>6, <1>7, <2>1
<1> QED
  BY <1>2, <1>6, <1>7, <1>8

\* The rows of the batches between two places.
Between(bs, a, e) == Rows(SubSeq(bs, a + 1, e))
KeysBetween(s, bs, a, e) == KeysBefore(s, bs, e) \ KeysBefore(s, bs, a)

LEMMA RowsJoined ==
  ASSUME NEW r \in Seq(Int), NEW q \in Seq(Int), NEW b \in Seq(Int)
  PROVE  (r \o q) \o b = r \o (q \o b)
BY ConcatAssociative

LEMMA RowsBetween ==
  ASSUME NEW bs \in Seq(Lists), NEW a \in 0..Len(bs), NEW e \in a..Len(bs)
  PROVE  /\ Between(bs, a, e) \in Seq(Int) /\ Rows(Upto(bs, a)) \in Seq(Int)
         /\ Rows(Upto(bs, e)) = Rows(Upto(bs, a)) \o Between(bs, a, e)
<1> DEFINE m(x) == SubSeq(bs, a + 1, x)
           r == Rows(Upto(bs, a))
           Good(x) == /\ m(x) \in Seq(Seq(Int))
                      /\ Rows(Upto(bs, x)) = r \o Rows(m(x))
           S == {x \in a..Len(bs) : Good(x)}
<1>1. Len(bs) \in Nat /\ bs \in Seq(Seq(Int)) /\ a \in Nat /\ a <= Len(bs)
  BY LenProperties, Uptos
<1>2. \A x \in 0..Len(bs) : Upto(bs, x) \in Seq(Seq(Int))
  BY Uptos
<1>3. r \in Seq(Int)
  BY <1>2, KeysOfRows
<1>4. \A x \in a..Len(bs) : m(x) \in Seq(Seq(Int)) /\ (x > a => Len(m(x)) = x - a /\ \A i \in 1..(x - a) : m(x)[i] = bs[a + i])
  <2> SUFFICES ASSUME NEW x \in a..Len(bs)
               PROVE  m(x) \in Seq(Seq(Int)) /\ (x > a => Len(m(x)) = x - a /\ \A i \in 1..(x - a) : m(x)[i] = bs[a + i])
    OBVIOUS
  <2>1. \A i \in (a + 1)..x : bs[i] \in Seq(Int)
    BY <1>1, ElementOfSeq
  <2>2. a + 1 \in Int /\ x \in Int
    BY <1>1
  <2>3. /\ m(x) \in Seq(Seq(Int)) /\ Len(m(x)) = IF a + 1 <= x THEN x - (a + 1) + 1 ELSE 0
        /\ \A i \in 1..(x - (a + 1) + 1) : m(x)[i] = bs[a + 1 + i - 1]
    BY <2>1, <2>2, SubSeqProperties
  <2> HIDE DEF m
  <2> QED
    BY <1>1, <2>3
<1>5. a \in S
  <2>1. m(a) = <<>>
    BY <1>1, SubSeqEmpty
  <2>2. Rows(<<>>) = <<>>
    BY DEF Rows, FlattenSeq
  <2>3. r \o <<>> = r
    BY <1>3, ConcatEmptySeq
  <2>4. <<>> \in Seq(Seq(Int))
    BY EmptySeq
  <2>5. m(a) \in Seq(Seq(Int)) /\ Rows(Upto(bs, a)) = r \o Rows(m(a))
    BY <2>1, <2>2, <2>3, <2>4
  <2>6. a \in a..Len(bs)
    BY <1>1
  <2> QED
    BY <2>5, <2>6
<1>6. \A x \in a..(Len(bs) - 1) : x \in S => x + 1 \in S
  <2> SUFFICES ASSUME NEW x \in a..(Len(bs) - 1), x \in S PROVE x + 1 \in S
    OBVIOUS
  <2>1. x + 1 \in a..Len(bs) /\ x + 1 \in 1..Len(bs) /\ x \in 0..Len(bs) /\ (x + 1) - 1 = x /\ x \in a..Len(bs)
    BY <1>1
  <2>2. bs[x + 1] \in Seq(Int) /\ Upto(bs, x + 1) = Append(Upto(bs, x), bs[x + 1])
    BY <1>1, <2>1, Uptos, ElementOfSeq
  <2>3. Rows(Upto(bs, x + 1)) = Rows(Upto(bs, x)) \o bs[x + 1]
    BY <1>2, <2>1, <2>2, RowsOf
  <2>4. m(x + 1) = Append(m(x), bs[x + 1])
    <3> DEFINE u == m(x)
               v == m(x + 1)
               c == Append(u, bs[x + 1])
    <3>1. u \in Seq(Seq(Int)) /\ v \in Seq(Seq(Int)) /\ c \in Seq(Seq(Int))
      BY <1>4, <2>1, <2>2, AppendProperties
    <3>2. Len(u) = x - a /\ \A i \in 1..(x - a) : u[i] = bs[a + i]
      <4>1. CASE x > a
        BY <1>4, <2>1, <4>1
      <4>2. CASE x = a
        <5>1. u = <<>>
          BY <1>1, <4>2, SubSeqEmpty
        <5> QED
          BY <4>2, <5>1
      <4> QED
        BY <4>1, <4>2
    <3>3. Len(v) = x + 1 - a /\ \A i \in 1..(x + 1 - a) : v[i] = bs[a + i]
      <4>1. x + 1 > a
        BY <1>1
      <4> QED
        BY <1>4, <2>1, <4>1
    <3> HIDE DEF u, v
    <3>4. Len(c) = Len(u) + 1 /\ c[Len(u) + 1] = bs[x + 1] /\ \A i \in 1..Len(u) : c[i] = u[i]
      BY <2>2, <3>1, AppendProperties
    <3> HIDE DEF c
    <3>5. Len(c) = Len(v) /\ \A i \in 1..Len(v) : c[i] = v[i]
      <4>1. Len(c) = Len(v) /\ Len(v) = x + 1 - a /\ x \in Int /\ a \in Int /\ x >= a
        BY <1>1, <3>2, <3>3, <3>4
      <4>2. ASSUME NEW i \in 1..Len(v) PROVE c[i] = v[i]
        <5>1. v[i] = bs[a + i] /\ (i \in 1..(x - a) \/ i = x - a + 1)
          BY <3>3, <4>1
        <5>2. CASE i \in 1..(x - a)
          BY <3>2, <3>4, <5>1, <5>2
        <5>3. CASE i = x - a + 1
          <6>1. a + i = x + 1 /\ i = Len(u) + 1
            BY <3>2, <4>1, <5>3
          <6> QED
            BY <3>4, <5>1, <6>1
        <5> QED
          BY <5>1, <5>2, <5>3
      <4> QED
        BY <4>1, <4>2
    <3>6. v = c
      BY <3>1, <3>5, SeqEqual
    <3> QED
      BY <3>6 DEF u, v, c
  <2>5. m(x) \in Seq(Seq(Int)) /\ m(x + 1) \in Seq(Seq(Int)) /\ Rows(Upto(bs, x)) = r \o Rows(m(x))
    BY <1>4, <2>1
  <2> HIDE DEF m, r
  <2>6. Rows(m(x)) \in Seq(Int) /\ Rows(m(x + 1)) = Rows(m(x)) \o bs[x + 1]
    BY <2>2, <2>4, <2>5, RowsOf
  <2>7. Rows(Upto(bs, x + 1)) = r \o Rows(m(x + 1))
    <3> DEFINE q == Rows(m(x))
               b == bs[x + 1]
    <3>1. q \in Seq(Int) /\ b \in Seq(Int) /\ r \in Seq(Int)
      BY <1>3, <2>2, <2>6
    <3> HIDE DEF q, b
    <3>2. (r \o q) \o b = r \o (q \o b)
      BY <3>1, RowsJoined
    <3> QED
      BY <2>3, <2>5, <2>6, <3>2 DEF q, b
  <2> QED
    BY <2>1, <2>5, <2>7
<1>7. e \in S
  <2> HIDE DEF S
  <2>1. \A x \in a..Len(bs) : x \in S
    BY <1>1, <1>5, <1>6, Climb, Zenon
  <2> QED
    BY <2>1
<1>8. m(e) \in Seq(Seq(Int)) /\ Rows(Upto(bs, e)) = r \o Rows(m(e))
  BY <1>7
<1>9. Rows(m(e)) \in Seq(Int)
  <2> HIDE DEF m
  <2> QED
    BY <1>8, KeysOfRows
<1> QED
  BY <1>3, <1>8, <1>9 DEF Between

\* They are numbered from the rows before them.
LEMMA KeysAreBetween ==
  ASSUME NEW bs \in Seq(Lists), NEW a \in 0..Len(bs), NEW e \in a..Len(bs), NEW s
  PROVE  /\ KeysBetween(s, bs, a, e) = {<<Between(bs, a, e)[i], s, RowsBefore(bs, a) + i - 1>> : i \in DOMAIN Between(bs, a, e)}
         /\ RowsBefore(bs, a) \in Nat /\ RowsBefore(bs, e) \in Nat /\ RowsBefore(bs, a) <= RowsBefore(bs, e)
         /\ a < e => RowsBefore(bs, a) < RowsBefore(bs, e)
         /\ \A k \in KeysBetween(s, bs, a, e) :
              k \in Int \X {s} \X Nat /\ RowsBefore(bs, a) <= k[3] /\ k[3] < RowsBefore(bs, e)
         /\ IsFiniteSet(KeysBetween(s, bs, a, e))
         /\ Cardinality(KeysBetween(s, bs, a, e)) = RowsBefore(bs, e) - RowsBefore(bs, a)
<1> DEFINE r == Rows(Upto(bs, a))
           m == Between(bs, a, e)
           t == Rows(Upto(bs, e))
           K == KeysBetween(s, bs, a, e)
           p == RowsBefore(bs, a)
           f == [i \in 1..Len(m) |-> <<m[i], s, p + i - 1>>]
<1>1. /\ m \in Seq(Int) /\ r \in Seq(Int) /\ t = r \o m
  BY RowsBetween
<1>2. Len(bs) \in Nat /\ a \in 0..Len(bs) /\ e \in 0..Len(bs)
  BY LenProperties
<1>3. Upto(bs, a) \in Seq(Seq(Int)) /\ Upto(bs, e) \in Seq(Seq(Int))
  BY <1>2, Uptos
<1>4. /\ KeysBefore(s, bs, a) = {<<r[i], s, i - 1>> : i \in 1..Len(r)}
      /\ KeysBefore(s, bs, e) = {<<t[i], s, i - 1>> : i \in 1..Len(t)}
      /\ p = Len(r) /\ RowsBefore(bs, e) = Len(t)
  BY <1>3, KeysOfRows DEF KeysBefore, RowsBefore
<1> HIDE DEF r, m, t, p
<1>5. Len(r) \in Nat /\ Len(m) \in Nat /\ DOMAIN m = 1..Len(m) /\ Len(t) = Len(r) + Len(m)
      /\ (\A i \in 1..Len(m) : m[i] \in Int) /\ (\A i \in 1..Len(r) : r[i] \in Int)
      /\ \A i \in 1..(Len(r) + Len(m)) : t[i] = IF i <= Len(r) THEN r[i] ELSE m[i - Len(r)]
  BY <1>1, LenProperties, ElementOfSeq, ConcatProperties
<1>6. ASSUME NEW i \in 1..Len(m) PROVE f[i] \in K /\ f[i] \in Int \X {s} \X Nat /\ p <= f[i][3] /\ f[i][3] < Len(t)
  <2> DEFINE j == Len(r) + i
  <2>1. j \in 1..Len(t) /\ ~(j <= Len(r)) /\ j - Len(r) = i /\ j \in 1..(Len(r) + Len(m)) /\ p + i - 1 = j - 1
        /\ j - 1 \in Nat
    BY <1>4, <1>5
  <2>2. t[j] = m[i] /\ f[i] = <<m[i], s, j - 1>> /\ m[i] \in Int
    BY <1>5, <2>1
  <2>3. f[i] \in KeysBefore(s, bs, e)
    BY <1>4, <2>1, <2>2
  <2>4. f[i] \notin KeysBefore(s, bs, a)
    BY <1>4, <1>5, <2>1, <2>2
  <2>5. f[i] \in K
    BY <2>3, <2>4 DEF KeysBetween
  <2> HIDE DEF f, K
  <2>6. f[i] \in Int \X {s} \X Nat /\ f[i][3] = j - 1
    BY <2>1, <2>2
  <2>7. p <= j - 1 /\ j - 1 < Len(t)
    BY <1>4, <2>1
  <2> QED
    BY <2>5, <2>6, <2>7
<1>7. ASSUME NEW k \in K PROVE \E i \in 1..Len(m) : k = f[i]
  <2>1. PICK j \in 1..Len(t) : k = <<t[j], s, j - 1>>
    BY <1>4 DEF KeysBetween
  <2>2. ~(j <= Len(r))
    BY <1>4, <1>5, <2>1 DEF KeysBetween
  <2> DEFINE i == j - Len(r)
  <2>3. i \in 1..Len(m) /\ t[j] = m[i] /\ p + i - 1 = j - 1
    BY <1>4, <1>5, <2>2
  <2>4. f[i] = k
    BY <2>1, <2>3
  <2> QED
    BY <2>3, <2>4
<1>8. \A i, j \in 1..Len(m) : f[i] = f[j] => i = j
  BY <1>4, <1>5
<1>9. K = {<<m[i], s, p + i - 1>> : i \in DOMAIN m}
  BY <1>5, <1>6, <1>7
<1>10. f \in Bijection(1..Len(m), K)
  <2>1. f \in [1..Len(m) -> K]
    BY <1>6
  <2>2. \A k \in K : \E i \in 1..Len(m) : f[i] = k
    BY <1>7
  <2> HIDE DEF f, K
  <2> QED
    BY <1>8, <2>1, <2>2 DEF Bijection, Injection, Surjection, IsInjective
<1>11. IsFiniteSet(K) /\ Cardinality(K) = Len(m)
  <2> HIDE DEF f, K
  <2>1. IsFiniteSet(1..Len(m)) /\ Cardinality(1..Len(m)) = Len(m)
    <3>1. 1 \in Int /\ Len(m) \in Int
      BY <1>5
    <3>2. IsFiniteSet(1..Len(m)) /\ Cardinality(1..Len(m)) = IF 1 > Len(m) THEN 0 ELSE Len(m) - 1 + 1
      BY <3>1, FS_Interval
    <3> QED
      BY <1>5, <3>2
  <2> QED
    BY <1>10, <2>1, FS_Bijection DEF ExistsBijection
<1>12. a < e => p < RowsBefore(bs, e)
  <2>1. a \in 0..Len(bs) /\ e \in a..Len(bs)
    OBVIOUS
  <2> QED
    BY <2>1, RowsClimb DEF p
<1>13. \A k \in K : k \in Int \X {s} \X Nat /\ p <= k[3] /\ k[3] < Len(t)
  BY <1>6, <1>7
<1>14. /\ RowsBefore(bs, a) \in Nat /\ RowsBefore(bs, e) \in Nat /\ RowsBefore(bs, a) <= RowsBefore(bs, e)
       /\ Len(m) = RowsBefore(bs, e) - RowsBefore(bs, a)
  BY <1>4, <1>5 DEF p
<1> HIDE DEF K
<1>15. /\ IsFiniteSet(K) /\ Cardinality(K) = RowsBefore(bs, e) - RowsBefore(bs, a)
       /\ \A k \in K : k \in Int \X {s} \X Nat /\ RowsBefore(bs, a) <= k[3] /\ k[3] < RowsBefore(bs, e)
  BY <1>4, <1>11, <1>13, <1>14 DEF p
<1>16. a < e => RowsBefore(bs, a) < RowsBefore(bs, e)
  BY <1>12 DEF p
<1> QED
  BY <1>9, <1>14, <1>15, <1>16 DEF K, m, p

-----------------------------------------------------------------------------
(* The index of a segment: blocks of batches, one behind the other *)

Block == [offset : Nat, end : Nat, first : Nat, rows : Nat, min : Int, max : Int]
IsBlock(s, bs, b) ==
  /\ b \in Block /\ b.offset <= b.end /\ b.end <= Len(bs)
  /\ b.first = RowsBefore(bs, b.offset) /\ b.first + b.rows = RowsBefore(bs, b.end)
  /\ \A k \in KeysBetween(s, bs, b.offset, b.end) : Within(k[1], b)
EndOf(blocks) == IF blocks = <<>> THEN 0 ELSE blocks[Len(blocks)].end
Tiled(s, bs, blocks) ==
  /\ blocks \in Seq(Block)
  /\ \A i \in 1..Len(blocks) : /\ IsBlock(s, bs, blocks[i])
                               /\ blocks[i].offset = IF i = 1 THEN 0 ELSE blocks[i - 1].end
IsIndex(s, bs, x) ==
  /\ x \in [blocks : Seq(Block), seen : Nat, indexed : Nat]
  /\ Tiled(s, bs, x.blocks) /\ x.indexed = EndOf(x.blocks)

LEMMA IndexGrows ==
  ASSUME NEW bs \in Seq(Lists), NEW b \in Lists, NEW s, NEW x, IsIndex(s, bs, x)
  PROVE  IsIndex(s, Append(bs, b), x)
<1> DEFINE cs == Append(bs, b)
<1>1. Len(cs) = Len(bs) + 1 /\ Len(bs) \in Nat
  BY LenProperties, AppendProperties
<1>2. ASSUME NEW e \in 0..Len(bs)
      PROVE  RowsBefore(cs, e) = RowsBefore(bs, e) /\ KeysBefore(s, cs, e) = KeysBefore(s, bs, e)
  BY UptoGrown DEF RowsBefore, KeysBefore
<1> HIDE DEF cs
<1>3. ASSUME NEW y, IsBlock(s, bs, y) PROVE IsBlock(s, cs, y)
  <2>1. y.offset \in 0..Len(bs) /\ y.end \in 0..Len(bs)
    BY <1>1, <1>3 DEF IsBlock, Block
  <2>2. KeysBetween(s, cs, y.offset, y.end) = KeysBetween(s, bs, y.offset, y.end)
    BY <1>2, <2>1 DEF KeysBetween
  <2>3. y.end <= Len(cs)
    BY <1>1, <2>1
  <2> QED
    BY <1>2, <1>3, <2>1, <2>2, <2>3 DEF IsBlock
<1> QED
  BY <1>3 DEF IsIndex, Tiled, cs

\* The first of the blocks end where the next begins.
LEMMA TilesEnd ==
  ASSUME NEW bs \in Seq(Lists), NEW s, NEW blocks, Tiled(s, bs, blocks)
  PROVE  /\ Len(blocks) \in Nat /\ EndOf(blocks) \in 0..Len(bs)
         /\ \A b : IsBlock(s, bs, b) /\ b.offset = EndOf(blocks) =>
              Tiled(s, bs, Append(blocks, b)) /\ EndOf(Append(blocks, b)) = b.end
<1>1. blocks \in Seq(Block) /\ Len(blocks) \in Nat /\ Len(bs) \in Nat
  BY LenProperties DEF Tiled
<1>2. EndOf(blocks) \in 0..Len(bs) /\ (blocks = <<>> <=> Len(blocks) = 0)
  <2>1. CASE blocks = <<>>
    BY <1>1, <2>1, EmptySeq DEF EndOf
  <2>2. CASE blocks # <<>>
    <3>1. Len(blocks) \in 1..Len(blocks)
      BY <1>1, <2>2, EmptySeq
    <3> QED
      BY <1>1, <2>2, <3>1 DEF EndOf, Tiled, IsBlock, Block
  <2> QED
    BY <2>1, <2>2
<1>3. ASSUME NEW b, IsBlock(s, bs, b), b.offset = EndOf(blocks)
      PROVE  Tiled(s, bs, Append(blocks, b)) /\ EndOf(Append(blocks, b)) = b.end
  <2> DEFINE n == Len(blocks)
             t == Append(blocks, b)
  <2>1. b \in Block
    BY <1>3 DEF IsBlock
  <2>2. t \in Seq(Block) /\ t # <<>> /\ Len(t) = n + 1 /\ t[n + 1] = b /\ \A i \in 1..n : t[i] = blocks[i]
    BY <1>1, <2>1, AppendProperties
  <2> HIDE DEF t
  <2>3. ASSUME NEW i \in 1..Len(t)
        PROVE  IsBlock(s, bs, t[i]) /\ t[i].offset = IF i = 1 THEN 0 ELSE t[i - 1].end
    <3>1. CASE i = n + 1
      <4>1. n # 0 => n \in 1..n /\ t[n] = blocks[n]
        BY <1>1, <2>2
      <4> QED
        BY <1>1, <1>2, <1>3, <2>2, <3>1, <4>1 DEF EndOf
    <3>2. CASE i # n + 1
      <4>1. i \in 1..n /\ (i # 1 => i - 1 \in 1..n)
        BY <1>1, <2>2, <3>2
      <4> QED
        BY <2>2, <4>1 DEF Tiled
    <3> QED
      BY <3>1, <3>2
  <2>4. Tiled(s, bs, t) /\ EndOf(t) = b.end
    BY <2>2, <2>3 DEF Tiled, EndOf
  <2> QED
    BY <2>4 DEF t
<1> QED
  BY <1>1, <1>2, <1>3

LEMMA EmptyBlock ==
  ASSUME NEW bs \in Seq(Lists), NEW s, NEW e \in 0..Len(bs)
  PROVE  LET b == NewBlock(e, RowsBefore(bs, e)) IN IsBlock(s, bs, b) /\ b.offset = e /\ b.end = e /\ b.rows = 0
<1> DEFINE b == NewBlock(e, RowsBefore(bs, e))
<1>1. Len(bs) \in Nat /\ e \in Nat /\ e <= Len(bs) /\ e \in e..Len(bs)
  BY LenProperties
<1>2. RowsBefore(bs, e) \in Nat
  BY <1>1, RowsClimb
<1>3. b = [offset |-> e, end |-> e, first |-> RowsBefore(bs, e), rows |-> 0, min |-> 99, max |-> -99]
  BY DEF NewBlock
<1>4. KeysBetween(s, bs, e, e) = {}
  BY DEF KeysBetween
<1> QED
  BY <1>1, <1>2, <1>3, <1>4 DEF IsBlock, Block

\* A block extended by the next batch.
Longer(b, batch) ==
  [offset |-> b.offset, end |-> b.end + 1, first |-> b.first, rows |-> b.rows + Len(batch),
   min |-> Min({b.min} \cup ToSet(batch)), max |-> Max({b.max} \cup ToSet(batch))]

LEMMA LongerBlock ==
  ASSUME NEW bs \in Seq(Lists), NEW s, NEW b, IsBlock(s, bs, b), b.end < Len(bs)
  PROVE  LET g == Longer(b, bs[b.end + 1]) IN IsBlock(s, bs, g) /\ g.rows > 0
<1> DEFINE batch == bs[b.end + 1]
           e == b.end
           g == Longer(b, batch)
           T == ToSet(batch)
<1>1. /\ Len(bs) \in Nat /\ e \in Nat /\ b.offset \in Nat /\ b.offset <= e /\ e + 1 \in 1..Len(bs) /\ (e + 1) - 1 = e
      /\ b.first \in Nat /\ b.rows \in Nat /\ b.min \in Int /\ b.max \in Int
  BY LenProperties DEF IsBlock, Block
<1>2. /\ RowsBefore(bs, e) \in Nat /\ batch \in Lists /\ Len(batch) \in Nat /\ Len(batch) > 0
      /\ RowsBefore(bs, e + 1) = RowsBefore(bs, e) + Len(batch)
      /\ KeysBefore(s, bs, e + 1) = KeysBefore(s, bs, e) \cup Fresher(s, bs, e + 1)
  <2> HIDE DEF e
  <2> QED
    BY <1>1, BatchBefore DEF batch, e
<1>3. T = {batch[i] : i \in 1..Len(batch)} /\ \A i \in 1..Len(batch) : batch[i] \in Int
  <2>1. batch \in Seq(Int)
    BY <1>2 DEF Lists
  <2> HIDE DEF batch
  <2> QED
    BY <2>1, LenProperties, ElementOfSeq DEF ToSet
<1>4. T \in SUBSET Int /\ IsFiniteSet(T)
  <2> DEFINE f == [i \in 1..Len(batch) |-> batch[i]]
  <2> HIDE DEF T
  <2>1. IsFiniteSet(1..Len(batch))
    <3> DEFINE n == Len(batch)
    <3>1. 1 \in Int /\ n \in Int
      BY <1>2
    <3> HIDE DEF n
    <3>2. IsFiniteSet(1..n)
      BY <3>1, FS_Interval
    <3> QED
      BY <3>2 DEF n
  <2>2. f \in Surjection(1..Len(batch), T)
    BY <1>3 DEF Surjection
  <2>3. IsFiniteSet(T)
    BY <2>1, <2>2, FS_Surjection
  <2> QED
    BY <1>3, <2>3
<1> HIDE DEF T
<1>5. /\ g.min \in Int /\ g.min <= b.min /\ \A t \in T : g.min <= t
      /\ g.max \in Int /\ b.max <= g.max /\ \A t \in T : t <= g.max
  <2> DEFINE L == {b.min} \cup T
             H == {b.max} \cup T
  <2>1. IsFiniteSet({b.min}) /\ IsFiniteSet({b.max})
    BY FS_Singleton
  <2>2. IsFiniteSet(L) /\ IsFiniteSet(H)
    BY <1>4, <2>1, FS_Union
  <2>3. L \in SUBSET Int /\ H \in SUBSET Int /\ L # {} /\ H # {} /\ b.min \in L /\ b.max \in H /\ T \subseteq L /\ T \subseteq H
    BY <1>1, <1>4
  <2>4. g.min = Min(L) /\ g.max = Max(H)
    BY DEF Longer, T
  <2> HIDE DEF L, H, g
  <2>5. Min(L) \in L /\ (\A x \in L : Min(L) <= x) /\ Max(H) \in H /\ \A x \in H : x <= Max(H)
    BY <2>2, <2>3, SetHasBounds
  <2> QED
    BY <2>3, <2>4, <2>5
<1>6. /\ g.offset = b.offset /\ g.end = e + 1 /\ g.first = b.first /\ g.rows = b.rows + Len(batch)
      /\ g = [offset |-> g.offset, end |-> g.end, first |-> g.first, rows |-> g.rows, min |-> g.min, max |-> g.max]
  BY DEF Longer
<1> HIDE DEF g
<1>7. g \in Block
  <2>1. g.offset \in Nat /\ g.end \in Nat /\ g.first \in Nat /\ g.rows \in Nat /\ g.min \in Int /\ g.max \in Int
    <3>1. Len(batch) \in Nat
      BY <1>2
    <3> HIDE DEF batch
    <3> QED
      BY <1>1, <1>5, <1>6, <3>1
  <2> QED
    BY <1>6, <2>1 DEF Block
<1>8. ASSUME NEW k \in KeysBetween(s, bs, g.offset, g.end) PROVE Within(k[1], g)
  <2>1. k \in KeysBetween(s, bs, b.offset, e) \/ k \in Fresher(s, bs, e + 1)
    BY <1>2, <1>6 DEF KeysBetween
  <2>2. CASE k \in KeysBetween(s, bs, b.offset, e)
    <3>1. Within(k[1], b)
      BY <2>2 DEF IsBlock
    <3>2. k[1] \in Int
      <4>1. b.offset \in 0..Len(bs) /\ e \in b.offset..Len(bs)
        BY <1>1
      <4> HIDE DEF e
      <4>2. k \in Int \X {s} \X Nat
        BY <2>2, <4>1, KeysAreBetween
      <4> QED
        BY <4>2
    <3> QED
      BY <1>1, <1>5, <3>1, <3>2 DEF Within
  <2>3. CASE k \in Fresher(s, bs, e + 1)
    <3>1. PICK i \in 1..Len(batch) : k = <<batch[i], s, RowsBefore(bs, (e + 1) - 1) + i - 1>>
      BY <2>3 DEF Fresher
    <3>2. k[1] \in T
      BY <1>3, <3>1
    <3> QED
      BY <1>5, <3>2 DEF Within
  <2> QED
    BY <2>1, <2>2, <2>3
<1>9. g.first = RowsBefore(bs, g.offset) /\ g.first + g.rows = RowsBefore(bs, g.end)
  BY <1>1, <1>2, <1>6 DEF IsBlock
<1>10. g.offset <= g.end /\ g.end <= Len(bs) /\ g.rows > 0
  BY <1>1, <1>2, <1>6
<1> QED
  BY <1>7, <1>8, <1>9, <1>10 DEF IsBlock, g

\* What the index of a segment has become after a batch.
IsGrowth(s, bs, acc, i) ==
  /\ acc \in [blocks : Seq(Block), block : Block]
  /\ Tiled(s, bs, acc.blocks) /\ IsBlock(s, bs, acc.block)
  /\ acc.block.offset = EndOf(acc.blocks) /\ acc.block.end = i

LEMMA BlockWith ==
  ASSUME NEW b \in Block, NEW p, NEW q, NEW x, NEW y
  PROVE  [b EXCEPT !.rows = p, !.end = q, !.min = x, !.max = y]
           = [offset |-> b.offset, end |-> q, first |-> b.first, rows |-> p, min |-> x, max |-> y]
<1> DEFINE c == [b EXCEPT !.rows = p]
           d == [c EXCEPT !.end = q]
           e == [d EXCEPT !.min = x]
<1>1. c = [offset |-> b.offset, end |-> b.end, first |-> b.first, rows |-> p, min |-> b.min, max |-> b.max]
  BY DEF Block
<1> HIDE DEF c
<1>2. d = [offset |-> b.offset, end |-> q, first |-> b.first, rows |-> p, min |-> b.min, max |-> b.max]
  BY <1>1
<1> HIDE DEF d
<1>3. e = [offset |-> b.offset, end |-> q, first |-> b.first, rows |-> p, min |-> x, max |-> b.max]
  BY <1>2
<1> HIDE DEF e
<1>4. [e EXCEPT !.max = y] = [offset |-> b.offset, end |-> q, first |-> b.first, rows |-> p, min |-> x, max |-> y]
  BY <1>3
<1> QED
  BY <1>4 DEF c, d, e

LEMMA GrowthOf ==
  ASSUME NEW bs \in Seq(Lists), NEW s, NEW i \in 0..(Len(bs) - 1), NEW acc, IsGrowth(s, bs, acc, i)
  PROVE  IsGrowth(s, bs, Grow(acc, bs[i + 1]), i + 1)
<1> DEFINE batch == bs[i + 1]
           b == acc.block
           g == Longer(b, batch)
           fresh == NewBlock(g.end, g.first + g.rows)
<1>1. /\ Len(bs) \in Nat /\ acc = [blocks |-> acc.blocks, block |-> b] /\ acc.blocks \in Seq(Block) /\ b \in Block
      /\ Tiled(s, bs, acc.blocks) /\ IsBlock(s, bs, b) /\ b.offset = EndOf(acc.blocks) /\ b.end = i /\ i < Len(bs)
  BY LenProperties DEF IsGrowth
<1>2. IsBlock(s, bs, g) /\ g \in Block
  <2>1. IsBlock(s, bs, Longer(b, bs[b.end + 1]))
    <3> HIDE DEF b, batch
    <3> QED
      BY <1>1, LongerBlock
  <2> QED
    BY <1>1, <2>1 DEF IsBlock
<1>3. g.end = i + 1 /\ g.offset = b.offset
  BY <1>1 DEF Longer
<1>4. [b EXCEPT !.rows = b.rows + Len(batch), !.end = b.end + 1,
               !.min = Min({b.min} \cup ToSet(batch)), !.max = Max({b.max} \cup ToSet(batch))] = g
  <2> DEFINE lo == Min({b.min} \cup ToSet(batch))
             hi == Max({b.max} \cup ToSet(batch))
             n == Len(batch)
  <2>1. b \in Block
    BY <1>1
  <2>2. g = [offset |-> b.offset, end |-> b.end + 1, first |-> b.first, rows |-> b.rows + n, min |-> lo, max |-> hi]
    BY DEF Longer
  <2> HIDE DEF lo, hi, n, b, g
  <2>4. [b EXCEPT !.rows = b.rows + n, !.end = b.end + 1, !.min = lo, !.max = hi] = g
    BY <2>1, <2>2, BlockWith
  <2> QED
    BY <2>4 DEF lo, hi, n
<1>5. Grow(acc, batch) = IF g.rows >= BLOCK_ROWS THEN [blocks |-> Append(acc.blocks, g), block |-> fresh]
                               ELSE [acc EXCEPT !.block = g]
  BY <1>4 DEF Grow
<1> HIDE DEF g, batch, b, fresh
<1>6. CASE g.rows >= BLOCK_ROWS
  <2>1. IsBlock(s, bs, fresh) /\ fresh \in Block /\ fresh.offset = i + 1 /\ fresh.end = i + 1
    <3>1. g.first + g.rows = RowsBefore(bs, i + 1) /\ i + 1 \in 0..Len(bs)
      BY <1>1, <1>2, <1>3 DEF IsBlock
    <3>2. fresh = NewBlock(i + 1, RowsBefore(bs, i + 1))
      BY <1>3, <3>1 DEF fresh
    <3>3. IsBlock(s, bs, fresh) /\ fresh.offset = i + 1 /\ fresh.end = i + 1
      BY <3>1, <3>2, EmptyBlock
    <3> QED
      BY <3>3 DEF IsBlock
  <2>2. /\ Tiled(s, bs, Append(acc.blocks, g)) /\ EndOf(Append(acc.blocks, g)) = i + 1
    BY <1>1, <1>2, <1>3, TilesEnd
  <2>3. Append(acc.blocks, g) \in Seq(Block)
    BY <2>2 DEF Tiled
  <2> QED
    BY <1>5, <1>6, <2>1, <2>2, <2>3 DEF IsGrowth, batch
<1>7. CASE ~(g.rows >= BLOCK_ROWS)
  <2>1. Grow(acc, batch) = [blocks |-> acc.blocks, block |-> g]
    BY <1>1, <1>5, <1>7
  <2> QED
    BY <1>1, <1>2, <1>3, <2>1 DEF IsGrowth, batch
<1> QED
  BY <1>6, <1>7

\* Where the extension starts: behind the last block, or with it when it is not full.
LEMMA FrontOf ==
  ASSUME NEW S, NEW q \in Seq(S), q # <<>>
  PROVE  Front(q) \in Seq(S) /\ Len(Front(q)) = Len(q) - 1
         /\ \A i \in 1..(Len(q) - 1) : Front(q)[i] = q[i]
<1> DEFINE n == Len(q)
           f == SubSeq(q, 1, n - 1)
<1>1. n \in Nat \ {0} /\ \A i \in 1..(n - 1) : q[i] \in S
  BY LenProperties, EmptySeq, ElementOfSeq
<1> HIDE DEF n
<1>2. f \in Seq(S) /\ Len(f) = (IF 1 <= n - 1 THEN (n - 1) - 1 + 1 ELSE 0)
      /\ \A i \in 1..((n - 1) - 1 + 1) : f[i] = q[1 + i - 1]
  BY <1>1, SubSeqProperties
<1>3. Len(f) = n - 1 /\ \A i \in 1..(n - 1) : f[i] = q[i]
  BY <1>1, <1>2
<1>4. Front(q) = f
  BY DEF Front, n
<1> QED
  BY <1>2, <1>3, <1>4 DEF n

LEMMA GrowthStarts ==
  ASSUME NEW bs \in Seq(Lists), NEW s, NEW blocks, Tiled(s, bs, blocks)
  PROVE  /\ IsGrowth(s, bs, IF Unfinished(blocks) THEN [blocks |-> Front(blocks), block |-> Last(blocks)]
                            ELSE [blocks |-> blocks, block |-> NewBlock(EndOf(blocks), next_row(blocks))],
                     EndOf(blocks))
<1> DEFINE n == Len(blocks)
           b == blocks[n]
           f == Front(blocks)
<1>1. blocks \in Seq(Block) /\ n \in Nat /\ EndOf(blocks) \in 0..Len(bs) /\ Len(bs) \in Nat /\ (blocks # <<>> => n > 0)
  <2>1. blocks \in Seq(Block) /\ Len(bs) \in Nat
    BY LenProperties DEF Tiled
  <2>2. n \in Nat /\ (blocks # <<>> => n > 0)
    BY <2>1, LenProperties, EmptySeq
  <2>3. EndOf(blocks) \in 0..Len(bs)
    BY TilesEnd
  <2> QED
    BY <2>1, <2>2, <2>3
<1>2. CASE Unfinished(blocks)
  <2>1. blocks # <<>> /\ n > 0 /\ n \in 1..n /\ Last(blocks) = b /\ EndOf(blocks) = b.end
    BY <1>1, <1>2 DEF Unfinished, EndOf, Last
  <2>2. IsBlock(s, bs, b) /\ b \in Block /\ b.offset = IF n = 1 THEN 0 ELSE blocks[n - 1].end
    BY <2>1 DEF Tiled, IsBlock
  <2>3. f \in Seq(Block) /\ Len(f) = n - 1 /\ \A i \in 1..(n - 1) : f[i] = blocks[i]
    BY <1>1, <2>1, FrontOf, Zenon
  <2> HIDE DEF f, b
  <2>4. Tiled(s, bs, f)
    <3>1. \A i \in 1..Len(f) : i \in 1..n /\ f[i] = blocks[i] /\ (i # 1 => f[i - 1] = blocks[i - 1])
      BY <1>1, <2>3
    <3> QED
      BY <2>3, <3>1 DEF Tiled
  <2>5. b.offset = EndOf(f)
    <3>1. CASE n = 1
      <4>1. f = <<>>
        BY <2>3, <3>1, EmptySeq
      <4> QED
        BY <2>2, <3>1, <4>1 DEF EndOf
    <3>2. CASE n # 1
      <4>1. f # <<>> /\ n - 1 \in 1..(n - 1)
        BY <1>1, <2>1, <2>3, <3>2
      <4> QED
        BY <2>2, <2>3, <3>2, <4>1 DEF EndOf
    <3> QED
      BY <3>1, <3>2
  <2> QED
    BY <1>2, <2>1, <2>2, <2>3, <2>4, <2>5 DEF IsGrowth, f
<1>3. CASE ~Unfinished(blocks)
  <2> DEFINE e == EndOf(blocks)
             fresh == NewBlock(e, RowsBefore(bs, e))
  <2>1. next_row(blocks) = RowsBefore(bs, e)
    <3>1. CASE blocks = <<>>
      <4>1. RowsBefore(bs, 0) = 0
        BY NothingBefore
      <4> QED
        BY <3>1, <4>1 DEF next_row, EndOf
    <3>2. CASE blocks # <<>>
      <4>1. Last(blocks) = b /\ e = b.end /\ n \in 1..n
        BY <1>1, <3>2 DEF Last, EndOf
      <4>2. IsBlock(s, bs, b)
        BY <4>1 DEF Tiled
      <4> QED
        BY <3>2, <4>1, <4>2 DEF next_row, IsBlock
    <3> QED
      BY <3>1, <3>2
  <2> HIDE DEF e
  <2>2. e \in 0..Len(bs)
    BY <1>1 DEF e
  <2>3. IsBlock(s, bs, fresh) /\ fresh.offset = e /\ fresh.end = e
    BY <2>2, EmptyBlock
  <2> HIDE DEF fresh
  <2>4. fresh \in Block
    BY <2>3 DEF IsBlock
  <2>5. IsGrowth(s, bs, [blocks |-> blocks, block |-> fresh], e)
    BY <1>1, <2>3, <2>4 DEF IsGrowth, e
  <2> QED
    BY <1>3, <2>1, <2>5 DEF e, fresh
<1> QED
  BY <1>2, <1>3

\* Extending an index takes in every batch that is there (index.rs extended).
LEMMA ExtendedIndex ==
  ASSUME NEW s \in Segments, NEW bs \in Seq(Lists), file[s].batches = bs, NEW known, NEW len \in Nat,
         known = Absent \/ IsIndex(s, bs, known)
  PROVE  /\ IsIndex(s, bs, extended(s, known, len))
         /\ extended(s, known, len).indexed = Len(bs) /\ extended(s, known, len).seen = len
<1> DEFINE fresh == known = Absent \/ (known # Absent /\ 3 * known.indexed > len)
           blocks == IF fresh THEN <<>> ELSE known.blocks
           from == IF fresh THEN 0 ELSE known.indexed
           start == IF Unfinished(blocks) THEN [blocks |-> Front(blocks), block |-> Last(blocks)]
                    ELSE [blocks |-> blocks, block |-> NewBlock(from, next_row(blocks))]
           f == CHOOSE g : g = [i \in from..Len(bs) |-> IF i = from THEN start ELSE Grow(g[i - 1], bs[i])]
           end == f[Len(bs)]
           all == IF end.block.rows > 0 THEN Append(end.blocks, end.block) ELSE end.blocks
           x == extended(s, known, len)
<1>1. x = [blocks |-> all, seen |-> len, indexed |-> IF all = <<>> THEN from ELSE Last(all).end]
  BY DEF extended
<1>2. Len(bs) \in Nat
  BY LenProperties
<1>3. Tiled(s, bs, blocks) /\ from = EndOf(blocks)
  <2>1. CASE fresh
    <3>1. <<>> \in Seq(Block) /\ Len(<<>>) = 0
      BY EmptySeq
    <3> QED
      BY <2>1, <3>1 DEF Tiled, EndOf
  <2>2. CASE ~fresh
    BY <2>2 DEF IsIndex
  <2> QED
    BY <2>1, <2>2
<1> HIDE DEF fresh, blocks, from, x
<1>4. from \in 0..Len(bs) /\ IsGrowth(s, bs, start, from)
  BY <1>3, TilesEnd, GrowthStarts
<1> HIDE DEF start
<1>5. f = [i \in from..Len(bs) |-> IF i = from THEN start ELSE Grow(f[i - 1], bs[i])]
  <2> DEFINE D == [blocks : Seq(Block), block : Block]
             T == {y \in D \X Nat : IsGrowth(s, bs, y[1], y[2])}
             G == [y \in D \X Nat |-> Grow(y[1], bs[y[2]])]
             n == Len(bs)
  <2>1. \A y, i : <<y, i>> \in T <=> (i \in Nat /\ IsGrowth(s, bs, y, i))
    BY DEF IsGrowth
  <2>2. <<start, from>> \in T /\ from \in Nat /\ n \in Nat /\ from <= n
    BY <1>2, <1>4, <2>1
  <2>3. ASSUME NEW i \in (from + 1)..n, NEW y, <<y, i - 1>> \in T
        PROVE  <<G[<<y, i>>], i>> \in T /\ G[<<y, i>>] = Grow(y, bs[i])
    <3>1. i \in Nat /\ i - 1 \in 0..(Len(bs) - 1) /\ (i - 1) + 1 = i
      BY <1>2, <2>2
    <3>2. IsGrowth(s, bs, y, i - 1) /\ y \in D
      BY <2>1, <2>3
    <3>3. G[<<y, i>>] = Grow(y, bs[i])
      BY <3>1, <3>2
    <3> HIDE DEF G, T, D
    <3>4. IsGrowth(s, bs, Grow(y, bs[(i - 1) + 1]), (i - 1) + 1)
      BY <3>1, <3>2, GrowthOf
    <3> QED
      BY <2>1, <3>1, <3>3, <3>4
  <2> HIDE DEF D, T, G, n
  <2>4. \A i \in (from + 1)..n : \A y : <<y, i - 1>> \in T => <<G[<<y, i>>], i>> \in T
    BY <2>3
  <2>5. PICK h : Recurs(h, start, G, from, n) /\ \A i \in from..n : <<h[i], i>> \in T
    BY <2>2, <2>4, Recursion
  <2> DEFINE v == [i \in from..n |-> IF i = from THEN start ELSE G[<<h[i - 1], i>>]]
             u == [i \in from..n |-> IF i = from THEN start ELSE Grow(h[i - 1], bs[i])]
  <2>6. \A i \in from..n : v[i] = u[i]
    <3> SUFFICES ASSUME NEW i \in from..n, i # from PROVE G[<<h[i - 1], i>>] = Grow(h[i - 1], bs[i])
      OBVIOUS
    <3>1. i \in (from + 1)..n /\ i - 1 \in from..n
      BY <2>2
    <3> QED
      BY <2>3, <2>5, <3>1
  <2>7. v = u
    BY <2>6
  <2>8. h = u
    BY <2>5, <2>7 DEF Recurs
  <2> QED
    BY <2>8 DEF n
<1>6. IsGrowth(s, bs, end, Len(bs))
  <2> DEFINE n == Len(bs)
             Good == {i \in from..n : IsGrowth(s, bs, f[i], i)}
  <2> HIDE DEF f
  <2>1. \A i \in from..n : f[i] = IF i = from THEN start ELSE Grow(f[i - 1], bs[i])
    BY <1>5
  <2>2. from \in Nat /\ n \in Nat /\ from \in from..n
    BY <1>2, <1>4
  <2>3. from \in Good
    BY <1>4, <2>1, <2>2
  <2>4. \A i \in from..(n - 1) : i \in Good => i + 1 \in Good
    <3> SUFFICES ASSUME NEW i \in from..(n - 1), i \in Good PROVE i + 1 \in Good
      OBVIOUS
    <3>1. i \in 0..(Len(bs) - 1) /\ i + 1 \in from..n /\ i + 1 # from /\ (i + 1) - 1 = i
      BY <2>2
    <3>2. IsGrowth(s, bs, Grow(f[i], bs[i + 1]), i + 1)
      BY <3>1, GrowthOf
    <3> QED
      BY <2>1, <3>1, <3>2
  <2> HIDE DEF Good, n
  <2>5. \A i \in from..n : i \in Good
    BY <2>2, <2>3, <2>4, Climb, Zenon
  <2>6. n \in from..n
    BY <1>4, <2>2 DEF n
  <2> QED
    BY <2>5, <2>6 DEF Good, n
<1> HIDE DEF end
<1>7. Tiled(s, bs, all) /\ EndOf(all) = Len(bs) /\ all \in Seq(Block)
  <2>1. /\ Tiled(s, bs, end.blocks) /\ IsBlock(s, bs, end.block) /\ end.block.offset = EndOf(end.blocks)
        /\ end.block.end = Len(bs)
    BY <1>6 DEF IsGrowth
  <2>2. CASE end.block.rows > 0
    <3>1. Tiled(s, bs, Append(end.blocks, end.block)) /\ EndOf(Append(end.blocks, end.block)) = Len(bs)
      BY <2>1, TilesEnd
    <3> QED
      BY <2>2, <3>1 DEF Tiled
  <2>3. CASE ~(end.block.rows > 0)
    <3> DEFINE b == end.block
    <3>1. b.offset \in 0..Len(bs) /\ b.end \in b.offset..Len(bs) /\ b.rows \in Nat
          /\ b.first = RowsBefore(bs, b.offset) /\ b.first + b.rows = RowsBefore(bs, b.end) /\ b.end = Len(bs)
      BY <1>2, <2>1 DEF IsBlock, Block
    <3> HIDE DEF b
    <3>2. /\ b.offset < b.end => RowsBefore(bs, b.offset) < RowsBefore(bs, b.end)
          /\ RowsBefore(bs, b.offset) \in Nat
      BY <3>1, KeysAreBetween
    <3>3. b.offset = b.end
      <4>1. b.rows = 0
        BY <2>3, <3>1 DEF b
      <4> QED
        BY <1>2, <3>1, <3>2, <4>1
    <3> QED
      BY <2>1, <2>3, <3>1, <3>3 DEF b, Tiled
  <2> QED
    BY <2>2, <2>3
<1>8. (IF all = <<>> THEN from ELSE Last(all).end) = EndOf(all)
  <2>1. CASE all = <<>>
    <3>1. Len(bs) = 0
      BY <1>7, <2>1 DEF EndOf
    <3> QED
      BY <1>4, <2>1, <3>1 DEF EndOf
  <2>2. CASE all # <<>>
    BY <2>2 DEF EndOf, Last
  <2> QED
    BY <2>1, <2>2
<1> HIDE DEF all
<1>9. x.indexed = Len(bs) /\ x.seen = len /\ x.blocks = all /\ x \in [blocks : Seq(Block), seen : Nat, indexed : Nat]
  BY <1>1, <1>2, <1>7, <1>8
<1> QED
  BY <1>7, <1>9 DEF IsIndex, x

-----------------------------------------------------------------------------
(* Keys and names in order *)

Key == Int \X Segments \X Nat
KeyBefore(d) == {p \in Key \X Key : order(p[1], p[2], d)}

LEMMA KeyOrder ==
  ASSUME ArrowAssumption, NEW d \in BOOLEAN, NEW a \in Key, NEW b \in Key, NEW c \in Key
  PROVE  /\ ~order(a, a, d) /\ (a # b => order(a, b, d) \/ order(b, a, d))
         /\ ~(order(a, b, d) /\ order(b, a, d))
         /\ order(a, b, d) /\ order(b, c, d) => order(a, c, d)
<1>1. \A x \in Key : x[1] \in Int /\ x[2] \in Int /\ x[3] \in Int /\ x = <<x[1], x[2], x[3]>>
  <2>1. Segments \subseteq Int
    BY DEF ArrowAssumption
  <2> QED
    <3> TAKE x \in Key
    <3>1. PICK p \in Int, q \in Segments, r \in Nat : x = <<p, q, r>>
      BY DEF Key
    <3> QED
      BY <2>1, <3>1
<1>2. a # b => a[1] # b[1] \/ a[2] # b[2] \/ a[3] # b[3]
  BY <1>1
<1>3. a[1] \in Int /\ a[2] \in Int /\ a[3] \in Int /\ b[1] \in Int /\ b[2] \in Int /\ b[3] \in Int
      /\ c[1] \in Int /\ c[2] \in Int /\ c[3] \in Int
  BY <1>1
<1>4. CASE d
  BY <1>2, <1>3, <1>4 DEF order
<1>5. CASE ~d
  BY <1>2, <1>3, <1>5 DEF order
<1> QED
  BY <1>4, <1>5

LEMMA KeysTotal ==
  ASSUME ArrowAssumption, NEW d \in BOOLEAN, NEW S, S \subseteq Key
  PROVE  /\ TotalOrder(S, KeyBefore(d)) /\ \A a, b \in S : <<a, b>> \in KeyBefore(d) <=> order(a, b, d)
         /\ \A k \in S : Cardinality({j \in S : order(j, k, d)}) = Rank(S, KeyBefore(d), k)
<1>1. \A a, b \in S : <<a, b>> \in KeyBefore(d) <=> order(a, b, d)
  BY DEF KeyBefore
<1>2. TotalOrder(S, KeyBefore(d))
  <2>1. \A a, b, c \in Key : /\ ~order(a, a, d) /\ (a # b => order(a, b, d) \/ order(b, a, d))
                             /\ order(a, b, d) /\ order(b, c, d) => order(a, c, d)
    BY KeyOrder
  <2> QED
    BY <1>1, <2>1 DEF TotalOrder
<1>3. ASSUME NEW k \in S PROVE Cardinality({j \in S : order(j, k, d)}) = Rank(S, KeyBefore(d), k)
  <2>1. {j \in S : order(j, k, d)} = {j \in S : <<j, k>> \in KeyBefore(d)}
    BY <1>1
  <2> QED
    BY <2>1 DEF Rank
<1> QED
  BY <1>1, <1>2, <1>3

\* The first n keys of a set: as many as there are, and every other key is behind them.
LEMMA SmallestOf ==
  ASSUME ArrowAssumption, NEW d \in BOOLEAN, NEW S, S \subseteq Key, IsFiniteSet(S), NEW n \in Nat
  PROVE  LET X == Smallest(S, n, d) IN
         /\ X \subseteq S /\ IsFiniteSet(X) /\ Cardinality(X) \in Nat /\ Cardinality(S) \in Nat
         /\ Cardinality(S) <= n => X = S
         /\ Cardinality(S) >= n => Cardinality(X) = n
         /\ Cardinality(X) <= n /\ Cardinality(X) <= Cardinality(S)
         /\ \A k \in S \ X : Cardinality(X) = n /\ \A j \in X : order(j, k, d)
<1> DEFINE X == Smallest(S, n, d)
           R == KeyBefore(d)
           r(k) == Rank(S, R, k)
           m == Cardinality(S)
<1>1. /\ m \in Nat /\ (\A k \in S : r(k) \in 0..(m - 1))
      /\ (\A a, b \in S : <<a, b>> \in R => r(a) < r(b)) /\ (\A a, b \in S : r(a) = r(b) => a = b)
      /\ \A i \in 1..m : \E k \in S : r(k) = i - 1
  BY KeysTotal, RankOnto
<1>2. X = {k \in S : r(k) < n}
  <2>1. X = {k \in S : Cardinality({j \in S : order(j, k, d)}) < n}
    BY DEF Smallest
  <2>2. \A k \in S : Cardinality({j \in S : order(j, k, d)}) = r(k)
    BY KeysTotal
  <2> HIDE DEF X
  <2> QED
    BY <2>1, <2>2
<1>3. \A a, b \in S : (<<a, b>> \in R <=> order(a, b, d)) /\ (a # b => <<a, b>> \in R \/ <<b, a>> \in R)
  BY KeysTotal DEF TotalOrder
<1> HIDE DEF r, m, X, R
<1>4. X \subseteq S /\ IsFiniteSet(X) /\ Cardinality(X) \in Nat /\ Cardinality(X) <= m
  <2>1. X \subseteq S
    BY <1>2
  <2> QED
    BY <2>1, FS_Subset, FS_CardinalityType DEF m
<1>5. ASSUME NEW k \in S \ X PROVE m >= n /\ \A j \in X : order(j, k, d)
  <2>1. r(k) \in 0..(m - 1) /\ r(k) >= n
    BY <1>1, <1>2
  <2>2. ASSUME NEW j \in X PROVE order(j, k, d)
    <3>1. j \in S /\ r(j) < n /\ r(j) \in 0..(m - 1)
      BY <1>1, <1>2
    <3>2. j # k /\ ~(r(k) < r(j))
      BY <1>1, <2>1, <3>1
    <3> QED
      BY <1>1, <1>3, <3>1, <3>2
  <2> QED
    BY <1>1, <2>1, <2>2
<1>6. ASSUME m <= n PROVE X = S
  <2>1. \A k \in S : r(k) < n
    BY <1>1, <1>6
  <2> QED
    BY <1>2, <2>1
<1>7. ASSUME m >= n PROVE Cardinality(X) = n
  <2> DEFINE f == [k \in X |-> r(k) + 1]
  <2>1. \A k \in X : k \in S /\ r(k) \in 0..(m - 1) /\ r(k) < n
    BY <1>1, <1>2
  <2>2. f \in [X -> 1..n]
    BY <1>1, <2>1
  <2>3. \A a, b \in X : f[a] = f[b] => a = b
    BY <1>1, <2>1
  <2>4. ASSUME NEW i \in 1..n PROVE \E k \in X : f[k] = i
    <3>1. i \in 1..m /\ i - 1 < n
      BY <1>1, <1>7
    <3>2. PICK k \in S : r(k) = i - 1
      BY <1>1, <3>1
    <3> QED
      BY <1>2, <3>1, <3>2
  <2> HIDE DEF f
  <2>5. f \in Bijection(X, 1..n)
    BY <2>2, <2>3, <2>4 DEF Bijection, Injection, Surjection, IsInjective
  <2>6. Cardinality(1..n) = n
    <3>1. 1 \in Int /\ n \in Int
      OBVIOUS
    <3>2. Cardinality(1..n) = IF 1 > n THEN 0 ELSE n - 1 + 1
      BY <3>1, FS_Interval
    <3> QED
      BY <3>2
  <2> QED
    BY <1>4, <2>5, <2>6, FS_Bijection DEF ExistsBijection
<1>8. Cardinality(X) <= n
  BY <1>1, <1>4, <1>6, <1>7 DEF m
<1> QED
  BY <1>1, <1>4, <1>5, <1>6, <1>7, <1>8 DEF X, m

\* The keys of a page in their order.
LEMMA KeysListed ==
  ASSUME ArrowAssumption, NEW d \in BOOLEAN, NEW S, S \subseteq Key, IsFiniteSet(S)
  PROVE  LET f == KeysInOrder(S, d) IN
         /\ f \in Seq(S) /\ Len(f) = Cardinality(S) /\ Cardinality(S) \in Nat
         /\ \A i, j \in 1..Len(f) : i < j => order(f[i], f[j], d)
         /\ \A k \in S : \E i \in 1..Len(f) : f[i] = k
<1> DEFINE f == KeysInOrder(S, d)
           n == Cardinality(S)
           R == KeyBefore(d)
<1>1. TotalOrder(S, R) /\ n \in Nat /\ \A i \in 1..n : \E k \in S : Rank(S, R, k) = i - 1
  BY KeysTotal, RankOnto
<1>2. \A a, b \in S : <<a, b>> \in R <=> order(a, b, d)
  BY KeysTotal
<1>3. f = [i \in 1..n |-> CHOOSE k \in S : Rank(S, R, k) = i - 1]
  <2>1. \A i \in 1..n : (CHOOSE k \in S : Cardinality({j \in S : order(j, k, d)}) = i - 1)
                          = CHOOSE k \in S : Rank(S, R, k) = i - 1
    <3> TAKE i \in 1..n
    <3>1. \A k \in S : Cardinality({j \in S : order(j, k, d)}) = Rank(S, R, k)
      BY KeysTotal
    <3>2. \A k \in S : Cardinality({j \in S : order(j, k, d)}) = i - 1 <=> Rank(S, R, k) = i - 1
      BY <3>1
    <3> QED
      BY <3>2
  <2>2. f = [i \in 1..n |-> CHOOSE k \in S : Cardinality({j \in S : order(j, k, d)}) = i - 1]
    <3>1. Cardinality(S) = n
      OBVIOUS
    <3> HIDE DEF n
    <3> QED
      BY <3>1 DEF KeysInOrder
  <2> QED
    BY <2>1, <2>2
<1> HIDE DEF f, R, n
<1>4. IsRanking(f, S, R)
  <2>1. \A i \in 1..n : f[i] \in S /\ Rank(S, R, f[i]) = i - 1
    BY <1>1, <1>3
  <2>2. f \in [1..n -> S]
    BY <1>3, <2>1
  <2> QED
    BY <2>1, <2>2 DEF IsRanking, n
<1>5. /\ f \in Seq(S) /\ Len(f) = n /\ n \in Nat
      /\ (\A i, j \in 1..n : i < j => <<f[i], f[j]>> \in R) /\ \A k \in S : \E i \in 1..n : f[i] = k
  BY <1>1, <1>4, Ranked DEF n
<1>6. \A i \in 1..n : f[i] \in S
  BY <1>5, ElementOfSeq
<1> QED
  BY <1>2, <1>5, <1>6 DEF f, n

\* The names of the segments that are listed, each once.
LEMMA NamesListed ==
  ASSUME ArrowAssumption, NEW S \in SUBSET Segments
  PROVE  LET f == NamesInOrder(S) IN
         /\ f \in Seq(S) /\ (\A k \in S : \E i \in 1..Len(f) : f[i] = k)
         /\ \A i, j \in 1..Len(f) : f[i] = f[j] => i = j
<1> DEFINE f == NamesInOrder(S)
           n == Cardinality(S)
           R == {p \in S \X S : p[1] < p[2]}
<1>1. IsFiniteSet(S) /\ S \subseteq Int
  <2>1. IsFiniteSet(Segments) /\ Segments \subseteq Int
    BY DEF ArrowAssumption
  <2> QED
    BY <2>1, FS_Subset
<1>2. \A a, b \in S : <<a, b>> \in R <=> a < b
  OBVIOUS
<1>3. TotalOrder(S, R)
  BY <1>1, <1>2 DEF TotalOrder
<1> HIDE DEF R
<1>4. n \in Nat /\ \A i \in 1..n : \E k \in S : Rank(S, R, k) = i - 1
  <2>1. OnePlaceEach(S, R)
    BY <1>1, <1>3, PlacesOf
  <2> QED
    BY <2>1 DEF OnePlaceEach
<1>5. \A k \in S : Cardinality({t \in S : t < k}) = Rank(S, R, k)
  <2> TAKE k \in S
  <2>1. {t \in S : t < k} = {j \in S : <<j, k>> \in R}
    BY <1>2
  <2> QED
    BY <2>1 DEF Rank
<1>6. f = [i \in 1..n |-> CHOOSE k \in S : Rank(S, R, k) = i - 1]
  <2>1. \A i \in 1..n : (CHOOSE s \in S : Cardinality({t \in S : t < s}) = i - 1)
                          = CHOOSE k \in S : Rank(S, R, k) = i - 1
    <3> TAKE i \in 1..n
    <3>1. \A k \in S : Cardinality({t \in S : t < k}) = i - 1 <=> Rank(S, R, k) = i - 1
      BY <1>5
    <3> QED
      BY <3>1
  <2>2. f = [i \in 1..n |-> CHOOSE s \in S : Cardinality({t \in S : t < s}) = i - 1]
    <3>1. Cardinality(S) = n
      OBVIOUS
    <3> HIDE DEF n
    <3> QED
      BY <3>1 DEF NamesInOrder
  <2> QED
    BY <2>1, <2>2
<1> HIDE DEF f, n
<1>7. IsRanking(f, S, R)
  <2>1. \A i \in 1..n : f[i] \in S /\ Rank(S, R, f[i]) = i - 1
    BY <1>4, <1>6
  <2>2. f \in [1..n -> S]
    BY <1>6, <2>1
  <2> QED
    BY <2>1, <2>2 DEF IsRanking, n
<1>8. /\ f \in Seq(S) /\ Len(f) = n /\ n \in Nat
      /\ (\A i, j \in 1..n : i < j => <<f[i], f[j]>> \in R) /\ \A k \in S : \E i \in 1..n : f[i] = k
  BY <1>1, <1>3, <1>7, Ranked DEF n
<1>9. ASSUME NEW i \in 1..n, NEW j \in 1..n, f[i] = f[j] PROVE i = j
  <2>1. f[i] \in S /\ f[i] \in Int
    BY <1>1, <1>8, ElementOfSeq
  <2>2. ~(<<f[i], f[j]>> \in R) /\ ~(<<f[j], f[i]>> \in R)
    BY <1>2, <1>9, <2>1
  <2> QED
    BY <1>8, <2>2
<1> QED
  BY <1>8, <1>9 DEF f

-----------------------------------------------------------------------------
(* Searching a block *)

\* The keys of the block are Key's, within its bounds and its row numbers.
LEMMA KeysOfBlock ==
  ASSUME ArrowAssumption, NEW s \in Segments, NEW bs \in Seq(Lists), file[s].batches = bs,
         NEW b, IsBlock(s, bs, b)
  PROVE  /\ BlockKeys(s, b) = KeysBetween(s, bs, b.offset, b.end)
         /\ IsFiniteSet(BlockKeys(s, b)) /\ Cardinality(BlockKeys(s, b)) = b.rows
         /\ b.first \in Nat /\ b.rows \in Nat /\ b.min \in Int /\ b.max \in Int
         /\ \A k \in BlockKeys(s, b) : /\ k \in Key /\ k = <<k[1], s, k[3]>> /\ k[1] \in Int /\ k[3] \in Nat
                                             /\ b.min <= k[1] /\ k[1] <= b.max
                                             /\ b.first <= k[3] /\ k[3] <= b.first + b.rows - 1 /\ b.rows > 0
<1> DEFINE o == b.offset
           e == b.end
           K == KeysBetween(s, bs, o, e)
<1>1. /\ o \in 0..Len(bs) /\ e \in o..Len(bs) /\ b.first \in Nat /\ b.rows \in Nat /\ b.min \in Int /\ b.max \in Int
      /\ b.first = RowsBefore(bs, o) /\ b.first + b.rows = RowsBefore(bs, e)
      /\ \A k \in K : b.min <= k[1] /\ k[1] <= b.max
  <2>1. Len(bs) \in Nat
    BY LenProperties
  <2> QED
    BY <2>1 DEF IsBlock, Block, Within
<1> HIDE DEF o, e
<1>2. /\ K = {<<Between(bs, o, e)[i], s, RowsBefore(bs, o) + i - 1>> : i \in DOMAIN Between(bs, o, e)}
      /\ RowsBefore(bs, o) \in Nat /\ RowsBefore(bs, e) \in Nat
      /\ \A k \in K : k \in Int \X {s} \X Nat /\ RowsBefore(bs, o) <= k[3] /\ k[3] < RowsBefore(bs, e)
      /\ IsFiniteSet(K) /\ Cardinality(K) = RowsBefore(bs, e) - RowsBefore(bs, o)
  BY <1>1, KeysAreBetween
<1>3. BlockKeys(s, b) = K
  <2> DEFINE m == Rows(SubSeq(bs, o + 1, e))
  <2>1. BlockKeys(s, b) = {<<m[i], s, b.first + i - 1>> : i \in DOMAIN m}
    BY DEF BlockKeys, o, e
  <2>2. Between(bs, o, e) = m
    BY DEF Between
  <2> QED
    BY <1>1, <1>2, <2>1, <2>2
<1> HIDE DEF K
<1>4. ASSUME NEW k \in K
      PROVE  /\ k \in Key /\ k = <<k[1], s, k[3]>> /\ k[1] \in Int /\ k[3] \in Nat
             /\ b.first <= k[3] /\ k[3] <= b.first + b.rows - 1 /\ b.rows > 0
  <2>1. PICK t \in Int, i \in Nat : k = <<t, s, i>>
    BY <1>2
  <2>2. RowsBefore(bs, o) <= k[3] /\ k[3] < RowsBefore(bs, e)
    BY <1>2
  <2> QED
    BY <1>1, <2>1, <2>2 DEF Key
<1>5. Cardinality(K) = b.rows
  BY <1>1, <1>2
<1> QED
  BY <1>1, <1>2, <1>3, <1>4, <1>5 DEF K, o, e

\* The last key of a set.
LEMMA WorstOf ==
  ASSUME ArrowAssumption, NEW d \in BOOLEAN, NEW S, S \subseteq Key, IsFiniteSet(S), S # {}
  PROVE  /\ Worst(S, d) \in S
         /\ \A j \in S : j = Worst(S, d) \/ order(j, Worst(S, d), d)
<1> DEFINE f == KeysInOrder(S, d)
           n == Len(f)
<1>1. /\ f \in Seq(S) /\ n \in Nat /\ (\A i, j \in 1..n : i < j => order(f[i], f[j], d))
      /\ \A k \in S : \E i \in 1..n : f[i] = k
  BY KeysListed
<1> HIDE DEF f, n
<1>2. n \in 1..n
  BY <1>1
<1>3. f[n] \in S
  BY <1>1, <1>2, ElementOfSeq DEF n
<1>4. \A j \in S \ {f[n]} : order(j, f[n], d)
  <2> TAKE j \in S \ {f[n]}
  <2>1. PICK i \in 1..n : f[i] = j
    BY <1>1
  <2>2. i # n /\ i < n
    BY <1>2, <2>1
  <2> QED
    BY <1>1, <1>2, <2>1, <2>2
<1>5. \E k \in S : \A j \in S \ {k} : order(j, k, d)
  BY <1>3, <1>4
<1> QED
  BY <1>5 DEF Worst

\* A key that the page need not look at again: it was on an earlier page, it is kept, or
\* the keys that are kept are as many as there may be, and before it.
Passed(cursor, best, d, k) ==
  cursor = Absent \/ order(cursor, k, d) =>
    k \in best \/ (Cardinality(best) >= capacity /\ \A j \in best : order(j, k, d))

LEMMA PassedKept ==
  ASSUME ArrowAssumption, NEW d \in BOOLEAN, NEW best, best \subseteq Key, IsFiniteSet(best),
         NEW more, more \subseteq Key, IsFiniteSet(more), NEW cursor
  PROVE  LET next == Smallest(best \cup more, capacity, d) IN
         /\ next \subseteq best \cup more /\ next \subseteq Key /\ IsFiniteSet(next) /\ Cardinality(next) <= capacity
         /\ \A k \in best \cup more : Passed(cursor, next, d, k)
         /\ \A k \in Key : Passed(cursor, best, d, k) => Passed(cursor, next, d, k)
<1> DEFINE c == capacity
           S == best \cup more
           next == Smallest(S, c, d)
<1>1. c \in Nat
  BY DEF capacity, ArrowAssumption
<1>2. S \subseteq Key /\ IsFiniteSet(S)
  BY FS_Union
<1> HIDE DEF c, S
<1>3. /\ next \subseteq S /\ IsFiniteSet(next) /\ Cardinality(next) \in Nat /\ Cardinality(S) \in Nat
      /\ (Cardinality(S) >= c => Cardinality(next) = c) /\ Cardinality(next) <= c
      /\ \A k \in S \ next : Cardinality(next) = c /\ \A j \in next : order(j, k, d)
  BY <1>1, <1>2, SmallestOf
<1> HIDE DEF next
<1>4. ASSUME NEW k \in S PROVE k \in next \/ (Cardinality(next) >= c /\ \A j \in next : order(j, k, d))
  BY <1>1, <1>3
<1>5. ASSUME NEW k \in Key, k \notin S, Cardinality(best) >= c, \A j \in best : order(j, k, d)
      PROVE  Cardinality(next) >= c /\ \A j \in next : order(j, k, d)
  <2>1. Cardinality(best) \in Nat /\ Cardinality(best) <= Cardinality(S)
    BY <1>2, FS_Subset, FS_CardinalityType DEF S
  <2>2. Cardinality(next) = c
    BY <1>1, <1>3, <1>5, <2>1
  <2>3. CASE best \subseteq next
    <3>1. Cardinality(best) <= Cardinality(next) /\ (Cardinality(next) = Cardinality(best) => next = best)
      BY <1>3, <2>3, FS_Subset
    <3>2. next = best
      BY <1>1, <1>5, <2>1, <2>2, <3>1
    <3> QED
      BY <1>1, <1>5, <2>2, <3>2
  <2>4. CASE ~(best \subseteq next)
    <3>1. PICK i \in best : i \notin next
      BY <2>4
    <3>2. i \in S \ next /\ order(i, k, d) /\ i \in Key
      BY <1>5, <3>1 DEF S
    <3>3. ASSUME NEW j \in next PROVE order(j, k, d)
      <4>1. j \in Key /\ order(j, i, d)
        BY <1>2, <1>3, <3>2
      <4> QED
        BY <3>2, <4>1, KeyOrder
    <3> QED
      BY <1>1, <2>2, <3>3
  <2> QED
    BY <2>3, <2>4
<1>6. ASSUME NEW k \in Key, Passed(cursor, best, d, k) PROVE Passed(cursor, next, d, k)
  <2> SUFFICES ASSUME cursor = Absent \/ order(cursor, k, d)
               PROVE  k \in next \/ (Cardinality(next) >= c /\ \A j \in next : order(j, k, d))
    BY DEF Passed, c
  <2>1. k \in best \/ (Cardinality(best) >= c /\ \A j \in best : order(j, k, d))
    BY <1>6 DEF Passed, c
  <2>2. CASE k \in S
    BY <1>4, <2>2
  <2>3. CASE k \notin S
    <3>1. k \notin best
      BY <2>3 DEF S
    <3> QED
      BY <1>5, <2>1, <2>3, <3>1
  <2> QED
    BY <2>2, <2>3
<1>7. \A k \in S : Passed(cursor, next, d, k)
  BY <1>4 DEF Passed, c
<1>8. next \subseteq S /\ next \subseteq Key /\ IsFiniteSet(next) /\ Cardinality(next) <= c
  BY <1>2, <1>3
<1> QED
  BY <1>6, <1>7, <1>8 DEF next, c, S

Indices == [blocks : Seq(Block), seen : Nat, indexed : Nat]
ReaderType ==
  [pc : {"idle", "seg", "extend", "insert", "search", "done", "failed"}, q : Queries \cup {Absent},
   todo : Seq(Segments), len : Nat, local : Indices \cup {Absent}, counting : BOOLEAN, matched : Nat,
   best : SUBSET Key, cursor : Key \cup {Absent}, total : Nat, out : Seq(Key), before : SUBSET Key]

LEMMA QueryType ==
  ASSUME ArrowAssumption, NEW q \in Queries
  PROVE  /\ q.op \in {"list", "scan"} /\ q.start \in Int /\ q.end \in Int /\ q.descending \in BOOLEAN
         /\ q.filtered \in BOOLEAN
BY DEF ArrowAssumption

\* A block that is skipped holds nothing the page still needs (search.rs needs).
LEMMA NotNeeded ==
  ASSUME ArrowAssumption, NEW s \in Segments, NEW bs \in Seq(Lists), file[s].batches = bs,
         NEW b, IsBlock(s, bs, b), NEW me \in ReaderType, me.q \in Queries, IsFiniteSet(me.best),
         ~needs(me, b, s), NEW k \in BlockKeys(s, b)
  PROVE  Passed(me.cursor, me.best, me.q.descending, k)
<1> DEFINE d == me.q.descending
           first == IF d THEN b.max ELSE b.min
           last == IF d THEN b.min ELSE b.max
           f == <<first, s, b.first>>
           e == <<last, s, last_row(b)>>
           cursor == me.cursor
           best == me.best
           W == Worst(best, d)
<1>1. d \in BOOLEAN /\ best \subseteq Key /\ cursor \in Key \cup {Absent} /\ IsFiniteSet(best)
  BY QueryType DEF ReaderType
<1>2. /\ k \in Key /\ k = <<k[1], s, k[3]>> /\ k[1] \in Int /\ k[3] \in Nat /\ b.min <= k[1] /\ k[1] <= b.max
      /\ b.first <= k[3] /\ k[3] <= b.first + b.rows - 1 /\ b.rows > 0
      /\ b.first \in Nat /\ b.rows \in Nat /\ b.min \in Int /\ b.max \in Int
  BY KeysOfBlock
<1>3. last_row(b) = b.first + b.rows - 1 /\ last_row(b) \in Nat
  BY <1>2 DEF last_row
<1>4. first \in Int /\ last \in Int /\ f \in Key /\ e \in Key
  BY <1>2, <1>3 DEF Key
<1>5. k = e \/ order(k, e, d)
  <2>1. k[2] = s /\ e[1] = last /\ e[2] = s /\ e[3] = b.first + b.rows - 1
    BY <1>2, <1>3
  <2>2. CASE k[1] = last /\ k[3] = b.first + b.rows - 1
    BY <1>2, <1>3, <2>2
  <2>3. CASE k[1] # last
    BY <1>1, <1>2, <1>4, <2>1, <2>3 DEF order
  <2>4. CASE k[1] = last /\ k[3] # b.first + b.rows - 1
    BY <1>2, <1>4, <2>1, <2>4 DEF order
  <2> QED
    BY <2>2, <2>3, <2>4
<1>6. k = f \/ order(f, k, d)
  <2>1. k[2] = s /\ f[1] = first /\ f[2] = s /\ f[3] = b.first
    BY <1>2
  <2>2. CASE k[1] = first /\ k[3] = b.first
    BY <1>2, <2>2
  <2>3. CASE k[1] # first
    BY <1>1, <1>2, <1>4, <2>1, <2>3 DEF order
  <2>4. CASE k[1] = first /\ k[3] # b.first
    BY <1>2, <1>4, <2>1, <2>4 DEF order
  <2> QED
    BY <2>2, <2>3, <2>4
<1>7. ~(cursor = Absent \/ order(cursor, e, d)) \/ ~(Cardinality(best) < capacity \/ order(f, W, d))
  BY DEF needs, after_cursor
<1> HIDE DEF d, first, last, f, e, cursor, best, W
<1>8. CASE ~(cursor = Absent \/ order(cursor, e, d))
  <2>1. cursor \in Key
    BY <1>1, <1>8
  <2>2. ~order(cursor, k, d)
    BY <1>1, <1>2, <1>4, <1>5, <1>8, <2>1, KeyOrder
  <2> QED
    BY <1>8, <2>2 DEF Passed, d, cursor
<1>9. CASE ~(Cardinality(best) < capacity \/ order(f, W, d))
  <2>1. Cardinality(best) \in Nat /\ capacity \in Nat /\ capacity > 0
    BY <1>1, FS_CardinalityType DEF capacity, ArrowAssumption
  <2>2. Cardinality(best) >= capacity /\ best # {}
    <3> DEFINE n == Cardinality(best)
    <3>1. n \in Nat /\ ~(n < capacity)
      BY <1>9, <2>1
    <3>2. best = {} => n = 0
      BY FS_EmptySet
    <3> HIDE DEF n
    <3>3. n >= capacity /\ n # 0
      BY <2>1, <3>1
    <3> QED
      BY <3>2, <3>3 DEF n
  <2>3. W \in best /\ W \in Key /\ \A j \in best : j = W \/ order(j, W, d)
    BY <1>1, <2>2, WorstOf DEF W
  <2>4. W = f \/ order(W, f, d)
    BY <1>1, <1>4, <1>9, <2>3, KeyOrder
  <2>5. W = k \/ order(W, k, d)
    BY <1>1, <1>2, <1>4, <1>6, <2>3, <2>4, KeyOrder
  <2>6. k \in best \/ \A j \in best : order(j, k, d)
    <3>1. SUFFICES ASSUME k \notin best, NEW j \in best PROVE order(j, k, d)
      OBVIOUS
    <3>2. j \in Key /\ W # k
      BY <1>1, <2>3, <3>1
    <3> QED
      BY <1>1, <1>2, <2>3, <2>5, <3>2, KeyOrder
  <2> QED
    BY <2>2, <2>6 DEF Passed, d, cursor, best
<1> QED
  BY <1>7, <1>8, <1>9

Hits(s, b, q) == {k \in BlockKeys(s, b) : keep(k[1], q)}

\* What searching a block does to a page (search.rs).
Searched(s, b, me, x, y) ==
  /\ x \in Nat /\ x = me.matched + (IF me.counting THEN Cardinality(Hits(s, b, me.q)) ELSE 0)
  /\ y \subseteq me.best \cup {k \in Hits(s, b, me.q) : me.cursor = Absent \/ order(me.cursor, k, me.q.descending)}
  /\ IsFiniteSet(y) /\ (Cardinality(me.best) <= capacity => Cardinality(y) <= capacity)
  /\ \A k \in Hits(s, b, me.q) : Passed(me.cursor, y, me.q.descending, k)
  /\ \A k \in Key : Passed(me.cursor, me.best, me.q.descending, k) => Passed(me.cursor, y, me.q.descending, k)

LEMMA BlockSearched ==
  ASSUME ArrowAssumption, NEW s \in Segments, NEW bs \in Seq(Lists), file[s].batches = bs,
         NEW b, IsBlock(s, bs, b), NEW me \in ReaderType, me.q \in Queries, IsFiniteSet(me.best)
  PROVE  /\ \E x, y : SearchBlock(me, s, b) = [me EXCEPT !.matched = x, !.best = y] /\ Searched(s, b, me, x, y)
         /\ Hits(s, b, me.q) \subseteq Key /\ IsFiniteSet(Hits(s, b, me.q))
<1> DEFINE q == me.q
           d == q.descending
           hits == {k \in BlockKeys(s, b) : keep(k[1], q)}
           new == {k \in hits : after_cursor(k, me)}
           inside == b.min >= q.start /\ b.max < q.end
           counted == me.counting /\ ~q.filtered /\ inside
           counting == me.counting /\ ~counted
           n == Cardinality(hits)
<1>1. /\ q.start \in Int /\ q.end \in Int /\ d \in BOOLEAN /\ me.best \subseteq Key /\ me.matched \in Nat
      /\ me.counting \in BOOLEAN
  BY QueryType DEF ReaderType
<1>2. /\ IsFiniteSet(BlockKeys(s, b)) /\ Cardinality(BlockKeys(s, b)) = b.rows
      /\ b.min \in Int /\ b.max \in Int
      /\ \A k \in BlockKeys(s, b) : k \in Key /\ k[1] \in Int /\ b.min <= k[1] /\ k[1] <= b.max
  BY KeysOfBlock
<1>3. hits \subseteq Key /\ IsFiniteSet(hits) /\ n \in Nat /\ hits = Hits(s, b, q)
  <2>1. IsFiniteSet(hits) /\ n \in Nat
    BY <1>2, FS_Subset, FS_CardinalityType
  <2> QED
    BY <1>2, <2>1 DEF Hits
<1>4. new \subseteq hits /\ new \subseteq Key /\ IsFiniteSet(new)
  BY <1>3, FS_Subset
<1>5. new = {k \in hits : me.cursor = Absent \/ order(me.cursor, k, d)}
  BY DEF after_cursor
<1>6. counted => n = b.rows
  <2>1. counted => \A k \in BlockKeys(s, b) : keep(k[1], q)
    BY <1>1, <1>2 DEF keep, Inside
  <2>2. counted => hits = BlockKeys(s, b)
    BY <2>1
  <2> QED
    BY <1>2, <2>2
<1>7. CASE Outside(b, q)
  <2>1. hits = {}
    BY <1>1, <1>2, <1>7 DEF Outside, keep, Inside
  <2>2. n = 0
    BY <2>1, FS_EmptySet
  <2>3. SearchBlock(me, s, b) = [me EXCEPT !.matched = me.matched, !.best = me.best]
    <3>1. SearchBlock(me, s, b) = me
      BY <1>7 DEF SearchBlock
    <3>2. [me EXCEPT !.matched = me.matched, !.best = me.best] = me
      BY DEF ReaderType
    <3> QED
      BY <3>1, <3>2
  <2> HIDE DEF n, hits
  <2>4. Searched(s, b, me, me.matched, me.best)
    BY <1>1, <1>3, <2>1, <2>2 DEF Searched, n
  <2> QED
    BY <1>3, <2>3, <2>4
<1>8. CASE ~Outside(b, q)
  <2> DEFINE x == me.matched + (IF counted THEN b.rows ELSE IF counting THEN n ELSE 0)
             S == Smallest(me.best \cup new, capacity, d)
             y == IF counting \/ needs(me, b, s) THEN S ELSE me.best
  <2>1. SearchBlock(me, s, b) = [me EXCEPT !.matched = x, !.best = y]
    BY <1>8 DEF SearchBlock
  <2>2. x = me.matched + (IF me.counting THEN n ELSE 0) /\ x \in Nat
    BY <1>1, <1>3, <1>6
  <2>3. /\ S \subseteq me.best \cup new /\ S \subseteq Key /\ IsFiniteSet(S) /\ Cardinality(S) <= capacity
        /\ \A k \in me.best \cup new : Passed(me.cursor, S, d, k)
        /\ \A k \in Key : Passed(me.cursor, me.best, d, k) => Passed(me.cursor, S, d, k)
    <3> HIDE DEF new, d
    <3>1. d \in BOOLEAN /\ me.best \subseteq Key /\ IsFiniteSet(me.best) /\ new \subseteq Key /\ IsFiniteSet(new)
      BY <1>1, <1>4
    <3> QED
      BY <3>1, PassedKept
  <2>4. \A k \in hits : k \notin new => Passed(me.cursor, S, d, k)
    BY <1>5 DEF Passed
  <2>5. ASSUME ~needs(me, b, s) PROVE \A k \in hits : Passed(me.cursor, me.best, d, k)
    BY <2>5, NotNeeded
  <2> HIDE DEF S, x, n
  <2>6. y \subseteq me.best \cup new /\ IsFiniteSet(y) /\ (Cardinality(me.best) <= capacity => Cardinality(y) <= capacity)
    BY <2>3
  <2>7. \A k \in hits : Passed(me.cursor, y, d, k)
    BY <2>3, <2>4, <2>5
  <2>8. \A k \in Key : Passed(me.cursor, me.best, d, k) => Passed(me.cursor, y, d, k)
    BY <2>3
  <2> HIDE DEF y, hits, new
  <2>9. Searched(s, b, me, x, y)
    BY <1>3, <1>5, <2>2, <2>6, <2>7, <2>8 DEF Searched, n
  <2> QED
    BY <1>3, <2>1, <2>9
<1> QED
  BY <1>7, <1>8

-----------------------------------------------------------------------------
(* A page, while the keys in A are still to be looked at *)

StoredIn(F, k, q) == k \in Key /\ keep(k[1], q) /\ k \in KeysOf(k[2], F[k[2]].batches)

\* What the total may be: the rows that were there before the first page are counted, and
\* nothing else than rows.
Counts(F, me, n, A) ==
  \E C : /\ IsFiniteSet(C) /\ Cardinality(C) = n /\ C \cap A = {} /\ me.before \ A \subseteq C
         /\ \A k \in C : StoredIn(F, k, me.q)
PageOk(F, me, A) ==
  /\ me.q \in Queries /\ IsFiniteSet(me.best) /\ Cardinality(me.best) <= capacity
  /\ \A k \in me.before : StoredIn(F, k, me.q)
  /\ \A k \in me.best : StoredIn(F, k, me.q) /\ (me.cursor = Absent \/ order(me.cursor, k, me.q.descending))
  /\ \A k \in me.before \ A : Passed(me.cursor, me.best, me.q.descending, k)
  /\ me.counting => Counts(F, me, me.matched, A)

OnlyBest(n, me) == n \in ReaderType /\ n = [me EXCEPT !.matched = n.matched, !.best = n.best]

LEMMA KeysOfFile ==
  ASSUME NEW bs \in Seq(Lists), NEW s
  PROVE  /\ KeysBefore(s, bs, Len(bs)) = KeysOf(s, bs)
         /\ \A e \in 0..Len(bs) : KeysBefore(s, bs, e) \subseteq KeysOf(s, bs)
<1>1. Len(bs) \in Nat /\ Upto(bs, Len(bs)) = bs
  BY Uptos
<1>2. KeysBefore(s, bs, Len(bs)) = KeysOf(s, bs)
  BY <1>1 DEF KeysBefore
<1>3. ASSUME NEW e \in 0..Len(bs) PROVE KeysBefore(s, bs, e) \subseteq KeysBefore(s, bs, Len(bs))
  <2> DEFINE n == Len(bs)
  <2>1. e \in 0..Len(bs) /\ n \in e..Len(bs)
    BY <1>1
  <2> HIDE DEF n
  <2>2. KeysBefore(s, bs, e) \subseteq KeysBefore(s, bs, n)
    BY <2>1, RowsClimb
  <2> QED
    BY <2>2 DEF n
<1> QED
  BY <1>2, <1>3

LEMMA BlockPaged ==
  ASSUME ArrowAssumption, NEW s \in Segments, NEW bs \in Seq(Lists), file[s].batches = bs,
         NEW b, IsBlock(s, bs, b), NEW me \in ReaderType, NEW A, PageOk(file, me, A), BlockKeys(s, b) \subseteq A
  PROVE  LET n == SearchBlock(me, s, b) IN
         OnlyBest(n, me) /\ PageOk(file, n, A \ BlockKeys(s, b))
<1> DEFINE n == SearchBlock(me, s, b)
           K == BlockKeys(s, b)
           H == Hits(s, b, me.q)
           d == me.q.descending
<1>1. me.q \in Queries /\ IsFiniteSet(me.best)
  BY DEF PageOk
<1>2. PICK x, y : n = [me EXCEPT !.matched = x, !.best = y] /\ Searched(s, b, me, x, y)
  BY <1>1, BlockSearched
<1>3. H \subseteq Key /\ IsFiniteSet(H) /\ Cardinality(H) \in Nat
  BY <1>1, BlockSearched, FS_CardinalityType
<1>4. x \in Nat /\ y \subseteq me.best \cup H /\ y \subseteq Key
  BY <1>2, <1>3 DEF Searched, ReaderType
<1>5. /\ n.matched = x /\ n.best = y /\ n.q = me.q /\ n.cursor = me.cursor /\ n.before = me.before
      /\ n.counting = me.counting /\ n \in ReaderType
  BY <1>2, <1>4 DEF ReaderType
<1>6. OnlyBest(n, me)
  BY <1>2, <1>5 DEF OnlyBest
<1>7. \A k \in H : StoredIn(file, k, me.q)
  <2>1. K \subseteq KeysOf(s, bs)
    <3>1. BlockKeys(s, b) = KeysBetween(s, bs, b.offset, b.end)
      BY KeysOfBlock
    <3>2. b.end \in 0..Len(bs)
      BY LenProperties DEF IsBlock, Block
    <3> QED
      BY <3>1, <3>2, KeysOfFile DEF KeysBetween
  <2>2. \A k \in K : k \in Key /\ k[2] = s
    <3> SUFFICES ASSUME NEW k \in K PROVE k \in Key /\ k[2] = s
      OBVIOUS
    <3>1. k \in Key /\ k = <<k[1], s, k[3]>>
      BY KeysOfBlock
    <3> QED
      BY <3>1
  <2> QED
    BY <2>1, <2>2 DEF Hits, StoredIn
<1>8. \A k \in me.before : k \in K => k \in H
  BY DEF PageOk, StoredIn, Hits
<1>9. /\ \A k \in n.best : StoredIn(file, k, n.q) /\ (n.cursor = Absent \/ order(n.cursor, k, n.q.descending))
      /\ IsFiniteSet(n.best) /\ Cardinality(n.best) <= capacity
  BY <1>2, <1>5, <1>7 DEF PageOk, Searched
<1>10. ASSUME NEW k \in n.before \ (A \ K) PROVE Passed(n.cursor, n.best, n.q.descending, k)
  <2>1. k \in me.before /\ k \in Key
    BY <1>5 DEF ReaderType
  <2>2. CASE k \in K
    BY <1>2, <1>5, <1>8, <2>1, <2>2 DEF Searched
  <2>3. CASE k \notin K
    <3>1. Passed(me.cursor, me.best, d, k)
      BY <1>5, <1>10, <2>3 DEF PageOk
    <3> QED
      BY <1>2, <1>5, <2>1, <3>1 DEF Searched
  <2> QED
    BY <2>2, <2>3
<1>11. ASSUME n.counting PROVE Counts(file, n, n.matched, A \ K)
  <2>1. PICK C : /\ IsFiniteSet(C) /\ Cardinality(C) = me.matched /\ C \cap A = {} /\ me.before \ A \subseteq C
                 /\ \A k \in C : StoredIn(file, k, me.q)
    BY <1>5, <1>11 DEF PageOk, Counts
  <2> DEFINE E == C \cup H
  <2>2. C \cap H = {} /\ H \subseteq K
    BY <2>1 DEF Hits
  <2>3. IsFiniteSet(E) /\ Cardinality(E) = Cardinality(C) + Cardinality(H)
    <3>1. Cardinality(C \cap H) = 0
      BY <2>2, FS_EmptySet
    <3>2. IsFiniteSet(E) /\ Cardinality(E) = Cardinality(C) + Cardinality(H) - Cardinality(C \cap H)
      BY <1>3, <2>1, FS_Union
    <3>3. Cardinality(C) \in Nat
      BY <2>1, FS_CardinalityType
    <3> HIDE DEF E, H
    <3> QED
      BY <1>3, <3>1, <3>2, <3>3
  <2>4. Cardinality(E) = n.matched
    BY <1>2, <1>5, <1>11, <2>1, <2>3 DEF Searched
  <2>5. E \cap (A \ K) = {} /\ \A k \in E : StoredIn(file, k, n.q)
    BY <1>5, <1>7, <2>1, <2>2
  <2>6. n.before \ (A \ K) \subseteq E
    BY <1>5, <1>8, <2>1
  <2> HIDE DEF E, n, K
  <2> QED
    BY <2>3, <2>4, <2>5, <2>6 DEF Counts
<1>12. n.q \in Queries /\ \A k \in n.before : StoredIn(file, k, n.q)
  BY <1>1, <1>5 DEF PageOk
<1> HIDE DEF n, K
<1>13. PageOk(file, n, A \ K)
  BY <1>9, <1>10, <1>11, <1>12 DEF PageOk
<1> QED
  BY <1>6, <1>13 DEF n, K

\* Searching the blocks of an index one after another leaves no key of them.
Ahead(s, bs, A, e) == A \ KeysBefore(s, bs, e)
EndAt(blocks, i) == IF i = 0 THEN 0 ELSE blocks[i].end

LEMMA SegmentSearched ==
  ASSUME ArrowAssumption, NEW s \in Segments, NEW bs \in Seq(Lists), file[s].batches = bs,
         NEW blocks, Tiled(s, bs, blocks), NEW me \in ReaderType, NEW A, PageOk(file, me, A), KeysOf(s, bs) \subseteq A
  PROVE  LET f == CHOOSE g : g = [i \in 0..Len(blocks) |-> IF i = 0 THEN me ELSE SearchBlock(g[i - 1], s, blocks[i])]
             n == f[Len(blocks)] IN
         OnlyBest(n, me) /\ PageOk(file, n, Ahead(s, bs, A, EndOf(blocks)))
<1> DEFINE f == CHOOSE g : g = [i \in 0..Len(blocks) |-> IF i = 0 THEN me ELSE SearchBlock(g[i - 1], s, blocks[i])]
           n == Len(blocks)
           Good(m, i) == OnlyBest(m, me) /\ PageOk(file, m, Ahead(s, bs, A, EndAt(blocks, i)))
<1>1. n \in Nat /\ Len(bs) \in Nat /\ EndAt(blocks, n) = EndOf(blocks)
      /\ \A i \in 1..n : IsBlock(s, bs, blocks[i]) /\ blocks[i].offset = EndAt(blocks, i - 1)
  <2>1. blocks \in Seq(Block)
    BY DEF Tiled
  <2>2. n \in Nat /\ (blocks = <<>> <=> n = 0)
    BY <2>1, LenProperties, EmptySeq
  <2>3. Len(bs) \in Nat
    BY LenProperties
  <2>4. ASSUME NEW i \in 1..n PROVE IsBlock(s, bs, blocks[i]) /\ blocks[i].offset = EndAt(blocks, i - 1)
    BY <2>2 DEF Tiled, EndAt
  <2> QED
    BY <2>2, <2>3, <2>4 DEF EndAt, EndOf
<1> HIDE DEF n, f
<1>2. Good(me, 0) /\ 0 \in Nat
  <2>1. KeysBefore(s, bs, 0) = {}
    BY NothingBefore
  <2>2. Ahead(s, bs, A, EndAt(blocks, 0)) = A
    BY <2>1 DEF Ahead, EndAt
  <2>3. me = [me EXCEPT !.matched = me.matched, !.best = me.best]
    BY DEF ReaderType
  <2> QED
    BY <2>2, <2>3 DEF OnlyBest
<1>3. ASSUME NEW i \in 1..n, NEW m, Good(m, i - 1) PROVE Good(SearchBlock(m, s, blocks[i]), i)
  <2> DEFINE b == blocks[i]
             K == BlockKeys(s, b)
             B == Ahead(s, bs, A, EndAt(blocks, i - 1))
             x == SearchBlock(m, s, b)
  <2>1. /\ IsBlock(s, bs, b) /\ b.offset = EndAt(blocks, i - 1) /\ b.end = EndAt(blocks, i)
        /\ b.offset \in 0..Len(bs) /\ b.end \in b.offset..Len(bs)
    <3>1. IsBlock(s, bs, b) /\ b.offset = EndAt(blocks, i - 1)
      BY <1>1
    <3>2. b.end = EndAt(blocks, i)
      BY <1>1 DEF EndAt
    <3>3. b.offset \in 0..Len(bs) /\ b.end \in b.offset..Len(bs)
      <4>1. Len(bs) \in Nat
        BY <1>1
      <4> HIDE DEF b
      <4> QED
        BY <3>1, <4>1 DEF IsBlock, Block
    <3> QED
      BY <3>1, <3>2, <3>3
  <2>2. /\ K = KeysBefore(s, bs, b.end) \ KeysBefore(s, bs, b.offset)
        /\ KeysBefore(s, bs, b.offset) \subseteq KeysBefore(s, bs, b.end)
        /\ KeysBefore(s, bs, b.end) \subseteq A
    <3>1. K = KeysBetween(s, bs, b.offset, b.end)
      <4> HIDE DEF b
      <4> QED
        BY <2>1, KeysOfBlock
    <3>2. KeysBefore(s, bs, b.offset) \subseteq KeysBefore(s, bs, b.end)
      <4> HIDE DEF b
      <4> QED
        BY <2>1, RowsClimb
    <3>3. KeysBefore(s, bs, b.end) \subseteq KeysOf(s, bs)
      <4>1. b.end \in 0..Len(bs)
        BY <1>1, <2>1
      <4> HIDE DEF b
      <4> QED
        BY <4>1, KeysOfFile
    <3> QED
      BY <3>1, <3>2, <3>3 DEF KeysBetween
  <2>3. K \subseteq B /\ B \ K = Ahead(s, bs, A, EndAt(blocks, i))
    BY <2>1, <2>2 DEF Ahead
  <2>4. OnlyBest(m, me) /\ PageOk(file, m, B) /\ m \in ReaderType
    BY <1>3 DEF OnlyBest
  <2> HIDE DEF B, K, b, x
  <2>5. OnlyBest(x, m) /\ PageOk(file, x, B \ K)
    BY <2>1, <2>3, <2>4, BlockPaged DEF K, x
  <2>6. OnlyBest(x, me)
    <3>1. /\ x \in ReaderType /\ x = [m EXCEPT !.matched = x.matched, !.best = x.best]
          /\ m = [me EXCEPT !.matched = m.matched, !.best = m.best]
      BY <2>4, <2>5 DEF OnlyBest
    <3> DEFINE p == x.matched
               q == x.best
               u == m.matched
               v == m.best
    <3> HIDE DEF p, q, u, v
    <3>2. x = [m EXCEPT !.matched = p, !.best = q] /\ m = [me EXCEPT !.matched = u, !.best = v]
      BY <3>1 DEF p, q, u, v
    <3>3. x = [me EXCEPT !.matched = p, !.best = q]
      BY <3>2 DEF ReaderType
    <3> QED
      BY <3>1, <3>3 DEF OnlyBest, p, q
  <2> QED
    BY <2>3, <2>5, <2>6 DEF x, b
<1> HIDE DEF Good
<1>4. f = [i \in 0..n |-> IF i = 0 THEN me ELSE SearchBlock(f[i - 1], s, blocks[i])]
  <2> DEFINE T == {y \in ReaderType \X Nat : Good(y[1], y[2])}
             G == [y \in ReaderType \X Nat |-> SearchBlock(y[1], s, blocks[y[2]])]
  <2>1. \A y, i : <<y, i>> \in T <=> (i \in Nat /\ Good(y, i))
    BY DEF Good, OnlyBest
  <2>2. <<me, 0>> \in T /\ 0 \in Nat /\ n \in Nat /\ 0 <= n
    BY <1>1, <1>2, <2>1
  <2>3. ASSUME NEW i \in 1..n, NEW y, <<y, i - 1>> \in T
        PROVE  <<G[<<y, i>>], i>> \in T /\ G[<<y, i>>] = SearchBlock(y, s, blocks[i])
    <3>1. i \in Nat /\ y \in ReaderType /\ Good(y, i - 1)
      BY <1>1, <2>1, <2>3
    <3>2. G[<<y, i>>] = SearchBlock(y, s, blocks[i])
      BY <3>1
    <3> HIDE DEF G, T
    <3> QED
      BY <1>3, <2>1, <3>1, <3>2
  <2> HIDE DEF T, G
  <2>4. \A i \in (0 + 1)..n : \A y : <<y, i - 1>> \in T => <<G[<<y, i>>], i>> \in T
    BY <2>3
  <2>5. PICK h : Recurs(h, me, G, 0, n) /\ \A i \in 0..n : <<h[i], i>> \in T
    BY <2>2, <2>4, Recursion
  <2> DEFINE v == [i \in 0..n |-> IF i = 0 THEN me ELSE G[<<h[i - 1], i>>]]
             u == [i \in 0..n |-> IF i = 0 THEN me ELSE SearchBlock(h[i - 1], s, blocks[i])]
  <2>6. \A i \in 0..n : v[i] = u[i]
    <3> SUFFICES ASSUME NEW i \in 0..n, i # 0 PROVE G[<<h[i - 1], i>>] = SearchBlock(h[i - 1], s, blocks[i])
      OBVIOUS
    <3>1. i \in 1..n /\ i - 1 \in 0..n
      BY <1>1
    <3> QED
      BY <2>3, <2>5, <3>1
  <2>7. v = u
    BY <2>6
  <2>8. h = u
    BY <2>5, <2>7 DEF Recurs
  <2> QED
    BY <2>8 DEF f, n
<1>5. \A i \in 0..n : f[i] = IF i = 0 THEN me ELSE SearchBlock(f[i - 1], s, blocks[i])
  BY <1>4
<1>6. Good(f[n], n)
  <2> DEFINE S == {i \in 0..n : Good(f[i], i)}
  <2>1. 0 \in S /\ 0 \in 0..n
    BY <1>1, <1>2, <1>5
  <2>2. \A i \in 0..(n - 1) : i \in S => i + 1 \in S
    <3> SUFFICES ASSUME NEW i \in 0..(n - 1), i \in S PROVE i + 1 \in S
      OBVIOUS
    <3>1. i + 1 \in 1..n /\ i + 1 \in 0..n /\ i + 1 # 0 /\ (i + 1) - 1 = i
      BY <1>1
    <3>2. Good(f[(i + 1) - 1], (i + 1) - 1)
      BY <3>1
    <3>3. Good(SearchBlock(f[(i + 1) - 1], s, blocks[i + 1]), i + 1)
      BY <1>3, <3>1, <3>2
    <3> QED
      BY <1>5, <3>1, <3>3
  <2> HIDE DEF S
  <2>3. \A i \in 0..n : i \in S
    BY <1>1, <2>1, <2>2, Climb
  <2>4. n \in 0..n
    BY <1>1
  <2> QED
    BY <2>3, <2>4 DEF S
<1> QED
  BY <1>1, <1>6 DEF Good, f, n

-----------------------------------------------------------------------------
(* The invariant of the readers *)

Names(todo) == {todo[i] : i \in 1..Len(todo)}
OnceEach(todo) == \A i, j \in 1..Len(todo) : todo[i] = todo[j] => i = j
Rest(me) == {k \in Key : k[2] \in Names(me.todo)}

\* An index that holds every batch of the length it was made for.
KnownIndex(F, s, x) == IsIndex(s, F[s].batches, x) /\ x.seen < 3 * x.indexed + 3

\* A reader between metadata and search: the index it holds is of the file as it was, and
\* reaches beyond every row the first page must show.
LocalOk(F, me) ==
  LET s == Head(me.todo) IN
  /\ me.pc \in {"extend", "insert", "search"} => me.todo # <<>> /\ me.q.op = "list"
  /\ me.pc = "extend" => (me.local = Absent \/ KnownIndex(F, s, me.local)) /\ me.len < 3 * Len(F[s].batches) + 3
  /\ me.pc \in {"insert", "search"} =>
       /\ KnownIndex(F, s, me.local)
       /\ \A k \in me.before : k[2] = s => k \in KeysBefore(s, F[s].batches, me.local.indexed)

\* The pages so far: ascending, up to the cursor, and nothing before the cursor is missing.
Paging(F, me) ==
  /\ \A i \in 1..Len(me.out) : StoredIn(F, me.out[i], me.q)
  /\ \A i \in 1..(Len(me.out) - 1) : order(me.out[i], me.out[i + 1], me.q.descending)
Following(me) ==
  /\ IF me.cursor = Absent THEN me.out = <<>> ELSE me.out # <<>> /\ me.cursor = me.out[Len(me.out)]
  /\ \A k \in me.before : me.cursor = Absent \/ order(me.cursor, k, me.q.descending) \/ k \in Names(me.out)
ListOk(F, me) ==
  /\ Paging(F, me)
  /\ ~me.counting => Counts(F, me, me.total, {})
  /\ me.pc = "done" => ~me.counting /\ me.before \subseteq Names(me.out)
  /\ me.pc # "done" => PageOk(F, me, Rest(me)) /\ Following(me)
ScanOk(F, me) ==
  /\ me.pc \in {"seg", "done"}
  /\ \A k \in me.best : StoredIn(F, k, me.q)
  /\ me.before \ Rest(me) \subseteq me.best

ReaderOk(F, V, me) ==
  me.pc \notin {"idle", "failed"} =>
    /\ me.q \in Queries /\ OnceEach(me.todo) /\ (me.pc = "done" => me.todo = <<>>)
    /\ me.before \subseteq V /\ \A k \in me.before : F[k[2]].st = "yes" /\ StoredIn(F, k, me.q)
    /\ LocalOk(F, me)
    /\ me.q.op = "list" => ListOk(F, me)
    /\ me.q.op = "scan" => ScanOk(F, me)

\* The files are what they were, or a batch longer.
InLists(F) == \A s \in Segments : F[s].batches \in Seq(Lists)
Further(F, G) ==
  \A s \in Segments : G[s].batches = F[s].batches \/ \E b \in Lists : G[s].batches = Append(F[s].batches, b)

LEMMA SegmentStays ==
  ASSUME NEW F, NEW G, InLists(F), Further(F, G), NEW s \in Segments
  PROVE  /\ Len(F[s].batches) \in Nat /\ Len(G[s].batches) \in Nat /\ Len(F[s].batches) <= Len(G[s].batches)
         /\ KeysOf(s, F[s].batches) \subseteq KeysOf(s, G[s].batches)
         /\ \A e \in 0..Len(F[s].batches) : KeysBefore(s, G[s].batches, e) = KeysBefore(s, F[s].batches, e)
         /\ \A x : KnownIndex(F, s, x) => KnownIndex(G, s, x) /\ x.indexed \in 0..Len(F[s].batches)
<1> DEFINE bs == F[s].batches
           cs == G[s].batches
<1>1. bs \in Seq(Lists) /\ Len(bs) \in Nat
  BY LenProperties DEF InLists
<1>2. \A x : KnownIndex(F, s, x) => x.indexed \in 0..Len(bs)
  <2> SUFFICES ASSUME NEW x, KnownIndex(F, s, x) PROVE x.indexed \in 0..Len(bs)
    OBVIOUS
  <2>1. Tiled(s, bs, x.blocks) /\ x.indexed = EndOf(x.blocks)
    BY DEF KnownIndex, IsIndex
  <2> HIDE DEF bs
  <2> QED
    BY <1>1, <2>1, TilesEnd
<1>3. CASE cs = bs
  BY <1>1, <1>2, <1>3 DEF KnownIndex
<1>4. CASE \E b \in Lists : cs = Append(bs, b)
  <2>1. PICK b \in Lists : cs = Append(bs, b)
    BY <1>4
  <2>2. Len(cs) = Len(bs) + 1 /\ bs \in Seq(Seq(Int)) /\ b \in Seq(Int)
    BY <1>1, <2>1, AppendProperties, Uptos DEF Lists
  <2> HIDE DEF bs, cs
  <2>3. KeysOf(s, bs) \subseteq KeysOf(s, cs)
    BY <2>1, <2>2, KeysGrow
  <2>4. \A e \in 0..Len(bs) : KeysBefore(s, cs, e) = KeysBefore(s, bs, e)
    BY <1>1, <2>1, UptoGrown DEF KeysBefore
  <2>5. \A x : IsIndex(s, bs, x) => IsIndex(s, cs, x)
    BY <1>1, <2>1, IndexGrows
  <2> QED
    BY <1>1, <1>2, <2>2, <2>3, <2>4, <2>5 DEF KnownIndex, bs, cs
<1> QED
  BY <1>3, <1>4 DEF Further

LEMMA StoredStays ==
  ASSUME NEW F, NEW G, InLists(F), Further(F, G), NEW k, NEW q, StoredIn(F, k, q)
  PROVE  StoredIn(G, k, q)
<1>1. k[2] \in Segments
  BY DEF StoredIn, Key
<1>2. KeysOf(k[2], F[k[2]].batches) \subseteq KeysOf(k[2], G[k[2]].batches)
  BY <1>1, SegmentStays
<1> QED
  BY <1>2 DEF StoredIn

\* What a reader knows stays true while rows are appended, and what it must show may only
\* become less.
LEMMA ReaderStays ==
  ASSUME NEW F, NEW G, InLists(F), Further(F, G), NEW V, NEW W, NEW me \in ReaderType, ReaderOk(F, V, me),
         NEW B, B \subseteq me.before, B \subseteq W, \A k \in B : G[k[2]].st = "yes"
  PROVE  [me EXCEPT !.before = B] \in ReaderType /\ ReaderOk(G, W, [me EXCEPT !.before = B])
<1> DEFINE n == [me EXCEPT !.before = B]
<1>1. /\ n \in ReaderType /\ n.before = B /\ n.pc = me.pc /\ n.q = me.q /\ n.todo = me.todo /\ n.len = me.len
      /\ n.local = me.local /\ n.counting = me.counting /\ n.matched = me.matched /\ n.best = me.best
      /\ n.cursor = me.cursor /\ n.total = me.total /\ n.out = me.out
  BY DEF ReaderType
<1> HIDE DEF n
<1>2. SUFFICES ASSUME n.pc \notin {"idle", "failed"} PROVE ReaderOk(G, W, n)
  BY <1>1 DEF ReaderOk, n
<1>3. /\ n.q \in Queries /\ OnceEach(n.todo) /\ (n.pc = "done" => n.todo = <<>>)
      /\ me.before \subseteq V /\ (\A k \in me.before : F[k[2]].st = "yes" /\ StoredIn(F, k, me.q))
      /\ LocalOk(F, me) /\ (me.q.op = "list" => ListOk(F, me)) /\ (me.q.op = "scan" => ScanOk(F, me))
      /\ me.todo \in Seq(Segments)
  BY <1>1, <1>2 DEF ReaderOk, ReaderType
<1>4. \A k, q : StoredIn(F, k, q) => StoredIn(G, k, q)
  BY StoredStays
<1>5. LocalOk(G, n)
  <2> DEFINE s == Head(me.todo)
  <2> SUFFICES ASSUME n.pc \in {"extend", "insert", "search"} PROVE LocalOk(G, n)
    BY DEF LocalOk
  <2>1. n.todo # <<>> /\ n.q.op = "list"
    BY <1>1, <1>3 DEF LocalOk
  <2>2. s \in Segments
    BY <1>1, <1>3, <2>1, HeadTailProperties
  <2>3. s = Head(n.todo)
    BY <1>1
  <2> HIDE DEF s
  <2>4. /\ Len(F[s].batches) \in Nat /\ Len(G[s].batches) \in Nat /\ Len(F[s].batches) <= Len(G[s].batches)
        /\ (\A e \in 0..Len(F[s].batches) : KeysBefore(s, G[s].batches, e) = KeysBefore(s, F[s].batches, e))
        /\ \A x : KnownIndex(F, s, x) => KnownIndex(G, s, x) /\ x.indexed \in 0..Len(F[s].batches)
    BY <2>2, SegmentStays
  <2>5. CASE n.pc = "extend"
    <3>1. (me.local = Absent \/ KnownIndex(F, s, me.local)) /\ me.len < 3 * Len(F[s].batches) + 3
      BY <1>1, <1>3, <2>5 DEF LocalOk, s
    <3>2. n.len \in Nat
      BY <1>1 DEF ReaderType
    <3>3. (n.local = Absent \/ KnownIndex(G, s, n.local)) /\ n.len < 3 * Len(G[s].batches) + 3
      BY <1>1, <2>4, <3>1, <3>2
    <3> QED
      BY <2>1, <2>3, <2>5, <3>3 DEF LocalOk
  <2>6. CASE n.pc \in {"insert", "search"}
    <3>1. /\ KnownIndex(F, s, me.local)
          /\ \A k \in me.before : k[2] = s => k \in KeysBefore(s, F[s].batches, me.local.indexed)
      BY <1>1, <1>3, <2>6 DEF LocalOk, s
    <3>2. /\ KnownIndex(G, s, n.local)
          /\ \A k \in n.before : k[2] = s => k \in KeysBefore(s, G[s].batches, n.local.indexed)
      BY <1>1, <2>4, <3>1
    <3> QED
      BY <2>1, <2>3, <2>6, <3>2 DEF LocalOk
  <2> QED
    BY <2>5, <2>6
<1>6. Rest(n) = Rest(me)
  BY <1>1 DEF Rest
<1>7. \A m, A : Counts(F, me, m, A) => Counts(G, n, m, A)
  <2> SUFFICES ASSUME NEW m, NEW A, Counts(F, me, m, A) PROVE Counts(G, n, m, A)
    OBVIOUS
  <2>1. PICK C : /\ IsFiniteSet(C) /\ Cardinality(C) = m /\ C \cap A = {} /\ me.before \ A \subseteq C
                 /\ \A k \in C : StoredIn(F, k, me.q)
    BY DEF Counts
  <2>2. n.before \ A \subseteq C /\ \A k \in C : StoredIn(G, k, n.q)
    BY <1>1, <1>4, <2>1
  <2> QED
    BY <2>1, <2>2 DEF Counts
<1>8. n.q.op = "list" => ListOk(G, n)
  <2> SUFFICES ASSUME n.q.op = "list" PROVE ListOk(G, n)
    OBVIOUS
  <2>1. ListOk(F, me)
    BY <1>1, <1>3
  <2>2. Paging(G, n)
    BY <1>1, <1>4, <2>1 DEF ListOk, Paging
  <2>3. n.pc # "done" => PageOk(G, n, Rest(n)) /\ Following(n)
    <3> SUFFICES ASSUME n.pc # "done" PROVE PageOk(G, n, Rest(n)) /\ Following(n)
      OBVIOUS
    <3>1. PageOk(F, me, Rest(me)) /\ Following(me)
      BY <1>1, <2>1 DEF ListOk
    <3>2. PageOk(G, n, Rest(n))
      BY <1>1, <1>4, <1>6, <1>7, <3>1 DEF PageOk
    <3>3. Following(n)
      BY <1>1, <3>1 DEF Following
    <3> QED
      BY <3>2, <3>3
  <2> QED
    BY <1>1, <1>7, <2>1, <2>2, <2>3 DEF ListOk
<1>9. n.q.op = "scan" => ScanOk(G, n)
  BY <1>1, <1>3, <1>4, <1>6 DEF ScanOk
<1> QED
  BY <1>1, <1>3, <1>4, <1>5, <1>8, <1>9 DEF ReaderOk

\* Segments that lost their directory while they were open stay lost.
Lost == \A s \in Segments : s \in orphans => file[s].st = "gone"
IndexesKnown == index \in [Segments -> Indices \cup {Absent}]
         /\ \A s \in Segments : index[s] = Absent \/ KnownIndex(file, s, index[s])
Reading == rd \in [Readers -> ReaderType] /\ \A r \in Readers : ReaderOk(file, confirmed, rd[r])
ReadInv == FilesInv /\ InLists(file) /\ Lost /\ IndexesKnown /\ Reading

LEMMA IdleOk ==
  ASSUME NEW F, NEW V
  PROVE  /\ IdleReader \in ReaderType /\ FailedReader \in ReaderType
         /\ ReaderOk(F, V, IdleReader) /\ ReaderOk(F, V, FailedReader)
<1>1. <<>> \in Seq(Segments) /\ <<>> \in Seq(Key)
  BY EmptySeq
<1>2. /\ IdleReader \in ReaderType /\ IdleReader.pc = "idle"
      /\ FailedReader \in ReaderType /\ FailedReader.pc = "failed"
  BY <1>1 DEF IdleReader, FailedReader, ReaderType
<1> QED
  BY <1>2 DEF ReaderOk

LEMMA ListsStay == ASSUME NEW F, NEW G, InLists(F), Further(F, G) PROVE InLists(G)
<1> SUFFICES ASSUME NEW s \in Segments PROVE G[s].batches \in Seq(Lists)
  BY DEF InLists
<1>1. F[s].batches \in Seq(Lists)
  BY DEF InLists
<1>2. G[s].batches = F[s].batches \/ \E b \in Lists : G[s].batches = Append(F[s].batches, b)
  BY DEF Further
<1> QED
  BY <1>1, <1>2, AppendProperties

\* What a step of the writing side, a drop or a crash does to readers and indexes.
LEMMA ReadersStand ==
  ASSUME ReadInv, FilesInv', Lost', Further(file, file'),
         index' = index \/ index' = [s \in Segments |-> Absent],
         \/ rd' = rd /\ confirmed \subseteq confirmed' /\ \A s \in Segments : file[s].st = "yes" => file'[s].st = "yes"
         \/ rd' = [r \in Readers |-> [rd[r] EXCEPT !.before = {}]]
         \/ rd' = [r \in Readers |-> IdleReader]
  PROVE  ReadInv'
<1>1. InLists(file) /\ rd \in [Readers -> ReaderType] /\ \A r \in Readers : ReaderOk(file, confirmed, rd[r])
  BY DEF ReadInv, Reading
<1>2. InLists(file')
  BY <1>1, ListsStay
<1>3. IndexesKnown'
  <2>1. index \in [Segments -> Indices \cup {Absent}] /\ \A s \in Segments : index[s] = Absent \/ KnownIndex(file, s, index[s])
    BY DEF ReadInv, IndexesKnown
  <2>2. \A s \in Segments : \A x : KnownIndex(file, s, x) => KnownIndex(file', s, x)
    BY <1>1, SegmentStays
  <2>3. index' \in [Segments -> Indices \cup {Absent}]
    BY <2>1
  <2>4. ASSUME NEW s \in Segments PROVE index'[s] = Absent \/ KnownIndex(file', s, index'[s])
    BY <2>1, <2>2
  <2> QED
    BY <2>3, <2>4 DEF IndexesKnown
<1>4. ASSUME NEW r \in Readers, NEW B, B = rd[r].before \/ B = {}, B \subseteq confirmed',
             B = {} \/ \A s \in Segments : file[s].st = "yes" => file'[s].st = "yes"
      PROVE  [rd[r] EXCEPT !.before = B] \in ReaderType /\ ReaderOk(file', confirmed', [rd[r] EXCEPT !.before = B])
  <2>1. rd[r] \in ReaderType /\ ReaderOk(file, confirmed, rd[r]) /\ B \subseteq rd[r].before
    BY <1>1, <1>4
  <2>2. CASE rd[r].pc \in {"idle", "failed"}
    <3>1. [rd[r] EXCEPT !.before = B] \in ReaderType /\ [rd[r] EXCEPT !.before = B].pc = rd[r].pc
      BY <2>1 DEF ReaderType
    <3> QED
      BY <2>2, <3>1 DEF ReaderOk
  <2>3. CASE rd[r].pc \notin {"idle", "failed"}
    <3>1. \A k \in B : file'[k[2]].st = "yes"
      <4> SUFFICES ASSUME NEW k \in B PROVE file'[k[2]].st = "yes"
        OBVIOUS
      <4>1. file[k[2]].st = "yes" /\ k[2] \in Segments
        BY <2>1, <2>3 DEF ReaderOk, StoredIn, Key
      <4> QED
        BY <1>4, <4>1
    <3> QED
      BY <1>1, <1>4, <2>1, <3>1, ReaderStays
  <2> QED
    BY <2>2, <2>3
<1>5. CASE rd' = rd /\ confirmed \subseteq confirmed' /\ \A s \in Segments : file[s].st = "yes" => file'[s].st = "yes"
  <2>1. ASSUME NEW r \in Readers PROVE ReaderOk(file', confirmed', rd[r])
    <3>1. rd[r].before \subseteq confirmed' \/ rd[r].pc \in {"idle", "failed"}
      BY <1>1, <1>5 DEF ReaderOk
    <3>2. rd[r] = [rd[r] EXCEPT !.before = rd[r].before]
      BY <1>1 DEF ReaderType
    <3>3. CASE rd[r].pc \in {"idle", "failed"}
      BY <3>3 DEF ReaderOk
    <3>4. CASE rd[r].before \subseteq confirmed'
      <4> DEFINE B == rd[r].before
      <4>1. B = rd[r].before /\ B \subseteq confirmed'
        BY <3>4
      <4> HIDE DEF B
      <4>2. ReaderOk(file', confirmed', [rd[r] EXCEPT !.before = B])
        BY <1>4, <1>5, <4>1
      <4> QED
        BY <3>2, <4>1, <4>2
    <3> QED
      BY <3>1, <3>3, <3>4
  <2> QED
    BY <1>1, <1>2, <1>3, <1>5, <2>1 DEF ReadInv, Reading
<1>6. CASE rd' = [r \in Readers |-> [rd[r] EXCEPT !.before = {}]]
  <2>1. ASSUME NEW r \in Readers PROVE rd'[r] \in ReaderType /\ ReaderOk(file', confirmed', rd'[r])
    BY <1>4, <1>6
  <2> QED
    BY <1>2, <1>3, <1>6, <2>1 DEF ReadInv, Reading
<1>7. CASE rd' = [r \in Readers |-> IdleReader]
  <2>1. ASSUME NEW r \in Readers PROVE rd'[r] \in ReaderType /\ ReaderOk(file', confirmed', rd'[r])
    BY <1>7, IdleOk
  <2> QED
    BY <1>2, <1>3, <1>7, <2>1 DEF ReadInv, Reading
<1> QED
  BY <1>5, <1>6, <1>7

\* What the writing side's steps do to the names and the batches of the files.
FilesMove ==
  /\ Further(file, file') /\ Lost'
  /\ \A s \in Segments : file[s].st = "yes" => file'[s].st = "yes"

LEMMA BatchesOf == ASSUME ArrowAssumption, ReadInv, w.pc # "idle" PROVE w.batch \in Lists
BY DEF ReadInv, FilesInv, Written, ArrowAssumption, Lists

LEMMA FilesSame ==
  ASSUME ReadInv, orphans' = orphans,
         \A s \in Segments : file'[s].batches = file[s].batches /\ file'[s].st = file[s].st
  PROVE  FilesMove
BY DEF ReadInv, Lost, FilesMove, Further

LEMMA BeginMoves ==
  ASSUME ArrowAssumption, ReadInv, NEW b \in Batches, NEW c \in Shapes, NEW s \in Segments, BeginWrite(b, c, s)
  PROVE  FilesMove
<1>0. s # Absent
  BY DEF ArrowAssumption
<1>1. file \in [Segments -> FileType] /\ Lost /\ Fresh
  BY DEF ReadInv, FilesInv, Written
<1>2. CASE open = Absent
  <2> DEFINE f == [st |-> "part", batches |-> <<>>, tail |-> "ok", shape |-> c]
  <2>1. file[s].st = "none" /\ file' = [file EXCEPT ![s] = f] /\ orphans' = orphans
    <3>1. file[s].st = "none" /\ file' = [file EXCEPT ![s] = f]
      BY <1>0, <1>2 DEF BeginWrite, NoFile
    <3>2. orphans' = orphans
      BY DEF BeginWrite
    <3> QED
      BY <3>1, <3>2
  <2>2. file'[s].batches = <<>> /\ file[s].batches = <<>> /\ file'[s].st = "part" /\ s \notin orphans
    BY <1>1, <2>1 DEF Fresh, Lost
  <2>3. \A x \in Segments : x # s => file'[x] = file[x]
    BY <1>1, <2>1
  <2> QED
    BY <1>1, <2>1, <2>2, <2>3 DEF FilesMove, Further, Lost
<1>3. CASE open # Absent
  <2>1. file' = file /\ orphans' = orphans
    BY <1>3 DEF BeginWrite
  <2> QED
    BY <2>1, FilesSame
<1> QED
  BY <1>2, <1>3

LEMMA RenameMoves ==
  ASSUME ReadInv, NEW s \in Segments, Rename(s)
  PROVE  FilesMove
<1>1. file \in [Segments -> FileType] /\ Lost
  BY DEF ReadInv, FilesInv, Written
<1>2. file[s].st = "part" /\ file' = [file EXCEPT ![s] = [file[s] EXCEPT !.st = "yes"]] /\ orphans' = orphans
  BY DEF Rename
<1>3. file'[s].batches = file[s].batches /\ s \notin orphans
  BY <1>1, <1>2 DEF FileType, Lost
<1>4. \A x \in Segments : x # s => file'[x] = file[x]
  BY <1>1, <1>2
<1>5. file'[s].st = "yes"
  BY <1>1, <1>2 DEF FileType
<1> QED
  BY <1>1, <1>2, <1>3, <1>4, <1>5 DEF FilesMove, Further, Lost

LEMMA PartsGo ==
  ASSUME ReadInv, CreateFails \/ Crash
  PROVE  FilesMove
<1>1. /\ file' = [s \in Segments |-> IF file[s].st = "part" THEN [file[s] EXCEPT !.st = "gone"] ELSE file[s]]
      /\ orphans' = orphans
  BY DEF CreateFails, Crash
<1>2. file \in [Segments -> FileType] /\ Lost
  BY DEF ReadInv, FilesInv, Written
<1>3. \A s \in Segments : file'[s].batches = file[s].batches /\ (file'[s].st = file[s].st \/ (file[s].st = "part" /\ file'[s].st = "gone"))
  BY <1>1, <1>2 DEF FileType
<1> QED
  BY <1>1, <1>2, <1>3 DEF FilesMove, Further, Lost

LEMMA AppendMoves ==
  ASSUME ArrowAssumption, ReadInv,
         \/ AppendTorn \/ Flush
         \/ \E how \in {"ok", "torn", "whole"} : AppendFails(how)
         \/ \E full, ok \in BOOLEAN : Acknowledge(full, ok)
         \/ DropClose \/ \E ok \in BOOLEAN : CloseSegment(ok)
  PROVE  FilesMove
<1>1. file \in [Segments -> FileType] /\ open \in Segments \cup {Absent} /\ Absent \notin Segments
      /\ (w.pc \in {"append", "flush", "sync"} => open # Absent)
  BY DEF ReadInv, FilesInv, Written, Holds, ArrowAssumption
<1>2. orphans' = orphans
  BY DEF AppendTorn, Flush, AppendFails, Acknowledge, DropClose, CloseSegment
<1>3. \/ file' = file
      \/ open \in Segments /\ \E x : file' = [file EXCEPT ![open] = [file[open] EXCEPT !.tail = x]]
      \/ open \in Segments /\ w.batch \in Lists
         /\ file' = [file EXCEPT ![open] = [file[open] EXCEPT !.tail = "ok", !.batches = Append(file[open].batches, w.batch)]]
  <2>1. CASE AppendTorn
    BY <1>1, <2>1 DEF AppendTorn
  <2>2. CASE Flush
    <3>1. open \in Segments /\ w.batch \in Lists
      BY <1>1, <2>2, BatchesOf DEF Flush
    <3>2. file' = [file EXCEPT ![open].tail = "ok", ![open].batches = Append(@, w.batch)]
      BY <2>2 DEF Flush
    <3>3. file' = [file EXCEPT ![open] = [file[open] EXCEPT !.tail = "ok", !.batches = Append(file[open].batches, w.batch)]]
      BY <1>1, <3>1, <3>2 DEF FileType
    <3> QED
      BY <3>1, <3>3
  <2>3. CASE \E how \in {"ok", "torn", "whole"} : AppendFails(how)
    <3>0. PICK how \in {"ok", "torn", "whole"} : AppendFails(how)
      BY <2>3
    <3>1. open \in Segments /\ w.batch \in Lists
      BY <1>1, <3>0, BatchesOf DEF AppendFails
    <3>2. \/ file' = file
          \/ file' = [file EXCEPT ![open].tail = "ok", ![open].batches = Append(@, w.batch)]
          \/ file' = [file EXCEPT ![open].tail = how]
      BY <3>0 DEF AppendFails
    <3>3. CASE file' = [file EXCEPT ![open].tail = "ok", ![open].batches = Append(@, w.batch)]
      <4>1. file' = [file EXCEPT ![open] = [file[open] EXCEPT !.tail = "ok", !.batches = Append(file[open].batches, w.batch)]]
        BY <1>1, <3>1, <3>3 DEF FileType
      <4> QED
        BY <3>1, <4>1
    <3> QED
      BY <3>1, <3>2, <3>3
  <2>4. CASE \E full, ok \in BOOLEAN : Acknowledge(full, ok)
    BY <1>1, <2>4 DEF Acknowledge
  <2>5. CASE DropClose \/ \E ok \in BOOLEAN : CloseSegment(ok)
    BY <1>1, <2>5 DEF DropClose, CloseSegment, Finish
  <2> QED
    BY <2>1, <2>2, <2>3, <2>4, <2>5
<1>4. CASE file' = file
  BY <1>2, <1>4, FilesSame
<1>5. CASE open \in Segments /\ \E x : file' = [file EXCEPT ![open] = [file[open] EXCEPT !.tail = x]]
  <2>1. \A s \in Segments : file'[s].batches = file[s].batches /\ file'[s].st = file[s].st
    BY <1>1, <1>5 DEF FileType
  <2> QED
    BY <1>2, <2>1, FilesSame
<1>6. CASE open \in Segments /\ w.batch \in Lists
           /\ file' = [file EXCEPT ![open] = [file[open] EXCEPT !.tail = "ok", !.batches = Append(file[open].batches, w.batch)]]
  <2>1. file'[open].batches = Append(file[open].batches, w.batch) /\ file'[open].st = file[open].st
    BY <1>1, <1>6 DEF FileType
  <2>2. \A s \in Segments : s # open => file'[s] = file[s]
    BY <1>1, <1>6
  <2>3. Lost
    BY DEF ReadInv
  <2> QED
    BY <1>2, <1>6, <2>1, <2>2, <2>3 DEF FilesMove, Further, Lost
<1> QED
  BY <1>3, <1>4, <1>5, <1>6

LEMMA DirectoryGoes ==
  ASSUME ReadInv, RemoveDir
  PROVE  Further(file, file') /\ Lost'
<1>1. /\ file' = [s \in Segments |-> IF file[s].st \in {"yes", "part"} THEN [file[s] EXCEPT !.st = "gone"] ELSE file[s]]
      /\ orphans' = IF open = Absent THEN orphans ELSE orphans \cup {open}
  BY DEF RemoveDir
<1>2. file \in [Segments -> FileType] /\ Lost /\ Opened
  BY DEF ReadInv, FilesInv, Written
<1>3. \A s \in Segments : /\ file'[s].batches = file[s].batches
                          /\ file'[s].st = IF file[s].st \in {"yes", "part"} THEN "gone" ELSE file[s].st
  BY <1>1, <1>2 DEF FileType
<1>4. Further(file, file')
  BY <1>3 DEF Further
<1>5. ASSUME NEW s \in Segments, s \in orphans' PROVE file'[s].st = "gone"
  <2>1. s \in orphans \/ (s = open /\ open # Absent)
    BY <1>1, <1>5
  <2>2. file[s].st \in {"yes", "gone"}
    BY <1>2, <2>1 DEF Lost, Opened
  <2> QED
    BY <1>3, <2>2
<1> QED
  BY <1>4, <1>5 DEF Lost

\* A step of the writing side, a drop or a crash.
LEMMA WritersKeep ==
  ASSUME ArrowAssumption, ReadInv, FilesInv',
         \/ \E b \in Batches, c \in Shapes, s \in Segments : BeginWrite(b, c, s)
         \/ \E s \in Segments : Rename(s)
         \/ CreateFails \/ AppendTorn \/ Flush
         \/ \E full, ok \in BOOLEAN : Acknowledge(full, ok)
         \/ \E how \in {"ok", "torn", "whole"} : AppendFails(how)
         \/ \E ok \in BOOLEAN : CloseSegment(ok)
         \/ DropClose \/ Forget \/ RemoveDir \/ Crash
  PROVE  ReadInv'
<1>1. CASE RemoveDir
  <2>1. index' = index /\ rd' = [r \in Readers |-> [rd[r] EXCEPT !.before = {}]]
    BY <1>1 DEF RemoveDir
  <2> QED
    BY <1>1, <2>1, DirectoryGoes, ReadersStand
<1>2. CASE Crash
  <2>1. index' = [s \in Segments |-> Absent] /\ rd' = [r \in Readers |-> IdleReader]
    BY <1>2 DEF Crash
  <2>2. FilesMove
    BY <1>2, PartsGo
  <2> QED
    BY <2>1, <2>2, ReadersStand DEF FilesMove
<1>3. CASE Forget
  <2>1. index' = [s \in Segments |-> Absent] /\ rd' = rd /\ file' = file /\ confirmed' = confirmed /\ orphans' = orphans
    BY <1>3 DEF Forget, wvars
  <2>2. FilesMove
    BY <2>1, FilesSame
  <2> QED
    BY <2>1, <2>2, ReadersStand DEF FilesMove
<1>4. CASE ~(RemoveDir \/ Crash \/ Forget)
  <2>1. FilesMove
    BY <1>4, BeginMoves, RenameMoves, PartsGo, AppendMoves
  <2>2. index' = index /\ rd' = rd /\ confirmed \subseteq confirmed'
    BY <1>4 DEF BeginWrite, Rename, CreateFails, AppendTorn, Flush, Acknowledge,
                AppendFails, CloseSegment, DropClose
  <2> QED
    BY <2>1, <2>2, ReadersStand DEF FilesMove
<1> QED
  BY <1>1, <1>2, <1>3, <1>4

-----------------------------------------------------------------------------
(* The readers' steps *)

LEMMA OneReader ==
  ASSUME ReadInv, FilesInv', UNCHANGED <<file, confirmed, orphans>>, IndexesKnown',
         NEW r \in Readers, NEW m, rd' = [rd EXCEPT ![r] = m], m \in ReaderType, ReaderOk(file, confirmed, m)
  PROVE  ReadInv'
<1>1. InLists(file) /\ Lost /\ rd \in [Readers -> ReaderType] /\ \A x \in Readers : ReaderOk(file, confirmed, rd[x])
  BY DEF ReadInv, Reading
<1>2. ASSUME NEW x \in Readers PROVE rd'[x] \in ReaderType /\ ReaderOk(file', confirmed', rd'[x])
  <2>1. ReaderOk(file, confirmed, rd'[x]) /\ rd'[x] \in ReaderType
    BY <1>1
  <2> QED
    BY <2>1
<1>3. rd' \in [Readers -> ReaderType]
  BY <1>1
<1>4. Reading'
  BY <1>2, <1>3 DEF Reading
<1>5. InLists(file') /\ Lost'
  BY <1>1 DEF Lost
<1> QED
  BY <1>4, <1>5 DEF ReadInv

LEMMA IndexesStay == ASSUME ReadInv, file' = file, index' = index PROVE IndexesKnown'
<1>1. IndexesKnown
  BY DEF ReadInv
<1> QED
  BY <1>1 DEF IndexesKnown

LEMMA KeysTyped ==
  ASSUME NEW F, InLists(F), NEW s \in Segments, NEW k \in KeysOf(s, F[s].batches)
  PROVE  k \in Key /\ k[2] = s /\ k[1] \in Int
<1>1. F[s].batches \in Seq(Seq(Int))
  BY Uptos DEF InLists
<1>2. /\ Rows(F[s].batches) \in Seq(Int)
      /\ KeysOf(s, F[s].batches) = {<<Rows(F[s].batches)[i], s, i - 1>> : i \in 1..Len(Rows(F[s].batches))}
      /\ Len(Rows(F[s].batches)) \in Nat
  BY <1>1, KeysOfRows
<1>3. PICK i \in 1..Len(Rows(F[s].batches)) : k = <<Rows(F[s].batches)[i], s, i - 1>>
  BY <1>2
<1>4. Rows(F[s].batches)[i] \in Int /\ i - 1 \in Nat
  BY <1>2, <1>3, ElementOfSeq
<1> QED
  BY <1>3, <1>4 DEF Key

\* Every segment that has its name is on the list, once.
LEMMA ListedAll ==
  ASSUME ArrowAssumption
  PROVE  /\ Listed \in Seq(Segments) /\ OnceEach(Listed)
         /\ \A s \in Segments : file[s].st = "yes" => s \in Names(Listed)
<1> DEFINE S == {s \in Segments : file[s].st = "yes"}
           f == NamesInOrder(S)
<1>1. Listed = f /\ S \in SUBSET Segments
  BY DEF Listed
<1> HIDE DEF S
<1>2. /\ f \in Seq(S) /\ (\A k \in S : \E i \in 1..Len(f) : f[i] = k)
      /\ \A i, j \in 1..Len(f) : f[i] = f[j] => i = j
  BY <1>1, NamesListed
<1> HIDE DEF f
<1>3. f \in Seq(Segments)
  <2>1. Len(f) \in Nat /\ f = [i \in 1..Len(f) |-> f[i]] /\ \A i \in 1..Len(f) : f[i] \in S
    BY <1>2, LenProperties, ElementOfSeq
  <2>2. \A i \in 1..Len(f) : f[i] \in Segments
    BY <2>1 DEF S
  <2> QED
    BY <2>1, <2>2
<1>4. \A s \in S : s \in Names(f)
  BY <1>2 DEF Names
<1> QED
  BY <1>1, <1>2, <1>3, <1>4 DEF OnceEach, S

\* A key that a reader must show is on the list it is going through.
LEMMA AllAhead ==
  ASSUME NEW F, NEW me, me.todo \in Seq(Segments), \A s \in Segments : F[s].st = "yes" => s \in Names(me.todo),
         \A k \in me.before : F[k[2]].st = "yes" /\ StoredIn(F, k, me.q)
  PROVE  me.before \subseteq Rest(me)
BY DEF StoredIn, Rest, Key

Starting(q, t, c, B) == [IdleReader EXCEPT !.pc = "seg", !.q = q, !.todo = t, !.counting = c, !.before = B]

LEMMA StartingTyped ==
  ASSUME NEW q \in Queries, NEW t \in Seq(Segments), NEW c \in BOOLEAN, NEW B \in SUBSET Key
  PROVE  LET n == Starting(q, t, c, B) IN
         /\ n \in ReaderType /\ n.pc = "seg" /\ n.q = q /\ n.todo = t /\ n.counting = c /\ n.matched = 0
         /\ n.best = {} /\ n.cursor = Absent /\ n.out = <<>> /\ n.before = B
<1> DEFINE I == IdleReader
           x == [I EXCEPT !.pc = "seg", !.q = q]
           y == [x EXCEPT !.todo = t]
           z == [y EXCEPT !.counting = c]
           n == [z EXCEPT !.before = B]
<1>1. I \in ReaderType /\ I.matched = 0 /\ I.best = {} /\ I.cursor = Absent /\ I.out = <<>>
  BY IdleOk DEF IdleReader
<1> HIDE DEF I
<1>2. /\ x \in ReaderType /\ x.pc = "seg" /\ x.q = q /\ x.matched = 0 /\ x.best = {} /\ x.cursor = Absent /\ x.out = <<>>
  BY <1>1 DEF ReaderType
<1> HIDE DEF x
<1>3. /\ y \in ReaderType /\ y.pc = "seg" /\ y.q = q /\ y.matched = 0 /\ y.best = {} /\ y.cursor = Absent /\ y.out = <<>>
      /\ y.todo = t
  BY <1>2 DEF ReaderType
<1> HIDE DEF y
<1>4. /\ z \in ReaderType /\ z.pc = "seg" /\ z.q = q /\ z.matched = 0 /\ z.best = {} /\ z.cursor = Absent /\ z.out = <<>>
      /\ z.todo = t /\ z.counting = c
  BY <1>3 DEF ReaderType
<1> HIDE DEF z
<1>5. /\ n \in ReaderType /\ n.pc = "seg" /\ n.q = q /\ n.matched = 0 /\ n.best = {} /\ n.cursor = Absent /\ n.out = <<>>
      /\ n.todo = t /\ n.counting = c /\ n.before = B
  BY <1>4 DEF ReaderType
<1>6. n = Starting(q, t, c, B)
  BY DEF x, y, z, I, Starting
<1> HIDE DEF n
<1> QED
  BY <1>5, <1>6

\* The first page of a query.
LEMMA AskKeeps ==
  ASSUME ArrowAssumption, ReadInv, FilesInv', NEW r \in Readers, NEW q \in Queries, Ask(r, q)
  PROVE  ReadInv'
<1> DEFINE t == Listed
           B == Visible(q) \cap confirmed
           n == [IdleReader EXCEPT !.pc = "seg", !.q = q, !.todo = t, !.counting = (q.op = "list"), !.before = B]
<1>1. rd' = [rd EXCEPT ![r] = n] /\ UNCHANGED <<file, confirmed, orphans, index>>
  BY DEF Ask, wvars
<1>3. t \in Seq(Segments) /\ OnceEach(t) /\ \A s \in Segments : file[s].st = "yes" => s \in Names(t)
  BY ListedAll
<1>4. ASSUME NEW k \in B PROVE k \in Key /\ file[k[2]].st = "yes" /\ StoredIn(file, k, q) /\ k \in confirmed
  <2>1. PICK s \in Segments : file[s].st = "yes" /\ k \in KeysOf(s, file[s].batches)
    BY DEF Visible
  <2>2. k \in Key /\ k[2] = s
    BY <2>1, KeysTyped DEF ReadInv
  <2>3. keep(k[1], q) /\ k \in confirmed
    BY DEF Visible
  <2> QED
    BY <2>1, <2>2, <2>3 DEF StoredIn
<1> HIDE DEF t, B
<1>5. /\ n \in ReaderType /\ n.pc = "seg" /\ n.q = q /\ n.todo = t /\ n.counting = (q.op = "list") /\ n.matched = 0
      /\ n.best = {} /\ n.cursor = Absent /\ n.out = <<>> /\ n.before = B
  <2> DEFINE c == q.op = "list"
  <2>1. B \in SUBSET Key /\ c \in BOOLEAN
    BY <1>4
  <2> HIDE DEF c
  <2>2. /\ n \in ReaderType /\ n.pc = "seg" /\ n.q = q /\ n.todo = t /\ n.counting = c /\ n.matched = 0
        /\ n.best = {} /\ n.cursor = Absent /\ n.out = <<>> /\ n.before = B
    <3>1. n = Starting(q, t, c, B)
      BY DEF c, Starting
    <3> DEFINE y == Starting(q, t, c, B)
    <3>2. /\ y \in ReaderType /\ y.pc = "seg" /\ y.q = q /\ y.todo = t /\ y.counting = c /\ y.matched = 0
          /\ y.best = {} /\ y.cursor = Absent /\ y.out = <<>> /\ y.before = B
      <4>1. t \in Seq(Segments) /\ B \in SUBSET Key /\ c \in BOOLEAN
        BY <1>3, <2>1
      <4> QED
        BY <4>1, StartingTyped
    <3>3. n = y
      BY <3>1
    <3> HIDE DEF n, y
    <3> QED
      BY <3>2, <3>3
  <2> QED
    BY <2>2 DEF c
<1> DEFINE m == n
<1>6. /\ m.pc = "seg" /\ m.q = q /\ m.todo = t /\ m.counting = (q.op = "list") /\ m.matched = 0 /\ m.best = {}
      /\ m.cursor = Absent /\ m.out = <<>> /\ m.before = B
  BY <1>5
<1> HIDE DEF m, n
<1>7. m.before \subseteq Rest(m)
  BY <1>3, <1>4, <1>6, AllAhead
<1>8. Cardinality({}) = 0 /\ IsFiniteSet({}) /\ 0 <= capacity
  BY FS_EmptySet DEF capacity, ArrowAssumption
<1>9. Counts(file, m, 0, Rest(m))
  BY <1>7, <1>8 DEF Counts
<1>10. PageOk(file, m, Rest(m))
  BY <1>4, <1>6, <1>7, <1>8, <1>9 DEF PageOk
<1>11. m.q.op = "list" => ListOk(file, m)
  <2>1. Len(m.out) = 0
    BY <1>6
  <2>2. Paging(file, m)
    BY <2>1 DEF Paging
  <2>3. Following(m)
    BY <1>6 DEF Following
  <2> QED
    BY <1>6, <1>10, <2>2, <2>3 DEF ListOk
<1>12. ScanOk(file, m)
  BY <1>6, <1>7 DEF ScanOk
<1>13. LocalOk(file, m)
  BY <1>6 DEF LocalOk
<1>14. ReaderOk(file, confirmed, m)
  BY <1>3, <1>4, <1>6, <1>11, <1>12, <1>13 DEF ReaderOk
<1> QED
  BY <1>1, <1>5, <1>14, IndexesStay, OneReader DEF m

LEMMA TailNames ==
  ASSUME NEW t \in Seq(Segments), t # <<>>, OnceEach(t)
  PROVE  /\ Head(t) \in Segments /\ Tail(t) \in Seq(Segments) /\ OnceEach(Tail(t))
         /\ Head(t) \in Names(t) /\ Head(t) \notin Names(Tail(t)) /\ \A s \in Names(t) : s = Head(t) \/ s \in Names(Tail(t))
         /\ Names(Tail(t)) \subseteq Names(t)
<1> DEFINE u == Tail(t)
           n == Len(t)
<1>1. n \in Nat /\ n > 0 /\ Head(t) = t[1] /\ Head(t) \in Segments
  BY LenProperties, EmptySeq, HeadTailProperties
<1>2. u \in Seq(Segments) /\ Len(u) = n - 1 /\ \A i \in 1..(n - 1) : u[i] = t[i + 1]
  BY HeadTailProperties
<1> HIDE DEF u, n
<1>3. OnceEach(u)
  <2> SUFFICES ASSUME NEW i \in 1..Len(u), NEW j \in 1..Len(u), u[i] = u[j] PROVE i = j
    BY DEF OnceEach
  <2>1. i + 1 \in 1..n /\ j + 1 \in 1..n /\ t[i + 1] = t[j + 1]
    BY <1>1, <1>2
  <2>2. i + 1 = j + 1
    BY <2>1 DEF OnceEach, n
  <2> QED
    BY <1>1, <1>2, <2>2
<1>4. Head(t) \notin Names(u)
  <2> SUFFICES ASSUME NEW i \in 1..Len(u), u[i] = Head(t) PROVE FALSE
    BY DEF Names
  <2>1. i + 1 \in 1..n /\ 1 \in 1..n /\ t[i + 1] = t[1]
    BY <1>1, <1>2
  <2>2. i + 1 = 1
    BY <2>1 DEF OnceEach, n
  <2> QED
    BY <1>1, <1>2, <2>2
<1>5. ASSUME NEW s \in Names(t) PROVE s = Head(t) \/ s \in Names(u)
  <2>1. PICK i \in 1..n : t[i] = s
    BY DEF Names, n
  <2>2. CASE i = 1
    BY <1>1, <2>1, <2>2
  <2>3. CASE i # 1
    <3>1. i - 1 \in 1..Len(u) /\ u[i - 1] = s
      BY <1>1, <1>2, <2>1, <2>3
    <3> QED
      BY <3>1 DEF Names
  <2> QED
    BY <2>2, <2>3
<1>6. ASSUME NEW s \in Names(u) PROVE s \in Names(t)
  <2>1. PICK i \in 1..Len(u) : u[i] = s
    BY DEF Names
  <2>2. i + 1 \in 1..n /\ t[i + 1] = s
    BY <1>1, <1>2, <2>1
  <2> QED
    BY <2>2 DEF Names, n
<1>7. Head(t) \in Names(t)
  BY <1>1 DEF Names, n
<1> QED
  BY <1>1, <1>2, <1>3, <1>4, <1>5, <1>6, <1>7 DEF u

\* What is known when more of a page is behind the reader.
LEMMA PagedFurther ==
  ASSUME NEW F, NEW me, NEW A, PageOk(F, me, A), NEW n, NEW D, D \subseteq A, \A k \in me.before : k \in A => k \in D,
         n.q = me.q, n.best = me.best, n.before = me.before, n.cursor = me.cursor, n.counting = me.counting,
         n.matched = me.matched
  PROVE  PageOk(F, n, D)
<1>1. n.before \ D \subseteq me.before \ A
  OBVIOUS
<1>2. ASSUME n.counting PROVE Counts(F, n, n.matched, D)
  <2>1. PICK C : /\ IsFiniteSet(C) /\ Cardinality(C) = me.matched /\ C \cap A = {} /\ me.before \ A \subseteq C
                 /\ \A k \in C : StoredIn(F, k, me.q)
    BY <1>2 DEF PageOk, Counts
  <2>2. C \cap D = {} /\ n.before \ D \subseteq C
    BY <1>1, <2>1
  <2> QED
    BY <2>1, <2>2 DEF Counts
<1> QED
  BY <1>1, <1>2 DEF PageOk

\* A page goes on with its next segment.
LEMMA NextSegment ==
  ASSUME NEW me \in ReaderType, ReaderOk(file, confirmed, me), me.pc \notin {"idle", "failed", "done"}, me.q.op = "list",
         me.todo # <<>>, NEW n \in ReaderType, n.pc = "seg", n.todo = Tail(me.todo), n.q = me.q, n.before = me.before,
         n.cursor = me.cursor, n.counting = me.counting, n.total = me.total, n.out = me.out, PageOk(file, n, Rest(n))
  PROVE  ReaderOk(file, confirmed, n)
<1>1. /\ me.q \in Queries /\ OnceEach(me.todo) /\ me.todo \in Seq(Segments)
      /\ me.before \subseteq confirmed /\ (\A k \in me.before : file[k[2]].st = "yes" /\ StoredIn(file, k, me.q))
      /\ ListOk(file, me)
  BY DEF ReaderOk, ReaderType
<1>2. OnceEach(n.todo)
  BY <1>1, TailNames
<1>3. LocalOk(file, n)
  BY DEF LocalOk
<1>4. Paging(file, n) /\ Following(n)
  BY <1>1 DEF ListOk, Paging, Following
<1>5. ~n.counting => Counts(file, n, n.total, {})
  BY <1>1 DEF ListOk, Counts
<1>6. ListOk(file, n)
  BY <1>4, <1>5 DEF ListOk
<1> QED
  BY <1>1, <1>2, <1>3, <1>6 DEF ReaderOk

\* A sidecar hides no row that a reader must show.
LEMMA HiddenHasNone ==
  ASSUME ArrowAssumption, ReadInv, NEW me \in ReaderType, ReaderOk(file, confirmed, me),
         me.pc \notin {"idle", "failed"}, NEW s \in Segments, Hidden(s, me.q), NEW k \in me.before
  PROVE  k[2] # s
<1> SUFFICES ASSUME k[2] = s PROVE FALSE
  OBVIOUS
<1>1. me.q \in Queries /\ k \in confirmed /\ file[s].st = "yes" /\ keep(k[1], me.q) /\ k \in Key
  BY DEF ReaderOk, StoredIn
<1>2. s \notin orphans
  BY <1>1 DEF ReadInv, Lost
<1>3. sidecar[s] # Absent /\ Within(k[1], sidecar[s]) /\ sidecar[s] \in Bounds \cup {Absent}
  BY <1>1, <1>2 DEF ReadInv, FilesInv, Written, Kept, Covered, Hidden
<1>4. k[1] \in Int /\ sidecar[s].min \in Int /\ sidecar[s].max \in Int
  BY <1>1, <1>3 DEF Bounds, Key
<1>5. me.q.start \in Int /\ me.q.end \in Int
  BY <1>1, QueryType
<1>6. sidecar[s].max < me.q.start \/ sidecar[s].min >= me.q.end
  BY <1>3 DEF Hidden, Outside
<1>7. k[1] >= me.q.start /\ k[1] < me.q.end
  BY <1>1 DEF keep, Inside
<1> QED
  BY <1>3, <1>4, <1>5, <1>6, <1>7 DEF Within

\* A segment is passed over: it holds nothing that must be shown.
LEMMA Skipped ==
  ASSUME ArrowAssumption, ReadInv, NEW me \in ReaderType, ReaderOk(file, confirmed, me),
         me.pc = "seg", me.todo # <<>>, Hidden(Head(me.todo), me.q)
  PROVE  [me EXCEPT !.todo = Tail(me.todo)] \in ReaderType /\ ReaderOk(file, confirmed, [me EXCEPT !.todo = Tail(me.todo)])
<1> DEFINE n == [me EXCEPT !.todo = Tail(me.todo)]
           s == Head(me.todo)
<1>1. me.todo \in Seq(Segments) /\ OnceEach(me.todo) /\ me.q \in Queries
  BY DEF ReaderOk, ReaderType
<1>2. /\ s \in Segments /\ Tail(me.todo) \in Seq(Segments) /\ OnceEach(Tail(me.todo))
      /\ (\A x \in Names(me.todo) : x = s \/ x \in Names(Tail(me.todo))) /\ Names(Tail(me.todo)) \subseteq Names(me.todo)
  BY <1>1, TailNames
<1>3. /\ n \in ReaderType /\ n.pc = "seg" /\ n.todo = Tail(me.todo) /\ n.q = me.q /\ n.before = me.before
      /\ n.cursor = me.cursor /\ n.counting = me.counting /\ n.total = me.total /\ n.out = me.out
      /\ n.matched = me.matched /\ n.best = me.best
  BY <1>2 DEF ReaderType
<1>4. \A k \in me.before : k[2] # s
  BY <1>2, HiddenHasNone
<1> HIDE DEF n, s
<1>5. Rest(n) \subseteq Rest(me) /\ \A k \in me.before : k \in Rest(me) => k \in Rest(n)
  BY <1>2, <1>3, <1>4 DEF Rest
<1>6. CASE me.q.op = "list"
  <2>1. PageOk(file, me, Rest(me))
    BY <1>6 DEF ReaderOk, ListOk
  <2>2. PageOk(file, n, Rest(n))
    BY <1>3, <1>5, <2>1, PagedFurther
  <2>3. ReaderOk(file, confirmed, n)
    BY <1>3, <1>6, <2>2, NextSegment
  <2> QED
    BY <1>3, <2>3 DEF n
<1>7. CASE me.q.op # "list"
  <2>1. me.q.op = "scan" /\ ScanOk(file, me)
    BY <1>1, <1>7, QueryType DEF ReaderOk
  <2>2. ScanOk(file, n)
    BY <1>3, <1>5, <2>1 DEF ScanOk
  <2>3. LocalOk(file, n)
    BY <1>3 DEF LocalOk
  <2>4. ReaderOk(file, confirmed, n)
    BY <1>2, <1>3, <1>7, <2>2, <2>3 DEF ReaderOk
  <2> QED
    BY <1>3, <2>4 DEF n
<1> QED
  BY <1>6, <1>7

\* A reader is given a segment's index.
LEMMA Holding ==
  ASSUME NEW me \in ReaderType, ReaderOk(file, confirmed, me), me.pc \notin {"idle", "failed", "done"}, me.q.op = "list",
         NEW n \in ReaderType, n.pc \in {"extend", "insert", "search"}, n.todo = me.todo, n.q = me.q, n.before = me.before,
         n.cursor = me.cursor, n.counting = me.counting, n.total = me.total, n.out = me.out, n.best = me.best,
         n.matched = me.matched, LocalOk(file, n)
  PROVE  ReaderOk(file, confirmed, n)
<1>1. /\ me.q \in Queries /\ OnceEach(me.todo)
      /\ me.before \subseteq confirmed /\ (\A k \in me.before : file[k[2]].st = "yes" /\ StoredIn(file, k, me.q))
      /\ ListOk(file, me)
  BY DEF ReaderOk
<1>2. Rest(n) = Rest(me)
  BY DEF Rest
<1>3. PageOk(file, n, Rest(n))
  BY <1>1, <1>2, PagedFurther DEF ListOk
<1>4. Paging(file, n) /\ Following(n)
  BY <1>1 DEF ListOk, Paging, Following
<1>5. ~n.counting => Counts(file, n, n.total, {})
  BY <1>1 DEF ListOk, Counts
<1>6. ListOk(file, n)
  BY <1>3, <1>4, <1>5 DEF ListOk
<1> QED
  BY <1>1, <1>6 DEF ReaderOk

\* An index that knows every batch knows every row that a reader must show.
LEMMA AllKnown ==
  ASSUME InLists(file), NEW me \in ReaderType, ReaderOk(file, confirmed, me), me.pc \notin {"idle", "failed"},
         NEW s \in Segments, NEW k \in me.before, k[2] = s
  PROVE  k \in KeysBefore(s, file[s].batches, Len(file[s].batches)) /\ Len(file[s].batches) \in Nat
<1>1. StoredIn(file, k, me.q)
  BY DEF ReaderOk
<1>2. file[s].batches \in Seq(Lists)
  BY DEF InLists
<1>3. KeysBefore(s, file[s].batches, Len(file[s].batches)) = KeysOf(s, file[s].batches)
  BY <1>2, KeysOfFile
<1> QED
  BY <1>1, <1>2, <1>3, LenProperties DEF StoredIn

LEMMA LengthOf ==
  ASSUME ReadInv, NEW s \in Segments
  PROVE  LET n == Len(file[s].batches)  l == FileLen(file[s]) IN
         n \in Nat /\ l \in Nat /\ 3 * n <= l /\ l < 3 * n + 3
<1>1. Len(file[s].batches) \in Nat
  BY LenProperties DEF ReadInv, InLists
<1> DEFINE t == IF file[s].tail = "torn" THEN 1 ELSE IF file[s].tail = "eos" THEN 2 ELSE 0
           n == Len(file[s].batches)
<1>2. t \in 0..2 /\ FileLen(file[s]) = 3 * n + t
  BY DEF FileLen
<1> HIDE DEF t, n
<1>3. n \in Nat
  BY <1>1 DEF n
<1>4. LET l == 3 * n + t IN n \in Nat /\ l \in Nat /\ 3 * n <= l /\ l < 3 * n + 3
  BY <1>2, <1>3
<1> QED
  BY <1>2, <1>4 DEF n

\* An index that is current holds every batch, and an outdated one is only of earlier ones.
LEMMA Measured ==
  ASSUME ArrowAssumption, ReadInv, NEW me \in ReaderType, ReaderOk(file, confirmed, me),
         me.pc = "seg", me.todo # <<>>, me.q.op = "list"
  PROVE  LET s == Head(me.todo)
             len == FileLen(file[s])
             n == [me EXCEPT !.pc = IF Current(index[s], len) THEN "search" ELSE "extend", !.len = len, !.local = index[s]] IN
         n \in ReaderType /\ ReaderOk(file, confirmed, n)
<1> DEFINE s == Head(me.todo)
           len == FileLen(file[s])
           bs == file[s].batches
           x == index[s]
           p == IF Current(x, len) THEN "search" ELSE "extend"
           n == [me EXCEPT !.pc = p, !.len = len, !.local = x]
<1>1. me.todo \in Seq(Segments) /\ OnceEach(me.todo) /\ s \in Segments
  <2>1. me.todo \in Seq(Segments) /\ OnceEach(me.todo)
    BY DEF ReaderOk, ReaderType
  <2> QED
    BY <2>1, TailNames
<1>2. Len(bs) \in Nat /\ len \in Nat /\ 3 * Len(bs) <= len /\ len < 3 * Len(bs) + 3
  BY <1>1, LengthOf
<1>3. x \in Indices \cup {Absent} /\ (x = Absent \/ KnownIndex(file, s, x))
  BY <1>1 DEF ReadInv, IndexesKnown
<1>4. p \in {"search", "extend"} /\ (p = "search" <=> x # Absent /\ x.seen = len)
  BY DEF Current
<1> HIDE DEF s, len, x, p
<1>5. /\ n \in ReaderType /\ n.pc = p /\ n.len = len /\ n.local = x /\ n.todo = me.todo /\ n.q = me.q
      /\ n.before = me.before /\ n.cursor = me.cursor /\ n.counting = me.counting /\ n.total = me.total
      /\ n.out = me.out /\ n.best = me.best /\ n.matched = me.matched
  BY <1>2, <1>3, <1>4 DEF ReaderType
<1>6. n = [me EXCEPT !.pc = p, !.len = len, !.local = x]
  OBVIOUS
<1> HIDE DEF n
<1>7. CASE p = "extend"
  <2>1. LocalOk(file, n)
    BY <1>2, <1>3, <1>5, <1>7 DEF LocalOk, s
  <2> QED
    BY <1>5, <1>6, <1>7, <2>1, Holding DEF s, len, x, p
<1>8. CASE p = "search"
  <2>1. x # Absent /\ x.seen = len /\ KnownIndex(file, s, x)
    BY <1>3, <1>4, <1>8
  <2>2. x.indexed \in 0..Len(bs) /\ x.seen < 3 * x.indexed + 3
    <3>1. InLists(file) /\ Further(file, file)
      BY DEF ReadInv, Further
    <3> QED
      BY <1>1, <2>1, <3>1, SegmentStays DEF KnownIndex
  <2>3. x.indexed = Len(bs)
    BY <1>2, <2>1, <2>2
  <2>4. \A k \in me.before : k[2] = s => k \in KeysBefore(s, bs, x.indexed)
    BY <1>1, <2>3, AllKnown DEF ReadInv
  <2>5. LocalOk(file, n)
    BY <1>5, <1>8, <2>1, <2>4 DEF LocalOk, s
  <2> QED
    BY <1>5, <1>6, <1>8, <2>5, Holding DEF s, len, x, p
<1> QED
  BY <1>4, <1>7, <1>8

LEMMA MetadataKeeps ==
  ASSUME ArrowAssumption, ReadInv, FilesInv', NEW r \in Readers, Metadata(r)
  PROVE  ReadInv'
<1> DEFINE me == rd[r]
           s == Head(me.todo)
           len == FileLen(file[s])
           a == [me EXCEPT !.todo = Tail(me.todo)]
           b == [me EXCEPT !.pc = IF Current(index[s], len) THEN "search" ELSE "extend", !.len = len, !.local = index[s]]
<1>1. me \in ReaderType /\ ReaderOk(file, confirmed, me) /\ rd \in [Readers -> ReaderType]
  BY DEF ReadInv, Reading
<1>2. me.pc = "seg" /\ me.todo # <<>> /\ me.q.op = "list" /\ UNCHANGED <<file, confirmed, orphans, index>>
  BY DEF Metadata, wvars
<1>3. PICK m : rd' = [rd EXCEPT ![r] = m] /\ (m = FailedReader \/ (Hidden(s, me.q) /\ m = a) \/ m = b)
  BY <1>1 DEF Metadata
<1>4. m \in ReaderType /\ ReaderOk(file, confirmed, m)
  <2>1. Hidden(s, me.q) => a \in ReaderType /\ ReaderOk(file, confirmed, a)
    BY <1>1, <1>2, Skipped
  <2>2. b \in ReaderType /\ ReaderOk(file, confirmed, b)
    BY <1>1, <1>2, Measured
  <2> QED
    BY <1>3, <2>1, <2>2, IdleOk
<1> HIDE DEF me, a, b
<1> QED
  BY <1>2, <1>3, <1>4, IndexesStay, OneReader

LEMMA ExtendKeeps ==
  ASSUME ArrowAssumption, ReadInv, FilesInv', NEW r \in Readers, Extend(r)
  PROVE  ReadInv'
<1> DEFINE me == rd[r]
           s == Head(me.todo)
           bs == file[s].batches
           x == extended(s, me.local, me.len)
           b == [me EXCEPT !.pc = "insert", !.local = x]
<1>1. me \in ReaderType /\ ReaderOk(file, confirmed, me) /\ rd \in [Readers -> ReaderType]
  BY DEF ReadInv, Reading
<1>2. me.pc = "extend" /\ UNCHANGED <<file, confirmed, orphans, index>>
  BY DEF Extend, wvars
<1>3. PICK m : rd' = [rd EXCEPT ![r] = m] /\ (m = FailedReader \/ m = b)
  BY <1>1 DEF Extend
<1>4. /\ me.todo \in Seq(Segments) /\ OnceEach(me.todo) /\ me.todo # <<>> /\ me.q.op = "list" /\ me.len \in Nat
      /\ (me.local = Absent \/ KnownIndex(file, s, me.local)) /\ me.len < 3 * Len(bs) + 3
  BY <1>1, <1>2 DEF ReaderOk, LocalOk, ReaderType
<1>5. s \in Segments
  BY <1>4, TailNames
<1>6. bs \in Seq(Lists) /\ InLists(file)
  BY <1>5 DEF ReadInv, InLists
<1>7. IsIndex(s, bs, x) /\ x.indexed = Len(bs) /\ x.seen = me.len
  <2>1. me.local = Absent \/ IsIndex(s, bs, me.local)
    BY <1>4 DEF KnownIndex
  <2> QED
    BY <1>4, <1>5, <1>6, <2>1, ExtendedIndex
<1> HIDE DEF x
<1>8. KnownIndex(file, s, x) /\ x \in Indices
  BY <1>4, <1>7 DEF KnownIndex, IsIndex, Indices
<1>9. \A k \in me.before : k[2] = s => k \in KeysBefore(s, bs, x.indexed)
  BY <1>1, <1>2, <1>5, <1>6, <1>7, AllKnown
<1> HIDE DEF s, me
<1>10. /\ b \in ReaderType /\ b.pc = "insert" /\ b.local = x /\ b.todo = me.todo /\ b.q = me.q
       /\ b.before = me.before /\ b.cursor = me.cursor /\ b.counting = me.counting /\ b.total = me.total
       /\ b.out = me.out /\ b.best = me.best /\ b.matched = me.matched
  BY <1>1, <1>8 DEF ReaderType
<1> HIDE DEF b
<1>11. LocalOk(file, b)
  BY <1>4, <1>8, <1>9, <1>10 DEF LocalOk, s
<1>12. ReaderOk(file, confirmed, b)
  BY <1>1, <1>2, <1>4, <1>10, <1>11, Holding
<1> QED
  BY <1>2, <1>3, <1>10, <1>12, IdleOk, IndexesStay, OneReader

LEMMA ScanKeeps ==
  ASSUME ArrowAssumption, ReadInv, FilesInv', NEW r \in Readers, Scan(r)
  PROVE  ReadInv'
<1> DEFINE me == rd[r]
           s == Head(me.todo)
           H == {k \in KeysOf(s, file[s].batches) : keep(k[1], me.q)}
           a == [me EXCEPT !.todo = Tail(me.todo)]
           b == [me EXCEPT !.todo = Tail(me.todo), !.best = me.best \cup H]
<1>1. me \in ReaderType /\ ReaderOk(file, confirmed, me) /\ rd \in [Readers -> ReaderType] /\ InLists(file)
  BY DEF ReadInv, Reading
<1>2. me.pc = "seg" /\ me.todo # <<>> /\ me.q.op = "scan" /\ UNCHANGED <<file, confirmed, orphans, index>>
  BY DEF Scan, wvars
<1>3. PICK m : rd' = [rd EXCEPT ![r] = m] /\ (m = FailedReader \/ (Hidden(s, me.q) /\ m = a) \/ m = b)
  BY <1>1 DEF Scan
<1>4. Hidden(s, me.q) => a \in ReaderType /\ ReaderOk(file, confirmed, a)
  BY <1>1, <1>2, Skipped
<1>5. /\ me.todo \in Seq(Segments) /\ OnceEach(me.todo) /\ me.q \in Queries /\ ScanOk(file, me) /\ me.best \subseteq Key
      /\ me.before \subseteq confirmed /\ (\A k \in me.before : file[k[2]].st = "yes" /\ StoredIn(file, k, me.q))
  BY <1>1, <1>2 DEF ReaderOk, ReaderType
<1>6. /\ s \in Segments /\ Tail(me.todo) \in Seq(Segments) /\ OnceEach(Tail(me.todo))
      /\ \A x \in Names(me.todo) : x = s \/ x \in Names(Tail(me.todo))
  BY <1>2, <1>5, TailNames
<1>7. ASSUME NEW k \in H PROVE k \in Key /\ StoredIn(file, k, me.q)
  <2>1. k \in Key /\ k[2] = s
    BY <1>1, <1>6, KeysTyped
  <2> QED
    BY <2>1 DEF StoredIn
<1>8. \A k \in me.before : k[2] = s => k \in H
  BY <1>5 DEF StoredIn
<1>9. me.best \cup H \in SUBSET Key
  BY <1>5, <1>7
<1> HIDE DEF H, me, s, a
<1>10. /\ b \in ReaderType /\ b.pc = "seg" /\ b.todo = Tail(me.todo) /\ b.q = me.q /\ b.before = me.before
       /\ b.best = me.best \cup H
  BY <1>1, <1>2, <1>6, <1>9 DEF ReaderType
<1> HIDE DEF b
<1>11. ScanOk(file, b)
  <2>1. \A k \in b.best : StoredIn(file, k, b.q)
    BY <1>5, <1>7, <1>10 DEF ScanOk
  <2>2. ASSUME NEW k \in b.before \ Rest(b) PROVE k \in b.best
    <3>1. CASE k \notin Rest(me)
      BY <1>5, <1>10, <2>2, <3>1 DEF ScanOk
    <3>2. CASE k \in Rest(me)
      <4>1. k[2] = s
        BY <1>6, <1>10, <2>2, <3>2 DEF Rest
      <4> QED
        BY <1>8, <1>10, <2>2, <4>1
    <3> QED
      BY <3>1, <3>2
  <2> QED
    BY <1>10, <2>1, <2>2 DEF ScanOk
<1>12. LocalOk(file, b)
  BY <1>10 DEF LocalOk
<1>13. ReaderOk(file, confirmed, b)
  BY <1>2, <1>5, <1>6, <1>10, <1>11, <1>12 DEF ReaderOk
<1> QED
  BY <1>2, <1>3, <1>4, <1>10, <1>13, IdleOk, IndexesStay, OneReader

\* The blocks of a segment's index are searched one after another.
Through(me, s, blocks) ==
  (CHOOSE g : g = [i \in 0..Len(blocks) |-> IF i = 0 THEN me ELSE SearchBlock(g[i - 1], s, blocks[i])])[Len(blocks)]

LEMMA SearchKeeps ==
  ASSUME ArrowAssumption, ReadInv, FilesInv', NEW r \in Readers, Search(r)
  PROVE  ReadInv'
<1> DEFINE me == rd[r]
           s == Head(me.todo)
           bs == file[s].batches
           x == me.local
           f == Through(me, s, x.blocks)
           b == [f EXCEPT !.pc = "seg", !.todo = Tail(me.todo), !.local = Absent, !.len = 0]
<1>1. me \in ReaderType /\ ReaderOk(file, confirmed, me) /\ rd \in [Readers -> ReaderType] /\ InLists(file)
  BY DEF ReadInv, Reading
<1>2. /\ me.pc \in {"insert", "search"} /\ UNCHANGED <<file, confirmed, orphans>>
      /\ index' = IF me.pc = "insert" THEN [index EXCEPT ![s] = x] ELSE index
  BY DEF Search, wvars
<1>3. PICK m : rd' = [rd EXCEPT ![r] = m] /\ (m = FailedReader \/ m = b)
  BY <1>1 DEF Search, Through
<1>4. /\ me.todo \in Seq(Segments) /\ OnceEach(me.todo) /\ me.todo # <<>> /\ me.q.op = "list"
      /\ KnownIndex(file, s, x) /\ (\A k \in me.before : k[2] = s => k \in KeysBefore(s, bs, x.indexed))
      /\ PageOk(file, me, Rest(me))
  BY <1>1, <1>2 DEF ReaderOk, LocalOk, ReaderType, ListOk
<1>5. /\ s \in Segments /\ Tail(me.todo) \in Seq(Segments) /\ s \in Names(me.todo) /\ s \notin Names(Tail(me.todo))
      /\ (\A y \in Names(me.todo) : y = s \/ y \in Names(Tail(me.todo))) /\ Names(Tail(me.todo)) \subseteq Names(me.todo)
  BY <1>4, TailNames
<1>6. bs \in Seq(Lists)
  BY <1>5 DEF ReadInv, InLists
<1>7. Tiled(s, bs, x.blocks) /\ x.indexed = EndOf(x.blocks) /\ x \in Indices
  BY <1>4 DEF KnownIndex, IsIndex, Indices
<1>8. KeysOf(s, bs) \subseteq Rest(me)
  <2> SUFFICES ASSUME NEW k \in KeysOf(s, bs) PROVE k \in Rest(me)
    OBVIOUS
  <2>1. k \in Key /\ k[2] = s
    BY <1>1, <1>5, KeysTyped
  <2> QED
    BY <1>5, <2>1 DEF Rest
<1>9. OnlyBest(f, me) /\ PageOk(file, f, Ahead(s, bs, Rest(me), x.indexed))
  BY <1>1, <1>4, <1>5, <1>6, <1>7, <1>8, SegmentSearched DEF Through
<1>10. IndexesKnown'
  <2>1. index \in [Segments -> Indices \cup {Absent}] /\ \A y \in Segments : index[y] = Absent \/ KnownIndex(file, y, index[y])
    BY DEF ReadInv, IndexesKnown
  <2> HIDE DEF me, s, x
  <2>2. index' \in [Segments -> Indices \cup {Absent}]
    BY <1>2, <1>7, <2>1
  <2>3. ASSUME NEW y \in Segments PROVE index'[y] = Absent \/ KnownIndex(file', y, index'[y])
    <3>1. index'[y] = index[y] \/ (y = s /\ index'[y] = x)
      BY <1>2, <2>1
    <3> QED
      BY <1>2, <1>4, <2>1, <3>1
  <2> QED
    BY <2>2, <2>3 DEF IndexesKnown
<1>11. f \in ReaderType /\ f = [me EXCEPT !.matched = f.matched, !.best = f.best]
  BY <1>9 DEF OnlyBest
<1> HIDE DEF me, s, f, x, bs
<1>12. /\ f.q = me.q /\ f.before = me.before /\ f.cursor = me.cursor /\ f.counting = me.counting /\ f.total = me.total
       /\ f.out = me.out
  <2> DEFINE u == f.matched
             v == f.best
  <2>1. f = [me EXCEPT !.matched = u, !.best = v]
    BY <1>11
  <2> HIDE DEF u, v
  <2> QED
    BY <1>1, <2>1 DEF ReaderType
<1>13. /\ b \in ReaderType /\ b.pc = "seg" /\ b.todo = Tail(me.todo) /\ b.q = f.q /\ b.before = f.before
       /\ b.cursor = f.cursor /\ b.counting = f.counting /\ b.total = f.total /\ b.out = f.out
       /\ b.best = f.best /\ b.matched = f.matched
  BY <1>5, <1>11 DEF ReaderType
<1> HIDE DEF b
<1>14. Rest(b) \subseteq Ahead(s, bs, Rest(me), x.indexed)
  <2> SUFFICES ASSUME NEW k \in Rest(b) PROVE k \in Rest(me) /\ k \notin KeysBefore(s, bs, x.indexed)
    BY DEF Ahead
  <2>1. k \in Rest(me) /\ k[2] # s
    BY <1>5, <1>13 DEF Rest
  <2>2. x.indexed \in 0..Len(bs)
    BY <1>6, <1>7, TilesEnd
  <2>3. KeysBefore(s, bs, x.indexed) \subseteq KeysOf(s, bs)
    BY <1>6, <2>2, KeysOfFile
  <2>4. \A j \in KeysBefore(s, bs, x.indexed) : j[2] = s
    BY <1>1, <1>5, <2>3, KeysTyped DEF bs
  <2> QED
    BY <2>1, <2>4
<1>15. ASSUME NEW k \in f.before, k \in Ahead(s, bs, Rest(me), x.indexed) PROVE k \in Rest(b)
  <2>1. k \in Rest(me) /\ k \notin KeysBefore(s, bs, x.indexed)
    BY <1>15 DEF Ahead
  <2>2. k[2] # s
    BY <1>4, <1>12, <2>1
  <2> QED
    BY <1>5, <1>13, <2>1, <2>2 DEF Rest
<1>16. PageOk(file, b, Rest(b))
  BY <1>9, <1>13, <1>14, <1>15, PagedFurther
<1>17. ReaderOk(file, confirmed, b)
  BY <1>1, <1>2, <1>4, <1>12, <1>13, <1>16, NextSegment
<1> QED
  BY <1>2, <1>3, <1>10, <1>13, <1>17, IdleOk, OneReader

\* The keys of a page: the first Limit of those that were kept, the rest is behind the last.
LEMMA PageOf ==
  ASSUME ArrowAssumption, NEW d \in BOOLEAN, NEW best, best \subseteq Key, IsFiniteSet(best)
  PROVE  LET kept == KeysInOrder(Smallest(best, Limit, d), d) IN
         /\ kept \in Seq(Key) /\ Len(kept) \in Nat /\ Names(kept) \subseteq best /\ (\A i \in 1..Len(kept) : kept[i] \in best)
         /\ \A i, j \in 1..Len(kept) : i < j => order(kept[i], kept[j], d)
         /\ ~(Cardinality(best) > Limit) => Names(kept) = best
         /\ Cardinality(best) > Limit =>
              /\ Len(kept) > 0 /\ Last(kept) = kept[Len(kept)]
              /\ \A k \in best : k \in Names(kept) \/ order(kept[Len(kept)], k, d)
<1> DEFINE X == Smallest(best, Limit, d)
           kept == KeysInOrder(X, d)
           n == Len(kept)
<1>1. Limit \in Nat \ {0}
  BY DEF ArrowAssumption
<1>2. /\ X \subseteq best /\ IsFiniteSet(X) /\ Cardinality(X) \in Nat /\ Cardinality(best) \in Nat
      /\ (Cardinality(best) <= Limit => X = best) /\ (Cardinality(best) >= Limit => Cardinality(X) = Limit)
      /\ \A k \in best \ X : \A j \in X : order(j, k, d)
  BY <1>1, SmallestOf
<1>3. X \subseteq Key
  BY <1>2
<1> HIDE DEF X
<1>4. /\ kept \in Seq(X) /\ Len(kept) = Cardinality(X) /\ (\A i, j \in 1..Len(kept) : i < j => order(kept[i], kept[j], d))
      /\ \A k \in X : \E i \in 1..Len(kept) : kept[i] = k
  BY <1>2, <1>3, KeysListed
<1> HIDE DEF kept
<1>5. n \in Nat /\ kept = [i \in 1..n |-> kept[i]] /\ \A i \in 1..n : kept[i] \in X
  BY <1>4, LenProperties, ElementOfSeq
<1>6. kept \in Seq(Key) /\ Names(kept) = X
  <2>1. kept \in Seq(Key)
    BY <1>3, <1>5
  <2>2. \A k \in X : k \in Names(kept)
    BY <1>4 DEF Names
  <2>3. Names(kept) \subseteq X
    BY <1>5 DEF Names
  <2> QED
    BY <2>1, <2>2, <2>3
<1>7. ~(Cardinality(best) > Limit) => X = best
  BY <1>1, <1>2
<1>8. ASSUME Cardinality(best) > Limit
      PROVE  /\ n > 0 /\ Last(kept) = kept[n]
             /\ \A k \in best : k \in Names(kept) \/ order(kept[n], k, d)
  <2>1. n = Limit /\ n > 0 /\ n \in 1..n
    BY <1>1, <1>2, <1>4, <1>8
  <2>2. Last(kept) = kept[n]
    BY DEF Last
  <2>3. kept[n] \in X
    BY <1>5, <2>1
  <2> QED
    BY <1>2, <1>6, <2>1, <2>2, <2>3
<1> QED
  BY <1>2, <1>4, <1>5, <1>6, <1>7, <1>8 DEF kept, X

LEMMA NamesJoined ==
  ASSUME NEW T, NEW a \in Seq(T), NEW b \in Seq(T)
  PROVE  /\ a \o b \in Seq(T) /\ Len(a) \in Nat /\ Len(b) \in Nat /\ Len(a \o b) = Len(a) + Len(b)
         /\ \A i \in 1..Len(a) : (a \o b)[i] = a[i]
         /\ \A i \in 1..Len(b) : (a \o b)[Len(a) + i] = b[i]
         /\ \A i \in 1..Len(a \o b) : i \in 1..Len(a) \/ (i - Len(a) \in 1..Len(b) /\ (a \o b)[i] = b[i - Len(a)])
         /\ Names(a) \subseteq Names(a \o b) /\ Names(b) \subseteq Names(a \o b)
<1> DEFINE c == a \o b
           m == Len(a)
           n == Len(b)
<1>1. c \in Seq(T) /\ m \in Nat /\ n \in Nat /\ Len(c) = m + n
  BY ConcatProperties, LenProperties
<1>2. \A i \in 1..(m + n) : c[i] = IF i <= m THEN a[i] ELSE b[i - m]
  BY ConcatProperties, LenProperties
<1> HIDE DEF c, m, n
<1>3. \A i \in 1..m : i \in 1..(m + n) /\ c[i] = a[i]
  BY <1>1, <1>2
<1>4. ASSUME NEW i \in 1..n PROVE m + i \in 1..(m + n) /\ c[m + i] = b[i]
  <2>1. m + i \in 1..(m + n) /\ ~(m + i <= m) /\ (m + i) - m = i
    BY <1>1
  <2> QED
    BY <1>2, <2>1
<1>5. \A i \in 1..(m + n) : i \in 1..m \/ (i - m \in 1..n /\ c[i] = b[i - m])
  BY <1>1, <1>2
<1>6. Names(a) \subseteq Names(c)
  BY <1>1, <1>3 DEF Names, m
<1>7. Names(b) \subseteq Names(c)
  BY <1>1, <1>4 DEF Names, n
<1> QED
  BY <1>1, <1>3, <1>4, <1>5, <1>6, <1>7 DEF c, m, n

\* What the end of a page leaves: the page's keys follow those of the pages before.
LEMMA PagesFollow ==
  ASSUME ArrowAssumption, NEW F, NEW me \in ReaderType, me.todo = <<>>, me.pc = "seg",
         ListOk(F, me), NEW n, n.q = me.q,
         n.out = me.out \o KeysInOrder(Smallest(me.best, Limit, me.q.descending), me.q.descending)
  PROVE  /\ n.out \in Seq(Key) /\ Paging(F, n) /\ (\A k \in me.before : StoredIn(F, k, me.q))
         /\ Cardinality(me.best) > Limit =>
              /\ n.out # <<>>
              /\ Last(KeysInOrder(Smallest(me.best, Limit, me.q.descending), me.q.descending)) = n.out[Len(n.out)]
              /\ n.out[Len(n.out)] \in Key
              /\ \A k \in me.before : order(n.out[Len(n.out)], k, me.q.descending) \/ k \in Names(n.out)
         /\ ~(Cardinality(me.best) > Limit) => me.before \subseteq Names(n.out)
<1> DEFINE d == me.q.descending
           kept == KeysInOrder(Smallest(me.best, Limit, d), d)
           a == me.out
           c == n.out
<1>1. Rest(me) = {}
  <2>1. Len(<<>>) = 0
    OBVIOUS
  <2> QED
    BY <2>1 DEF Rest, Names
<1>2. /\ me.q \in Queries /\ IsFiniteSet(me.best) /\ Cardinality(me.best) <= capacity
      /\ (\A k \in me.before : StoredIn(F, k, me.q))
      /\ (\A k \in me.best : StoredIn(F, k, me.q) /\ (me.cursor = Absent \/ order(me.cursor, k, d)))
      /\ (\A k \in me.before : Passed(me.cursor, me.best, d, k))
  BY <1>1 DEF ListOk, PageOk
<1>3. d \in BOOLEAN /\ me.best \subseteq Key /\ a \in Seq(Key)
  BY <1>2, QueryType DEF ReaderType
<1>4. /\ kept \in Seq(Key) /\ Len(kept) \in Nat /\ Names(kept) \subseteq me.best /\ (\A i \in 1..Len(kept) : kept[i] \in me.best)
      /\ (\A i, j \in 1..Len(kept) : i < j => order(kept[i], kept[j], d))
      /\ (~(Cardinality(me.best) > Limit) => Names(kept) = me.best)
      /\ (Cardinality(me.best) > Limit =>
           /\ Len(kept) > 0 /\ Last(kept) = kept[Len(kept)]
           /\ \A k \in me.best : k \in Names(kept) \/ order(kept[Len(kept)], k, d))
  BY <1>2, <1>3, PageOf
<1> HIDE DEF kept
<1>5. c = a \o kept
  BY DEF kept
<1>6. /\ c \in Seq(Key) /\ Len(a) \in Nat /\ Len(c) = Len(a) + Len(kept)
      /\ (\A i \in 1..Len(a) : c[i] = a[i]) /\ (\A i \in 1..Len(kept) : c[Len(a) + i] = kept[i])
      /\ (\A i \in 1..Len(c) : i \in 1..Len(a) \/ (i - Len(a) \in 1..Len(kept) /\ c[i] = kept[i - Len(a)]))
      /\ Names(a) \subseteq Names(c) /\ Names(kept) \subseteq Names(c)
  BY <1>3, <1>4, <1>5, NamesJoined
<1>7. /\ Paging(F, me) /\ Following(me)
  BY DEF ListOk
<1> HIDE DEF c
<1>8. ASSUME NEW i \in 1..Len(c) PROVE StoredIn(F, c[i], me.q)
  <2>1. CASE i \in 1..Len(a)
    BY <1>6, <1>7, <2>1 DEF Paging
  <2>2. CASE i \notin 1..Len(a)
    <3>1. i - Len(a) \in 1..Len(kept) /\ c[i] = kept[i - Len(a)]
      BY <1>6, <2>2
    <3>2. c[i] \in me.best
      BY <1>4, <3>1
    <3> QED
      BY <1>2, <3>2
  <2> QED
    BY <2>1, <2>2
<1>9. ASSUME NEW i \in 1..(Len(c) - 1) PROVE order(c[i], c[i + 1], d)
  <2>0. Len(c) \in Nat /\ i \in 1..Len(c) /\ i + 1 \in 1..Len(c)
    BY <1>4, <1>6
  <2>1. CASE i + 1 \in 1..Len(a)
    <3>1. i \in 1..(Len(a) - 1) /\ c[i] = a[i] /\ c[i + 1] = a[i + 1]
      BY <1>6, <2>1
    <3> QED
      BY <1>7, <3>1 DEF Paging
  <2>2. CASE i = Len(a)
    <3>1. 1 \in 1..Len(kept) /\ c[i + 1] = kept[1] /\ i \in 1..Len(a) /\ c[i] = a[Len(a)]
      <4>1. i \in 1..Len(a) /\ 1 \in 1..Len(kept) /\ Len(a) + 1 = i + 1
        BY <1>4, <1>6, <2>0, <2>2
      <4> QED
        BY <1>6, <2>2, <4>1
    <3>2. a # <<>>
      BY <3>1
    <3>3. me.cursor # Absent /\ me.cursor = a[Len(a)]
      BY <1>7, <3>2 DEF Following
    <3>4. kept[1] \in me.best
      BY <1>4, <3>1
    <3> QED
      BY <1>2, <3>1, <3>3, <3>4
  <2>3. CASE i > Len(a)
    <3>1. /\ i - Len(a) \in 1..Len(kept) /\ (i + 1) - Len(a) \in 1..Len(kept) /\ i - Len(a) < (i + 1) - Len(a)
          /\ c[i] = kept[i - Len(a)] /\ c[i + 1] = kept[(i + 1) - Len(a)]
      <4>1. i \notin 1..Len(a) /\ i + 1 \notin 1..Len(a) /\ i - Len(a) < (i + 1) - Len(a)
        <5>1. \A u, v \in Nat : v > u => v \notin 1..u /\ v + 1 \notin 1..u /\ v - u < (v + 1) - u
          OBVIOUS
        <5>2. i \in Nat /\ Len(a) \in Nat
          BY <1>6, <2>0
        <5> QED
          BY <2>3, <5>1, <5>2
      <4>2. i - Len(a) \in 1..Len(kept) /\ c[i] = kept[i - Len(a)]
        BY <1>6, <2>0, <4>1
      <4>3. (i + 1) - Len(a) \in 1..Len(kept) /\ c[i + 1] = kept[(i + 1) - Len(a)]
        BY <1>6, <2>0, <4>1
      <4> QED
        BY <4>1, <4>2, <4>3
    <3> QED
      BY <1>4, <3>1
  <2> QED
    BY <1>6, <2>0, <2>1, <2>2, <2>3
<1>10. Paging(F, n)
  BY <1>8, <1>9 DEF Paging, c
<1>11. ASSUME NEW k \in me.before
       PROVE  \/ k \in Names(a) \/ k \in me.best
              \/ Cardinality(me.best) >= capacity /\ \A j \in me.best : order(j, k, d)
  <2>1. me.cursor = Absent \/ order(me.cursor, k, d) \/ k \in Names(a)
    BY <1>7 DEF Following
  <2>2. Passed(me.cursor, me.best, d, k)
    BY <1>2
  <2> QED
    BY <2>1, <2>2 DEF Passed
<1>12. Limit \in Nat /\ capacity = Limit + 1 /\ Cardinality(me.best) \in Nat
  BY <1>2, FS_CardinalityType DEF ArrowAssumption, capacity
<1>13. ASSUME Cardinality(me.best) > Limit
       PROVE  /\ c # <<>> /\ Last(kept) = c[Len(c)] /\ c[Len(c)] \in Key
              /\ \A k \in me.before : order(c[Len(c)], k, d) \/ k \in Names(c)
  <2>1. Len(kept) > 0 /\ Last(kept) = kept[Len(kept)] /\ Len(kept) \in 1..Len(kept) /\ Len(c) > 0
        /\ Len(c) = Len(a) + Len(kept)
    BY <1>4, <1>6, <1>13
  <2>2. c[Len(c)] = kept[Len(kept)] /\ kept[Len(kept)] \in me.best
    BY <1>4, <1>6, <2>1
  <2>3. c # <<>>
    BY <2>1
  <2>4. ASSUME NEW k \in me.before PROVE order(c[Len(c)], k, d) \/ k \in Names(c)
    BY <1>4, <1>6, <1>11, <1>13, <2>2
  <2> QED
    BY <1>3, <2>1, <2>2, <2>3, <2>4
<1>14. ASSUME ~(Cardinality(me.best) > Limit), NEW k \in me.before PROVE k \in Names(c)
  BY <1>4, <1>6, <1>11, <1>12, <1>14
<1> QED
  BY <1>2, <1>6, <1>10, <1>13, <1>14 DEF c, kept

\* The end of a page, or of a scan.
LEMMA PageEndKeeps ==
  ASSUME ArrowAssumption, ReadInv, FilesInv', NEW r \in Readers, PageEnd(r)
  PROVE  ReadInv'
<1> DEFINE me == rd[r]
           d == me.q.descending
           kept == KeysInOrder(Smallest(me.best, Limit, d), d)
           more == Cardinality(me.best) > Limit
           p == IF more THEN "seg" ELSE "done"
           o == me.out \o kept
           x == IF me.counting THEN me.matched ELSE me.total
           y == IF more THEN Last(kept) ELSE me.cursor
           t == IF more THEN Listed ELSE me.todo
           a == [me EXCEPT !.pc = "done"]
           b == [me EXCEPT !.pc = p, !.out = o, !.total = x, !.cursor = y, !.todo = t,
                           !.counting = FALSE, !.best = {}, !.matched = 0]
<1>1. me \in ReaderType /\ ReaderOk(file, confirmed, me) /\ rd \in [Readers -> ReaderType] /\ InLists(file)
  BY DEF ReadInv, Reading
<1>2. me.pc = "seg" /\ me.todo = <<>> /\ UNCHANGED <<file, confirmed, orphans, index>>
  BY DEF PageEnd, wvars
<1>3. PICK m : rd' = [rd EXCEPT ![r] = m] /\ m = IF me.q.op = "scan" THEN a ELSE b
  BY <1>1 DEF PageEnd
<1>4. /\ OnceEach(me.todo) /\ me.q \in Queries
      /\ me.before \subseteq confirmed /\ (\A k \in me.before : file[k[2]].st = "yes" /\ StoredIn(file, k, me.q))
      /\ (me.q.op = "list" => ListOk(file, me)) /\ (me.q.op = "scan" => ScanOk(file, me))
  BY <1>1, <1>2 DEF ReaderOk
<1>5. Rest(me) = {}
  <2>1. Len(<<>>) = 0
    OBVIOUS
  <2> QED
    BY <1>2, <2>1 DEF Rest, Names
<1>6. CASE me.q.op = "scan"
  <2>1. /\ a \in ReaderType /\ a.pc = "done" /\ a.todo = me.todo /\ a.q = me.q /\ a.before = me.before /\ a.best = me.best
    BY <1>1 DEF ReaderType
  <2> HIDE DEF a, me
  <2>2. Rest(a) = Rest(me)
    BY <2>1 DEF Rest
  <2>3. ScanOk(file, a)
    BY <1>4, <1>6, <2>1, <2>2 DEF ScanOk
  <2>4. LocalOk(file, a)
    BY <2>1 DEF LocalOk
  <2>5. ReaderOk(file, confirmed, a)
    BY <1>2, <1>4, <1>6, <2>1, <2>3, <2>4 DEF ReaderOk
  <2> QED
    BY <1>2, <1>3, <1>6, <2>1, <2>5, IndexesStay, OneReader
<1>7. CASE me.q.op # "scan"
  <2>1. me.q.op = "list" /\ ListOk(file, me)
    BY <1>4, <1>7, QueryType
  <2> HIDE DEF me
  <2>2. /\ o \in Seq(Key)
        /\ (more => /\ o # <<>> /\ Last(kept) = o[Len(o)] /\ o[Len(o)] \in Key
                    /\ \A k \in me.before : order(o[Len(o)], k, d) \/ k \in Names(o))
        /\ (~more => me.before \subseteq Names(o))
        /\ (\A i \in 1..Len(o) : StoredIn(file, o[i], me.q))
        /\ \A i \in 1..(Len(o) - 1) : order(o[i], o[i + 1], d)
    <3> DEFINE z == [q |-> me.q, out |-> o]
    <3>1. z.q = me.q /\ z.out = o
      OBVIOUS
    <3> HIDE DEF z
    <3>2. /\ z.out \in Seq(Key) /\ Paging(file, z)
          /\ (more => /\ z.out # <<>> /\ Last(kept) = z.out[Len(z.out)] /\ z.out[Len(z.out)] \in Key
                      /\ \A k \in me.before : order(z.out[Len(z.out)], k, d) \/ k \in Names(z.out))
          /\ (~more => me.before \subseteq Names(z.out))
      BY <1>1, <1>2, <2>1, <3>1, PagesFollow
    <3> HIDE DEF kept, o, more, d
    <3> QED
      BY <3>1, <3>2 DEF Paging, d
  <2>3. /\ Listed \in Seq(Segments) /\ OnceEach(Listed)
        /\ \A s \in Segments : file[s].st = "yes" => s \in Names(Listed)
    BY ListedAll
  <2>4. p \in {"seg", "done"} /\ x \in Nat /\ y \in Key \cup {Absent} /\ t \in Seq(Segments) /\ OnceEach(t)
    BY <1>1, <1>4, <2>2, <2>3 DEF ReaderType
  <2>5. /\ (more => p = "seg" /\ y = o[Len(o)] /\ \A s \in Segments : file[s].st = "yes" => s \in Names(t))
        /\ (~more => p = "done" /\ t = <<>>)
    BY <1>2, <2>2, <2>3
  <2>6. Counts(file, me, x, {})
    BY <1>5, <2>1 DEF ListOk, PageOk
  <2> HIDE DEF p, o, x, y, t, more
  <2>7. /\ b \in ReaderType /\ b.pc = p /\ b.out = o /\ b.total = x /\ b.cursor = y /\ b.todo = t
        /\ b.counting = FALSE /\ b.best = {} /\ b.matched = 0 /\ b.q = me.q /\ b.before = me.before
    <3> DEFINE u == [me EXCEPT !.pc = p, !.out = o, !.total = x, !.cursor = y]
    <3>1. /\ u \in ReaderType /\ u.pc = p /\ u.out = o /\ u.total = x /\ u.cursor = y /\ u.q = me.q /\ u.before = me.before
      BY <1>1, <2>2, <2>4 DEF ReaderType
    <3>2. b = [u EXCEPT !.todo = t, !.counting = FALSE, !.best = {}, !.matched = 0]
      OBVIOUS
    <3> HIDE DEF u, b
    <3> QED
      BY <2>4, <3>1, <3>2 DEF ReaderType
  <2> HIDE DEF b
  <2>8. LocalOk(file, b)
    BY <2>4, <2>7 DEF LocalOk
  <2>9. Paging(file, b)
    BY <2>2, <2>7 DEF Paging, d
  <2>10. Counts(file, b, b.total, {})
    BY <2>6, <2>7 DEF Counts
  <2>11. ASSUME b.pc # "done" PROVE PageOk(file, b, Rest(b)) /\ Following(b)
    <3>1. more
      BY <2>5, <2>7, <2>11
    <3>2. b.before \subseteq Rest(b)
      BY <1>4, <2>4, <2>5, <2>7, <3>1, AllAhead
    <3>3. Cardinality({}) = 0 /\ IsFiniteSet({}) /\ 0 <= capacity
      BY FS_EmptySet DEF capacity, ArrowAssumption
    <3>4. PageOk(file, b, Rest(b))
      BY <1>4, <2>7, <3>2, <3>3 DEF PageOk
    <3>5. b.cursor # Absent
      <4>1. b.cursor \in Key
        BY <2>2, <2>5, <2>7, <3>1
      <4>2. Absent \notin Key
        <5>1. Key \subseteq Int \X Segments \X Int
          BY DEF Key
        <5> QED
          BY <5>1 DEF ArrowAssumption
      <4> QED
        BY <4>1, <4>2
    <3>6. Following(b)
      BY <2>2, <2>5, <2>7, <3>1, <3>5 DEF Following, d
    <3> QED
      BY <3>4, <3>6
  <2>12. b.pc = "done" => b.before \subseteq Names(b.out) /\ b.todo = <<>>
    BY <2>2, <2>5, <2>7
  <2>13. ListOk(file, b)
    BY <2>7, <2>9, <2>10, <2>11, <2>12 DEF ListOk
  <2>14. ReaderOk(file, confirmed, b)
    BY <1>4, <2>1, <2>4, <2>7, <2>8, <2>12, <2>13 DEF ReaderOk
  <2> QED
    BY <1>2, <1>3, <1>7, <2>7, <2>14, IndexesStay, OneReader
<1> QED
  BY <1>6, <1>7

-----------------------------------------------------------------------------
(* Pages are complete *)

\* The keys a query may show are finitely many.
LEMMA StoredFinite ==
  ASSUME ArrowAssumption, InLists(file), NEW q
  PROVE  IsFiniteSet({k \in UNION {KeysOf(s, file[s].batches) : s \in Segments} : keep(k[1], q)})
<1> DEFINE K(s) == KeysOf(s, file[s].batches)
           U == UNION {K(s) : s \in Segments}
<1>1. ASSUME NEW s \in Segments PROVE IsFiniteSet(K(s))
  <2> DEFINE bs == file[s].batches
  <2>1. bs \in Seq(Lists) /\ Len(bs) \in Nat
    BY LenProperties DEF InLists
  <2> HIDE DEF bs
  <2>2. 0 \in 0..Len(bs) /\ Len(bs) \in 0..Len(bs)
    BY <2>1
  <2>3. IsFiniteSet(KeysBetween(s, bs, 0, Len(bs)))
    BY <2>1, <2>2, KeysAreBetween
  <2>4. KeysBefore(s, bs, 0) = {} /\ KeysBefore(s, bs, Len(bs)) = KeysOf(s, bs)
    BY <2>1, NothingBefore, KeysOfFile
  <2>5. KeysBetween(s, bs, 0, Len(bs)) = KeysOf(s, bs)
    BY <2>4 DEF KeysBetween
  <2> QED
    BY <2>3, <2>5 DEF bs
<1>2. IsFiniteSet(Segments)
  BY DEF ArrowAssumption
<1> HIDE DEF K
<1>3. IsFiniteSet({K(s) : s \in Segments})
  <2> DEFINE T == {K(s) : s \in Segments}
             f == [s \in Segments |-> K(s)]
  <2>1. f \in [Segments -> T] /\ \A t \in T : \E s \in Segments : f[s] = t
    OBVIOUS
  <2>2. f \in Surjection(Segments, T)
    BY <2>1 DEF Surjection
  <2> HIDE DEF T, f
  <2>3. IsFiniteSet(T)
    BY <1>2, <2>2, FS_Surjection
  <2> QED
    BY <2>3 DEF T
<1>4. IsFiniteSet(U)
  BY <1>1, <1>3, FS_UNION
<1>5. IsFiniteSet({k \in U : keep(k[1], q)})
  BY <1>4, FS_Subset
<1> QED
  BY <1>5 DEF K

LEMMA PagesFollows == ASSUME ArrowAssumption, ReadInv PROVE PagesComplete
<1> SUFFICES ASSUME NEW r \in Readers, rd[r].pc = "done"
             PROVE  LET me == rd[r]
                        got == IF me.q.op = "scan" THEN me.best ELSE ToSet(me.out) IN
                    /\ me.before \subseteq got
                    /\ \A k \in got : keep(k[1], me.q) /\ k \in KeysOf(k[2], file[k[2]].batches)
                    /\ me.q.op = "list" =>
                         /\ \A i \in 1..(Len(me.out) - 1) : order(me.out[i], me.out[i + 1], me.q.descending)
                         /\ me.total >= Cardinality(me.before)
                         /\ me.total <= Cardinality({k \in UNION {KeysOf(s, file[s].batches) : s \in Segments} : keep(k[1], me.q)})
  BY DEF PagesComplete
<1> DEFINE me == rd[r]
           got == IF me.q.op = "scan" THEN me.best ELSE ToSet(me.out)
           All == {k \in UNION {KeysOf(s, file[s].batches) : s \in Segments} : keep(k[1], me.q)}
<1>1. me \in ReaderType /\ ReaderOk(file, confirmed, me) /\ InLists(file)
  BY DEF ReadInv, Reading
<1>2. /\ me.q \in Queries /\ me.todo = <<>> /\ (me.q.op = "list" => ListOk(file, me)) /\ (me.q.op = "scan" => ScanOk(file, me))
      /\ me.q.op \in {"list", "scan"}
  BY <1>1, QueryType DEF ReaderOk
<1> HIDE DEF me
<1>3. ToSet(me.out) = Names(me.out)
  BY <1>1 DEF Names, ToSet, ReaderType
<1>4. CASE me.q.op = "scan"
  <2>1. Rest(me) = {}
    <3>1. Len(<<>>) = 0
      OBVIOUS
    <3> QED
      BY <1>2, <3>1 DEF Rest, Names
  <2>2. me.before \subseteq me.best /\ \A k \in me.best : StoredIn(file, k, me.q)
    BY <1>2, <1>4, <2>1 DEF ScanOk
  <2> QED
    BY <1>4, <2>2 DEF StoredIn, me
<1>5. CASE me.q.op = "list"
  <2>1. /\ Paging(file, me) /\ me.before \subseteq Names(me.out) /\ Counts(file, me, me.total, {})
    BY <1>2, <1>5 DEF ListOk, me
  <2>2. PICK C : /\ IsFiniteSet(C) /\ Cardinality(C) = me.total /\ C \cap {} = {} /\ me.before \ {} \subseteq C
                 /\ \A k \in C : StoredIn(file, k, me.q)
    BY <2>1 DEF Counts
  <2>3. C \subseteq All
    <3> SUFFICES ASSUME NEW k \in C PROVE k \in All
      OBVIOUS
    <3>1. k[2] \in Segments /\ keep(k[1], me.q) /\ k \in KeysOf(k[2], file[k[2]].batches)
      BY <2>2 DEF StoredIn, Key
    <3> QED
      BY <3>1
  <2>4. IsFiniteSet(All)
    BY <1>1, StoredFinite
  <2> HIDE DEF All
  <2>5. Cardinality(C) <= Cardinality(All) /\ Cardinality(C) \in Nat /\ Cardinality(All) \in Nat
    BY <2>2, <2>3, <2>4, FS_Subset, FS_CardinalityType
  <2>6. Cardinality(me.before) <= Cardinality(C) /\ Cardinality(me.before) \in Nat
    <3>1. me.before \subseteq C
      BY <2>2
    <3> QED
      BY <2>2, <3>1, FS_Subset, FS_CardinalityType
  <2>7. me.total >= Cardinality(me.before) /\ me.total <= Cardinality(All)
    BY <2>2, <2>5, <2>6
  <2>8. \A k \in Names(me.out) : keep(k[1], me.q) /\ k \in KeysOf(k[2], file[k[2]].batches)
    BY <2>1 DEF Paging, Names, StoredIn
  <2>9. \A i \in 1..(Len(me.out) - 1) : order(me.out[i], me.out[i + 1], me.q.descending)
    BY <2>1 DEF Paging
  <2> QED
    BY <1>3, <1>5, <2>1, <2>7, <2>8, <2>9 DEF All, me
<1> QED
  BY <1>2, <1>4, <1>5

LEMMA ReadersStart == ASSUME ArrowAssumption, AInit PROVE ReadInv
<1>1. /\ file = [s \in Segments |-> NoFile] /\ index = [s \in Segments |-> Absent]
      /\ rd = [r \in Readers |-> IdleReader] /\ orphans = {}
  BY DEF AInit
<1>2. InLists(file)
  <2>1. <<>> \in Seq(Lists)
    BY EmptySeq
  <2> QED
    BY <1>1, <2>1 DEF InLists, NoFile
<1>3. Lost /\ IndexesKnown
  BY <1>1 DEF Lost, IndexesKnown
<1>4. Reading
  BY <1>1, IdleOk DEF Reading
<1> QED
  BY <1>2, <1>3, <1>4, FilesStart DEF ReadInv

LEMMA ReadersKeep == ASSUME ArrowAssumption, ReadInv, [ANext]_avars PROVE ReadInv'
<1>1. FilesInv'
  BY FilesKeep DEF ReadInv
<1>2. CASE \/ \E b \in Batches, c \in Shapes, s \in Segments : BeginWrite(b, c, s)
           \/ \E s \in Segments : Rename(s)
           \/ CreateFails \/ AppendTorn \/ Flush
           \/ \E full, ok \in BOOLEAN : Acknowledge(full, ok)
           \/ \E how \in {"ok", "torn", "whole"} : AppendFails(how)
           \/ \E ok \in BOOLEAN : CloseSegment(ok)
           \/ DropClose \/ Forget \/ RemoveDir \/ Crash
  BY <1>1, <1>2, WritersKeep
<1>3. ASSUME NEW r \in Readers, NEW q \in Queries, Ask(r, q) PROVE ReadInv'
  BY <1>1, <1>3, AskKeeps
<1>4. ASSUME NEW r \in Readers, Metadata(r) \/ Extend(r) \/ Search(r) \/ Scan(r) \/ PageEnd(r)
      PROVE  ReadInv'
  BY <1>1, <1>4, MetadataKeeps, ExtendKeeps, SearchKeeps, ScanKeeps, PageEndKeeps
<1>5. CASE UNCHANGED avars
  <2>1. UNCHANGED <<file, confirmed, orphans, index, rd>>
    BY <1>5 DEF avars, wvars
  <2> QED
    BY <1>1, <2>1 DEF ReadInv, Lost, IndexesKnown, Reading
<1> QED
  BY <1>2, <1>3, <1>4, <1>5 DEF ANext

\* Pages read while rows are appended, segments rotate, indexes are extended by several readers
\* and the process crashes hold every row that was acknowledged before the first of them, in key
\* order and once, and the total counts them (seek.rs, search.rs, index.rs): for any batches,
\* segments, queries, page limits and faults.
THEOREM PagesCompleteHolds ==
  ASSUME ArrowAssumption
  PROVE  ASpec => []PagesComplete
<1>1. AInit => ReadInv
  BY ReadersStart
<1>2. ReadInv /\ [ANext]_avars => ReadInv'
  BY ReadersKeep
<1>3. ReadInv => PagesComplete
  BY PagesFollows
<1> QED
  BY <1>1, <1>2, <1>3, PTL DEF ASpec

-----------------------------------------------------------------------------
(* The run of MCBatchWriter, which chooses one of the parts *)

HonestInv == (part = "arrow" => ReadInv) /\ (part = "stores" => StoreInv /\ PageInv)

\* Whatever part a behaviour runs, the pages of the arrow store miss nothing that was
\* acknowledged and repeat nothing (seek.rs, segment.rs), what a mirrored or buffered store
\* acknowledged is in both its stores, and its pages cover it (mirror.rs, buffered.rs).
THEOREM StoresHonestHolds == MCSpec => []StoresHonest
<1>1. MCInit => HonestInv
  BY ReadersStart, StoreStart, PageStarts, Instances DEF MCInit, HonestInv
<1>2. HonestInv /\ [MCNext]_mcVars => HonestInv'
  <2> SUFFICES ASSUME HonestInv, [MCNext]_mcVars PROVE HonestInv'
    OBVIOUS
  <2>1. part' = part
    BY DEF MCNext, Still, mcVars
  <2>2. ASSUME part = "arrow" PROVE ReadInv'
    <3>1. ReadInv
      BY <2>2 DEF HonestInv
    <3>2. [ANext]_(avars)
      BY <2>2 DEF MCNext, Still, mcVars, avars, wvars
    <3> QED
      BY <3>1, <3>2, ReadersKeep, Instances
  <2>3. ASSUME part = "stores" PROVE StoreInv' /\ PageInv'
    <3>1. StoreInv /\ PageInv
      BY <2>3 DEF HonestInv
    <3>2. [SNext]_(svars)
      BY <2>3 DEF MCNext, Still, mcVars, svars
    <3> QED
      BY <3>1, <3>2, StoreKeeps, PagesKeep, Instances
  <2> QED
    BY <2>1, <2>2, <2>3 DEF HonestInv
<1>3. HonestInv => StoresHonest
  <2>1. FilesInv => AckedVisible
    BY DEF FilesInv, Kept, Covered, Within, AckedVisible
  <2>2. ReadInv => PagesComplete /\ AckedVisible
    BY <2>1, PagesFollows, Instances DEF ReadInv
  <2>3. StoreInv /\ PageInv => DurableInBoth /\ PagesCover
    BY PageShows, Instances DEF StoreInv
  <2> QED
    BY <2>2, <2>3 DEF HonestInv, StoresHonest
<1> QED
  BY <1>1, <1>2, <1>3, PTL DEF MCSpec
==============================================================================
