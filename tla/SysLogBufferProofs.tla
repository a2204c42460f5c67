------------------------ MODULE SysLogBufferProofs ------------------------
(***************************************************************************)
(* Proofs about SysLogBuffer for every threshold and every bound: no record *)
(* is lost, doubled or reordered, buffered records are never stranded, a    *)
(* shutdown that ends has written everything, and the buffer implements     *)
(* LogPipe.                                                                 *)
(***************************************************************************)
EXTENDS SysLogBuffer, TLAPS, SequenceTheorems

-----------------------------------------------------------------------------
(* The two ways a turn of the event loop leaves the buffers *)

\* A call of flushPendingLogs keeps the records and their order, and whatever it
\* leaves in the queue has a batch in flight before it.
LEMMA FlushKeeps ==
  ASSUME NEW q \in Seq(Record), NEW armed \in BOOLEAN, batch \in Seq(Record),
         FlushPendingLogs(q, armed)
  PROVE  /\ queue' \in Seq(Record) /\ batch' \in Seq(Record) /\ timer' \in BOOLEAN
         /\ batch' \o queue' = batch \o q
         /\ queue' # <<>> => batch' # <<>>
<1>1. CASE batch # <<>> \/ q = <<>>
  BY <1>1 DEF FlushPendingLogs
<1>2. CASE ~(batch # <<>> \/ q = <<>>)
  <2>1. queue' = <<>> /\ batch' = q /\ timer' = FALSE /\ batch = <<>>
    BY <1>2 DEF FlushPendingLogs
  <2>2. q \o <<>> = q /\ <<>> \o q = q
    BY ConcatEmptySeq
  <2> QED
    BY <2>1, <2>2, EmptySeq
<1> QED
  BY <1>1, <1>2

\* The finally block keeps the records, and leaves a timer or a batch in flight
\* behind when some are left.
LEMMA AfterFlushKeeps ==
  ASSUME NEW q \in Seq(Record), timer \in BOOLEAN, AfterFlush(q)
  PROVE  /\ queue' \in Seq(Record) /\ batch' \in Seq(Record) /\ timer' \in BOOLEAN
         /\ batch' \o queue' = q
         /\ queue' # <<>> => timer'
<1>1. q \o <<>> = q /\ <<>> \o q = q /\ <<>> \in Seq(Record)
  BY ConcatEmptySeq, EmptySeq
<1>2. CASE Len(q) >= FlushThreshold
  BY <1>1, <1>2 DEF AfterFlush
<1>3. CASE ~(Len(q) >= FlushThreshold)
  BY <1>1, <1>3 DEF AfterFlush
<1> QED
  BY <1>2, <1>3

-----------------------------------------------------------------------------
(* Types *)

\* The buffers hold flat lists of records: unshift spreads the failed batch.
THEOREM TypeCorrect == Spec => []TypeOK
<1>1. Init => TypeOK
  <2>1. <<>> \in Seq(Record)
    BY EmptySeq
  <2>2. Init => timer \in BOOLEAN
    BY Zenon DEF Init
  <2> QED
    BY <2>1, <2>2 DEF Init, TypeOK
<1>2. ASSUME TypeOK, [Next]_vars
      PROVE  TypeOK'
  <2> USE <1>2 DEF TypeOK
  <2>1. ASSUME NEW r \in Record, HandleLogCreatedEvent(r)
        PROVE  TypeOK'
    <3>1. Append(queue, r) \in Seq(Record) /\ sent' \in Seq(Record)
      BY <2>1, AppendProperties DEF HandleLogCreatedEvent
    <3>2. CASE Len(Append(queue, r)) >= FlushThreshold
      BY <2>1, <3>1, <3>2, FlushKeeps DEF HandleLogCreatedEvent
    <3>3. CASE ~(Len(Append(queue, r)) >= FlushThreshold)
      BY <2>1, <3>1, <3>3 DEF HandleLogCreatedEvent
    <3> QED
      BY <3>2, <3>3
  <2>2. CASE FlushTimerFires
    BY <2>2, FlushKeeps DEF FlushTimerFires
  <2>3. CASE BatchSaved
    BY <2>3, AfterFlushKeeps, ConcatProperties DEF BatchSaved
  <2>4. /\ batch \o queue \in Seq(Record) /\ saved \o batch \in Seq(Record)
        /\ acked \o batch \in Seq(Record)
    BY ConcatProperties
  <2>5. CASE BatchFails
    <3>1. queue' \in Seq(Record) /\ batch' \in Seq(Record) /\ timer' \in BOOLEAN
      BY <2>4, <2>5, AfterFlushKeeps DEF BatchFails
    <3> QED
      BY <2>5, <3>1 DEF BatchFails
  <2>6. CASE BatchAckLost
    <3>1. queue' \in Seq(Record) /\ batch' \in Seq(Record) /\ timer' \in BOOLEAN
      BY <2>4, <2>6, AfterFlushKeeps DEF BatchAckLost
    <3> QED
      BY <2>4, <2>6, <3>1 DEF BatchAckLost
  <2>7. CASE OnApplicationShutdown
    BY <2>7 DEF OnApplicationShutdown
  <2>8. CASE DrainPendingLogsOnShutdown
    BY <2>8, FlushKeeps DEF DrainPendingLogsOnShutdown
  <2>9. CASE UNCHANGED vars
    BY <2>9 DEF vars
  <2> QED
    BY <2>1, <2>2, <2>3, <2>5, <2>6, <2>7, <2>8, <2>9 DEF Next
<1> QED
  BY <1>1, <1>2, PTL DEF Spec

-----------------------------------------------------------------------------
(* The inductive invariant *)

\* A drain that has ended left nothing behind, so nothing happens after it.
StoppedEmpty == phase = "stopped" => queue = <<>> /\ batch = <<>>

BufferInv ==
  /\ Conservation
  /\ NothingStranded
  /\ StoppedEmpty

LEMMA InvInit == Init => BufferInv
<1> SUFFICES ASSUME Init
             PROVE  BufferInv
  OBVIOUS
<1>1. <<>> \o <<>> = <<>>
  BY ConcatEmptySeq, EmptySeq
<1>2. Conservation
  BY <1>1 DEF Init, Conservation
<1> QED
  BY <1>2 DEF Init, BufferInv, NothingStranded, StoppedEmpty

\* The library's fact about concatenation, at the records.
LEMMA Associative ==
  \A s \in Seq(Record) : \A t \in Seq(Record) : \A u \in Seq(Record) :
    (s \o t) \o u = s \o (t \o u)
BY ConcatAssociative

\* acked \o batch \o queue grouped as the step lemmas need it, in a state and
\* in the next one.
LEMMA Regroup ==
  ASSUME TypeOK
  PROVE  acked \o batch \o queue = acked \o (batch \o queue)
<1>1. acked \in Seq(Record) /\ batch \in Seq(Record) /\ queue \in Seq(Record)
  BY DEF TypeOK
<1> QED
  BY <1>1, Associative, Zenon

LEMMA RegroupNext ==
  ASSUME TypeOK'
  PROVE  acked' \o batch' \o queue' = acked' \o (batch' \o queue')
<1>1. acked' \in Seq(Record) /\ batch' \in Seq(Record) /\ queue' \in Seq(Record)
  BY DEF TypeOK
<1> QED
  BY <1>1, Associative, Zenon

\* A call of flushPendingLogs that does not touch the table.
LEMMA FlushInv ==
  ASSUME TypeOK, TypeOK', BufferInv, phase # "stopped", phase' = phase,
         UNCHANGED <<saved, acked, lostAcks, sent>>,
         NEW armed \in BOOLEAN, FlushPendingLogs(queue, armed)
  PROVE  BufferInv'
<1>1. /\ batch' \o queue' = batch \o queue
      /\ queue' # <<>> => batch' # <<>>
  BY FlushKeeps DEF TypeOK
<1>2. acked' \o batch' \o queue' = acked \o batch \o queue
  BY <1>1, Regroup, RegroupNext
<1>3. Conservation'
  BY <1>2 DEF BufferInv, Conservation
<1> QED
  BY <1>1, <1>3 DEF BufferInv, NothingStranded, StoppedEmpty

\* A record appended to the queue is appended to the whole.
LEMMA AppendBehind ==
  ASSUME TypeOK, NEW d \in Seq(Record)
  PROVE  acked \o (batch \o (queue \o d)) = (acked \o (batch \o queue)) \o d
<1>1. acked \in Seq(Record) /\ batch \in Seq(Record) /\ queue \in Seq(Record)
  BY DEF TypeOK
<1>2. batch \o queue \in Seq(Record)
  BY <1>1, ConcatProperties
<1>3. batch \o (queue \o d) = (batch \o queue) \o d
  BY <1>1, Associative, Zenon
<1>4. \A q \in Seq(Record) : acked \o (q \o d) = (acked \o q) \o d
  BY <1>1, Associative, Zenon
<1> QED
  BY <1>2, <1>3, <1>4, Zenon

LEMMA InvHandle ==
  ASSUME TypeOK, TypeOK', BufferInv,
         NEW r \in Record, HandleLogCreatedEvent(r)
  PROVE  BufferInv'
<1> DEFINE pushed == Append(queue, r)
<1>0. PICK one \in Seq(Record) : one = <<r>>
  <2>1. <<r>> \in Seq(Record)
    OBVIOUS
  <2> QED
    BY <2>1, Zenon
<1>1. pushed \in Seq(Record) /\ pushed = queue \o one /\ one \in Seq(Record)
  BY <1>0, AppendProperties, AppendIsConcat DEF TypeOK
<1>2. /\ batch' \o queue' = batch \o pushed
      /\ queue' # <<>> => batch' # <<>> \/ timer'
  <2>1. CASE Len(pushed) >= FlushThreshold
    <3>1. FlushPendingLogs(pushed, FALSE)
      BY <2>1 DEF HandleLogCreatedEvent
    <3> HIDE DEF pushed
    <3> QED
      BY <1>1, <3>1, FlushKeeps DEF TypeOK
  <2>2. CASE ~(Len(pushed) >= FlushThreshold)
    BY <2>2 DEF HandleLogCreatedEvent
  <2> QED
    BY <2>1, <2>2
<1>3. sent' = sent \o one /\ UNCHANGED <<saved, acked, phase, lostAcks>> /\ phase # "stopped"
  BY <1>0, AppendIsConcat DEF HandleLogCreatedEvent, TypeOK
<1>4. Conservation'
  <2> SUFFICES acked' \o batch' \o queue' = sent'
    BY <1>3 DEF BufferInv, Conservation
  <2> HIDE DEF pushed
  <2>1. acked' \o batch' \o queue' = acked \o (batch \o pushed)
    BY <1>2, <1>3, RegroupNext
  <2>2. acked \o (batch \o queue) = sent
    BY Regroup DEF BufferInv, Conservation
  <2>3. acked \o (batch \o (queue \o one)) = (acked \o (batch \o queue)) \o one
    BY AppendBehind
  <2> QED
    BY <1>1, <1>3, <2>1, <2>2, <2>3
<1> QED
  BY <1>2, <1>3, <1>4 DEF BufferInv, NothingStranded, StoppedEmpty

LEMMA InvBatch ==
  ASSUME TypeOK, TypeOK', BufferInv, BatchSaved \/ BatchFails \/ BatchAckLost
  PROVE  BufferInv'
<1>1. phase' = phase /\ sent' = sent /\ phase # "stopped"
  BY DEF BatchSaved, BatchFails, BatchAckLost, BufferInv, StoppedEmpty
<1>2. batch \o queue \in Seq(Record)
  BY ConcatProperties DEF TypeOK
<1>3. CASE BatchSaved
  <2>1. /\ batch' \o queue' = queue
        /\ queue' # <<>> => timer'
    BY <1>3, AfterFlushKeeps DEF BatchSaved, TypeOK
  <2>2. saved' = saved \o batch /\ acked' = acked \o batch /\ lostAcks' = lostAcks
    BY <1>3 DEF BatchSaved
  <2>3. acked' \o batch' \o queue' = acked \o batch \o queue
    BY <2>1, <2>2, RegroupNext
  <2> QED
    BY <1>1, <2>1, <2>2, <2>3 DEF BufferInv, Conservation, NothingStranded, StoppedEmpty
<1>4. CASE BatchFails
  <2>1. /\ batch' \o queue' = batch \o queue
        /\ queue' # <<>> => timer'
    BY <1>2, <1>4, AfterFlushKeeps DEF BatchFails, TypeOK
  <2>2. saved' = saved /\ acked' = acked /\ lostAcks' = lostAcks
    BY <1>4 DEF BatchFails
  <2>4. acked' \o batch' \o queue' = acked \o batch \o queue
    BY <2>1, <2>2, Regroup, RegroupNext
  <2> QED
    BY <1>1, <2>1, <2>2, <2>4 DEF BufferInv, Conservation, NothingStranded, StoppedEmpty
<1>5. CASE BatchAckLost
  <2>1. /\ batch' \o queue' = batch \o queue
        /\ queue' # <<>> => timer'
    BY <1>2, <1>5, AfterFlushKeeps DEF BatchAckLost, TypeOK
  <2>2. acked' = acked /\ lostAcks' = lostAcks + 1 /\ lostAcks \in Nat
    BY <1>5 DEF BatchAckLost, TypeOK
  <2>3. lostAcks' # 0
    BY <2>2
  <2>4. acked' \o batch' \o queue' = acked \o batch \o queue
    BY <2>1, <2>2, Regroup, RegroupNext
  <2> QED
    BY <1>1, <2>1, <2>3, <2>4 DEF BufferInv, Conservation, NothingStranded, StoppedEmpty
<1> QED
  BY <1>3, <1>4, <1>5

\* The invariant that carries every safety property of the buffer.
THEOREM BufferInvariant == Spec => []BufferInv
<1>1. ASSUME TypeOK, TypeOK', BufferInv, [Next]_vars
      PROVE  BufferInv'
  <2>1. CASE \E r \in Record : HandleLogCreatedEvent(r)
    BY <1>1, <2>1, InvHandle
  <2>2. CASE FlushTimerFires
    BY <1>1, <2>2, FlushInv DEF FlushTimerFires
  <2>3. CASE BatchSaved \/ BatchFails \/ BatchAckLost
    BY <1>1, <2>3, InvBatch
  <2>4. CASE OnApplicationShutdown
    BY <1>1, <2>4 DEF OnApplicationShutdown, BufferInv, Conservation, NothingStranded,
                      StoppedEmpty
  <2>5. CASE DrainPendingLogsOnShutdown
    <3>1. CASE queue = <<>>
      BY <1>1, <2>5, <3>1 DEF DrainPendingLogsOnShutdown, BufferInv, Conservation,
                              NothingStranded, StoppedEmpty
    <3>2. CASE queue # <<>>
      BY <1>1, <2>5, <3>2, FlushInv DEF DrainPendingLogsOnShutdown, TypeOK
    <3> QED
      BY <3>1, <3>2
  <2>6. CASE UNCHANGED vars
    BY <1>1, <2>6 DEF vars, BufferInv, Conservation, NothingStranded, StoppedEmpty
  <2> QED
    BY <1>1, <2>1, <2>2, <2>3, <2>4, <2>5, <2>6 DEF Next
<1> QED
  BY InvInit, <1>1, TypeCorrect, PTL DEF Spec

\* No record is lost, doubled or reordered on its way to sys_log.
THEOREM RecordsConserved == Spec => []Conservation
<1>1. BufferInv => Conservation
  BY DEF BufferInv
<1> QED
  BY <1>1, BufferInvariant, PTL

\* Buffered records always have something that will flush them.
THEOREM RecordsNotStranded == Spec => []NothingStranded
<1>1. BufferInv => NothingStranded
  BY DEF BufferInv
<1> QED
  BY <1>1, BufferInvariant, PTL

\* A shutdown that has ended has written every record.
THEOREM ShutdownComplete == Spec => []ShutdownLosesNothing
<1>1. TypeOK /\ BufferInv => ShutdownLosesNothing
  <2> SUFFICES ASSUME TypeOK, BufferInv, phase = "stopped"
               PROVE  acked = sent
    BY DEF ShutdownLosesNothing
  <2>1. acked \o <<>> \o <<>> = sent
    BY DEF BufferInv, StoppedEmpty, Conservation
  <2>2. acked \o <<>> = acked
    BY ConcatEmptySeq DEF TypeOK
  <2> QED
    BY <2>1, <2>2
<1> QED
  BY <1>1, BufferInvariant, TypeCorrect, PTL

-----------------------------------------------------------------------------
(* The buffer implements the pipe *)

\* In a sequence of three parts, the middle one is found after the first.
LEMMA MiddlePart ==
  ASSUME TypeOK, NEW n, n = Len(acked) + Len(batch), batch # <<>>
  PROVE  /\ n \in (Len(acked) + 1) .. Len(acked \o batch \o queue)
         /\ SubSeq(acked \o batch \o queue, Len(acked) + 1, n) = batch
<1>1. acked \in Seq(Record) /\ batch \in Seq(Record) /\ queue \in Seq(Record)
  BY DEF TypeOK
<1> DEFINE whole == acked \o batch \o queue
           part == SubSeq(whole, Len(acked) + 1, n)
<1>2. whole \in Seq(Record) /\ Len(whole) = Len(acked) + Len(batch) + Len(queue)
  BY <1>1, ConcatProperties
<1>3. Len(acked) \in Nat /\ Len(batch) \in Nat \ {0} /\ Len(queue) \in Nat
  BY <1>1, EmptySeq, LenProperties
<1>4. n \in (Len(acked) + 1) .. Len(whole)
  BY <1>2, <1>3
<1>5. Len(part) = Len(batch) /\ part \in Seq(Record)
  BY <1>2, <1>3, <1>4, SubSeqProperties
<1>6. ASSUME NEW i \in 1 .. Len(batch)
      PROVE  part[i] = batch[i]
  <2>1. part[i] = whole[Len(acked) + i]
    BY <1>2, <1>3, <1>4, <1>5, <1>6, SubSeqProperties
  <2>2. acked \o batch \in Seq(Record) /\ Len(acked \o batch) = Len(acked) + Len(batch)
    BY <1>1, ConcatProperties
  <2>3. whole[Len(acked) + i] = (acked \o batch)[Len(acked) + i]
    BY <1>1, <1>3, <1>6, <2>2, ConcatProperties
  <2>4. (acked \o batch)[Len(acked) + i] = batch[i]
    BY <1>1, <1>3, <1>6, ConcatProperties
  <2> QED
    BY <2>1, <2>3, <2>4
<1>7. part = batch
  <2> HIDE DEF part
  <2> QED
    BY <1>1, <1>5, <1>6, SeqEqual
<1> QED
  BY <1>4, <1>7

\* Events are the pipe's sends, committed batches its writes (acknowledged or not),
\* and every other turn a stutter.
THEOREM ImplementsPipe == Spec => PipeSpec
<1>1. Init => Pipe!Init
  BY DEF Init, Pipe!Init
<1>2. ASSUME TypeOK, BufferInv, [Next]_vars
      PROVE  [Pipe!Next]_<<sent, acked, saved>>
  <2>1. ASSUME NEW r \in Record, HandleLogCreatedEvent(r)
        PROVE  Pipe!Send
    BY <2>1 DEF HandleLogCreatedEvent, Pipe!Send
  <2>2. ASSUME batch # <<>>, saved' = saved \o batch, sent' = sent,
               acked' = acked \o batch \/ acked' = acked
        PROVE  Pipe!Store
    <3> DEFINE n == Len(acked) + Len(batch)
    <3>1. sent = acked \o batch \o queue
      BY <1>2 DEF BufferInv, Conservation
    <3>2. n \in (Len(acked) + 1) .. Len(sent) /\ SubSeq(sent, Len(acked) + 1, n) = batch
      BY <1>2, <2>2, <3>1, MiddlePart
    <3> HIDE DEF n
    <3> QED
      BY <2>2, <3>2 DEF Pipe!Store
  <2>3. BatchSaved \/ BatchAckLost => Pipe!Store
    BY <2>2 DEF BatchSaved, BatchAckLost
  <2>4. FlushTimerFires \/ BatchFails \/ OnApplicationShutdown
          \/ DrainPendingLogsOnShutdown \/ UNCHANGED vars
        => UNCHANGED <<sent, acked, saved>>
    BY DEF FlushTimerFires, BatchFails, OnApplicationShutdown, DrainPendingLogsOnShutdown,
           vars
  <2> QED
    BY <1>2, <2>1, <2>3, <2>4 DEF Next, Pipe!Next
<1> QED
  BY <1>1, <1>2, TypeCorrect, BufferInvariant, PTL DEF Spec, PipeSpec, Pipe!Spec

=============================================================================
