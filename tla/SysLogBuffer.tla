--------------------------- MODULE SysLogBuffer ---------------------------
(***************************************************************************)
(* SysLogEvent: the in-memory buffer between the log events of the HTTP    *)
(* layer and the sys_log table.  Records are written in batches, by a      *)
(* timer, at a threshold, or while the application shuts down; one batch   *)
(* at a time is in flight and a failed batch goes back to the front.       *)
(*                                                                          *)
(* One action is one turn of the event loop: a call of an event handler or  *)
(* a timer, or the code after an await.  flushInFlight is set exactly while *)
(* batch is not empty.                                                      *)
(***************************************************************************)
EXTENDS Integers, Sequences

CONSTANTS
  Record,          \* log records
  FlushThreshold,  \* flushThreshold; the code fixes 10
  MaxEvents,       \* bound: records sent
  MaxFaults,       \* bound: batch writes that fail without effect
  MaxLostAcks      \* bound: batch writes that commit but report an error

ASSUME ThresholdAssumption == FlushThreshold \in Nat \ {0}
ASSUME BoundAssumption == {MaxEvents, MaxFaults, MaxLostAcks} \subseteq Nat

VARIABLES
  sent,      \* history: the records given to handleLogCreatedEvent
  queue,     \* pendingLogQueue
  batch,     \* currentBatch of the flush in flight, or <<>>
  timer,     \* flushTimer is armed
  phase,     \* "running", "draining" (in onApplicationShutdown), "stopped"
  saved,     \* the rows of sys_log
  acked,     \* history: the records whose write was acknowledged
  faults, lostAcks   \* uses of the bounds

vars == <<sent, queue, batch, timer, phase, saved, acked, faults, lostAcks>>

-----------------------------------------------------------------------------

Init ==
  /\ sent = <<>> /\ queue = <<>> /\ batch = <<>>
  /\ saved = <<>> /\ acked = <<>>
  /\ timer = FALSE
  /\ phase = "running"
  /\ faults = 0 /\ lostAcks = 0

\* Mutant: a flush does not look whether one is in flight.
FlushPendingLogsAlways(q, armed) ==
  IF q = <<>>
  THEN queue' = q /\ batch' = batch /\ timer' = armed
  ELSE queue' = <<>> /\ batch' = q /\ timer' = FALSE

\* flushPendingLogs with the queue q: joins the flush in flight, or takes the
\* whole queue as the next batch and clears the timer.
FlushPendingLogs(q, armed) ==
  IF batch # <<>> \/ q = <<>>
  THEN queue' = q /\ batch' = batch /\ timer' = armed
  ELSE queue' = <<>> /\ batch' = q /\ timer' = FALSE

\* handleLogCreatedEvent.
HandleLogCreatedEvent(r) ==
  LET pushed == Append(queue, r) IN
  /\ phase # "stopped"
  /\ Len(sent) < MaxEvents
  /\ sent' = Append(sent, r)
  /\ IF Len(pushed) >= FlushThreshold
     THEN FlushPendingLogs(pushed, FALSE)
     ELSE queue' = pushed /\ timer' = TRUE /\ UNCHANGED batch
  /\ UNCHANGED <<phase, saved, acked, faults, lostAcks>>

\* The timer of ensureFlushTimer fires.
FlushTimerFires ==
  /\ timer
  /\ phase # "stopped"
  /\ FlushPendingLogs(queue, FALSE)
  /\ UNCHANGED <<sent, phase, saved, acked, faults, lostAcks>>

\* Mutant: records that stay behind get no timer.
AfterFlushNoTimer(q) ==
  IF Len(q) >= FlushThreshold
  THEN queue' = <<>> /\ batch' = q /\ timer' = FALSE
  ELSE queue' = q /\ batch' = <<>> /\ timer' = timer

\* The finally block of a flush that leaves the queue q.
AfterFlush(q) ==
  IF Len(q) >= FlushThreshold
  THEN queue' = <<>> /\ batch' = q /\ timer' = FALSE
  ELSE queue' = q /\ batch' = <<>> /\ timer' = (timer \/ q # <<>>)

\* batchSaveLogs has written the batch.
BatchSaved ==
  /\ batch # <<>>
  /\ saved' = saved \o batch
  /\ acked' = acked \o batch
  /\ AfterFlush(queue)
  /\ UNCHANGED <<sent, phase, faults, lostAcks>>

\* Mutant: the failed batch is pushed behind the newer records.
BatchFailsPushed ==
  /\ batch # <<>>
  /\ faults < MaxFaults
  /\ faults' = faults + 1
  /\ AfterFlush(queue \o batch)
  /\ UNCHANGED <<sent, phase, saved, acked, lostAcks>>

\* Mutant: unshift(currentBatch) without spreading the batch.
BatchFailsNested ==
  /\ batch # <<>>
  /\ faults < MaxFaults
  /\ faults' = faults + 1
  /\ AfterFlush(<<batch>> \o queue)
  /\ UNCHANGED <<sent, phase, saved, acked, lostAcks>>

\* batchSaveLogs rejects, its transaction is rolled back: the batch returns to
\* the front of the queue.
BatchFails ==
  /\ batch # <<>>
  /\ faults < MaxFaults
  /\ faults' = faults + 1
  /\ AfterFlush(batch \o queue)
  /\ UNCHANGED <<sent, phase, saved, acked, lostAcks>>

\* The commit went through but its acknowledgement was lost.
BatchAckLost ==
  /\ batch # <<>>
  /\ lostAcks < MaxLostAcks
  /\ lostAcks' = lostAcks + 1
  /\ saved' = saved \o batch
  /\ AfterFlush(batch \o queue)
  /\ UNCHANGED <<sent, phase, acked, faults>>

\* onApplicationShutdown clears the timer and begins to drain.
OnApplicationShutdown ==
  /\ phase = "running"
  /\ phase' = "draining"
  /\ timer' = FALSE
  /\ UNCHANGED <<sent, queue, batch, saved, acked, faults, lostAcks>>

\* Mutant: the drain looks at the queue only.
DrainEarlyEnd ==
  /\ phase = "draining"
  /\ IF queue = <<>>
     THEN phase' = "stopped" /\ UNCHANGED <<queue, batch, timer>>
     ELSE batch = <<>> /\ FlushPendingLogs(queue, timer) /\ UNCHANGED phase
  /\ UNCHANGED <<sent, saved, acked, faults, lostAcks>>

\* Mutant: the drain leaves the rest of the queue to the timer.
DrainLeftToTimer ==
  /\ phase = "draining"
  /\ batch = <<>> /\ queue = <<>>
  /\ phase' = "stopped"
  /\ UNCHANGED <<sent, queue, batch, timer, saved, acked, faults, lostAcks>>

\* One round of drainPendingLogsOnShutdown, which waits for a flush in flight.
DrainPendingLogsOnShutdown ==
  /\ phase = "draining"
  /\ batch = <<>>
  /\ IF queue = <<>>
     THEN phase' = "stopped" /\ UNCHANGED <<queue, batch, timer>>
     ELSE FlushPendingLogs(queue, timer) /\ UNCHANGED phase
  /\ UNCHANGED <<sent, saved, acked, faults, lostAcks>>

Next ==
  \/ \E r \in Record : HandleLogCreatedEvent(r)
  \/ FlushTimerFires
  \/ BatchSaved \/ BatchFails \/ BatchAckLost
  \/ OnApplicationShutdown
  \/ DrainPendingLogsOnShutdown

Spec == Init /\ [][Next]_vars

\* A database call settles, an armed timer fires, the event loop goes on.
FairSpec ==
  /\ Spec
  /\ WF_vars(BatchSaved \/ BatchFails \/ BatchAckLost)
  /\ WF_vars(FlushTimerFires)
  /\ WF_vars(DrainPendingLogsOnShutdown)

-----------------------------------------------------------------------------
(* Properties *)

\* The buffers hold flat lists of records.
TypeOK ==
  /\ sent \in Seq(Record) /\ queue \in Seq(Record)
  /\ batch \in Seq(Record) /\ saved \in Seq(Record) /\ acked \in Seq(Record)
  /\ timer \in BOOLEAN
  /\ phase \in {"running", "draining", "stopped"}
  /\ faults \in Nat /\ lostAcks \in Nat

\* Nothing is lost or reordered between event and table, in whatever order events,
\* timers, failures and the drain come: acknowledged records, batch in flight and
\* queue are together what was sent, and only a lost acknowledgement doubles rows.
Conservation ==
  /\ acked \o batch \o queue = sent
  /\ lostAcks = 0 => saved = acked

\* Buffered records always have something that will flush them: a timer, the
\* flush in flight (whose finally block looks again), or the drain.
NothingStranded ==
  queue # <<>> => timer \/ batch # <<>> \/ phase = "draining"

\* The drain ends only when every record has been written and acknowledged.
ShutdownLosesNothing == phase = "stopped" => acked = sent

\* The buffer behaves as an at-least-once pipe to its environment.
Pipe == INSTANCE LogPipe WITH stored <- saved, done <- acked
PipeSpec == Pipe!Spec

\* Every record reaches the table once the database stops failing, also those of
\* a batch that was written twice.
EverythingStored ==
  \A n \in 1 .. MaxEvents : Len(sent) >= n ~> Len(acked) >= n

\* The shutdown comes to an end once the database stops failing.
DrainEnds == phase = "draining" ~> phase = "stopped"

=============================================================================
