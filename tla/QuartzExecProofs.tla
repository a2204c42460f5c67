------------------------- MODULE QuartzExecProofs -------------------------
(***************************************************************************)
(* Theorems about QuartzExec, for every set of processes and jobs, every   *)
(* concurrency, retry count and timeout, and every number of failed calls,  *)
(* crashes and administrative operations.                                   *)
(***************************************************************************)
EXTENDS QuartzExec, FiniteSetTheorems, TLAPS

-----------------------------------------------------------------------------
(* Lemmas about the data *)

\* lockSeconds leaves the handler more than its timeout.
LEMMA LockSecondsCoverTimeout ==
  ASSUME NEW t \in Int, t > 0, Null \notin Int
  PROVE  LockSeconds(t) * 1000 >= t + 5000
BY SMT DEF LockSeconds

\* Writing the status of a log row keeps the log well formed.
LEMMA OneStatusSet ==
  ASSUME NEW R, NEW q \in Seq(R), NEW l, NEW v
  PROVE  [q EXCEPT ![l].status = v]
           = [i \in 1 .. Len(q) |-> IF i = l THEN [q[i] EXCEPT !.status = v] ELSE q[i]]
OBVIOUS

LEMMA LogStatusType ==
  ASSUME NEW q \in Seq(LogRow), NEW l, NEW v \in {"RUNNING", "SUCCESS", "FAIL"}
  PROVE  /\ [q EXCEPT ![l].status = v] \in Seq(LogRow)
         /\ Len([q EXCEPT ![l].status = v]) = Len(q)
<1> DEFINE new == [q EXCEPT ![l].status = v]
<1>1. new = [i \in 1 .. Len(q) |-> IF i = l THEN [q[i] EXCEPT !.status = v] ELSE q[i]]
  BY OneStatusSet
<1>2. ASSUME NEW r \in LogRow PROVE [r EXCEPT !.status = v] \in LogRow
  BY DEF LogRow
<1>3. \A i \in 1 .. Len(q) : q[i] \in LogRow
  OBVIOUS
<1>4. new \in [1 .. Len(q) -> LogRow]
  BY <1>1, <1>2, <1>3
<1>5. DOMAIN new = 1 .. Len(q)
  BY <1>1
<1> HIDE DEF new
<1>6. new \in Seq(LogRow) /\ Len(new) = Len(q)
  BY <1>4, <1>5
<1> QED
  BY <1>6 DEF new

\* A new RUNNING log row keeps the log well formed.
LEMMA LogAppendType ==
  ASSUME NEW q \in Seq(LogRow), NEW j \in Job
  PROVE  /\ Append(q, [job |-> j, status |-> "RUNNING"]) \in Seq(LogRow)
         /\ Len(Append(q, [job |-> j, status |-> "RUNNING"])) = Len(q) + 1
<1> DEFINE r == [job |-> j, status |-> "RUNNING"]
<1>1. r \in LogRow
  BY DEF LogRow
<1> HIDE DEF r
<1>2. Append(q, r) \in Seq(LogRow) /\ Len(Append(q, r)) = Len(q) + 1
  BY <1>1
<1> QED
  BY <1>2 DEF r

\* The ways an action updates a call keep it well formed.
LEMMA CallUpdates ==
  ASSUME NEW e \in Call
  PROVE  /\ \A pc \in Pc \ {"idle"} : [e EXCEPT !.pc = pc] \in Call
         /\ \A pc \in Pc \ {"idle"}, r \in {"ok", "err"} :
               [e EXCEPT !.pc = pc, !.result = r] \in Call
         /\ \A pc \in Pc \ {"idle"}, t \in Rows :
               [e EXCEPT !.pc = pc, !.task = t] \in Call
         /\ \A pc \in Pc \ {"idle"}, l \in Nat :
               [e EXCEPT !.pc = pc, !.log = l] \in Call
         /\ \A pc \in Pc \ {"idle"} : [e EXCEPT !.pc = pc, !.lockKey = TRUE] \in Call
BY DEF Call

LEMMA PcType ==
  {"finish", "load", "saveLog", "markRunning", "lock", "handler", "okLog", "okRow",
   "failLog", "failRow", "unlock"} = Pc \ {"idle"}
BY DEF Pc, EarlyPc, LoggedPc

\* A slot that is not idle runs a call.
LEMMA BusyCall ==
  ASSUME TypeOK, NEW s \in Slot, exec[s].pc # "idle"
  PROVE  exec[s] \in Call /\ exec[s].job \in Job /\ exec[s].log \in Nat
                          /\ exec[s].task \in Rows
<1>1. exec[s] \in Call
  BY DEF TypeOK, IdleExec
<1> QED
  BY <1>1 DEF Call

\* The updates of exec that processJob makes keep its type.
ExecType == [Slot -> Call \cup {IdleExec}]

LEMMA ExecMoves ==
  ASSUME TypeOK, NEW s \in Slot, exec[s].pc # "idle"
  PROVE  /\ \A pc \in Pc \ {"idle"} : [exec EXCEPT ![s].pc = pc] \in ExecType
         /\ \A pc \in Pc \ {"idle"}, r \in {"ok", "err"} :
               [exec EXCEPT ![s].pc = pc, ![s].result = r] \in ExecType
         /\ \A pc \in Pc \ {"idle"}, t \in Rows :
               [exec EXCEPT ![s].pc = pc, ![s].task = t] \in ExecType
         /\ \A pc \in Pc \ {"idle"}, l \in Nat :
               [exec EXCEPT ![s].pc = pc, ![s].log = l] \in ExecType
         /\ \A pc \in Pc \ {"idle"} :
               [exec EXCEPT ![s].pc = pc, ![s].lockKey = TRUE] \in ExecType
         /\ [exec EXCEPT ![s] = IdleExec] \in ExecType
<1>1. exec[s] \in Call
  BY BusyCall
<1>2. \A c \in Call : [exec EXCEPT ![s] = c] \in ExecType
  BY DEF TypeOK, ExecType
<1>3. [exec EXCEPT ![s] = IdleExec] \in ExecType
  BY DEF TypeOK, ExecType
<1>4. \A pc \in Pc \ {"idle"} : [exec EXCEPT ![s].pc = pc] \in ExecType
  <2> SUFFICES ASSUME NEW pc \in Pc \ {"idle"} PROVE [exec EXCEPT ![s].pc = pc] \in ExecType
    OBVIOUS
  <2>1. [exec[s] EXCEPT !.pc = pc] \in Call
    BY <1>1, CallUpdates
  <2> QED
    BY <2>1, <1>2
<1>5. \A pc \in Pc \ {"idle"}, r \in {"ok", "err"} :
         [exec EXCEPT ![s].pc = pc, ![s].result = r] \in ExecType
  <2> SUFFICES ASSUME NEW pc \in Pc \ {"idle"}, NEW r \in {"ok", "err"}
               PROVE [exec EXCEPT ![s].pc = pc, ![s].result = r] \in ExecType
    OBVIOUS
  <2>1. [exec[s] EXCEPT !.pc = pc, !.result = r] \in Call
    BY <1>1, CallUpdates
  <2>2. [exec EXCEPT ![s].pc = pc, ![s].result = r]
          = [exec EXCEPT ![s] = [exec[s] EXCEPT !.pc = pc, !.result = r]]
    BY DEF TypeOK
  <2> QED
    BY <2>1, <2>2, <1>2
<1>6. \A pc \in Pc \ {"idle"}, t \in Rows :
         [exec EXCEPT ![s].pc = pc, ![s].task = t] \in ExecType
  <2> SUFFICES ASSUME NEW pc \in Pc \ {"idle"}, NEW t \in Rows
               PROVE [exec EXCEPT ![s].pc = pc, ![s].task = t] \in ExecType
    OBVIOUS
  <2>1. [exec[s] EXCEPT !.pc = pc, !.task = t] \in Call
    BY <1>1, CallUpdates
  <2>2. [exec EXCEPT ![s].pc = pc, ![s].task = t]
          = [exec EXCEPT ![s] = [exec[s] EXCEPT !.pc = pc, !.task = t]]
    BY DEF TypeOK
  <2> QED
    BY <2>1, <2>2, <1>2
<1>7. \A pc \in Pc \ {"idle"}, l \in Nat :
         [exec EXCEPT ![s].pc = pc, ![s].log = l] \in ExecType
  <2> SUFFICES ASSUME NEW pc \in Pc \ {"idle"}, NEW l \in Nat
               PROVE [exec EXCEPT ![s].pc = pc, ![s].log = l] \in ExecType
    OBVIOUS
  <2>1. [exec[s] EXCEPT !.pc = pc, !.log = l] \in Call
    BY <1>1, CallUpdates
  <2>2. [exec EXCEPT ![s].pc = pc, ![s].log = l]
          = [exec EXCEPT ![s] = [exec[s] EXCEPT !.pc = pc, !.log = l]]
    BY DEF TypeOK
  <2> QED
    BY <2>1, <2>2, <1>2
<1>8. \A pc \in Pc \ {"idle"} :
         [exec EXCEPT ![s].pc = pc, ![s].lockKey = TRUE] \in ExecType
  <2> SUFFICES ASSUME NEW pc \in Pc \ {"idle"}
               PROVE [exec EXCEPT ![s].pc = pc, ![s].lockKey = TRUE] \in ExecType
    OBVIOUS
  <2>1. [exec[s] EXCEPT !.pc = pc, !.lockKey = TRUE] \in Call
    BY <1>1, CallUpdates
  <2>2. [exec EXCEPT ![s].pc = pc, ![s].lockKey = TRUE]
          = [exec EXCEPT ![s] = [exec[s] EXCEPT !.pc = pc, !.lockKey = TRUE]]
    BY DEF TypeOK
  <2> QED
    BY <2>1, <2>2, <1>2
<1> QED
  BY <1>3, <1>4, <1>5, <1>6, <1>7, <1>8

\* The updates of a job that BullMQ makes keep the type of jobs.
LEMMA JobMoves ==
  ASSUME TypeOK, NEW j \in Job
  PROVE  /\ jobs[j].made \in Nat /\ jobs[j].stalls \in Nat
         /\ \A st \in {"absent", "waiting", "active", "completed", "failed"} :
              /\ [jobs EXCEPT ![j].st = st] \in [Job -> JobState]
              /\ \A m \in Nat :
                    /\ [jobs EXCEPT ![j].made = m, ![j].st = st] \in [Job -> JobState]
                    /\ [jobs EXCEPT ![j].stalls = m, ![j].st = st] \in [Job -> JobState]
<1>1. jobs[j] \in JobState
  BY DEF TypeOK
<1>2. \A a \in JobState : [jobs EXCEPT ![j] = a] \in [Job -> JobState]
  BY DEF TypeOK
<1>3. jobs[j].made \in Nat /\ jobs[j].stalls \in Nat
  BY <1>1 DEF JobState
<1>4. ASSUME NEW st \in {"absent", "waiting", "active", "completed", "failed"}
      PROVE  [jobs EXCEPT ![j].st = st] \in [Job -> JobState]
  <2>1. [jobs[j] EXCEPT !.st = st] \in JobState
    BY <1>1 DEF JobState
  <2> QED
    BY <2>1, <1>2
<1>5. ASSUME NEW st \in {"absent", "waiting", "active", "completed", "failed"},
             NEW m \in Nat
      PROVE  /\ [jobs EXCEPT ![j].made = m, ![j].st = st] \in [Job -> JobState]
             /\ [jobs EXCEPT ![j].stalls = m, ![j].st = st] \in [Job -> JobState]
  <2>1. [jobs[j] EXCEPT !.made = m, !.st = st] \in JobState
    BY <1>1 DEF JobState
  <2>2. [jobs[j] EXCEPT !.stalls = m, !.st = st] \in JobState
    BY <1>1 DEF JobState
  <2>3. /\ [jobs EXCEPT ![j].made = m, ![j].st = st]
              = [jobs EXCEPT ![j] = [jobs[j] EXCEPT !.made = m, !.st = st]]
        /\ [jobs EXCEPT ![j].stalls = m, ![j].st = st]
              = [jobs EXCEPT ![j] = [jobs[j] EXCEPT !.stalls = m, !.st = st]]
    BY DEF TypeOK
  <2> QED
    BY <2>1, <2>2, <2>3, <1>2
<1> QED
  BY <1>3, <1>4, <1>5

-----------------------------------------------------------------------------
(* Type correctness *)

LEMMA TypeInit == Init => TypeOK
<1> SUFFICES ASSUME Init PROVE TypeOK
  OBVIOUS
<1>1. row \in Rows /\ sched \in BOOLEAN
  BY DEF Init, Rows
<1>2. jobs \in [Job -> JobState] /\ effects \in [Job -> Nat]
  BY DEF Init, JobState
<1>3. exec \in [Slot -> Call \cup {IdleExec}]
  BY DEF Init
<1>4. logs \in Seq(LogRow)
  BY DEF Init
<1>5. /\ lock \in Nat
      /\ handlers \subseteq [log : Nat, node : Node, guarded : BOOLEAN]
      /\ breach \subseteq {"foreignUnlock", "timeout", "expiry"}
      /\ faults \in Nat /\ crashes \in Nat /\ admin \in Nat
  BY DEF Init, Free
<1> QED
  BY <1>1, <1>2, <1>3, <1>4, <1>5 DEF TypeOK

LEMMA TypeExecute ==
  ASSUME TypeOK, NEW s \in Slot, Execute(s)
  PROVE  TypeOK'
<1> USE DEF CallSucceeds, CallFails, Goto, ThrowOutsideTry
<1>0. exec[s].pc # "idle"
  BY DEF Execute, LoadTask, SaveLog, MarkRunning, EnterUnguarded, Acquire, Reject,
         LockCallFails, RecordSuccess, WriteBackSuccess, RecordFailure,
         WriteBackFailure, Unlock, Finish
<1>b. /\ exec[s] \in Call /\ exec[s].job \in Job /\ exec[s].log \in Nat
      /\ exec[s].task \in Rows
  BY <1>0, BusyCall
<1>p. {"finish", "saveLog", "markRunning", "lock", "handler", "okLog", "okRow",
       "failLog", "failRow", "unlock"} \subseteq Pc \ {"idle"}
  BY PcType
<1>m. \A pc \in Pc \ {"idle"} : [exec EXCEPT ![s].pc = pc] \in ExecType
  BY <1>0, ExecMoves
<1>r. \A r \in {"ok", "err"} :
        /\ [exec EXCEPT ![s].pc = "finish", ![s].result = r] \in ExecType
        /\ [exec EXCEPT ![s].pc = "unlock", ![s].result = r] \in ExecType
  BY <1>0, <1>p, ExecMoves
<1>k. /\ [exec EXCEPT ![s].pc = "handler", ![s].lockKey = TRUE] \in ExecType
      /\ [exec EXCEPT ![s].pc = "failLog", ![s].lockKey = TRUE] \in ExecType
  BY <1>0, <1>p, ExecMoves
<1>h. StartHandler(s) =>
        handlers' \subseteq [log : Nat, node : Node, guarded : BOOLEAN]
  <2>1. s[1] \in Node
    BY DEF Slot
  <2>2. [log |-> exec[s].log, node |-> s[1], guarded |-> ~exec[s].task.allowConcurrent]
          \in [log : Nat, node : Node, guarded : BOOLEAN]
    BY <1>b, <2>1
  <2> QED
    BY <2>2 DEF StartHandler, TypeOK
<1>1. CASE LoadTask(s)
  <2>1. [exec EXCEPT ![s].pc = "saveLog", ![s].task = row] \in ExecType
    BY <1>0, <1>p, ExecMoves DEF TypeOK
  <2>2. exec' \in ExecType
    BY <1>1, <2>1, <1>r DEF LoadTask
  <2>f. faults' \in Nat
    BY <1>1 DEF LoadTask, TypeOK
  <2> QED
    BY <1>1, <2>f, <2>2 DEF LoadTask, TypeOK, ExecType
<1>2. CASE SaveLog(s)
  <2>1. Len(logs) + 1 \in Nat
    BY DEF TypeOK
  <2>2. [exec EXCEPT ![s].pc = "markRunning", ![s].log = Len(logs) + 1] \in ExecType
    BY <1>0, <1>p, <2>1, ExecMoves
  <2>3. exec' \in ExecType
    BY <1>2, <2>2, <1>r DEF SaveLog
  <2>f. faults' \in Nat
    BY <1>2 DEF SaveLog, TypeOK
  <2>4. Append(logs, [job |-> exec[s].job, status |-> "RUNNING"]) \in Seq(LogRow)
    BY <1>b, LogAppendType DEF TypeOK
  <2>5. logs' \in Seq(LogRow)
    BY <1>2, <2>4 DEF SaveLog, TypeOK
  <2> QED
    BY <1>2, <2>f, <2>3, <2>5 DEF SaveLog, TypeOK, ExecType
<1>3. CASE MarkRunning(s)
  <2>1. exec' \in ExecType
    BY <1>3, <1>m, <1>p, <1>r DEF MarkRunning
  <2>f. faults' \in Nat
    BY <1>3 DEF MarkRunning, TypeOK
  <2> QED
    BY <1>3, <2>f, <2>1 DEF MarkRunning, TypeOK, ExecType
<1>4. CASE EnterUnguarded(s)
  <2>1. exec' \in ExecType
    BY <1>4, <1>m, <1>p DEF EnterUnguarded
  <2> QED
    BY <1>4, <1>h, <2>1 DEF EnterUnguarded, TypeOK, ExecType
<1>5. CASE Acquire(s)
  <2>1. exec' \in ExecType /\ lock' \in Nat
    BY <1>5, <1>k, <1>b DEF Acquire
  <2> QED
    BY <1>5, <1>h, <2>1 DEF Acquire, TypeOK, ExecType
<1>6. CASE Reject(s)
  BY <1>6, <1>k DEF Reject, TypeOK, ExecType
<1>7. CASE LockCallFails(s)
  <2>1. exec' \in ExecType
    BY <1>7, <1>k DEF LockCallFails
  <2>f. lock' \in Nat /\ faults' \in Nat
    BY <1>7, <1>b DEF LockCallFails, TypeOK
  <2> QED
    BY <1>7, <2>f, <2>1 DEF LockCallFails, TypeOK, ExecType
<1>8. CASE RecordSuccess(s)
  <2>1. exec' \in ExecType
    BY <1>8, <1>m, <1>p DEF RecordSuccess
  <2>f. faults' \in Nat
    BY <1>8 DEF RecordSuccess, TypeOK
  <2>2. [logs EXCEPT ![exec[s].log].status = "SUCCESS"] \in Seq(LogRow)
    BY LogStatusType DEF TypeOK
  <2>3. logs' \in Seq(LogRow)
    BY <1>8, <2>2 DEF RecordSuccess, TypeOK
  <2> QED
    BY <1>8, <2>f, <2>1, <2>3 DEF RecordSuccess, TypeOK, ExecType
<1>9. CASE WriteBackSuccess(s)
  <2>1. exec' \in ExecType
    BY <1>9, <1>m, <1>p, <1>r DEF WriteBackSuccess
  <2>f. faults' \in Nat
    BY <1>9 DEF WriteBackSuccess, TypeOK
  <2>2. row' \in Rows
    BY <1>9, <1>b, TaskAssumption DEF WriteBackSuccess, Rows, TypeOK
  <2> QED
    BY <1>9, <2>f, <2>1, <2>2 DEF WriteBackSuccess, TypeOK, ExecType
<1>10. CASE RecordFailure(s)
  <2>1. exec' \in ExecType
    BY <1>10, <1>m, <1>p DEF RecordFailure
  <2>f. faults' \in Nat
    BY <1>10 DEF RecordFailure, TypeOK
  <2>2. [logs EXCEPT ![exec[s].log].status = "FAIL"] \in Seq(LogRow)
    BY LogStatusType DEF TypeOK
  <2>3. logs' \in Seq(LogRow)
    BY <1>10, <2>2 DEF RecordFailure, TypeOK
  <2> QED
    BY <1>10, <2>f, <2>1, <2>3 DEF RecordFailure, TypeOK, ExecType
<1>11. CASE WriteBackFailure(s)
  <2>1. exec' \in ExecType
    BY <1>11, <1>m, <1>p DEF WriteBackFailure
  <2>f. faults' \in Nat
    BY <1>11 DEF WriteBackFailure, TypeOK
  <2>2. row' \in Rows
    BY <1>11, <1>b, TaskAssumption DEF WriteBackFailure, Rows, TypeOK
  <2> QED
    BY <1>11, <2>f, <2>1, <2>2 DEF WriteBackFailure, TypeOK, ExecType
<1>12. CASE Unlock(s)
  <2>1. exec' \in ExecType
    BY <1>12, <1>m, <1>p, <1>r DEF Unlock
  <2>f. faults' \in Nat
    BY <1>12 DEF Unlock, TypeOK
  <2>2. lock' \in Nat /\ breach' \subseteq {"foreignUnlock", "timeout", "expiry"}
    BY <1>12 DEF Unlock, TypeOK, Free
  <2> QED
    BY <1>12, <2>f, <2>1, <2>2 DEF Unlock, TypeOK, ExecType
<1>13. CASE Finish(s)
  <2>1. exec' \in ExecType
    BY <1>13, <1>0, ExecMoves DEF Finish
  <2>2. exec[s].result = "ok" \/ jobs[exec[s].job].made + 1 \in Nat
    BY <1>b DEF TypeOK, JobState
  <2>3. jobs' \in [Job -> JobState]
    <3>1. PICK m, st :
            /\ jobs' = [jobs EXCEPT ![exec[s].job].made = m, ![exec[s].job].st = st]
            /\ m = (IF exec[s].result = "ok" THEN jobs[exec[s].job].made
                                             ELSE jobs[exec[s].job].made + 1)
            /\ st \in {"absent", "waiting", "active", "completed", "failed"}
      BY <1>13 DEF Finish
    <3>2. m \in Nat
      BY <1>b, <2>2, <3>1, JobMoves
    <3>3. PICK j \in Job : j = exec[s].job
      BY <1>b
    <3> DEFINE new == [jobs[j] EXCEPT !.made = m, !.st = st]
    <3>4. jobs \in [Job -> JobState] /\ jobs[j] \in JobState
      BY DEF TypeOK
    <3>5. new \in JobState
      BY <3>1, <3>2, <3>4 DEF JobState
    <3>6. jobs' = [jobs EXCEPT ![j] = new]
      BY <3>1, <3>3, <3>4
    <3> HIDE DEF new
    <3> QED
      BY <3>4, <3>5, <3>6
  <2> QED
    BY <1>13, <2>1, <2>3 DEF Finish, TypeOK, ExecType
<1> QED
  BY <1>1, <1>2, <1>3, <1>4, <1>5, <1>6, <1>7, <1>8, <1>9, <1>10, <1>11, <1>12,
     <1>13 DEF Execute

LEMMA TypeHandlers ==
  ASSUME TypeOK, Handlers
  PROVE  TypeOK'
<1>s. ASSUME NEW h, NEW ok \in BOOLEAN, Settle(h, ok)
      PROVE  /\ handlers' \subseteq [log : Nat, node : Node, guarded : BOOLEAN]
             /\ effects' \in [Job -> Nat]
  <2>1. handlers' \subseteq [log : Nat, node : Node, guarded : BOOLEAN]
    BY <1>s DEF Settle, TypeOK
  <2>2. effects' = [j \in Job |-> IF j = logs[h.log].job /\ ok
                                 THEN effects[j] + 1 ELSE effects[j]]
    BY <1>s DEF Settle, TypeOK
  <2>3. effects' \in [Job -> Nat]
    BY <2>2 DEF TypeOK
  <2> QED
    BY <2>1, <2>3
<1>1. ASSUME NEW s \in Slot, NEW ok \in BOOLEAN, HandlerEnds(s, ok)
      PROVE  TypeOK'
  <2>1. exec' \in ExecType
    BY <1>1, ExecMoves, PcType DEF HandlerEnds, Goto
  <2>2. /\ handlers' \subseteq [log : Nat, node : Node, guarded : BOOLEAN]
        /\ effects' \in [Job -> Nat]
    BY <1>1, <1>s DEF HandlerEnds
  <2> QED
    BY <1>1, <2>1, <2>2 DEF HandlerEnds, TypeOK, ExecType
<1>2. ASSUME NEW s \in Slot, HandlerTimesOut(s)
      PROVE  TypeOK'
  <2>1. exec' \in ExecType
    BY <1>2, ExecMoves, PcType DEF HandlerTimesOut, Goto
  <2> QED
    BY <1>2, <2>1 DEF HandlerTimesOut, TypeOK, ExecType
<1>3. ASSUME NEW h \in handlers, NEW ok \in BOOLEAN, OrphanEnds(h, ok)
      PROVE  TypeOK'
  <2>1. /\ handlers' \subseteq [log : Nat, node : Node, guarded : BOOLEAN]
        /\ effects' \in [Job -> Nat]
    BY <1>3, <1>s DEF OrphanEnds
  <2> QED
    BY <1>3, <2>1 DEF OrphanEnds, TypeOK
<1> QED
  BY <1>1, <1>2, <1>3 DEF Handlers

LEMMA TypeQueue ==
  ASSUME TypeOK, Queue
  PROVE  TypeOK'
<1>1. ASSUME NEW j \in Job, TriggerTaskNow(j) \/ SchedulerFires(j) \/ Stalled(j)
      PROVE  TypeOK'
  <2>0. jobs[j].stalls \in Nat
    BY JobMoves
  <2>1. jobs[j].stalls + 1 \in Nat
    BY <2>0
  <2>w. /\ [jobs EXCEPT ![j].st = "waiting"] \in [Job -> JobState]
        /\ [jobs EXCEPT ![j].st = "failed"] \in [Job -> JobState]
        /\ [jobs EXCEPT ![j].stalls = @ + 1, ![j].st = "waiting"] \in [Job -> JobState]
    BY <2>1, JobMoves
  <2>3. CASE Stalled(j)
    <3>1. jobs' \in [Job -> JobState]
      BY <2>3, <2>w DEF Stalled
    <3> QED
      BY <2>3, <3>1 DEF Stalled, TypeOK
  <2>4. CASE TriggerTaskNow(j) \/ SchedulerFires(j)
    <3>1. jobs' \in [Job -> JobState]
      BY <2>4, <2>w DEF TriggerTaskNow, SchedulerFires
    <3> QED
      BY <2>4, <3>1, TaskAssumption DEF TriggerTaskNow, SchedulerFires, TypeOK
  <2> QED
    BY <1>1, <2>3, <2>4
<1>2. ASSUME NEW s \in Slot, NEW j \in Job, Pick(s, j)
      PROVE  TypeOK'
  <2>1. [IdleExec EXCEPT !.pc = "load", !.job = j] \in Call
    BY PcType DEF IdleExec, Call, Rows
  <2>2. exec' \in ExecType
    BY <1>2, <2>1 DEF Pick, TypeOK, ExecType
  <2>3. jobs' \in [Job -> JobState]
    BY <1>2, JobMoves DEF Pick
  <2> QED
    BY <1>2, <2>2, <2>3 DEF Pick, TypeOK, ExecType
<1> QED
  BY <1>1, <1>2 DEF Queue

LEMMA TypeOthers ==
  ASSUME TypeOK, Environment \/ Admin \/ UNCHANGED vars
  PROVE  TypeOK'
<1>1. CASE LockExpires
  BY <1>1 DEF LockExpires, TypeOK, Free
<1>2. ASSUME NEW n \in Node, Crash(n)
      PROVE  TypeOK'
  <2>1. exec' \in ExecType
    BY <1>2 DEF Crash, TypeOK, ExecType
  <2> QED
    BY <1>2, <2>1 DEF Crash, TypeOK, ExecType
<1>3. CASE Admin
  <2>1. AdminOperation
    BY <1>3 DEF Admin, ChangeEnable, Edit, DelByIds, Resync
  <2>2. row' \in Rows /\ sched' \in BOOLEAN
    BY <1>3 DEF Admin, ChangeEnable, Edit, DelByIds, Resync, TypeOK, Rows
  <2> QED
    BY <2>1, <2>2 DEF AdminOperation, TypeOK
<1>4. CASE UNCHANGED vars
  BY <1>4 DEF vars, TypeOK
<1> QED
  BY <1>1, <1>2, <1>3, <1>4 DEF Environment

\* Every variable keeps its type: in particular no action leaves a call without
\* a job or writes a state BullMQ or the database does not know.
THEOREM TypeCorrect == Spec => []TypeOK
<1>1. TypeOK /\ [Next]_vars => TypeOK'
  BY TypeExecute, TypeHandlers, TypeQueue, TypeOthers DEF Next
<1> QED
  BY TypeInit, <1>1, PTL DEF Spec

-----------------------------------------------------------------------------
(* The lock protocol: ExecInv is inductive *)

LEMMA InvInit == Init => ExecInv
<1> SUFFICES ASSUME Init PROVE ExecInv
  OBVIOUS
<1>1. \A s \in Slot : exec[s].pc = "idle"
  BY DEF Init, IdleExec
<1>2. "idle" \notin LoggedPc
  BY DEF LoggedPc
<1> QED
  BY <1>1, <1>2 DEF Init, ExecInv, LogsOwned, HandlersOwned, HandlersAwaited, LockOwned,
                    ExpiryNeedsTimeout

\* The part of ExecInv about log rows and handlers survives every step of one
\* slot that starts neither a log nor a handler and does not leave "handler".
LEMMA OwnershipQuiet ==
  ASSUME ExecInv, NEW s \in Slot,
         \A t \in Slot : t # s => exec'[t] = exec[t],
         Len(logs') = Len(logs), handlers' = handlers,
         "timeout" \in breach => "timeout" \in breach',
         exec[s].pc # "handler",
         exec'[s].pc \in LoggedPc =>
           /\ exec[s].pc \in LoggedPc /\ exec'[s].log = exec[s].log
           /\ exec'[s].pc \in {"markRunning", "lock"} => exec[s].pc \in {"markRunning", "lock"}
  PROVE  LogsOwned' /\ HandlersOwned' /\ HandlersAwaited'
<1>1. LogsOwned'
  BY DEF ExecInv, LogsOwned
<1>2. HandlersOwned'
  BY DEF ExecInv, HandlersOwned
<1>3. HandlersAwaited'
  BY DEF ExecInv, HandlersAwaited, Awaited
<1> QED
  BY <1>1, <1>2, <1>3

\* ... and all of ExecInv does when lock and breach do not change either.
LEMMA InvQuiet ==
  ASSUME ExecInv, NEW s \in Slot,
         \A t \in Slot : t # s => exec'[t] = exec[t],
         Len(logs') = Len(logs), UNCHANGED <<handlers, lock, breach>>,
         exec[s].pc # "handler",
         exec'[s].pc \in LoggedPc =>
           /\ exec[s].pc \in LoggedPc /\ exec'[s].log = exec[s].log
           /\ exec'[s].pc \in {"markRunning", "lock"} => exec[s].pc \in {"markRunning", "lock"}
  PROVE  ExecInv'
<1>1. LogsOwned' /\ HandlersOwned' /\ HandlersAwaited'
  BY OwnershipQuiet
<1>2. LockOwned' /\ ExpiryNeedsTimeout'
  BY DEF ExecInv, LockOwned, ExpiryNeedsTimeout
<1> QED
  BY <1>1, <1>2 DEF ExecInv

\* Calls of processJob that only move on.
LEMMA InvMoves ==
  ASSUME TypeOK, ExecInv, NEW s \in Slot,
         \/ LoadTask(s) \/ MarkRunning(s) \/ Reject(s)
         \/ RecordSuccess(s) \/ WriteBackSuccess(s)
         \/ RecordFailure(s) \/ WriteBackFailure(s) \/ Finish(s)
  PROVE  ExecInv'
<1> USE DEF Goto, ThrowOutsideTry
<1>1. exec[s].pc \in LoggedPc \cup {"load", "finish"} /\ exec[s].pc # "handler"
  BY DEF LoadTask, MarkRunning, Reject, RecordSuccess, WriteBackSuccess,
         RecordFailure, WriteBackFailure, Finish, LoggedPc
<1>2. UNCHANGED <<handlers, lock, breach>>
  BY DEF LoadTask, MarkRunning, Reject, RecordSuccess, WriteBackSuccess,
         RecordFailure, WriteBackFailure, Finish
<1>3. Len(logs') = Len(logs)
  <2>1. \A v \in {"SUCCESS", "FAIL"} : Len([logs EXCEPT ![exec[s].log].status = v]) = Len(logs)
    BY LogStatusType DEF TypeOK
  <2> QED
    <3>1. CASE UNCHANGED logs
      BY <3>1
    <3>2. CASE \E v \in {"SUCCESS", "FAIL"} : logs' = [logs EXCEPT ![exec[s].log].status = v]
      BY <2>1, <3>2
    <3>3. UNCHANGED logs \/ \E v \in {"SUCCESS", "FAIL"} : logs' = [logs EXCEPT ![exec[s].log].status = v]
      BY DEF LoadTask, MarkRunning, Reject, RecordSuccess, WriteBackSuccess,
             RecordFailure, WriteBackFailure, Finish
    <3> QED
      BY <3>1, <3>2, <3>3
<1>4. \A t \in Slot : t # s => exec'[t] = exec[t]
  BY DEF LoadTask, MarkRunning, Reject, RecordSuccess, WriteBackSuccess,
         RecordFailure, WriteBackFailure, Finish, TypeOK
<1>5. exec'[s].pc \in LoggedPc =>
        /\ exec[s].pc \in LoggedPc /\ exec'[s].log = exec[s].log
        /\ exec'[s].pc \in {"markRunning", "lock"} => exec[s].pc \in {"markRunning", "lock"}
  <2>1. exec[s] \in Call
    BY <1>1, BusyCall DEF LoggedPc
  <2>2. CASE LoadTask(s) \/ Finish(s)
    <3>1. exec'[s].pc \in {"idle", "saveLog", "finish"}
      BY <2>1, <2>2 DEF LoadTask, Finish, IdleExec, TypeOK, Call
    <3> QED
      BY <3>1 DEF LoggedPc
  <2>3. CASE MarkRunning(s)
    BY <2>1, <2>3 DEF MarkRunning, LoggedPc, TypeOK, Call
  <2>4. CASE \/ Reject(s) \/ RecordSuccess(s) \/ WriteBackSuccess(s)
             \/ RecordFailure(s) \/ WriteBackFailure(s)
    <3>1. exec'[s].log = exec[s].log /\ exec'[s].pc \notin {"markRunning", "lock"}
      BY <2>1, <2>4 DEF Reject, RecordSuccess, WriteBackSuccess, RecordFailure,
                        WriteBackFailure, TypeOK, Call
    <3>2. exec[s].pc \in LoggedPc
      BY <2>4 DEF Reject, RecordSuccess, WriteBackSuccess, RecordFailure,
                  WriteBackFailure, LoggedPc
    <3> QED
      BY <3>1, <3>2
  <2> QED
    BY <2>2, <2>3, <2>4
<1> QED
  BY <1>1, <1>2, <1>3, <1>4, <1>5, InvQuiet

LEMMA InvSaveLog ==
  ASSUME TypeOK, ExecInv, NEW s \in Slot, SaveLog(s)
  PROVE  ExecInv'
<1> USE DEF Goto, ThrowOutsideTry
<1>0. exec[s] \in Call /\ exec[s].pc = "saveLog" /\ exec[s].job \in Job
  BY BusyCall DEF SaveLog
<1>1. UNCHANGED <<handlers, lock, breach>> /\ (\A t \in Slot : t # s => exec'[t] = exec[t])
  BY DEF SaveLog, TypeOK
<1>2. CASE UNCHANGED logs
  <2>1. exec'[s].pc = "finish"
    BY <1>2, <1>0, LogAppendType DEF SaveLog, TypeOK, Call
  <2> QED
    BY <1>0, <1>1, <1>2, <2>1, InvQuiet DEF LoggedPc
<1>3. CASE exec' = [exec EXCEPT ![s].pc = "markRunning", ![s].log = Len(logs) + 1]
           /\ Len(logs') = Len(logs) + 1
  <2>1. exec'[s].pc = "markRunning" /\ exec'[s].log = Len(logs) + 1
    BY <1>3, <1>0 DEF TypeOK, Call
  <2>2. Len(logs) \in Nat
    BY DEF TypeOK
  <2>3. \A t \in Slot : exec[t].pc \in LoggedPc => exec[t].log \in 1 .. Len(logs)
    BY DEF ExecInv, LogsOwned
  <2>n. Len(logs') = Len(logs) + 1 /\ handlers' = handlers
    BY <1>3, <1>1
  <2> HIDE <1>3
  <2>4. LogsOwned'
    <3>1. \A t \in Slot : exec'[t].pc \in LoggedPc => exec'[t].log \in 1 .. Len(logs')
      BY <1>1, <2>1, <2>2, <2>3, <2>n
    <3>2. \A t \in Slot : exec'[t].pc \in LoggedPc /\ exec'[t].log = Len(logs) + 1 => t = s
      BY <1>1, <2>2, <2>3
    <3>3. \A t, u \in Slot :
            t # s /\ u # s /\ exec'[t].pc \in LoggedPc /\ exec'[u].pc \in LoggedPc
              /\ exec'[t].log = exec'[u].log => t = u
      BY <1>1 DEF ExecInv, LogsOwned
    <3> QED
      BY <2>1, <3>1, <3>2, <3>3 DEF LogsOwned
  <2>5. HandlersOwned'
    <3>1. \A h \in handlers : h.log \in 1 .. Len(logs) /\ h.log # Len(logs) + 1
      BY <2>2 DEF ExecInv, HandlersOwned
    <3>2. \A h \in handlers' : h.log \in 1 .. Len(logs')
      BY <2>2, <2>n, <3>1
    <3>3. \A t \in Slot, h \in handlers' :
            exec'[t].log = h.log /\ exec'[t].pc \in LoggedPc
              => exec'[t].pc \notin {"markRunning", "lock"} /\ h.node = t[1]
      BY <1>1, <2>1, <2>n, <3>1 DEF ExecInv, HandlersOwned
    <3> QED
      BY <2>n, <3>2, <3>3 DEF ExecInv, HandlersOwned
  <2>6. HandlersAwaited'
    BY <1>0, <1>1 DEF ExecInv, HandlersAwaited, Awaited
  <2> QED
    BY <1>1, <2>4, <2>5, <2>6 DEF ExecInv, LockOwned, ExpiryNeedsTimeout
<1> QED
  BY <1>0, <1>2, <1>3, LogAppendType DEF SaveLog, TypeOK

LEMMA InvStart ==
  ASSUME TypeOK, ExecInv, NEW s \in Slot, EnterUnguarded(s) \/ Acquire(s)
  PROVE  ExecInv'
<1> DEFINE new == [log |-> exec[s].log, node |-> s[1],
                   guarded |-> ~exec[s].task.allowConcurrent]
<1>0. exec[s] \in Call /\ exec[s].pc = "lock"
  BY BusyCall DEF EnterUnguarded, Acquire
<1>1. /\ handlers' = handlers \cup {new}
      /\ UNCHANGED <<breach, logs>>
      /\ \A t \in Slot : t # s => exec'[t] = exec[t]
  BY DEF EnterUnguarded, Acquire, StartHandler, Goto, TypeOK
<1>2. exec'[s].pc = "handler" /\ exec'[s].log = exec[s].log
  BY <1>0 DEF EnterUnguarded, Acquire, Goto, TypeOK, Call
<1>3. new.log = exec[s].log /\ new.node = s[1] /\ new.guarded = ~exec[s].task.allowConcurrent
  OBVIOUS
<1>4. exec[s].log \in 1 .. Len(logs) /\ "lock" \in LoggedPc /\ "handler" \in LoggedPc
  BY <1>0 DEF ExecInv, LogsOwned, LoggedPc
<1>5. \A h \in handlers : h.log # exec[s].log
  BY <1>0, <1>4 DEF ExecInv, HandlersOwned
<1> HIDE DEF new
<1>6. LogsOwned'
  BY <1>0, <1>1, <1>2, <1>4 DEF ExecInv, LogsOwned
<1>7. HandlersOwned'
  <2>1. \A h \in handlers' : h.log \in 1 .. Len(logs')
    BY <1>1, <1>3, <1>4 DEF ExecInv, HandlersOwned
  <2>2. \A g, h \in handlers' : g.log = h.log => g = h
    BY <1>1, <1>3, <1>5 DEF ExecInv, HandlersOwned
  <2>3. ASSUME NEW t \in Slot, NEW h \in handlers',
               exec'[t].log = h.log, exec'[t].pc \in LoggedPc
        PROVE  exec'[t].pc \notin {"markRunning", "lock"} /\ h.node = t[1]
    <3>1. CASE t = s /\ h = new
      BY <3>1, <1>2, <1>3
    <3>2. CASE t = s /\ h \in handlers
      BY <3>2, <2>3, <1>2, <1>5
    <3>3. CASE t # s /\ h = new
      <4>1. exec[t].log = exec[s].log /\ exec[t].pc \in LoggedPc
        BY <3>3, <2>3, <1>1, <1>3
      <4> QED
        BY <4>1, <3>3, <1>0, <1>4 DEF ExecInv, LogsOwned
    <3>4. CASE t # s /\ h \in handlers
      BY <3>4, <2>3, <1>1 DEF ExecInv, HandlersOwned
    <3> QED
      BY <3>1, <3>2, <3>3, <3>4, <1>1
  <2> QED
    BY <2>1, <2>2, <2>3 DEF HandlersOwned
<1>8. HandlersAwaited'
  <2> SUFFICES ASSUME "timeout" \notin breach', NEW h \in handlers'
               PROVE  \E t \in Slot : exec'[t].pc = "handler" /\ exec'[t].log = h.log
    BY DEF HandlersAwaited, Awaited
  <2>1. CASE h = new
    BY <2>1, <1>2, <1>3
  <2>2. CASE h \in handlers
    BY <2>2, <1>0, <1>1 DEF ExecInv, HandlersAwaited, Awaited
  <2> QED
    BY <2>1, <2>2, <1>1
<1>9. LockOwned'
  <2>1. CASE EnterUnguarded(s)
    BY <2>1, <1>1, <1>3 DEF EnterUnguarded, ExecInv, LockOwned
  <2>2. CASE Acquire(s)
    <3>1. breach = {} => \A h \in handlers : ~h.guarded
      <4>1. \A h \in handlers : h.log # Free
        BY DEF ExecInv, HandlersOwned, Free
      <4> QED
        BY <2>2, <4>1 DEF Acquire, ExecInv, LockOwned
    <3> QED
      BY <2>2, <3>1, <1>1, <1>3 DEF Acquire, LockOwned
  <2> QED
    BY <2>1, <2>2
<1> QED
  BY <1>1, <1>6, <1>7, <1>8, <1>9 DEF ExecInv, ExpiryNeedsTimeout

LEMMA InvLockCallFails ==
  ASSUME TypeOK, ExecInv, NEW s \in Slot, LockCallFails(s)
  PROVE  ExecInv'
<1>0. exec[s] \in Call /\ exec[s].pc = "lock"
  BY BusyCall DEF LockCallFails
<1>1. /\ UNCHANGED <<handlers, breach, logs>>
      /\ \A t \in Slot : t # s => exec'[t] = exec[t]
  BY DEF LockCallFails, TypeOK
<1>2. exec'[s].pc = "failLog" /\ exec'[s].log = exec[s].log
  BY <1>0 DEF LockCallFails, TypeOK, Call
<1>3. LogsOwned' /\ HandlersOwned' /\ HandlersAwaited'
  BY <1>0, <1>1, <1>2, OwnershipQuiet DEF LoggedPc
<1>4. LockOwned'
  <2>1. \A h \in handlers : h.log # Free
    BY DEF ExecInv, HandlersOwned, Free
  <2> QED
    BY <2>1, <1>1 DEF LockCallFails, ExecInv, LockOwned
<1> QED
  BY <1>1, <1>3, <1>4 DEF ExecInv, ExpiryNeedsTimeout

LEMMA InvUnlock ==
  ASSUME TypeOK, ExecInv, NEW s \in Slot, Unlock(s)
  PROVE  ExecInv'
<1>0. exec[s] \in Call /\ exec[s].pc = "unlock"
  BY BusyCall DEF Unlock
<1>1. /\ UNCHANGED <<handlers, logs>>
      /\ \A t \in Slot : t # s => exec'[t] = exec[t]
      /\ breach \subseteq breach' /\ breach' \subseteq breach \cup {"foreignUnlock"}
  BY DEF Unlock, Goto, ThrowOutsideTry, TypeOK
<1>2. exec'[s].pc = "finish"
  BY <1>0 DEF Unlock, Goto, ThrowOutsideTry, TypeOK, Call
<1>3. LogsOwned' /\ HandlersOwned' /\ HandlersAwaited'
  BY <1>0, <1>1, <1>2, OwnershipQuiet DEF LoggedPc
<1>4. LockOwned'
  <2> SUFFICES ASSUME breach' = {}, NEW h \in handlers, h.guarded
               PROVE  lock' = h.log
    BY <1>1 DEF LockOwned
  <2>1. breach = {} /\ lock = h.log
    BY <1>1 DEF ExecInv, LockOwned
  <2>2. PICK t \in Slot : exec[t].pc = "handler" /\ exec[t].log = h.log
    BY <2>1 DEF ExecInv, HandlersAwaited, Awaited
  <2>3. exec[s].log # h.log
    BY <2>2, <1>0 DEF ExecInv, LogsOwned, LoggedPc
  <2>4. h.log # Free
    BY DEF ExecInv, HandlersOwned, Free
  <2> QED
    BY <2>1, <2>3, <2>4 DEF Unlock
<1> QED
  BY <1>1, <1>3, <1>4 DEF ExecInv, ExpiryNeedsTimeout

LEMMA InvExecute ==
  ASSUME TypeOK, ExecInv, NEW s \in Slot, Execute(s)
  PROVE  ExecInv'
BY InvMoves, InvSaveLog, InvStart, InvLockCallFails, InvUnlock DEF Execute

LEMMA InvHandlers ==
  ASSUME TypeOK, ExecInv, Handlers
  PROVE  ExecInv'
<1>1. ASSUME NEW s \in Slot, NEW ok \in BOOLEAN, HandlerEnds(s, ok)
      PROVE  ExecInv'
  <2>0. exec[s] \in Call /\ exec[s].pc = "handler"
    BY <1>1, BusyCall DEF HandlerEnds
  <2>1. PICK h \in handlers : h.log = exec[s].log /\ handlers' = handlers \ {h}
    BY <1>1 DEF HandlerEnds, Settle
  <2>2. UNCHANGED <<logs, lock, breach>> /\ \A t \in Slot : t # s => exec'[t] = exec[t]
    BY <1>1 DEF HandlerEnds, Goto, TypeOK
  <2>3. exec'[s].pc \in {"okLog", "failLog"} /\ exec'[s].log = exec[s].log
    BY <1>1, <2>0 DEF HandlerEnds, Goto, TypeOK, Call
  <2>4. {"okLog", "failLog", "handler"} \subseteq LoggedPc
    BY DEF LoggedPc
  <2>5. LogsOwned' /\ HandlersOwned'
    BY <2>0, <2>1, <2>2, <2>3, <2>4 DEF ExecInv, LogsOwned, HandlersOwned
  <2>6. HandlersAwaited'
    <3> SUFFICES ASSUME "timeout" \notin breach, NEW g \in handlers'
                 PROVE  \E t \in Slot : exec'[t].pc = "handler" /\ exec'[t].log = g.log
      BY <2>2 DEF HandlersAwaited, Awaited
    <3>1. PICK t \in Slot : exec[t].pc = "handler" /\ exec[t].log = g.log
      BY <2>1 DEF ExecInv, HandlersAwaited, Awaited
    <3>2. t # s
      BY <3>1, <2>1 DEF ExecInv, HandlersOwned
    <3> QED
      BY <3>1, <3>2, <2>2
  <2> QED
    BY <2>1, <2>2, <2>5, <2>6 DEF ExecInv, LockOwned, ExpiryNeedsTimeout
<1>2. ASSUME NEW s \in Slot, HandlerTimesOut(s)
      PROVE  ExecInv'
  <2>0. exec[s] \in Call /\ exec[s].pc = "handler"
    BY <1>2, BusyCall DEF HandlerTimesOut
  <2>1. /\ UNCHANGED <<logs, lock, handlers>>
        /\ \A t \in Slot : t # s => exec'[t] = exec[t]
        /\ "timeout" \in breach'
    BY <1>2 DEF HandlerTimesOut, Goto, TypeOK
  <2>2. exec'[s].pc = "failLog" /\ exec'[s].log = exec[s].log
    BY <1>2, <2>0 DEF HandlerTimesOut, Goto, TypeOK, Call
  <2>3. {"failLog", "handler"} \subseteq LoggedPc
    BY DEF LoggedPc
  <2>4. LogsOwned' /\ HandlersOwned'
    BY <2>0, <2>1, <2>2, <2>3 DEF ExecInv, LogsOwned, HandlersOwned
  <2> QED
    BY <2>1, <2>4 DEF ExecInv, HandlersAwaited, LockOwned, ExpiryNeedsTimeout
<1>3. ASSUME NEW h \in handlers, NEW ok \in BOOLEAN, OrphanEnds(h, ok)
      PROVE  ExecInv'
  <2>1. handlers' = handlers \ {h} /\ UNCHANGED <<exec, logs, lock, breach>>
    BY <1>3 DEF OrphanEnds, Settle
  <2>2. LogsOwned' /\ HandlersOwned'
    BY <2>1 DEF ExecInv, LogsOwned, HandlersOwned
  <2>3. HandlersAwaited'
    BY <2>1 DEF ExecInv, HandlersAwaited, Awaited
  <2> QED
    BY <2>1, <2>2, <2>3 DEF ExecInv, LockOwned, ExpiryNeedsTimeout
<1> QED
  BY <1>1, <1>2, <1>3 DEF Handlers

\* With a timeout configured, a lock whose handler is awaited does not expire.
LEMMA NoExpiryWhileAwaited ==
  ASSUME HasTimeout PROVE ~MayOutliveLock
<1>1. TimeoutMs \in Int /\ TimeoutMs > 0 /\ Null \notin Int
  BY TaskAssumption DEF HasTimeout
<1>2. LockSeconds(TimeoutMs) * 1000 >= TimeoutMs + 5000
  BY <1>1, LockSecondsCoverTimeout
<1>3. LockSeconds(TimeoutMs) \in Int
  BY <1>1 DEF LockSeconds
<1> QED
  BY <1>1, <1>2, <1>3 DEF MayOutliveLock

LEMMA InvEnvironment ==
  ASSUME TypeOK, ExecInv, Environment
  PROVE  ExecInv'
<1>1. CASE LockExpires
  <2>1. UNCHANGED <<exec, logs, handlers>> /\ breach \subseteq breach'
        /\ breach' \subseteq breach \cup {"expiry"}
    BY <1>1 DEF LockExpires
  <2>2. LogsOwned' /\ HandlersOwned' /\ HandlersAwaited'
    BY <2>1 DEF ExecInv, LogsOwned, HandlersOwned, HandlersAwaited, Awaited
  <2>3. LockOwned'
    BY <1>1 DEF LockExpires, ExecInv, LockOwned
  <2>4. ExpiryNeedsTimeout'
    <3> SUFFICES ASSUME HasTimeout, "expiry" \in breach', "timeout" \notin breach
                 PROVE  FALSE
      BY <2>1 DEF ExpiryNeedsTimeout
    <3>1. \E h \in handlers : h.log = lock
      BY <1>1 DEF LockExpires, ExecInv, ExpiryNeedsTimeout
    <3>2. Awaited(lock)
      BY <3>1 DEF ExecInv, HandlersAwaited
    <3> QED
      BY <1>1, <3>2, NoExpiryWhileAwaited DEF LockExpires
  <2> QED
    BY <2>2, <2>3, <2>4 DEF ExecInv
<1>2. ASSUME NEW n \in Node, Crash(n)
      PROVE  ExecInv'
  <2>1. /\ UNCHANGED <<logs, lock, breach>>
        /\ handlers' = {h \in handlers : h.node # n}
        /\ \A t \in Slot : t[1] # n => exec'[t] = exec[t]
        /\ \A t \in Slot : t[1] = n => exec'[t].pc = "idle"
    BY <1>2 DEF Crash, IdleExec
  <2>2. "idle" \notin LoggedPc /\ "handler" \in LoggedPc
    BY DEF LoggedPc
  <2>3. LogsOwned' /\ HandlersOwned'
    BY <2>1, <2>2 DEF ExecInv, LogsOwned, HandlersOwned
  <2>4. HandlersAwaited'
    <3> SUFFICES ASSUME "timeout" \notin breach, NEW h \in handlers'
                 PROVE  \E t \in Slot : exec'[t].pc = "handler" /\ exec'[t].log = h.log
      BY <2>1 DEF HandlersAwaited, Awaited
    <3>1. PICK t \in Slot : exec[t].pc = "handler" /\ exec[t].log = h.log
      BY <2>1 DEF ExecInv, HandlersAwaited, Awaited
    <3>2. h.node = t[1] /\ h.node # n
      BY <3>1, <2>1, <2>2 DEF ExecInv, HandlersOwned
    <3> QED
      BY <3>1, <3>2, <2>1
  <2> QED
    BY <2>1, <2>3, <2>4 DEF ExecInv, LockOwned, ExpiryNeedsTimeout
<1> QED
  BY <1>1, <1>2 DEF Environment

LEMMA InvOthers ==
  ASSUME TypeOK, ExecInv, Queue \/ Admin \/ UNCHANGED vars
  PROVE  ExecInv'
<1>1. ASSUME NEW s \in Slot, NEW j \in Job, Pick(s, j)
      PROVE  ExecInv'
  <2>1. exec[s].pc = "idle" /\ UNCHANGED <<logs, handlers, lock, breach>>
    BY <1>1 DEF Pick
  <2>2. exec'[s].pc = "load" /\ \A t \in Slot : t # s => exec'[t] = exec[t]
    BY <1>1 DEF Pick, TypeOK, IdleExec
  <2> QED
    BY <2>1, <2>2, InvQuiet DEF LoggedPc
<1>2. CASE UNCHANGED <<exec, logs, handlers, lock, breach>>
  BY <1>2 DEF ExecInv, LogsOwned, HandlersOwned, HandlersAwaited, Awaited, LockOwned,
              ExpiryNeedsTimeout
<1>3. ASSUME NEW j \in Job, TriggerTaskNow(j) \/ SchedulerFires(j) \/ Stalled(j)
      PROVE  UNCHANGED <<exec, logs, handlers, lock, breach>>
  BY <1>3 DEF TriggerTaskNow, SchedulerFires, Stalled
<1>4. Admin => UNCHANGED <<exec, logs, handlers, lock, breach>>
  BY DEF Admin, AdminOperation, ChangeEnable, Edit, DelByIds, Resync
<1>5. UNCHANGED vars => UNCHANGED <<exec, logs, handlers, lock, breach>>
  BY DEF vars
<1> QED
  BY <1>1, <1>2, <1>3, <1>4, <1>5 DEF Queue

\* The ownership of logs, handlers and lock that processJob maintains.
THEOREM ProtocolInvariant == Spec => []ExecInv
<1>1. TypeOK /\ ExecInv /\ [Next]_vars => ExecInv'
  BY InvExecute, InvHandlers, InvEnvironment, InvOthers DEF Next
<1> QED
  BY InvInit, <1>1, TypeCorrect, PTL DEF Spec

\* The guarantee that is left of "one instance at a time": without a deletion by
\* a call that does not own the lock, a timed-out handler or an expiry, no two
\* guarded handlers run together.
THEOREM Exclusion == Spec => []SingleInstanceUnlessBreached
<1>1. ExecInv => SingleInstanceUnlessBreached
  BY DEF ExecInv, HandlersOwned, LockOwned, SingleInstanceUnlessBreached, SingleInstance
<1> QED
  BY <1>1, ProtocolInvariant, PTL

\* For a task with a timeout the lock's time to live is never the cause.
THEOREM TimeToLiveSuffices == Spec => []ExpiryNeedsTimeout
<1>1. ExecInv => ExpiryNeedsTimeout
  BY DEF ExecInv
<1> QED
  BY <1>1, ProtocolInvariant, PTL

-----------------------------------------------------------------------------
(* What calls, jobs and logs know of each other *)

\* Only a call that has a log and has written back its success has the result "ok".
ResultLate ==
  \A s \in Slot : exec[s].result = "ok" => exec[s].pc \in {"unlock", "finish"} /\ exec[s].log # 0

\* A call has a log row from saveLog to its end; the row names its job and is its own.
LogsKept ==
  /\ \A s \in Slot : exec[s].pc \in {"idle"} \cup EarlyPc => exec[s].log = 0
  /\ \A s \in Slot : exec[s].pc \in LoggedPc => exec[s].log # 0
  /\ \A s \in Slot : exec[s].log # 0 =>
        exec[s].log \in 1 .. Len(logs) /\ logs[exec[s].log].job = exec[s].job
  /\ \A s, t \in Slot : exec[s].log # 0 /\ exec[s].log = exec[t].log => s = t

\* A job in progress is active and in one slot; only a crash takes the slot from it.
JobsKept ==
  /\ \A s \in Slot : exec[s].pc # "idle" => jobs[exec[s].job].st = "active"
  /\ \A s, t \in Slot : exec[s].pc # "idle" /\ exec[t].pc # "idle" /\ exec[s].job = exec[t].job
                          => s = t
  /\ crashes = 0 => \A j \in Job : jobs[j].st = "active" => Processing(j)

\* What the status of its log says of the place of a call.
StatusTold ==
  \A s \in Slot : exec[s].log # 0 =>
    LET status == logs[exec[s].log].status IN
    /\ exec[s].pc \in {"markRunning", "lock", "handler", "okLog"} => status = "RUNNING"
    /\ exec[s].pc = "okRow" \/ exec[s].result = "ok" => status = "SUCCESS"
    /\ exec[s].pc = "failLog" => status = "RUNNING" \/ (status = "SUCCESS" /\ faults > 0)
    /\ exec[s].pc \in {"failRow", "unlock", "finish"} /\ exec[s].result = "err" /\ faults = 0
         => status = "FAIL"

\* The SUCCESS of a completed job is that of a call which has ended.
CompletedTold ==
  \A j \in Job : jobs[j].st = "completed" =>
    \E l \in LogsOf(j) : logs[l].status = "SUCCESS" /\ \A s \in Slot : exec[s].log # l

\* While nothing fails, a log that is not FAIL is that of a call or of a completed job.
LogsExplained ==
  faults = 0 /\ crashes = 0 =>
    \A l \in DOMAIN logs :
      \/ logs[l].status = "FAIL"
      \/ jobs[logs[l].job].st = "completed"
      \/ \E s \in Slot : exec[s].log = l

OutcomeInv ==
  /\ ResultLate
  /\ LogsKept
  /\ JobsKept
  /\ StatusTold
  /\ CompletedTold
  /\ LogsExplained

\* A call of job j that has the handler's success behind it.
Earned(j) ==
  \E s \in Slot : /\ exec[s].pc # "idle" /\ exec[s].job = j
                  /\ exec[s].pc \in {"okLog", "okRow"} \/ exec[s].result = "ok"

\* While nothing fails, an effect is that of a call on its way to success, or of a
\* completed job.
EffectOnce ==
  faults = 0 /\ crashes = 0 /\ "timeout" \notin breach =>
    \A j \in Job :
      effects[j] = 0 \/ (effects[j] = 1 /\ (jobs[j].st = "completed" \/ Earned(j)))

\* A job that is still going to write the row, or to find it disabled.
Pending(j) ==
  \/ jobs[j].st = "waiting"
  \/ \E s \in Slot :
       /\ exec[s].pc # "idle" /\ exec[s].job = j
       /\ exec[s].pc \in {"unlock", "finish"} => exec[s].result = "err" /\ ~IsFinalAttempt(j)

\* As long as a DELAY task is enabled after a run began, some job is pending.
RetirePending ==
  IsDelay /\ faults = 0 /\ crashes = 0 /\ admin = 0 =>
    /\ row.live
    /\ row.enable /\ logs # <<>> => \E j \in Job : Pending(j)

\* Attempts and stalls pay for the logs of a job; an active one may be one ahead,
\* once its call, if it has one still, has saved its log.
Budget(j, runs) ==
  LET paid == jobs[j].made + jobs[j].stalls IN
  /\ runs <= Attempts + jobs[j].stalls
  /\ jobs[j].st \in {"absent", "waiting", "active"} => jobs[j].made < Attempts
  /\ jobs[j].st \in {"absent", "waiting"} => runs <= paid
  /\ jobs[j].st = "active" => runs <= paid + 1
  /\ jobs[j].st = "active" /\ runs = paid + 1 =>
       \A s \in Slot : exec[s].pc \in EarlyPc => exec[s].job # j

Budgeted == \A j \in Job : Budget(j, Cardinality(LogsOf(j)))

-----------------------------------------------------------------------------
(* The steps of a call, by what they do to its record, its job and its log *)

Goes(s, from, to) == exec[s].pc = from /\ exec'[s].pc = to

Only(s) == \A t \in Slot : t # s => exec'[t] = exec[t]

\* A step of processJob other than saveLog and the end.
CallMoves(s) ==
  /\ Only(s)
  /\ UNCHANGED <<jobs, crashes>>
  /\ exec'[s].job = exec[s].job /\ exec'[s].log = exec[s].log
  /\ \/ /\ UNCHANGED <<logs, faults>> /\ exec'[s].result = exec[s].result
        /\ \/ Goes(s, "load", "saveLog") \/ Goes(s, "markRunning", "lock")
           \/ Goes(s, "lock", "handler") \/ Goes(s, "lock", "failLog")
           \/ Goes(s, "handler", "okLog") \/ Goes(s, "handler", "failLog")
           \/ Goes(s, "failRow", "unlock") \/ Goes(s, "unlock", "finish")
     \/ /\ UNCHANGED <<logs, faults>> /\ exec'[s].result = "err"
        /\ Goes(s, "load", "finish")
     \/ /\ UNCHANGED <<logs, faults>> /\ exec'[s].result = "ok"
        /\ Goes(s, "okRow", "unlock")
     \/ /\ UNCHANGED faults /\ exec'[s].result = exec[s].result
        /\ logs' = [logs EXCEPT ![exec[s].log].status = "SUCCESS"]
        /\ Goes(s, "okLog", "okRow")
     \/ /\ UNCHANGED faults /\ exec'[s].result = exec[s].result
        /\ logs' = [logs EXCEPT ![exec[s].log].status = "FAIL"]
        /\ Goes(s, "failLog", "failRow")
     \/ /\ UNCHANGED logs /\ faults' = faults + 1 /\ exec'[s].result = exec[s].result
        /\ \/ Goes(s, "lock", "failLog") \/ Goes(s, "okLog", "failLog")
           \/ Goes(s, "okRow", "failLog") \/ Goes(s, "failLog", "unlock")
           \/ Goes(s, "failRow", "unlock")
     \/ /\ UNCHANGED logs /\ faults' = faults + 1 /\ exec'[s].result = "err"
        /\ \/ Goes(s, "load", "finish") \/ Goes(s, "saveLog", "finish")
           \/ Goes(s, "markRunning", "finish") \/ Goes(s, "unlock", "finish")

\* saveLog gives the call its log row.
CallOpens(s) ==
  /\ Only(s)
  /\ UNCHANGED <<jobs, crashes, faults>>
  /\ exec'[s].job = exec[s].job /\ exec'[s].result = exec[s].result
  /\ Goes(s, "saveLog", "markRunning")
  /\ exec'[s].log = Len(logs) + 1
  /\ logs' = Append(logs, [job |-> exec[s].job, status |-> "RUNNING"])

\* A free slot gets a job.
CallBegins(s, j) ==
  /\ Only(s)
  /\ UNCHANGED <<logs, crashes, faults>>
  /\ Goes(s, "idle", "load")
  /\ exec'[s].job = j /\ exec'[s].log = 0 /\ exec'[s].result = "err"
  /\ jobs[j].st = "waiting" /\ jobs' = [jobs EXCEPT ![j].st = "active"]

\* The call is over and its slot free.
CallEnds(s) ==
  LET j == exec[s].job IN
  /\ Only(s)
  /\ UNCHANGED <<logs, crashes, faults>>
  /\ exec[s].pc = "finish" /\ exec'[s] = IdleExec
  /\ jobs' = [jobs EXCEPT
                ![j].made = IF exec[s].result = "ok" THEN @ ELSE @ + 1,
                ![j].st = IF exec[s].result = "ok" THEN "completed"
                          ELSE IF jobs[j].made + 1 < Attempts THEN "waiting" ELSE "failed"]

LEMMA ExecuteSteps ==
  ASSUME TypeOK, NEW s \in Slot, Execute(s)
  PROVE  CallMoves(s) \/ CallOpens(s) \/ CallEnds(s)
<1> USE DEF CallSucceeds, CallFails, Goto, ThrowOutsideTry, Goes, Only
<1>0. exec[s].pc # "idle"
  BY DEF Execute, LoadTask, SaveLog, MarkRunning, EnterUnguarded, Acquire, Reject,
         LockCallFails, RecordSuccess, WriteBackSuccess, RecordFailure,
         WriteBackFailure, Unlock, Finish
<1>b. exec[s] \in Call /\ exec \in [Slot -> Call \cup {IdleExec}]
  BY <1>0, BusyCall DEF TypeOK
<1>1. CASE LoadTask(s)
  BY <1>1, <1>b DEF LoadTask, CallMoves, Call
<1>2. CASE SaveLog(s)
  BY <1>2, <1>b DEF SaveLog, CallMoves, CallOpens, Call
<1>3. CASE MarkRunning(s)
  BY <1>3, <1>b DEF MarkRunning, CallMoves, Call
<1>4. CASE EnterUnguarded(s)
  BY <1>4, <1>b DEF EnterUnguarded, CallMoves, Call
<1>5. CASE Acquire(s)
  BY <1>5, <1>b DEF Acquire, CallMoves, Call
<1>6. CASE Reject(s)
  BY <1>6, <1>b DEF Reject, CallMoves, Call
<1>7. CASE LockCallFails(s)
  BY <1>7, <1>b DEF LockCallFails, CallMoves, Call
<1>8. CASE RecordSuccess(s)
  BY <1>8, <1>b DEF RecordSuccess, CallMoves, Call
<1>9. CASE WriteBackSuccess(s)
  BY <1>9, <1>b DEF WriteBackSuccess, CallMoves, Call
<1>10. CASE RecordFailure(s)
  BY <1>10, <1>b DEF RecordFailure, CallMoves, Call
<1>11. CASE WriteBackFailure(s)
  BY <1>11, <1>b DEF WriteBackFailure, CallMoves, Call
<1>12. CASE Unlock(s)
  BY <1>12, <1>b DEF Unlock, CallMoves, Call
<1>13. CASE Finish(s)
  BY <1>13, <1>b DEF Finish, CallEnds
<1> QED
  BY <1>1, <1>2, <1>3, <1>4, <1>5, <1>6, <1>7, <1>8, <1>9, <1>10, <1>11, <1>12,
     <1>13 DEF Execute

LEMMA HandlerSteps ==
  ASSUME TypeOK, NEW s \in Slot,
         HandlerTimesOut(s) \/ \E ok \in BOOLEAN : HandlerEnds(s, ok)
  PROVE  CallMoves(s)
<1>0. exec[s].pc = "handler"
  BY DEF HandlerTimesOut, HandlerEnds
<1>b. exec[s] \in Call /\ exec \in [Slot -> Call \cup {IdleExec}]
  BY <1>0, BusyCall DEF TypeOK
<1> QED
  BY <1>b DEF HandlerTimesOut, HandlerEnds, Goto, CallMoves, Goes, Only, Call

LEMMA PickSteps ==
  ASSUME TypeOK, NEW s \in Slot, NEW j \in Job, Pick(s, j)
  PROVE  CallBegins(s, j)
BY DEF Pick, CallBegins, Goes, Only, TypeOK, IdleExec

\* The steps of the system, as far as calls, jobs and logs are concerned.
LEMMA StepKinds ==
  ASSUME TypeOK, [Next]_vars
  PROVE  \/ \E s \in Slot : CallMoves(s) \/ CallOpens(s) \/ CallEnds(s)
         \/ \E s \in Slot, j \in Job : CallBegins(s, j)
         \/ \E n \in Node : Crash(n)
         \/ \E j \in Job : Stalled(j) \/ TriggerTaskNow(j) \/ SchedulerFires(j)
         \/ UNCHANGED <<exec, jobs, logs, faults, crashes>>
<1>1. LockExpires \/ Admin \/ UNCHANGED vars => UNCHANGED <<exec, jobs, logs, faults, crashes>>
  BY DEF LockExpires, Admin, AdminOperation, ChangeEnable, Edit, DelByIds, Resync, vars
<1>2. ASSUME NEW h \in handlers, NEW ok \in BOOLEAN, OrphanEnds(h, ok)
      PROVE  UNCHANGED <<exec, jobs, logs, faults, crashes>>
  BY <1>2 DEF OrphanEnds
<1> QED
  BY <1>1, <1>2, ExecuteSteps, HandlerSteps, PickSteps
     DEF Next, Handlers, Queue, Environment

\* Log rows have positions from 1 on and name jobs.
LEMMA LogTyped ==
  ASSUME TypeOK
  PROVE  /\ Len(logs) \in Nat /\ DOMAIN logs = 1 .. Len(logs)
         /\ \A l \in 1 .. Len(logs) : logs[l].job \in Job /\ l # 0
<1>1. Len(logs) \in Nat /\ DOMAIN logs = 1 .. Len(logs)
  BY DEF TypeOK
<1>2. \A l \in 1 .. Len(logs) : logs[l] \in LogRow
  BY DEF TypeOK
<1> QED
  BY <1>1, <1>2 DEF LogRow

\* A written status leaves the rest of the log alone.
LEMMA StatusWritten ==
  ASSUME NEW q \in Seq(LogRow), NEW k \in 1 .. Len(q), NEW v \in {"RUNNING", "SUCCESS", "FAIL"}
  PROVE  LET r == [q EXCEPT ![k].status = v] IN
         /\ r \in Seq(LogRow) /\ Len(r) = Len(q)
         /\ \A l \in 1 .. Len(q) : r[l].job = q[l].job
         /\ \A l \in 1 .. Len(q) : l # k => r[l] = q[l]
         /\ r[k].status = v
<1> DEFINE r == [q EXCEPT ![k].status = v]
<1>1. r \in Seq(LogRow) /\ Len(r) = Len(q)
  <2>1. r = [i \in 1 .. Len(q) |-> IF i = k THEN [q[i] EXCEPT !.status = v] ELSE q[i]]
    BY OneStatusSet
  <2>2. \A a \in LogRow : [a EXCEPT !.status = v] \in LogRow
    BY DEF LogRow
  <2>3. r \in [1 .. Len(q) -> LogRow]
    BY <2>1, <2>2
  <2> HIDE DEF r
  <2> QED
    BY <2>3
<1>2. \A l \in 1 .. Len(q) : q[l] \in LogRow
  OBVIOUS
<1>3. \A l \in 1 .. Len(q) : r[l] = IF l = k THEN [q[l] EXCEPT !.status = v] ELSE q[l]
  OBVIOUS
<1>4. \A a \in LogRow : [a EXCEPT !.status = v].job = a.job /\ [a EXCEPT !.status = v].status = v
  BY DEF LogRow
<1> HIDE DEF r
<1>5. \A l \in 1 .. Len(q) : r[l].job = q[l].job
  BY <1>2, <1>3, <1>4
<1>6. r[k].status = v /\ \A l \in 1 .. Len(q) : l # k => r[l] = q[l]
  BY <1>2, <1>3, <1>4
<1> QED
  BY <1>1, <1>5, <1>6 DEF r

\* What a step of a call does to the logs.
LEMMA MovesLogs ==
  ASSUME TypeOK, LogsKept, NEW s \in Slot, CallMoves(s)
  PROVE  /\ Len(logs') = Len(logs) /\ Len(logs) \in Nat /\ exec[s].log \in Nat
         /\ DOMAIN logs = 1 .. Len(logs) /\ DOMAIN logs' = 1 .. Len(logs)
         /\ \A l \in 1 .. Len(logs) : logs'[l].job = logs[l].job
         /\ \A l \in 1 .. Len(logs) : l # exec[s].log => logs'[l] = logs[l]
         /\ Goes(s, "okLog", "okRow") => logs'[exec[s].log].status = "SUCCESS"
         /\ Goes(s, "failLog", "failRow") => logs'[exec[s].log].status = "FAIL"
         /\ UNCHANGED logs \/ Goes(s, "okLog", "okRow") \/ Goes(s, "failLog", "failRow")
<1>1. logs \in Seq(LogRow) /\ Len(logs) \in Nat
  BY DEF TypeOK
<1>2. exec[s].log \in Nat
  BY BusyCall DEF CallMoves, Goes
<1>3. exec[s].pc \in LoggedPc => exec[s].log \in 1 .. Len(logs)
  BY DEF LogsKept
<1>4. CASE Goes(s, "okLog", "okRow")
  <2>1. logs' = [logs EXCEPT ![exec[s].log].status = "SUCCESS"]
    BY <1>4 DEF CallMoves, Goes
  <2>2. exec[s].log \in 1 .. Len(logs) /\ ~Goes(s, "failLog", "failRow")
    BY <1>3, <1>4 DEF Goes, LoggedPc
  <2> QED
    BY <1>1, <1>2, <1>4, <2>1, <2>2, StatusWritten
<1>5. CASE Goes(s, "failLog", "failRow")
  <2>1. logs' = [logs EXCEPT ![exec[s].log].status = "FAIL"]
    BY <1>5 DEF CallMoves, Goes
  <2>2. exec[s].log \in 1 .. Len(logs) /\ ~Goes(s, "okLog", "okRow")
    BY <1>3, <1>5 DEF Goes, LoggedPc
  <2> QED
    BY <1>1, <1>2, <1>5, <2>1, <2>2, StatusWritten
<1>6. CASE ~Goes(s, "okLog", "okRow") /\ ~Goes(s, "failLog", "failRow")
  <2>1. UNCHANGED logs
    BY <1>6 DEF CallMoves
  <2> QED
    BY <1>1, <1>2, <1>6, <2>1
<1> QED
  BY <1>4, <1>5, <1>6

LEMMA OutcomeInit == Init => OutcomeInv
<1> SUFFICES ASSUME Init PROVE OutcomeInv
  OBVIOUS
<1>1. \A s \in Slot : exec[s].pc = "idle" /\ exec[s].log = 0 /\ exec[s].result = "err"
  BY DEF Init, IdleExec
<1>2. \A j \in Job : jobs[j].st = "absent"
  BY DEF Init
<1>3. DOMAIN logs = {}
  BY DEF Init
<1>4. ResultLate /\ LogsKept /\ StatusTold
  BY <1>1 DEF ResultLate, LogsKept, StatusTold, LoggedPc
<1>5. JobsKept /\ CompletedTold /\ LogsExplained
  BY <1>1, <1>2, <1>3 DEF JobsKept, CompletedTold, LogsExplained
<1> QED
  BY <1>4, <1>5 DEF OutcomeInv

LEMMA OutcomeMoves ==
  ASSUME TypeOK, OutcomeInv, NEW s \in Slot, CallMoves(s)
  PROVE  OutcomeInv'
<1> USE DEF Goes, Only
<1>1. /\ Len(logs') = Len(logs) /\ Len(logs) \in Nat /\ exec[s].log \in Nat
      /\ DOMAIN logs = 1 .. Len(logs) /\ DOMAIN logs' = 1 .. Len(logs)
      /\ \A l \in 1 .. Len(logs) : logs'[l].job = logs[l].job
      /\ \A l \in 1 .. Len(logs) : l # exec[s].log => logs'[l] = logs[l]
      /\ Goes(s, "okLog", "okRow") => logs'[exec[s].log].status = "SUCCESS"
      /\ Goes(s, "failLog", "failRow") => logs'[exec[s].log].status = "FAIL"
      /\ UNCHANGED logs \/ Goes(s, "okLog", "okRow") \/ Goes(s, "failLog", "failRow")
  BY MovesLogs DEF OutcomeInv
<1>2. /\ \A t \in Slot : t # s => exec'[t] = exec[t]
      /\ exec'[s].job = exec[s].job /\ exec'[s].log = exec[s].log
      /\ jobs' = jobs /\ crashes' = crashes /\ faults \in Nat
      /\ faults' = faults \/ faults' = faults + 1
  BY DEF CallMoves, TypeOK
<1>3. exec[s].pc \notin {"idle", "finish"} /\ exec'[s].pc # "idle"
  BY DEF CallMoves
<1>4. ResultLate'
  BY <1>2 DEF CallMoves, OutcomeInv, ResultLate, LogsKept, LoggedPc
<1>5. LogsKept'
  <2>1. \A t \in Slot : exec'[t].pc \in {"idle"} \cup EarlyPc => exec'[t].log = 0
    BY <1>2 DEF CallMoves, OutcomeInv, LogsKept, EarlyPc
  <2>2. \A t \in Slot : exec'[t].pc \in LoggedPc => exec'[t].log # 0
    BY <1>2 DEF CallMoves, OutcomeInv, LogsKept, LoggedPc
  <2>3. \A t \in Slot : exec'[t].log = exec[t].log /\ exec'[t].job = exec[t].job
    BY <1>2
  <2> QED
    BY <1>1, <2>1, <2>2, <2>3 DEF OutcomeInv, LogsKept
<1>6. JobsKept'
  BY <1>2, <1>3 DEF OutcomeInv, JobsKept, Processing
<1>7. StatusTold'
  <2> SUFFICES ASSUME NEW t \in Slot, exec'[t].log # 0
               PROVE  /\ exec'[t].pc \in {"markRunning", "lock", "handler", "okLog"}
                           => logs'[exec'[t].log].status = "RUNNING"
                      /\ exec'[t].pc = "okRow" \/ exec'[t].result = "ok"
                           => logs'[exec'[t].log].status = "SUCCESS"
                      /\ exec'[t].pc = "failLog"
                           => \/ logs'[exec'[t].log].status = "RUNNING"
                              \/ logs'[exec'[t].log].status = "SUCCESS" /\ faults' > 0
                      /\ exec'[t].pc \in {"failRow", "unlock", "finish"}
                           /\ exec'[t].result = "err" /\ faults' = 0
                           => logs'[exec'[t].log].status = "FAIL"
    BY DEF StatusTold
  <2>1. CASE t = s
    <3> DEFINE status == logs[exec[s].log].status
    <3>1. exec[s].log # 0 /\ exec[s].log \in 1 .. Len(logs) /\ exec[s].pc \notin EarlyPc
      BY <1>2, <2>1 DEF OutcomeInv, LogsKept
    <3>2. /\ exec[s].pc \in {"markRunning", "lock", "handler", "okLog"} => status = "RUNNING"
          /\ exec[s].pc = "okRow" \/ exec[s].result = "ok" => status = "SUCCESS"
          /\ exec[s].pc = "failLog" => status = "RUNNING" \/ (status = "SUCCESS" /\ faults > 0)
          /\ exec[s].pc \in {"failRow", "unlock", "finish"} /\ exec[s].result = "err" /\ faults = 0
               => status = "FAIL"
      BY <3>1 DEF OutcomeInv, StatusTold
    <3>3. exec[s].result = "ok" => exec[s].pc \in {"unlock", "finish"}
      BY DEF OutcomeInv, ResultLate
    <3>4. exec[s].pc \notin {"load", "saveLog"}
      BY <3>1 DEF EarlyPc
    <3>5. exec'[s].log = exec[s].log /\ (UNCHANGED logs => logs'[exec[s].log].status = status)
      BY <1>2
    <3> HIDE DEF status
    <3> QED
      BY <1>1, <1>2, <2>1, <3>2, <3>3, <3>4, <3>5 DEF CallMoves
  <2>2. CASE t # s
    <3>1. exec'[t] = exec[t] /\ exec[t].log # exec[s].log
          /\ exec[t].log \in 1 .. Len(logs)
      BY <2>2, <1>2 DEF OutcomeInv, LogsKept
    <3>2. logs'[exec[t].log] = logs[exec[t].log]
      BY <3>1, <1>1
    <3> QED
      BY <3>1, <3>2, <1>2 DEF OutcomeInv, StatusTold
  <2> QED
    BY <2>1, <2>2
<1>8. CompletedTold'
  <2> SUFFICES ASSUME NEW j \in Job, jobs[j].st = "completed"
               PROVE  \E l \in 1 .. Len(logs) :
                        /\ logs'[l].job = j /\ logs'[l].status = "SUCCESS"
                        /\ \A t \in Slot : exec'[t].log # l
    BY <1>1, <1>2 DEF CompletedTold, LogsOf
  <2>1. PICK l \in 1 .. Len(logs) : logs[l].job = j /\ logs[l].status = "SUCCESS"
                                   /\ \A t \in Slot : exec[t].log # l
    BY <1>1 DEF OutcomeInv, CompletedTold, LogsOf
  <2> QED
    BY <2>1, <1>1, <1>2
<1>9. LogsExplained'
  <2> SUFFICES ASSUME faults' = 0, crashes' = 0, NEW l \in 1 .. Len(logs)
               PROVE  \/ logs'[l].status = "FAIL"
                      \/ jobs'[logs'[l].job].st = "completed"
                      \/ \E t \in Slot : exec'[t].log = l
    BY <1>1 DEF LogsExplained
  <2>1. faults = 0 /\ crashes = 0
    BY <1>2
  <2>2. CASE l = exec[s].log
    BY <2>2, <1>2
  <2>3. CASE l # exec[s].log
    BY <2>1, <2>3, <1>1, <1>2 DEF OutcomeInv, LogsExplained
  <2> QED
    BY <2>2, <2>3
<1> QED
  BY <1>4, <1>5, <1>6, <1>7, <1>8, <1>9 DEF OutcomeInv

\* A new log row leaves the others alone.
LEMMA LogAppended ==
  ASSUME TypeOK, NEW j \in Job, logs' = Append(logs, [job |-> j, status |-> "RUNNING"])
  PROVE  /\ Len(logs) \in Nat /\ Len(logs') = Len(logs) + 1
         /\ DOMAIN logs = 1 .. Len(logs) /\ DOMAIN logs' = 1 .. Len(logs) + 1
         /\ \A l \in 1 .. Len(logs) : logs'[l] = logs[l]
         /\ logs'[Len(logs) + 1].job = j /\ logs'[Len(logs) + 1].status = "RUNNING"
<1> DEFINE r == [job |-> j, status |-> "RUNNING"]
<1>1. r.job = j /\ r.status = "RUNNING"
  OBVIOUS
<1>2. logs \in Seq(LogRow) /\ logs' = Append(logs, r)
  BY DEF TypeOK
<1> HIDE DEF r
<1> QED
  BY <1>1, <1>2

LEMMA OutcomeOpens ==
  ASSUME TypeOK, OutcomeInv, NEW s \in Slot, CallOpens(s)
  PROVE  OutcomeInv'
<1> USE DEF Goes, Only
<1>0. exec[s].job \in Job
  BY BusyCall DEF CallOpens
<1>1. /\ Len(logs) \in Nat /\ Len(logs') = Len(logs) + 1
      /\ DOMAIN logs = 1 .. Len(logs) /\ DOMAIN logs' = 1 .. Len(logs) + 1
      /\ \A l \in 1 .. Len(logs) : logs'[l] = logs[l]
      /\ logs'[Len(logs) + 1].job = exec[s].job /\ logs'[Len(logs) + 1].status = "RUNNING"
  BY <1>0, LogAppended DEF CallOpens
<1>2. /\ \A t \in Slot : t # s => exec'[t] = exec[t]
      /\ exec'[s].job = exec[s].job /\ exec'[s].result = exec[s].result
      /\ exec[s].pc = "saveLog" /\ exec'[s].pc = "markRunning"
      /\ exec'[s].log = Len(logs) + 1
      /\ jobs' = jobs /\ crashes' = crashes /\ faults' = faults
  BY DEF CallOpens
<1>3. exec[s].result # "ok"
  BY <1>2 DEF OutcomeInv, ResultLate
<1>4. \A t \in Slot : t # s => exec'[t].log \in 0 .. Len(logs)
  BY <1>1, <1>2 DEF OutcomeInv, LogsKept
<1>5. ResultLate'
  BY <1>2, <1>3 DEF OutcomeInv, ResultLate
<1>6. LogsKept'
  <2>1. /\ \A t \in Slot : exec'[t].pc \in {"idle"} \cup EarlyPc => exec'[t].log = 0
        /\ \A t \in Slot : exec'[t].pc \in LoggedPc => exec'[t].log # 0
    BY <1>1, <1>2 DEF OutcomeInv, LogsKept, EarlyPc
  <2>2. \A t \in Slot : exec'[t].log # 0 =>
           exec'[t].log \in 1 .. Len(logs') /\ logs'[exec'[t].log].job = exec'[t].job
    BY <1>1, <1>2 DEF OutcomeInv, LogsKept
  <2>3. \A t, u \in Slot : exec'[t].log # 0 /\ exec'[t].log = exec'[u].log => t = u
    BY <1>1, <1>2, <1>4 DEF OutcomeInv, LogsKept
  <2> QED
    BY <2>1, <2>2, <2>3 DEF LogsKept
<1>7. JobsKept'
  BY <1>2 DEF OutcomeInv, JobsKept, Processing
<1>8. StatusTold'
  <2> SUFFICES ASSUME NEW t \in Slot, exec'[t].log # 0
               PROVE  /\ exec'[t].pc \in {"markRunning", "lock", "handler", "okLog"}
                           => logs'[exec'[t].log].status = "RUNNING"
                      /\ exec'[t].pc = "okRow" \/ exec'[t].result = "ok"
                           => logs'[exec'[t].log].status = "SUCCESS"
                      /\ exec'[t].pc = "failLog"
                           => \/ logs'[exec'[t].log].status = "RUNNING"
                              \/ logs'[exec'[t].log].status = "SUCCESS" /\ faults' > 0
                      /\ exec'[t].pc \in {"failRow", "unlock", "finish"}
                           /\ exec'[t].result = "err" /\ faults' = 0
                           => logs'[exec'[t].log].status = "FAIL"
    BY DEF StatusTold
  <2>1. CASE t = s
    BY <2>1, <1>1, <1>2, <1>3
  <2>2. CASE t # s
    BY <2>2, <1>1, <1>2, <1>4 DEF OutcomeInv, StatusTold
  <2> QED
    BY <2>1, <2>2
<1>9. CompletedTold'
  <2> SUFFICES ASSUME NEW j \in Job, jobs[j].st = "completed"
               PROVE  \E l \in 1 .. Len(logs) + 1 :
                        /\ logs'[l].job = j /\ logs'[l].status = "SUCCESS"
                        /\ \A t \in Slot : exec'[t].log # l
    BY <1>1, <1>2 DEF CompletedTold, LogsOf
  <2>1. PICK l \in 1 .. Len(logs) : logs[l].job = j /\ logs[l].status = "SUCCESS"
                                   /\ \A t \in Slot : exec[t].log # l
    BY <1>1 DEF OutcomeInv, CompletedTold, LogsOf
  <2>2. l \in 1 .. Len(logs) + 1 /\ l # Len(logs) + 1 /\ logs'[l] = logs[l]
    BY <2>1, <1>1
  <2>3. \A t \in Slot : exec'[t].log # l
    <3> SUFFICES ASSUME NEW t \in Slot PROVE exec'[t].log # l
      OBVIOUS
    <3>1. t = s => exec'[t].log = Len(logs) + 1
      BY <1>2
    <3>2. t # s => exec'[t] = exec[t]
      BY <1>2
    <3> QED
      BY <2>1, <2>2, <3>1, <3>2
  <2> QED
    BY <2>1, <2>2, <2>3
<1>10. LogsExplained'
  <2> SUFFICES ASSUME faults = 0, crashes = 0, NEW l \in 1 .. Len(logs) + 1
               PROVE  \/ logs'[l].status = "FAIL"
                      \/ jobs[logs'[l].job].st = "completed"
                      \/ \E t \in Slot : exec'[t].log = l
    BY <1>1, <1>2 DEF LogsExplained
  <2>1. CASE l = Len(logs) + 1
    BY <2>1, <1>2
  <2>2. CASE l # Len(logs) + 1
    <3>1. l \in 1 .. Len(logs) /\ l # exec[s].log
      BY <2>2, <1>1, <1>2 DEF OutcomeInv, LogsKept, EarlyPc
    <3> QED
      BY <3>1, <1>1, <1>2 DEF OutcomeInv, LogsExplained
  <2> QED
    BY <2>1, <2>2
<1> QED
  BY <1>5, <1>6, <1>7, <1>8, <1>9, <1>10 DEF OutcomeInv

LEMMA OutcomeBegins ==
  ASSUME TypeOK, OutcomeInv, NEW s \in Slot, NEW j \in Job, CallBegins(s, j)
  PROVE  OutcomeInv'
<1> USE DEF Goes, Only
<1>1. /\ \A t \in Slot : t # s => exec'[t] = exec[t]
      /\ exec[s].pc = "idle" /\ exec'[s].pc = "load"
      /\ exec'[s].job = j /\ exec'[s].log = 0 /\ exec'[s].result = "err"
      /\ logs' = logs /\ crashes' = crashes /\ faults' = faults
  BY DEF CallBegins
<1>2. /\ jobs[j].st = "waiting" /\ jobs'[j].st = "active"
      /\ \A k \in Job : k # j => jobs'[k] = jobs[k]
  BY DEF CallBegins, TypeOK, JobState
<1>3. \A t \in Slot : exec[t].pc # "idle" => exec[t].job # j
  BY <1>2 DEF OutcomeInv, JobsKept
<1>4. exec[s].log = 0
  BY <1>1 DEF OutcomeInv, LogsKept
<1>5. ResultLate' /\ LogsKept'
  BY <1>1 DEF OutcomeInv, ResultLate, LogsKept, EarlyPc, LoggedPc
<1>6. JobsKept'
  <2>1. \A t \in Slot : exec'[t].pc # "idle" => jobs'[exec'[t].job].st = "active"
    <3> SUFFICES ASSUME NEW t \in Slot, t # s, exec[t].pc # "idle"
                 PROVE  jobs'[exec[t].job].st = "active"
      BY <1>1, <1>2
    <3> QED
      BY <1>2, <1>3, BusyCall DEF OutcomeInv, JobsKept
  <2>2. \A t, u \in Slot : exec'[t].pc # "idle" /\ exec'[u].pc # "idle" /\ exec'[t].job = exec'[u].job
                             => t = u
    BY <1>1, <1>3 DEF OutcomeInv, JobsKept
  <2>3. ASSUME crashes' = 0, NEW k \in Job, jobs'[k].st = "active"
        PROVE  Processing(k)'
    <3>1. CASE k = j
      BY <3>1, <1>1 DEF Processing
    <3>2. CASE k # j
      <4>1. PICK t \in Slot : exec[t].pc # "idle" /\ exec[t].job = k
        BY <3>2, <2>3, <1>1, <1>2 DEF OutcomeInv, JobsKept, Processing
      <4> QED
        BY <4>1, <1>1 DEF Processing
    <3> QED
      BY <3>1, <3>2
  <2> QED
    BY <2>1, <2>2, <2>3 DEF JobsKept
<1>7. StatusTold'
  BY <1>1 DEF OutcomeInv, StatusTold
<1>8. CompletedTold'
  BY <1>1, <1>2, <1>4 DEF OutcomeInv, CompletedTold, LogsOf, LogsKept
<1>9. LogsExplained'
  <2> SUFFICES ASSUME faults = 0, crashes = 0, NEW l \in DOMAIN logs
               PROVE  \/ logs[l].status = "FAIL"
                      \/ jobs'[logs[l].job].st = "completed"
                      \/ \E t \in Slot : exec'[t].log = l
    BY <1>1 DEF LogsExplained
  <2>1. logs[l].job \in Job /\ l # 0
    BY LogTyped
  <2>2. CASE \E t \in Slot : exec[t].log = l
    BY <2>1, <2>2, <1>1, <1>4
  <2> QED
    BY <2>1, <2>2, <1>2 DEF OutcomeInv, LogsExplained
<1> QED
  BY <1>5, <1>6, <1>7, <1>8, <1>9 DEF OutcomeInv

LEMMA OutcomeEnds ==
  ASSUME TypeOK, OutcomeInv, NEW s \in Slot, CallEnds(s)
  PROVE  OutcomeInv'
<1> USE DEF Only
<1> DEFINE j == exec[s].job
<1>0. j \in Job /\ exec[s] \in Call
  BY BusyCall DEF CallEnds
<1>1. /\ \A t \in Slot : t # s => exec'[t] = exec[t]
      /\ exec[s].pc = "finish"
      /\ exec'[s].pc = "idle" /\ exec'[s].log = 0 /\ exec'[s].result = "err"
      /\ logs' = logs /\ crashes' = crashes /\ faults' = faults
  BY DEF CallEnds, IdleExec
<1>2. /\ \A k \in Job : k # j => jobs'[k] = jobs[k]
      /\ jobs'[j].st # "active"
      /\ jobs'[j].st = "completed" <=> exec[s].result = "ok"
  BY <1>0 DEF CallEnds, TypeOK, JobState
<1>3. \A t \in Slot : t # s /\ exec[t].pc # "idle" => exec[t].job # j /\ exec[t].job \in Job
  BY <1>1, BusyCall DEF OutcomeInv, JobsKept
<1> HIDE DEF j
<1>4. ResultLate'
  BY <1>1 DEF OutcomeInv, ResultLate, EarlyPc
<1>5. LogsKept'
  <2>1. exec'[s].pc \notin LoggedPc
    BY <1>1 DEF LoggedPc
  <2> QED
    BY <1>1, <2>1 DEF OutcomeInv, LogsKept
<1>6. JobsKept'
  <2>1. \A t \in Slot : exec'[t].pc # "idle" => jobs'[exec'[t].job].st = "active"
    BY <1>1, <1>2, <1>3 DEF OutcomeInv, JobsKept
  <2>2. \A t, u \in Slot : exec'[t].pc # "idle" /\ exec'[u].pc # "idle" /\ exec'[t].job = exec'[u].job
                             => t = u
    BY <1>1 DEF OutcomeInv, JobsKept
  <2>3. ASSUME crashes' = 0, NEW k \in Job, jobs'[k].st = "active"
        PROVE  Processing(k)'
    <3>1. k # j /\ jobs[k].st = "active"
      BY <2>3, <1>2
    <3>2. PICK t \in Slot : exec[t].pc # "idle" /\ exec[t].job = k
      BY <3>1, <2>3, <1>1 DEF OutcomeInv, JobsKept, Processing
    <3> QED
      BY <3>1, <3>2, <1>1 DEF Processing, j
  <2> QED
    BY <2>1, <2>2, <2>3 DEF JobsKept
<1>7. StatusTold'
  BY <1>1 DEF OutcomeInv, StatusTold
<1>8. CompletedTold'
  <2> SUFFICES ASSUME NEW k \in Job, jobs'[k].st = "completed"
               PROVE  \E l \in LogsOf(k) : logs[l].status = "SUCCESS" /\ \A t \in Slot : exec'[t].log # l
    BY <1>1 DEF CompletedTold, LogsOf
  <2>1. CASE k = j
    <3>1. exec[s].result = "ok"
      BY <2>1, <1>2
    <3>2. exec[s].log # 0 /\ exec[s].log \in 1 .. Len(logs) /\ logs[exec[s].log].job = j
      BY <3>1 DEF OutcomeInv, LogsKept, ResultLate, j
    <3>3. logs[exec[s].log].status = "SUCCESS"
      BY <3>1, <3>2 DEF OutcomeInv, StatusTold
    <3>4. \A t \in Slot : exec'[t].log # exec[s].log
      BY <1>1, <3>2 DEF OutcomeInv, LogsKept
    <3> QED
      BY <2>1, <3>2, <3>3, <3>4 DEF LogsOf, TypeOK
  <2>2. CASE k # j
    <3>1. PICK l \in LogsOf(k) : logs[l].status = "SUCCESS" /\ \A t \in Slot : exec[t].log # l
      BY <2>2, <1>2 DEF OutcomeInv, CompletedTold
    <3>2. l # 0
      BY LogTyped DEF LogsOf
    <3> QED
      BY <3>1, <3>2, <1>1
  <2> QED
    BY <2>1, <2>2
<1>9. LogsExplained'
  <2> SUFFICES ASSUME faults = 0, crashes = 0, NEW l \in DOMAIN logs
               PROVE  \/ logs[l].status = "FAIL"
                      \/ jobs'[logs[l].job].st = "completed"
                      \/ \E t \in Slot : exec'[t].log = l
    BY <1>1 DEF LogsExplained
  <2>0. l \in 1 .. Len(logs) /\ l # 0 /\ logs[l].job \in Job
    BY LogTyped
  <2>1. CASE exec[s].log = l
    <3>1. logs[l].job = j /\ (exec[s].result = "ok" \/ logs[l].status = "FAIL")
      BY <2>0, <2>1, <1>0, <1>1 DEF OutcomeInv, LogsKept, StatusTold, Call, j
    <3> QED
      BY <3>1, <1>2
  <2>2. CASE exec[s].log # l /\ \E t \in Slot : exec[t].log = l
    BY <2>2, <1>1
  <2>3. CASE jobs[logs[l].job].st = "completed"
    <3>1. logs[l].job # j
      BY <2>3, <1>1 DEF OutcomeInv, JobsKept, j
    <3> QED
      BY <2>0, <2>3, <3>1, <1>2
  <2> QED
    BY <2>0, <2>1, <2>2, <2>3 DEF OutcomeInv, LogsExplained
<1> QED
  BY <1>4, <1>5, <1>6, <1>7, <1>8, <1>9 DEF OutcomeInv

LEMMA OutcomeCrash ==
  ASSUME TypeOK, OutcomeInv, NEW n \in Node, Crash(n)
  PROVE  OutcomeInv'
<1>1. /\ \A t \in Slot : t[1] # n => exec'[t] = exec[t]
      /\ \A t \in Slot : t[1] = n =>
            exec'[t].pc = "idle" /\ exec'[t].log = 0 /\ exec'[t].result = "err"
      /\ UNCHANGED <<logs, jobs, faults>> /\ crashes' = crashes + 1 /\ crashes \in Nat
  BY DEF Crash, IdleExec, TypeOK
<1>2. crashes' # 0
  BY <1>1
<1>3. ResultLate' /\ LogsKept'
  BY <1>1 DEF OutcomeInv, ResultLate, LogsKept, EarlyPc, LoggedPc
<1>4. JobsKept'
  BY <1>1, <1>2 DEF OutcomeInv, JobsKept
<1>5. StatusTold'
  BY <1>1 DEF OutcomeInv, StatusTold
<1>6. CompletedTold'
  <2>1. \A k \in Job : \A l \in LogsOf(k) : l # 0
    BY LogTyped DEF LogsOf
  <2> QED
    BY <1>1, <2>1 DEF OutcomeInv, CompletedTold, LogsOf
<1>7. LogsExplained'
  BY <1>2 DEF LogsExplained
<1> QED
  BY <1>3, <1>4, <1>5, <1>6, <1>7 DEF OutcomeInv

\* BullMQ moves jobs that no call runs; it completes none.
LEMMA QueueSteps ==
  ASSUME TypeOK, NEW j \in Job, Stalled(j) \/ TriggerTaskNow(j) \/ SchedulerFires(j)
  PROVE  /\ UNCHANGED <<exec, logs, faults, crashes>>
         /\ \A k \in Job : k # j => jobs'[k] = jobs[k]
         /\ jobs[j].st \in {"active", "absent"} /\ jobs'[j].st \in {"waiting", "failed"}
         /\ jobs[j].st = "active" => ~Processing(j)
         /\ jobs'[j].made = jobs[j].made
         /\ jobs[j].st = "absent" => jobs'[j].st = "waiting" /\ jobs'[j].stalls = jobs[j].stalls
         /\ jobs'[j].st = "waiting" /\ jobs[j].st = "active" => jobs'[j].stalls = jobs[j].stalls + 1
         /\ jobs'[j].st = "failed" => jobs'[j].stalls = jobs[j].stalls
<1>1. jobs[j] \in JobState /\ jobs \in [Job -> JobState]
  BY DEF TypeOK
<1>2. CASE Stalled(j)
  BY <1>1, <1>2 DEF Stalled, JobState
<1>3. CASE TriggerTaskNow(j)
  BY <1>1, <1>3 DEF TriggerTaskNow, JobState
<1>4. CASE SchedulerFires(j)
  BY <1>1, <1>4 DEF SchedulerFires, JobState
<1> QED
  BY <1>2, <1>3, <1>4

LEMMA OutcomeQueue ==
  ASSUME TypeOK, OutcomeInv, NEW j \in Job, Stalled(j) \/ TriggerTaskNow(j) \/ SchedulerFires(j)
  PROVE  OutcomeInv'
<1>1. /\ UNCHANGED <<exec, logs, faults, crashes>>
      /\ \A k \in Job : k # j => jobs'[k] = jobs[k]
      /\ jobs[j].st \in {"active", "absent"} /\ jobs'[j].st \in {"waiting", "failed"}
      /\ jobs[j].st = "active" => ~Processing(j)
  BY QueueSteps
<1>2. \A s \in Slot : exec[s].pc # "idle" => exec[s].job # j /\ exec[s].job \in Job
  BY <1>1, BusyCall DEF OutcomeInv, JobsKept, Processing
<1>3. ResultLate' /\ LogsKept' /\ StatusTold'
  BY <1>1 DEF OutcomeInv, ResultLate, LogsKept, StatusTold
<1>4. JobsKept'
  BY <1>1, <1>2 DEF OutcomeInv, JobsKept, Processing
<1>5. CompletedTold'
  BY <1>1 DEF OutcomeInv, CompletedTold, LogsOf
<1>6. LogsExplained'
  <2>1. \A l \in DOMAIN logs : logs[l].job \in Job
    BY LogTyped
  <2>2. \A k \in Job : jobs[k].st = "completed" => jobs'[k].st = "completed"
    BY <1>1
  <2> QED
    BY <1>1, <2>1, <2>2 DEF OutcomeInv, LogsExplained
<1> QED
  BY <1>3, <1>4, <1>5, <1>6 DEF OutcomeInv

LEMMA OutcomeQuiet ==
  ASSUME OutcomeInv, UNCHANGED <<exec, jobs, logs, faults, crashes>>
  PROVE  OutcomeInv'
BY DEF OutcomeInv, ResultLate, LogsKept, JobsKept, Processing, StatusTold, CompletedTold,
       LogsOf, LogsExplained

\* Calls, jobs and logs agree with one another, whatever fails, stalls or crashes.
THEOREM OutcomeInvariant == Spec => []OutcomeInv
<1>1. TypeOK /\ OutcomeInv /\ [Next]_vars => OutcomeInv'
  BY StepKinds, OutcomeMoves, OutcomeOpens, OutcomeBegins, OutcomeEnds, OutcomeCrash,
     OutcomeQueue, OutcomeQuiet
<1> QED
  BY OutcomeInit, <1>1, TypeCorrect, PTL DEF Spec

\* A completed job has a SUCCESS log, and without failures a failed job only FAIL logs.
THEOREM OutcomesMatch == Spec => []JobOutcomeMatchesLog
<1>1. TypeOK /\ OutcomeInv => JobOutcomeMatchesLog
  <2> SUFFICES ASSUME TypeOK, OutcomeInv, NEW j \in Job
               PROVE  /\ jobs[j].st = "completed" => \E l \in LogsOf(j) : logs[l].status = "SUCCESS"
                      /\ jobs[j].st = "failed" /\ faults = 0 /\ crashes = 0
                           => \A l \in LogsOf(j) : logs[l].status = "FAIL"
    BY DEF JobOutcomeMatchesLog
  <2>1. jobs[j].st = "completed" => \E l \in LogsOf(j) : logs[l].status = "SUCCESS"
    BY DEF OutcomeInv, CompletedTold
  <2>2. ASSUME jobs[j].st = "failed", faults = 0, crashes = 0, NEW l \in LogsOf(j)
        PROVE  logs[l].status = "FAIL"
    <3>1. l \in DOMAIN logs /\ l # 0 /\ logs[l].job = j
      BY LogTyped DEF LogsOf
    <3>2. \A s \in Slot : exec[s].log # l
      <4> SUFFICES ASSUME NEW s \in Slot, exec[s].log = l PROVE FALSE
        OBVIOUS
      <4>1. exec[s].pc # "idle" /\ exec[s].job = j
        BY <3>1 DEF OutcomeInv, LogsKept
      <4> QED
        BY <4>1, <2>2 DEF OutcomeInv, JobsKept
    <3> QED
      BY <3>1, <3>2, <2>2 DEF OutcomeInv, LogsExplained
  <2> QED
    BY <2>1, <2>2
<1> QED
  BY <1>1, OutcomeInvariant, TypeCorrect, PTL

\* The status of a log row only moves forward.
THEOREM LogsMoveForward == Spec => LogForward
<1> DEFINE Forward(l) ==
      logs'[l].status # logs[l].status =>
        \/ logs[l].status = "RUNNING"
        \/ logs[l].status = "SUCCESS" /\ logs'[l].status = "FAIL" /\ faults > 0
<1>1. TypeOK /\ OutcomeInv /\ [Next]_vars => [\A l \in DOMAIN logs : Forward(l)]_vars
  <2> SUFFICES ASSUME TypeOK, OutcomeInv, [Next]_vars, NEW l \in DOMAIN logs
               PROVE  Forward(l)
    OBVIOUS
  <2>0. l \in 1 .. Len(logs) /\ l # 0
    BY DEF TypeOK
  <2>1. ASSUME NEW s \in Slot, CallMoves(s) PROVE Forward(l)
    <3>1. /\ l # exec[s].log => logs'[l] = logs[l]
          /\ Goes(s, "failLog", "failRow") => logs'[exec[s].log].status = "FAIL"
          /\ UNCHANGED logs \/ Goes(s, "okLog", "okRow") \/ Goes(s, "failLog", "failRow")
      BY <2>0, <2>1, MovesLogs DEF OutcomeInv
    <3>2. CASE l = exec[s].log
      BY <2>0, <3>1, <3>2 DEF OutcomeInv, StatusTold, Goes
    <3> QED
      BY <3>1, <3>2
  <2>2. ASSUME NEW s \in Slot, CallOpens(s) PROVE Forward(l)
    <3>1. exec[s].job \in Job
      BY <2>2, BusyCall DEF CallOpens, Goes
    <3> QED
      BY <2>0, <2>2, <3>1, LogAppended DEF CallOpens
  <2>3. UNCHANGED logs => Forward(l)
    OBVIOUS
  <2>4. ASSUME NEW s \in Slot, CallEnds(s) \/ \E j \in Job : CallBegins(s, j) PROVE UNCHANGED logs
    BY <2>4 DEF CallEnds, CallBegins
  <2>5. ASSUME NEW n \in Node, Crash(n) PROVE UNCHANGED logs
    BY <2>5 DEF Crash
  <2>6. ASSUME NEW j \in Job, Stalled(j) \/ TriggerTaskNow(j) \/ SchedulerFires(j) PROVE UNCHANGED logs
    BY <2>6, QueueSteps
  <2> QED
    BY <2>1, <2>2, <2>3, <2>4, <2>5, <2>6, StepKinds
<1> QED
  BY <1>1, OutcomeInvariant, TypeCorrect, PTL DEF Spec, LogForward

-----------------------------------------------------------------------------
(* The lock *)

\* Places from which a call with the lock key goes on to delete it.
HolderPc == LoggedPc \ {"markRunning", "lock"}

\* A step of a call keeps the lock with a call that deletes it.
LEMMA LockExecute ==
  ASSUME TypeOK, LockNotLeaked, NEW s \in Slot, Execute(s)
  PROVE  LockNotLeaked'
<1> USE DEF Free
<1>0. exec[s].pc # "idle"
  BY DEF Execute, LoadTask, SaveLog, MarkRunning, EnterUnguarded, Acquire, Reject,
         LockCallFails, RecordSuccess, WriteBackSuccess, RecordFailure,
         WriteBackFailure, Unlock, Finish
<1>b. exec[s] \in Call /\ exec \in [Slot -> Call \cup {IdleExec}] /\ faults \in Nat /\ exec[s].log \in Nat
  BY <1>0, BusyCall DEF TypeOK
<1> SUFFICES ASSUME faults' = 0, crashes' = 0, lock' # 0
             PROVE  \E t \in Slot : exec'[t].log = lock' /\ exec'[t].lockKey /\ exec'[t].pc \in HolderPc
  BY DEF LockNotLeaked, HolderPc
<1>q. ASSUME lock' = lock, faults' = faults, crashes' = crashes,
             \A t \in Slot : t # s => exec'[t] = exec[t],
             exec[s].lockKey /\ exec[s].pc \in HolderPc =>
               exec'[s].log = exec[s].log /\ exec'[s].lockKey /\ exec'[s].pc \in HolderPc
      PROVE  \E t \in Slot : exec'[t].log = lock' /\ exec'[t].lockKey /\ exec'[t].pc \in HolderPc
  <2>1. PICK t \in Slot : exec[t].log = lock /\ exec[t].lockKey /\ exec[t].pc \in HolderPc
    BY <1>q DEF LockNotLeaked, HolderPc
  <2> QED
    BY <1>q, <2>1
<1> USE DEF CallSucceeds, CallFails, Goto, ThrowOutsideTry
<1>1. CASE LoadTask(s)
  BY <1>1, <1>b, <1>q DEF LoadTask, HolderPc, LoggedPc, Call
<1>2. CASE SaveLog(s)
  BY <1>2, <1>b, <1>q DEF SaveLog, HolderPc, LoggedPc, Call
<1>3. CASE MarkRunning(s)
  BY <1>3, <1>b, <1>q DEF MarkRunning, HolderPc, LoggedPc, Call
<1>4. CASE EnterUnguarded(s)
  BY <1>4, <1>b, <1>q DEF EnterUnguarded, HolderPc, LoggedPc, Call
<1>5. CASE Acquire(s)
  BY <1>5, <1>b DEF Acquire, HolderPc, LoggedPc, Call
<1>6. CASE Reject(s)
  BY <1>6, <1>b, <1>q DEF Reject, HolderPc, LoggedPc, Call
<1>7. CASE LockCallFails(s)
  BY <1>7, <1>b DEF LockCallFails
<1>8. CASE RecordSuccess(s)
  BY <1>8, <1>b, <1>q DEF RecordSuccess, HolderPc, LoggedPc, Call
<1>9. CASE WriteBackSuccess(s)
  BY <1>9, <1>b, <1>q DEF WriteBackSuccess, HolderPc, LoggedPc, Call
<1>10. CASE RecordFailure(s)
  BY <1>10, <1>b, <1>q DEF RecordFailure, HolderPc, LoggedPc, Call
<1>11. CASE WriteBackFailure(s)
  BY <1>11, <1>b, <1>q DEF WriteBackFailure, HolderPc, LoggedPc, Call
<1>12. CASE Unlock(s)
  <2>1. faults' = faults /\ exec[s].pc = "unlock" /\ crashes' = crashes
        /\ exec' = [exec EXCEPT ![s].pc = "finish"]
        /\ lock' = IF exec[s].lockKey THEN 0 ELSE lock
    BY <1>12, <1>b DEF Unlock
  <2>2. ~exec[s].lockKey /\ lock' = lock
    BY <2>1
  <2> QED
    BY <2>1, <2>2, <1>b, <1>q
<1>13. CASE Finish(s)
  BY <1>13, <1>b, <1>q DEF Finish, HolderPc, LoggedPc, Call
<1> QED
  BY <1>1, <1>2, <1>3, <1>4, <1>5, <1>6, <1>7, <1>8, <1>9, <1>10, <1>11, <1>12,
     <1>13 DEF Execute

\* While nothing fails, a held lock belongs to a call that is going to release it.
THEOREM LockReleased == Spec => []LockNotLeaked
<1>1. Init => LockNotLeaked
  BY DEF Init, LockNotLeaked
<1>2. TypeOK /\ LockNotLeaked /\ [Next]_vars => LockNotLeaked'
  <2> SUFFICES ASSUME TypeOK, LockNotLeaked, [Next]_vars PROVE LockNotLeaked'
    OBVIOUS
  <2> USE DEF Free
  <2>b. exec \in [Slot -> Call \cup {IdleExec}]
    BY DEF TypeOK
  <2>1. ASSUME NEW s \in Slot, NEW ok \in BOOLEAN, HandlerEnds(s, ok)
        PROVE  LockNotLeaked'
    <3>1. exec[s].pc = "handler" /\ exec' = [exec EXCEPT ![s].pc = IF ok THEN "okLog" ELSE "failLog"]
          /\ UNCHANGED <<lock, faults, crashes>>
      BY <2>1 DEF HandlerEnds, Goto
    <3>2. exec[s] \in Call
      BY <3>1, BusyCall
    <3> QED
      BY <2>b, <3>1, <3>2 DEF LockNotLeaked, LoggedPc, Call
  <2>2. ASSUME NEW s \in Slot, HandlerTimesOut(s)
        PROVE  LockNotLeaked'
    <3>1. exec[s].pc = "handler" /\ exec' = [exec EXCEPT ![s].pc = "failLog"]
          /\ UNCHANGED <<lock, faults, crashes>>
      BY <2>2 DEF HandlerTimesOut, Goto
    <3>2. exec[s] \in Call
      BY <3>1, BusyCall
    <3> QED
      BY <2>b, <3>1, <3>2 DEF LockNotLeaked, LoggedPc, Call
  <2>3. ASSUME NEW h \in handlers, NEW ok \in BOOLEAN, OrphanEnds(h, ok)
        PROVE  UNCHANGED <<exec, lock, faults, crashes>>
    BY <2>3 DEF OrphanEnds
  <2>4. ASSUME NEW s \in Slot, NEW j \in Job, Pick(s, j)
        PROVE  LockNotLeaked'
    BY <2>4, <2>b DEF Pick, LockNotLeaked, LoggedPc, IdleExec
  <2>5. ASSUME NEW j \in Job, TriggerTaskNow(j) \/ SchedulerFires(j) \/ Stalled(j)
        PROVE  UNCHANGED <<exec, lock, faults, crashes>>
    BY <2>5 DEF TriggerTaskNow, SchedulerFires, Stalled
  <2>6. ASSUME NEW n \in Node, Crash(n)
        PROVE  LockNotLeaked'
    BY <2>6 DEF Crash, LockNotLeaked, TypeOK
  <2>7. LockExpires => LockNotLeaked'
    BY DEF LockExpires, LockNotLeaked
  <2>8. Admin \/ UNCHANGED vars => UNCHANGED <<exec, lock, faults, crashes>>
    BY DEF Admin, AdminOperation, ChangeEnable, Edit, DelByIds, Resync, vars
  <2>9. CASE UNCHANGED <<exec, lock, faults, crashes>>
    BY <2>9 DEF LockNotLeaked
  <2> QED
    BY <2>1, <2>2, <2>3, <2>4, <2>5, <2>6, <2>7, <2>8, <2>9, LockExecute
       DEF Next, Handlers, Queue, Environment
<1> QED
  BY <1>1, <1>2, TypeCorrect, PTL DEF Spec

-----------------------------------------------------------------------------
(* Effects *)

\* Effects and the timeout mark change only where a handler ends or times out.
LEMMA EffectSteps ==
  ASSUME [Next]_vars
  PROVE  \/ \E s \in Slot, ok \in BOOLEAN : HandlerEnds(s, ok)
         \/ \E h \in handlers, ok \in BOOLEAN : OrphanEnds(h, ok)
         \/ effects' = effects /\ ("timeout" \in breach => "timeout" \in breach')
<1>1. ASSUME NEW s \in Slot, Execute(s)
      PROVE  effects' = effects /\ ("timeout" \in breach => "timeout" \in breach')
  BY <1>1 DEF Execute, LoadTask, SaveLog, MarkRunning, EnterUnguarded, Acquire, Reject,
         LockCallFails, RecordSuccess, WriteBackSuccess, RecordFailure,
         WriteBackFailure, Unlock, Finish
<1>2. ASSUME NEW s \in Slot, HandlerTimesOut(s)
      PROVE  effects' = effects /\ ("timeout" \in breach => "timeout" \in breach')
  BY <1>2 DEF HandlerTimesOut
<1>3. ASSUME Queue
      PROVE  effects' = effects /\ breach' = breach
  BY <1>3 DEF Queue, TriggerTaskNow, SchedulerFires, Stalled, Pick
<1>4. ASSUME Environment
      PROVE  effects' = effects /\ ("timeout" \in breach => "timeout" \in breach')
  BY <1>4 DEF Environment, Crash, LockExpires
<1>5. ASSUME Admin \/ UNCHANGED vars
      PROVE  effects' = effects /\ breach' = breach
  BY <1>5 DEF Admin, AdminOperation, ChangeEnable, Edit, DelByIds, Resync, vars
<1> QED
  BY <1>1, <1>2, <1>3, <1>4, <1>5 DEF Next, Handlers

\* Without a failure, a call that has earned its success keeps it, or completes
\* its job; a completed job stays so.
LEMMA EarnedKept ==
  ASSUME TypeOK, OutcomeInv, [Next]_vars, faults' = 0, crashes' = 0, NEW j \in Job,
         jobs[j].st = "completed" \/ Earned(j)
  PROVE  jobs'[j].st = "completed" \/ Earned(j)'
<1> USE DEF Goes, Only
<1>1. ASSUME NEW s \in Slot, CallMoves(s)
      PROVE  jobs'[j].st = "completed" \/ Earned(j)'
  <2>1. faults' # faults + 1
    BY DEF TypeOK
  <2>2. ASSUME NEW t \in Slot, exec[t].pc # "idle", exec[t].job = j,
               exec[t].pc \in {"okLog", "okRow"} \/ exec[t].result = "ok"
        PROVE  Earned(j)'
    <3>1. CASE t = s
      <4>1. exec[s].result = "ok" => exec[s].pc \in {"unlock", "finish"}
        BY DEF OutcomeInv, ResultLate
      <4>2. exec'[s].job = j
        BY <1>1, <2>2, <3>1 DEF CallMoves
      <4>3. exec'[s].pc # "idle" /\ (exec'[s].pc \in {"okLog", "okRow"} \/ exec'[s].result = "ok")
        BY <1>1, <2>1, <2>2, <3>1, <4>1 DEF CallMoves
      <4> QED
        BY <4>2, <4>3 DEF Earned
    <3>2. CASE t # s
      BY <1>1, <2>2, <3>2 DEF CallMoves, Earned
    <3> QED
      BY <3>1, <3>2
  <2>3. jobs' = jobs
    BY <1>1 DEF CallMoves
  <2> QED
    BY <2>2, <2>3 DEF Earned
<1>2. ASSUME NEW s \in Slot, CallOpens(s)
      PROVE  jobs'[j].st = "completed" \/ Earned(j)'
  BY <1>2 DEF CallOpens, OutcomeInv, ResultLate, Earned
<1>3. ASSUME NEW s \in Slot, NEW k \in Job, CallBegins(s, k)
      PROVE  jobs'[j].st = "completed" \/ Earned(j)'
  BY <1>3 DEF CallBegins, Earned, TypeOK, JobState
<1>4. ASSUME NEW s \in Slot, CallEnds(s)
      PROVE  jobs'[j].st = "completed" \/ Earned(j)'
  <2> DEFINE k == exec[s].job
  <2>0. k \in Job /\ exec[s].pc = "finish" /\ jobs[k].st = "active"
    BY <1>4, BusyCall DEF CallEnds, OutcomeInv, JobsKept
  <2>1. /\ \A t \in Slot : t # s => exec'[t] = exec[t]
        /\ jobs'[k].st = "completed" <=> exec[s].result = "ok"
        /\ k # j => jobs'[j] = jobs[j]
    BY <1>4, <2>0 DEF CallEnds, TypeOK, JobState
  <2>2. CASE jobs[j].st = "completed"
    BY <2>0, <2>1, <2>2
  <2>3. ASSUME NEW t \in Slot, exec[t].pc # "idle", exec[t].job = j,
               exec[t].pc \in {"okLog", "okRow"} \/ exec[t].result = "ok"
        PROVE  jobs'[j].st = "completed" \/ Earned(j)'
    <3>1. CASE t = s
      BY <2>0, <2>1, <2>3, <3>1
    <3>2. CASE t # s
      BY <2>1, <2>3, <3>2 DEF Earned
    <3> QED
      BY <3>1, <3>2
  <2> QED
    BY <2>2, <2>3 DEF Earned
<1>5. ASSUME NEW n \in Node, Crash(n)
      PROVE  FALSE
  BY <1>5 DEF Crash, TypeOK
<1>6. ASSUME NEW k \in Job, Stalled(k) \/ TriggerTaskNow(k) \/ SchedulerFires(k)
      PROVE  jobs'[j].st = "completed" \/ Earned(j)'
  <2>1. /\ exec' = exec
        /\ k # j => jobs'[j] = jobs[j]
        /\ jobs[k].st \in {"active", "absent"}
    BY <1>6, QueueSteps
  <2> QED
    BY <2>1 DEF Earned
<1>7. CASE UNCHANGED <<exec, jobs, logs, faults, crashes>>
  BY <1>7 DEF Earned
<1> QED
  BY <1>1, <1>2, <1>3, <1>4, <1>5, <1>6, <1>7, StepKinds

\* Failures and crashes are never forgotten.
LEMMA DisturbancesStay ==
  ASSUME TypeOK, [Next]_vars
  PROVE  (faults' = 0 => faults = 0) /\ (crashes' = 0 => crashes = 0)
<1>1. faults \in Nat /\ crashes \in Nat
  BY DEF TypeOK
<1>2. ASSUME NEW s \in Slot, CallMoves(s) \/ CallOpens(s) \/ CallEnds(s)
      PROVE  (faults' = 0 => faults = 0) /\ (crashes' = 0 => crashes = 0)
  BY <1>1, <1>2 DEF CallMoves, CallOpens, CallEnds
<1>3. ASSUME NEW s \in Slot, NEW j \in Job, CallBegins(s, j)
      PROVE  (faults' = 0 => faults = 0) /\ (crashes' = 0 => crashes = 0)
  BY <1>3 DEF CallBegins
<1>4. ASSUME NEW n \in Node, Crash(n)
      PROVE  (faults' = 0 => faults = 0) /\ (crashes' = 0 => crashes = 0)
  BY <1>1, <1>4 DEF Crash
<1>5. ASSUME NEW j \in Job, Stalled(j) \/ TriggerTaskNow(j) \/ SchedulerFires(j)
      PROVE  UNCHANGED <<faults, crashes>>
  BY <1>5, QueueSteps
<1> QED
  BY <1>2, <1>3, <1>4, <1>5, StepKinds

\* What the end of an awaited handler does.
LEMMA HandlerEndsWith ==
  ASSUME TypeOK, OutcomeInv, NEW s \in Slot, NEW ok \in BOOLEAN, HandlerEnds(s, ok)
  PROVE  /\ exec[s].job \in Job /\ jobs[exec[s].job].st = "active"
         /\ exec[s].pc = "handler" /\ exec'[s].job = exec[s].job
         /\ exec'[s].pc = IF ok THEN "okLog" ELSE "failLog"
         /\ UNCHANGED <<jobs, logs, faults, crashes, breach>>
         /\ \A j \in Job : effects'[j] = IF ok /\ j = exec[s].job THEN effects[j] + 1 ELSE effects[j]
<1>1. exec[s].pc = "handler" /\ UNCHANGED <<jobs, logs, faults, crashes, breach>>
  BY DEF HandlerEnds
<1>2. exec[s] \in Call /\ exec[s].job \in Job /\ jobs[exec[s].job].st = "active"
      /\ exec \in [Slot -> Call \cup {IdleExec}] /\ effects \in [Job -> Nat]
  BY <1>1, BusyCall DEF OutcomeInv, JobsKept, TypeOK
<1>3. logs[exec[s].log].job = exec[s].job
  BY <1>1 DEF OutcomeInv, LogsKept, LoggedPc
<1>4. effects' = [effects EXCEPT ![exec[s].job] = IF ok THEN @ + 1 ELSE @]
  BY <1>3 DEF HandlerEnds, Settle
<1>5. exec'[s].job = exec[s].job /\ exec'[s].pc = IF ok THEN "okLog" ELSE "failLog"
  BY <1>2 DEF HandlerEnds, Goto, Call
<1>6. \A j \in Job : effects'[j] = IF ok /\ j = exec[s].job THEN effects[j] + 1 ELSE effects[j]
  BY <1>2, <1>4
<1> QED
  BY <1>1, <1>2, <1>5, <1>6

LEMMA EffectOnceStep ==
  ASSUME TypeOK, ExecInv, OutcomeInv, EffectOnce, [Next]_vars
  PROVE  EffectOnce'
<1> SUFFICES ASSUME faults' = 0, crashes' = 0, "timeout" \notin breach', NEW j \in Job
             PROVE  \/ effects'[j] = 0
                    \/ effects'[j] = 1 /\ (jobs'[j].st = "completed" \/ Earned(j)')
  BY DEF EffectOnce
<1>1. faults = 0 /\ crashes = 0
  BY DisturbancesStay
<1>2. "timeout" \notin breach =>
        effects[j] = 0 \/ (effects[j] = 1 /\ (jobs[j].st = "completed" \/ Earned(j)))
  BY <1>1 DEF EffectOnce
<1>3. CASE effects' = effects /\ ("timeout" \in breach => "timeout" \in breach')
  BY <1>2, <1>3, EarnedKept
<1>4. ASSUME NEW h \in handlers, NEW ok \in BOOLEAN, OrphanEnds(h, ok)
      PROVE  FALSE
  BY <1>4 DEF OrphanEnds, ExecInv, HandlersAwaited
<1>5. ASSUME NEW s \in Slot, NEW ok \in BOOLEAN, HandlerEnds(s, ok)
      PROVE  \/ effects'[j] = 0
             \/ effects'[j] = 1 /\ (jobs'[j].st = "completed" \/ Earned(j)')
  <2>1. /\ exec[s].job \in Job /\ jobs[exec[s].job].st = "active"
        /\ exec[s].pc = "handler" /\ exec'[s].job = exec[s].job
        /\ exec'[s].pc = IF ok THEN "okLog" ELSE "failLog"
        /\ UNCHANGED <<jobs, logs, faults, crashes, breach>>
        /\ effects'[j] = IF ok /\ j = exec[s].job THEN effects[j] + 1 ELSE effects[j]
    BY <1>5, HandlerEndsWith
  <2>2. CASE ok /\ j = exec[s].job
    <3>1. ~Earned(j)
      <4> SUFFICES ASSUME NEW t \in Slot, exec[t].pc # "idle", exec[t].job = j,
                          exec[t].pc \in {"okLog", "okRow"} \/ exec[t].result = "ok"
                   PROVE  FALSE
        BY DEF Earned
      <4>1. t = s
        BY <2>1, <2>2 DEF OutcomeInv, JobsKept
      <4> QED
        BY <4>1, <2>1 DEF OutcomeInv, ResultLate
    <3>2. effects[j] = 0
      BY <1>2, <2>1, <2>2, <3>1
    <3>3. Earned(j)'
      BY <2>1, <2>2 DEF Earned
    <3> QED
      BY <2>1, <2>2, <3>2, <3>3
  <2>3. CASE ~(ok /\ j = exec[s].job)
    BY <1>2, <2>1, <2>3, EarnedKept
  <2> QED
    BY <2>2, <2>3
<1> QED
  BY <1>3, <1>4, <1>5, EffectSteps

\* Without a failed call, a crash or a timeout, no job has its effect twice.
THEOREM EffectsSingle == Spec => []SingleEffectUnlessDisturbed
<1>1. Init => EffectOnce
  <2> SUFFICES ASSUME Init, NEW j \in Job PROVE effects[j] = 0
    BY DEF EffectOnce
  <2> QED
    BY DEF Init
<1>2. EffectOnce => SingleEffectUnlessDisturbed
  <2> SUFFICES ASSUME EffectOnce, faults = 0, crashes = 0, "timeout" \notin breach, NEW j \in Job
               PROVE  effects[j] <= 1
    BY DEF SingleEffectUnlessDisturbed
  <2>1. effects[j] = 0 \/ effects[j] = 1
    BY DEF EffectOnce
  <2> QED
    BY <2>1
<1> QED
  BY <1>1, <1>2, EffectOnceStep, OutcomeInvariant, ProtocolInvariant, TypeCorrect, PTL DEF Spec

-----------------------------------------------------------------------------
(* A DELAY task is disabled in the end *)

\* What a step of a call that meets no failure does to the row.
LEMMA RowExecute ==
  ASSUME TypeOK, NEW s \in Slot, Execute(s), faults' = faults
  PROVE  \/ /\ row' = row
            /\ ~Goes(s, "failRow", "unlock") /\ ~Goes(s, "okRow", "unlock")
            /\ Goes(s, "load", "finish") => Refused(s)
         \/ /\ row' = [row EXCEPT !.enable = ~IsDelay /\ exec[s].task.enable]
            /\ Goes(s, "okRow", "unlock")
         \/ /\ row' = [row EXCEPT !.enable = ~(IsDelay /\ IsFinalAttempt(exec[s].job))
                                              /\ exec[s].task.enable]
            /\ Goes(s, "failRow", "unlock")
<1> USE DEF CallSucceeds, CallFails, Goto, ThrowOutsideTry, Goes
<1>b. exec \in [Slot -> Call \cup {IdleExec}] /\ faults \in Nat
  BY DEF TypeOK
<1>1. CASE exec[s].pc = "idle"
  BY <1>1 DEF Execute, LoadTask, SaveLog, MarkRunning, EnterUnguarded, Acquire, Reject,
         LockCallFails, RecordSuccess, WriteBackSuccess, RecordFailure,
         WriteBackFailure, Unlock, Finish
<1>2. CASE exec[s].pc # "idle"
  <2>1. exec[s] \in Call
    BY <1>2, BusyCall
  <2>2. CASE LoadTask(s)
    <3>1. row' = row /\ exec[s].pc = "load"
      BY <2>2 DEF LoadTask
    <3>2. Refused(s) \/ exec' = [exec EXCEPT ![s].pc = "saveLog", ![s].task = row]
      BY <1>b, <2>2 DEF LoadTask
    <3>3. Goes(s, "load", "finish") => Refused(s)
      BY <1>b, <2>1, <3>2 DEF Call
    <3> QED
      BY <3>1, <3>3
  <2>3. CASE WriteBackSuccess(s)
    BY <1>b, <2>1, <2>3 DEF WriteBackSuccess, Call
  <2>4. CASE WriteBackFailure(s)
    BY <1>b, <2>1, <2>4 DEF WriteBackFailure, Call
  <2>5. CASE \/ SaveLog(s) \/ MarkRunning(s) \/ EnterUnguarded(s) \/ Acquire(s) \/ Reject(s)
             \/ LockCallFails(s) \/ RecordSuccess(s) \/ RecordFailure(s) \/ Unlock(s) \/ Finish(s)
    BY <2>5 DEF SaveLog, MarkRunning, EnterUnguarded, Acquire, Reject,
         LockCallFails, RecordSuccess, RecordFailure, Unlock, Finish
  <2> QED
    BY <2>2, <2>3, <2>4, <2>5 DEF Execute
<1> QED
  BY <1>1, <1>2

\* No other step writes the row, unless an administrator acts.
LEMMA RowSteps ==
  ASSUME [Next]_vars, admin \in Nat, admin' = 0
  PROVE  admin = 0 /\ (row' = row \/ \E s \in Slot : Execute(s))
<1>1. ASSUME NEW s \in Slot, Execute(s) PROVE admin' = admin
  BY <1>1 DEF Execute, LoadTask, SaveLog, MarkRunning, EnterUnguarded, Acquire, Reject,
         LockCallFails, RecordSuccess, WriteBackSuccess, RecordFailure,
         WriteBackFailure, Unlock, Finish
<1>2. Handlers => UNCHANGED <<row, admin>>
  BY DEF Handlers, HandlerEnds, HandlerTimesOut, OrphanEnds
<1>3. Queue => UNCHANGED <<row, admin>>
  BY DEF Queue, TriggerTaskNow, SchedulerFires, Stalled, Pick
<1>4. Environment => UNCHANGED <<row, admin>>
  BY DEF Environment, Crash, LockExpires
<1>5. Admin => admin' = admin + 1
  BY DEF Admin, AdminOperation, ChangeEnable, Edit, DelByIds, Resync
<1>6. UNCHANGED vars => UNCHANGED <<row, admin>>
  BY DEF vars
<1> QED
  BY <1>1, <1>2, <1>3, <1>4, <1>5, <1>6 DEF Next

\* Without failures the pending job of an enabled task stays pending, or leaves another.
LEMMA PendingKept ==
  ASSUME TypeOK, OutcomeInv, [Next]_vars, faults' = 0, crashes' = 0,
         NEW j \in Job, Pending(j),
         \A s \in Slot : /\ ~Goes(s, "failRow", "unlock") /\ ~Goes(s, "okRow", "unlock")
                         /\ ~Goes(s, "load", "finish")
  PROVE  \E k \in Job : Pending(k)'
<1> USE DEF Goes, Only
<1>0. faults = 0 /\ crashes = 0 /\ faults' # faults + 1
  BY DisturbancesStay
<1>1. ASSUME NEW s \in Slot, CallMoves(s)
      PROVE  Pending(j)'
  <2>1. jobs' = jobs /\ \A t \in Slot : t # s => exec'[t] = exec[t]
    BY <1>1 DEF CallMoves
  <2>2. CASE jobs[j].st = "waiting"
    BY <2>1, <2>2 DEF Pending
  <2>3. ASSUME NEW t \in Slot, exec[t].pc # "idle", exec[t].job = j,
               exec[t].pc \in {"unlock", "finish"} => exec[t].result = "err" /\ ~IsFinalAttempt(j)
        PROVE  Pending(j)'
    <3>1. CASE t # s
      BY <2>1, <2>3, <3>1 DEF Pending, IsFinalAttempt
    <3>2. CASE t = s
      <4>1. exec'[s].job = j /\ exec'[s].pc # "idle"
        BY <1>1, <2>3, <3>2 DEF CallMoves
      <4>2. exec'[s].pc \in {"unlock", "finish"} => exec'[s].result = "err" /\ ~IsFinalAttempt(j)
        BY <1>0, <1>1, <2>3, <3>2 DEF CallMoves
      <4> QED
        BY <2>1, <4>1, <4>2 DEF Pending, IsFinalAttempt
    <3> QED
      BY <3>1, <3>2
  <2> QED
    BY <2>2, <2>3 DEF Pending
<1>2. ASSUME NEW s \in Slot, CallOpens(s)
      PROVE  Pending(j)'
  <2>1. /\ jobs' = jobs /\ \A t \in Slot : t # s => exec'[t] = exec[t]
        /\ exec'[s].job = exec[s].job /\ exec[s].pc = "saveLog" /\ exec'[s].pc = "markRunning"
    BY <1>2 DEF CallOpens
  <2> QED
    BY <2>1 DEF Pending, IsFinalAttempt
<1>3. ASSUME NEW s \in Slot, NEW k \in Job, CallBegins(s, k)
      PROVE  Pending(k)'
  BY <1>3 DEF CallBegins, Pending
<1>4. ASSUME NEW s \in Slot, CallEnds(s)
      PROVE  Pending(j)'
  <2> DEFINE k == exec[s].job
  <2>0. k \in Job /\ exec[s].pc = "finish" /\ jobs[k].st = "active" /\ jobs[k] \in JobState
    BY <1>4, BusyCall DEF CallEnds, OutcomeInv, JobsKept, TypeOK
  <2>1. /\ \A t \in Slot : t # s => exec'[t] = exec[t]
        /\ exec[s].result # "ok" /\ jobs[k].made + 1 < Attempts => jobs'[k].st = "waiting"
        /\ k # j => jobs'[j] = jobs[j]
    BY <1>4, <2>0 DEF CallEnds, TypeOK, JobState
  <2>2. CASE jobs[j].st = "waiting"
    BY <2>0, <2>1, <2>2 DEF Pending
  <2>3. ASSUME NEW t \in Slot, exec[t].pc # "idle", exec[t].job = j,
               exec[t].pc \in {"unlock", "finish"} => exec[t].result = "err" /\ ~IsFinalAttempt(j)
        PROVE  Pending(j)'
    <3>1. CASE t # s
      <4>1. k # j
        BY <2>0, <2>3, <3>1 DEF OutcomeInv, JobsKept
      <4> QED
        BY <2>1, <2>3, <3>1, <4>1 DEF Pending, IsFinalAttempt
    <3>2. CASE t = s
      <4>1. jobs[k].made \in Nat /\ Attempts \in Int
        BY <2>0, TaskAssumption DEF JobState, Attempts
      <4>2. jobs[k].made + 1 < Attempts /\ k = j /\ exec[s].result # "ok"
        BY <2>0, <2>3, <3>2, <4>1 DEF IsFinalAttempt
      <4> QED
        BY <2>1, <4>2 DEF Pending
    <3> QED
      BY <3>1, <3>2
  <2> QED
    BY <2>2, <2>3 DEF Pending
<1>5. ASSUME NEW n \in Node, Crash(n)
      PROVE  FALSE
  BY <1>5 DEF Crash, TypeOK
<1>6. ASSUME NEW k \in Job, Stalled(k) \/ TriggerTaskNow(k) \/ SchedulerFires(k)
      PROVE  Pending(k)'
  <2>1. jobs[k].st # "active" /\ jobs'[k].st = "waiting"
    BY <1>0, <1>6, QueueSteps DEF OutcomeInv, JobsKept
  <2> QED
    BY <2>1 DEF Pending
<1>7. CASE UNCHANGED <<exec, jobs, logs, faults, crashes>>
  BY <1>7 DEF Pending, IsFinalAttempt
<1> QED
  BY <1>1, <1>2, <1>3, <1>4, <1>5, <1>6, <1>7, StepKinds

LEMMA RetirePendingStep ==
  ASSUME TypeOK, OutcomeInv, RetirePending, [Next]_vars
  PROVE  RetirePending'
<1> USE DEF Goes
<1> SUFFICES ASSUME IsDelay, faults' = 0, crashes' = 0, admin' = 0
             PROVE  row'.live /\ (row'.enable /\ logs' # <<>> => \E j \in Job : Pending(j)')
  BY DEF RetirePending
<1>1. faults = 0 /\ crashes = 0 /\ admin = 0 /\ row \in Rows
  BY DisturbancesStay, RowSteps DEF TypeOK
<1>2. row.live /\ (row.enable /\ logs # <<>> => \E j \in Job : Pending(j))
  BY <1>1 DEF RetirePending
<1>3. ASSUME row' = row,
             \A s \in Slot : /\ ~Goes(s, "failRow", "unlock") /\ ~Goes(s, "okRow", "unlock")
                             /\ Goes(s, "load", "finish") => Refused(s)
      PROVE  row'.live /\ (row'.enable /\ logs' # <<>> => \E j \in Job : Pending(j)')
  <2> SUFFICES ASSUME row.enable, logs' # <<>> PROVE \E j \in Job : Pending(j)'
    BY <1>2, <1>3
  <2>1. \A s \in Slot : ~Refused(s)
    BY <1>2 DEF Refused
  <2>2. CASE logs # <<>>
    BY <1>2, <1>3, <2>1, <2>2, PendingKept
  <2>3. CASE logs = <<>>
    <3>1. \A s \in Slot : exec[s].log = 0
      BY <2>3 DEF OutcomeInv, LogsKept
    <3>2. \A s \in Slot : exec[s].pc \notin LoggedPc
      BY <3>1 DEF OutcomeInv, LogsKept
    <3>3. ASSUME NEW s \in Slot, CallMoves(s) PROVE logs' = logs
      BY <3>2, <3>3 DEF CallMoves, LoggedPc
    <3>4. ASSUME NEW s \in Slot, CallOpens(s) PROVE \E j \in Job : Pending(j)'
      <4>1. exec'[s].job = exec[s].job /\ exec'[s].pc = "markRunning" /\ exec[s].pc = "saveLog"
        BY <3>4 DEF CallOpens
      <4>2. PICK j \in Job : j = exec[s].job
        BY <4>1, BusyCall
      <4>3. Pending(j)'
        BY <4>1, <4>2 DEF Pending
      <4> QED
        BY <4>3
    <3>5. ASSUME NEW s \in Slot, CallEnds(s) \/ \E j \in Job : CallBegins(s, j) PROVE logs' = logs
      BY <3>5 DEF CallEnds, CallBegins
    <3>6. ASSUME NEW n \in Node, Crash(n) PROVE logs' = logs
      BY <3>6 DEF Crash
    <3>7. ASSUME NEW j \in Job, Stalled(j) \/ TriggerTaskNow(j) \/ SchedulerFires(j) PROVE logs' = logs
      BY <3>7, QueueSteps
    <3> QED
      BY <2>3, <3>3, <3>4, <3>5, <3>6, <3>7, StepKinds
  <2> QED
    BY <2>2, <2>3
<1>4. ASSUME NEW s \in Slot, Execute(s)
      PROVE  row'.live /\ (row'.enable /\ logs' # <<>> => \E j \in Job : Pending(j)')
  <2>1. /\ \A t \in Slot : t # s => exec'[t] = exec[t]
        /\ UNCHANGED jobs \/ CallEnds(s)
    BY <1>4, ExecuteSteps DEF CallMoves, CallOpens, CallEnds, Only
  <2>2. CASE /\ row' = row
             /\ ~Goes(s, "failRow", "unlock") /\ ~Goes(s, "okRow", "unlock")
             /\ Goes(s, "load", "finish") => Refused(s)
    BY <1>3, <2>1, <2>2
  <2>3. CASE row' = [row EXCEPT !.enable = ~IsDelay /\ exec[s].task.enable]
    BY <1>1, <1>2, <2>3 DEF Rows
  <2>4. CASE /\ row' = [row EXCEPT !.enable = ~(IsDelay /\ IsFinalAttempt(exec[s].job))
                                              /\ exec[s].task.enable]
             /\ Goes(s, "failRow", "unlock")
    <3>1. row'.live /\ (row'.enable => ~IsFinalAttempt(exec[s].job))
      BY <1>1, <1>2, <2>4 DEF Rows
    <3>2. exec[s] \in Call /\ exec[s].job \in Job /\ exec[s].result = "err"
      <4>1. exec[s] \in Call /\ exec[s].job \in Job /\ exec[s].result # "ok"
        BY <2>4, BusyCall DEF OutcomeInv, ResultLate
      <4> QED
        BY <4>1 DEF Call
    <3>3. CallMoves(s)
      BY <1>4, <2>4, ExecuteSteps DEF CallOpens, CallEnds
    <3>4. exec'[s].job = exec[s].job /\ exec'[s].result = "err" /\ jobs' = jobs
      BY <3>2, <3>3, <2>4 DEF CallMoves
    <3>5. PICK j \in Job : j = exec[s].job
      BY <3>2
    <3>6. row'.enable => Pending(j)'
      BY <2>4, <3>1, <3>4, <3>5 DEF Pending, IsFinalAttempt
    <3> QED
      BY <3>1, <3>6
  <2> QED
    BY <1>1, <1>4, <2>2, <2>3, <2>4, RowExecute
<1>5. CASE ~\E s \in Slot : Execute(s)
  <2>1. row' = row
    BY <1>5, RowSteps DEF TypeOK
  <2>2. \A s \in Slot : /\ ~Goes(s, "failRow", "unlock") /\ ~Goes(s, "okRow", "unlock")
                        /\ ~Goes(s, "load", "finish")
    <3>1. ASSUME NEW s \in Slot, NEW ok \in BOOLEAN, HandlerEnds(s, ok) \/ HandlerTimesOut(s)
          PROVE  exec[s].pc = "handler" /\ \A t \in Slot : t # s => exec'[t] = exec[t]
      BY <3>1 DEF HandlerEnds, HandlerTimesOut, Goto, TypeOK
    <3>2. ASSUME NEW h \in handlers, NEW ok \in BOOLEAN, OrphanEnds(h, ok) PROVE exec' = exec
      BY <3>2 DEF OrphanEnds
    <3>3. ASSUME NEW s \in Slot, NEW j \in Job, Pick(s, j)
          PROVE  exec[s].pc = "idle" /\ \A t \in Slot : t # s => exec'[t] = exec[t]
      BY <3>3 DEF Pick, TypeOK
    <3>4. ASSUME NEW j \in Job, TriggerTaskNow(j) \/ SchedulerFires(j) \/ Stalled(j)
          PROVE  exec' = exec
      BY <3>4, QueueSteps
    <3>5. ASSUME NEW n \in Node, Crash(n)
          PROVE  \A t \in Slot : exec'[t] = exec[t] \/ exec'[t].pc = "idle"
      BY <3>5 DEF Crash, IdleExec
    <3>6. LockExpires \/ Admin \/ UNCHANGED vars => exec' = exec
      BY DEF LockExpires, Admin, AdminOperation, ChangeEnable, Edit, DelByIds, Resync, vars
    <3> QED
      BY <1>5, <3>1, <3>2, <3>3, <3>4, <3>5, <3>6 DEF Next, Handlers, Queue, Environment
  <2> QED
    BY <1>3, <2>1, <2>2
<1> QED
  BY <1>4, <1>5

\* A DELAY task whose jobs are all through has been disabled, however their
\* write-backs were interleaved.
THEOREM DelayTasksRetire == Spec => []DelayTaskRetired
<1>1. Init => RetirePending
  BY DEF Init, RetirePending
<1>2. TypeOK /\ OutcomeInv /\ RetirePending => DelayTaskRetired
  <2> SUFFICES ASSUME TypeOK, OutcomeInv, RetirePending,
                      IsDelay, faults = 0, crashes = 0, admin = 0, logs # <<>>, row.enable,
                      \A j \in Job : Settled(j) \/ jobs[j].st = "absent"
               PROVE  FALSE
    BY DEF DelayTaskRetired
  <2>1. PICK j \in Job : Pending(j)
    BY DEF RetirePending
  <2>2. jobs[j].st \in {"waiting", "active"}
    BY <2>1 DEF Pending, OutcomeInv, JobsKept
  <2> QED
    BY <2>2 DEF Settled
<1> QED
  BY <1>1, <1>2, RetirePendingStep, OutcomeInvariant, TypeCorrect, PTL DEF Spec

-----------------------------------------------------------------------------
(* The budget of a job *)

\* The rows of a job are finitely many.
LEMMA LogsOfFinite ==
  ASSUME TypeOK, NEW j \in Job
  PROVE  IsFiniteSet(LogsOf(j)) /\ Cardinality(LogsOf(j)) \in Nat
<1>1. Len(logs) \in Nat /\ LogsOf(j) \in SUBSET (1 .. Len(logs))
  BY DEF TypeOK, LogsOf
<1>2. IsFiniteSet(1 .. Len(logs))
  BY <1>1, FS_Interval
<1>3. IsFiniteSet(LogsOf(j))
  BY <1>1, <1>2, FS_Subset
<1> QED
  BY <1>3, FS_CardinalityType

\* Only saveLog adds to them, one row to those of its job.
LEMMA LogsOfSteps ==
  ASSUME TypeOK, OutcomeInv, NEW j \in Job
  PROVE  /\ \A s \in Slot : CallMoves(s) => LogsOf(j)' = LogsOf(j)
         /\ \A s \in Slot : CallOpens(s) =>
              Cardinality(LogsOf(j)') = Cardinality(LogsOf(j)) + IF exec[s].job = j THEN 1 ELSE 0
         /\ UNCHANGED logs => LogsOf(j)' = LogsOf(j)
<1>1. ASSUME NEW s \in Slot, CallMoves(s) PROVE LogsOf(j)' = LogsOf(j)
  <2>1. /\ DOMAIN logs = 1 .. Len(logs) /\ DOMAIN logs' = 1 .. Len(logs)
        /\ \A l \in 1 .. Len(logs) : logs'[l].job = logs[l].job
    BY <1>1, MovesLogs DEF OutcomeInv
  <2> QED
    BY <2>1 DEF LogsOf
<1>2. ASSUME NEW s \in Slot, CallOpens(s)
      PROVE  Cardinality(LogsOf(j)') = Cardinality(LogsOf(j)) + IF exec[s].job = j THEN 1 ELSE 0
  <2>0. exec[s].job \in Job
    BY <1>2, BusyCall DEF CallOpens, Goes
  <2>1. /\ Len(logs) \in Nat
        /\ DOMAIN logs = 1 .. Len(logs) /\ DOMAIN logs' = 1 .. Len(logs) + 1
        /\ \A l \in 1 .. Len(logs) : logs'[l] = logs[l]
        /\ logs'[Len(logs) + 1].job = exec[s].job
    BY <1>2, <2>0, LogAppended DEF CallOpens
  <2>2. CASE exec[s].job = j
    <3>1. LogsOf(j)' = LogsOf(j) \cup {Len(logs) + 1}
      BY <2>1, <2>2 DEF LogsOf
    <3>2. Len(logs) + 1 \notin LogsOf(j)
      BY <2>1 DEF LogsOf
    <3> QED
      BY <2>2, <3>1, <3>2, LogsOfFinite, FS_AddElement
  <2>3. CASE exec[s].job # j
    <3>1. LogsOf(j)' = LogsOf(j)
      BY <2>1, <2>3 DEF LogsOf
    <3> QED
      BY <2>3, <3>1, LogsOfFinite
  <2> QED
    BY <2>2, <2>3
<1>3. UNCHANGED logs => LogsOf(j)' = LogsOf(j)
  BY DEF LogsOf
<1> QED
  BY <1>1, <1>2, <1>3

LEMMA BudgetStep ==
  ASSUME TypeOK, OutcomeInv, [Next]_vars, NEW j \in Job, Budget(j, Cardinality(LogsOf(j)))
  PROVE  Budget(j, Cardinality(LogsOf(j)))'
<1> USE DEF Goes, Only
<1> DEFINE n == Cardinality(LogsOf(j))
           m == Cardinality(LogsOf(j)')
<1> HIDE DEF n, m
<1> SUFFICES
      /\ m <= Attempts + jobs'[j].stalls
      /\ jobs'[j].st \in {"absent", "waiting", "active"} => jobs'[j].made < Attempts
      /\ jobs'[j].st \in {"absent", "waiting"} => m <= jobs'[j].made + jobs'[j].stalls
      /\ jobs'[j].st = "active" => m <= jobs'[j].made + jobs'[j].stalls + 1
      /\ jobs'[j].st = "active" /\ m = jobs'[j].made + jobs'[j].stalls + 1 =>
           \A s \in Slot : exec'[s].pc \in EarlyPc => exec'[s].job # j
  BY DEF Budget, m
<1>0. /\ n <= Attempts + jobs[j].stalls
      /\ jobs[j].st \in {"absent", "waiting", "active"} => jobs[j].made < Attempts
      /\ jobs[j].st \in {"absent", "waiting"} => n <= jobs[j].made + jobs[j].stalls
      /\ jobs[j].st = "active" => n <= jobs[j].made + jobs[j].stalls + 1
      /\ jobs[j].st = "active" /\ n = jobs[j].made + jobs[j].stalls + 1 =>
           \A s \in Slot : exec[s].pc \in EarlyPc => exec[s].job # j
  BY DEF Budget, n
<1>t. /\ n \in Nat /\ jobs[j].made \in Nat /\ jobs[j].stalls \in Nat /\ Attempts \in Int
      /\ jobs \in [Job -> JobState] /\ jobs[j] \in JobState
  BY LogsOfFinite, TaskAssumption DEF n, TypeOK, JobState, Attempts
<1>1. ASSUME NEW s \in Slot, CallMoves(s)
      PROVE  m = n /\ jobs' = jobs /\ \A t \in Slot : exec'[t].pc \in EarlyPc =>
                 exec[t].pc \in EarlyPc /\ exec'[t].job = exec[t].job
  <2>1. m = n /\ jobs' = jobs
    BY <1>1, LogsOfSteps DEF CallMoves, m, n
  <2> QED
    BY <1>1, <2>1 DEF CallMoves, EarlyPc
<1>2. ASSUME NEW s \in Slot, CallOpens(s)
      PROVE  /\ jobs' = jobs /\ m = n + (IF exec[s].job = j THEN 1 ELSE 0)
             /\ exec[s].pc = "saveLog"
             /\ \A t \in Slot : exec'[t].pc \in EarlyPc =>
                 t # s /\ exec[t].pc \in EarlyPc /\ exec'[t].job = exec[t].job
  <2>1. m = n + (IF exec[s].job = j THEN 1 ELSE 0)
    BY <1>2, LogsOfSteps DEF m, n
  <2> QED
    BY <1>2, <2>1 DEF CallOpens, EarlyPc
<1>3. CASE /\ m = n /\ jobs' = jobs
           /\ \A t \in Slot : exec'[t].pc \in EarlyPc =>
                 exec[t].pc \in EarlyPc /\ exec'[t].job = exec[t].job
  BY <1>0, <1>3
<1>4. ASSUME NEW s \in Slot, CallOpens(s), exec[s].job = j
      PROVE  /\ jobs[j].st = "active" /\ jobs' = jobs /\ m <= jobs[j].made + jobs[j].stalls + 1
             /\ \A t \in Slot : exec'[t].pc \in EarlyPc => exec'[t].job # j
  <2>1. /\ jobs' = jobs /\ m = n + 1 /\ exec[s].pc = "saveLog"
        /\ \A t \in Slot : exec'[t].pc \in EarlyPc =>
                 t # s /\ exec[t].pc \in EarlyPc /\ exec'[t].job = exec[t].job
    BY <1>2, <1>4
  <2>2. jobs[j].st = "active" /\ \A t \in Slot : t # s /\ exec[t].pc # "idle" => exec[t].job # j
    BY <1>4, <2>1 DEF OutcomeInv, JobsKept
  <2>3. n # jobs[j].made + jobs[j].stalls + 1
    BY <1>0, <1>4, <2>1, <2>2 DEF EarlyPc
  <2>4. m <= jobs[j].made + jobs[j].stalls + 1
    BY <1>0, <1>t, <2>1, <2>2, <2>3
  <2> QED
    BY <2>1, <2>2, <2>4 DEF EarlyPc
<1>5. ASSUME NEW s \in Slot, NEW k \in Job, CallBegins(s, k)
      PROVE  /\ m = n
             /\ \/ k = j /\ jobs[j].st = "waiting" /\ jobs'[j].st = "active"
                         /\ jobs'[j].made = jobs[j].made /\ jobs'[j].stalls = jobs[j].stalls
                \/ /\ jobs'[j] = jobs[j]
                   /\ \A t \in Slot : exec'[t].pc \in EarlyPc /\ exec'[t].job = j =>
                        exec[t].pc \in EarlyPc /\ exec[t].job = j
  <2>1. m = n
    BY <1>5, LogsOfSteps DEF CallBegins, m, n
  <2>2. CASE k = j
    BY <1>5, <1>t, <2>1, <2>2 DEF CallBegins, JobState
  <2>3. CASE k # j
    BY <1>5, <1>t, <2>1, <2>3 DEF CallBegins
  <2> QED
    BY <2>2, <2>3
<1>6. ASSUME NEW s \in Slot, CallEnds(s)
      PROVE  /\ m = n
             /\ \/ jobs[j].st = "active" /\ jobs'[j].st \in {"completed", "failed"}
                         /\ jobs'[j].stalls = jobs[j].stalls
                \/ jobs[j].st = "active" /\ jobs'[j].st = "waiting" /\ jobs[j].made + 1 < Attempts
                         /\ jobs'[j].made = jobs[j].made + 1 /\ jobs'[j].stalls = jobs[j].stalls
                \/ /\ jobs'[j] = jobs[j]
                   /\ \A t \in Slot : exec'[t].pc \in EarlyPc =>
                        exec[t].pc \in EarlyPc /\ exec'[t].job = exec[t].job
  <2>1. m = n
    BY <1>6, LogsOfSteps DEF CallEnds, m, n
  <2>2. exec[s].job \in Job /\ jobs[exec[s].job].st = "active"
    BY <1>6, BusyCall DEF CallEnds, OutcomeInv, JobsKept
  <2>3. CASE exec[s].job = j
    BY <1>6, <1>t, <2>1, <2>2, <2>3 DEF CallEnds, JobState
  <2>4. CASE exec[s].job # j
    <3>1. jobs'[j] = jobs[j]
      BY <1>6, <1>t, <2>2, <2>4 DEF CallEnds
    <3>2. exec'[s].pc \notin EarlyPc /\ \A t \in Slot : t # s => exec'[t] = exec[t]
      BY <1>6 DEF CallEnds, IdleExec, EarlyPc
    <3> QED
      BY <2>1, <3>1, <3>2
  <2> QED
    BY <2>3, <2>4
<1>7. ASSUME NEW p \in Node, Crash(p)
      PROVE  m = n /\ jobs' = jobs /\ \A t \in Slot : exec'[t].pc \in EarlyPc =>
                 exec[t].pc \in EarlyPc /\ exec'[t].job = exec[t].job
  <2>1. m = n /\ jobs' = jobs
    BY <1>7, LogsOfSteps DEF Crash, m, n
  <2> QED
    BY <1>7, <2>1 DEF Crash, IdleExec, EarlyPc
<1>8. ASSUME NEW k \in Job, Stalled(k) \/ TriggerTaskNow(k) \/ SchedulerFires(k)
      PROVE  /\ m = n /\ exec' = exec
             /\ \/ jobs'[j] = jobs[j]
                \/ /\ jobs'[j].made = jobs[j].made
                   /\ \/ jobs[j].st = "absent" /\ jobs'[j].st = "waiting" /\ jobs'[j].stalls = jobs[j].stalls
                      \/ jobs[j].st = "active" /\ jobs'[j].st = "waiting" /\ jobs'[j].stalls = jobs[j].stalls + 1
                      \/ jobs'[j].st = "failed" /\ jobs'[j].stalls = jobs[j].stalls
  <2>1. logs' = logs
    BY <1>8, QueueSteps
  <2>2. m = n
    BY <2>1, LogsOfSteps DEF m, n
  <2> QED
    BY <1>8, <2>2, QueueSteps
<1>9. CASE UNCHANGED <<exec, jobs, logs, faults, crashes>>
  <2>1. m = n
    BY <1>9, LogsOfSteps DEF m, n
  <2> QED
    BY <1>0, <1>9, <2>1
<1>10. ASSUME NEW s \in Slot, CallOpens(s)
       PROVE  \/ exec[s].job = j
              \/ m = n
  BY <1>2, <1>10, <1>t
<1>11. (\E s \in Slot : CallMoves(s)) \/ (\E p \in Node : Crash(p)) => 
         /\ m = n /\ jobs' = jobs
         /\ \A t \in Slot : exec'[t].pc \in EarlyPc =>
                 exec[t].pc \in EarlyPc /\ exec'[t].job = exec[t].job
  BY <1>1, <1>7
<1>12. CASE \E s \in Slot : CallOpens(s)
  BY <1>0, <1>t, <1>2, <1>3, <1>4, <1>10, <1>12
<1>13. CASE \E s \in Slot, k \in Job : CallBegins(s, k)
  BY <1>0, <1>t, <1>5, <1>13
<1>14. CASE \E s \in Slot : CallEnds(s)
  BY <1>0, <1>t, <1>6, <1>14
<1>15. CASE \E k \in Job : Stalled(k) \/ TriggerTaskNow(k) \/ SchedulerFires(k)
  BY <1>0, <1>t, <1>8, <1>15
<1> QED
  BY <1>3, <1>9, <1>11, <1>12, <1>13, <1>14, <1>15, StepKinds

\* retryCount bounds the executions of a job; only a stall adds one.
THEOREM RunsBounded == Spec => []RunsWithinBudget
<1>1. Init => Budgeted
  <2> SUFFICES ASSUME Init, NEW j \in Job PROVE Budget(j, Cardinality(LogsOf(j)))
    BY DEF Budgeted
  <2>1. LogsOf(j) = {}
    BY DEF Init, LogsOf
  <2>2. Cardinality(LogsOf(j)) = 0
    BY <2>1, FS_EmptySet
  <2>3. Attempts \in Nat /\ Attempts >= 1
    BY TaskAssumption DEF Attempts
  <2>4. jobs[j].st = "absent" /\ jobs[j].made = 0 /\ jobs[j].stalls = 0
    BY DEF Init
  <2> QED
    BY <2>2, <2>3, <2>4 DEF Budget
<1>2. TypeOK /\ OutcomeInv /\ Budgeted /\ [Next]_vars => Budgeted'
  BY BudgetStep DEF Budgeted
<1>3. Budgeted => RunsWithinBudget
  BY DEF Budgeted, Budget, RunsWithinBudget
<1> QED
  BY <1>1, <1>2, <1>3, OutcomeInvariant, TypeCorrect, PTL DEF Spec

-----------------------------------------------------------------------------
(* Logs that stay RUNNING *)

Stranded == {l \in DOMAIN logs : logs[l].status = "RUNNING" /\ ~WillClose(l)}

StrandedBound == Cardinality(Stranded) <= faults + crashes * Concurrency

LEMMA StrandedFinite ==
  ASSUME TypeOK
  PROVE  IsFiniteSet(Stranded) /\ Cardinality(Stranded) \in Nat
<1>1. Len(logs) \in Nat /\ Stranded \in SUBSET (1 .. Len(logs))
  BY DEF TypeOK, Stranded
<1>2. IsFiniteSet(1 .. Len(logs))
  BY <1>1, FS_Interval
<1>3. IsFiniteSet(Stranded)
  BY <1>1, <1>2, FS_Subset
<1> QED
  BY <1>3, FS_CardinalityType

\* A step strands no log, but for the log of a call that fails and the logs of the
\* slots of a process that crashes.
LEMMA StrandedSteps ==
  ASSUME TypeOK, OutcomeInv, [Next]_vars
  PROVE  \/ Stranded' \subseteq Stranded /\ faults' \in {faults, faults + 1} /\ crashes' = crashes
         \/ \E s \in Slot : /\ Stranded' \subseteq Stranded \cup {exec[s].log}
                            /\ faults' = faults + 1 /\ crashes' = crashes
         \/ \E n \in Node :
              /\ Stranded' \subseteq
                   Stranded \cup {exec[<<n, i>>].log : i \in 1 .. Concurrency}
              /\ faults' = faults /\ crashes' = crashes + 1
<1> USE DEF Goes, Only
<1>1. ASSUME NEW s \in Slot, CallMoves(s)
      PROVE  \/ Stranded' \subseteq Stranded /\ faults' = faults /\ crashes' = crashes
             \/ /\ Stranded' \subseteq Stranded \cup {exec[s].log}
                /\ faults' = faults + 1 /\ crashes' = crashes
  <2>1. /\ DOMAIN logs = 1 .. Len(logs) /\ DOMAIN logs' = 1 .. Len(logs)
        /\ \A l \in 1 .. Len(logs) : l # exec[s].log => logs'[l] = logs[l]
        /\ Goes(s, "okLog", "okRow") => logs'[exec[s].log].status = "SUCCESS"
        /\ Goes(s, "failLog", "failRow") => logs'[exec[s].log].status = "FAIL"
        /\ UNCHANGED logs \/ Goes(s, "okLog", "okRow") \/ Goes(s, "failLog", "failRow")
    BY <1>1, MovesLogs DEF OutcomeInv
  <2>2. /\ \A t \in Slot : t # s => exec'[t] = exec[t]
        /\ exec'[s].log = exec[s].log /\ crashes' = crashes
    BY <1>1 DEF CallMoves
  <2>3. ASSUME NEW l \in Stranded', l # exec[s].log
        PROVE  l \in Stranded
    <3>1. l \in 1 .. Len(logs) /\ logs[l].status = "RUNNING" /\ ~WillClose(l)'
      BY <2>1, <2>3 DEF Stranded
    <3>2. ~WillClose(l)
      BY <2>2, <2>3, <3>1 DEF WillClose
    <3> QED
      BY <2>1, <3>1, <3>2 DEF Stranded
  <2>4. CASE faults' = faults
    <3>1. ASSUME NEW l \in Stranded', l = exec[s].log
          PROVE  l \in Stranded
      <4>1. l \in 1 .. Len(logs) /\ logs'[l].status = "RUNNING" /\ ~WillClose(l)'
        BY <2>1, <3>1 DEF Stranded
      <4>2. UNCHANGED logs /\ ~Goes(s, "okLog", "okRow") /\ ~Goes(s, "failLog", "failRow")
        BY <2>1, <3>1, <4>1
      <4>3. exec'[s].pc \notin {"markRunning", "lock", "handler", "okLog", "failLog"}
        BY <2>2, <3>1, <4>1 DEF WillClose
      <4>4. faults' # faults + 1
        BY <2>4 DEF TypeOK
      <4>5. exec[s].pc \notin {"markRunning", "lock", "handler", "okLog", "failLog"}
        BY <1>1, <4>2, <4>3, <4>4 DEF CallMoves
      <4>6. ~WillClose(l)
        BY <2>2, <3>1, <4>1, <4>5 DEF WillClose
      <4> QED
        BY <2>1, <4>1, <4>2, <4>6 DEF Stranded
    <3> QED
      BY <2>2, <2>3, <2>4, <3>1
  <2>5. CASE faults' = faults + 1
    BY <2>2, <2>3, <2>5
  <2> QED
    BY <1>1, <2>4, <2>5 DEF CallMoves
<1>2. ASSUME NEW s \in Slot, CallOpens(s)
      PROVE  Stranded' \subseteq Stranded /\ faults' = faults /\ crashes' = crashes
  <2>0. exec[s].job \in Job
    BY <1>2, BusyCall DEF CallOpens
  <2>1. /\ Len(logs) \in Nat
        /\ DOMAIN logs = 1 .. Len(logs) /\ DOMAIN logs' = 1 .. Len(logs) + 1
        /\ \A l \in 1 .. Len(logs) : logs'[l] = logs[l]
    BY <1>2, <2>0, LogAppended DEF CallOpens
  <2>2. /\ \A t \in Slot : t # s => exec'[t] = exec[t]
        /\ exec[s].pc = "saveLog" /\ exec'[s].pc = "markRunning" /\ exec'[s].log = Len(logs) + 1
        /\ faults' = faults /\ crashes' = crashes
    BY <1>2 DEF CallOpens
  <2>3. ASSUME NEW l \in Stranded'
        PROVE  l \in Stranded
    <3>1. l \in 1 .. Len(logs) + 1 /\ logs'[l].status = "RUNNING" /\ ~WillClose(l)'
      BY <2>1, <2>3 DEF Stranded
    <3>2. l # Len(logs) + 1
      BY <2>2, <3>1 DEF WillClose
    <3>3. l \in 1 .. Len(logs)
      BY <2>1, <3>1, <3>2
    <3>4. ~WillClose(l)
      BY <2>2, <3>1 DEF WillClose
    <3> QED
      BY <2>1, <3>1, <3>3, <3>4 DEF Stranded
  <2> QED
    BY <2>2, <2>3
<1>3. ASSUME NEW s \in Slot, NEW j \in Job, CallBegins(s, j)
      PROVE  Stranded' \subseteq Stranded /\ faults' = faults /\ crashes' = crashes
  <2>1. /\ \A t \in Slot : t # s => exec'[t] = exec[t]
        /\ exec[s].pc = "idle" /\ logs' = logs /\ faults' = faults /\ crashes' = crashes
    BY <1>3 DEF CallBegins
  <2> QED
    BY <2>1 DEF Stranded, WillClose
<1>4. ASSUME NEW s \in Slot, CallEnds(s)
      PROVE  Stranded' \subseteq Stranded /\ faults' = faults /\ crashes' = crashes
  <2>1. /\ \A t \in Slot : t # s => exec'[t] = exec[t]
        /\ exec[s].pc = "finish" /\ logs' = logs /\ faults' = faults /\ crashes' = crashes
    BY <1>4 DEF CallEnds
  <2> QED
    BY <2>1 DEF Stranded, WillClose
<1>5. ASSUME NEW n \in Node, Crash(n)
      PROVE  /\ Stranded' \subseteq
                   Stranded \cup {exec[<<n, i>>].log : i \in 1 .. Concurrency}
             /\ faults' = faults /\ crashes' = crashes + 1
  <2>1. /\ \A t \in Slot : t[1] # n => exec'[t] = exec[t]
        /\ logs' = logs /\ faults' = faults /\ crashes' = crashes + 1
    BY <1>5 DEF Crash
  <2>2. ASSUME NEW l \in Stranded', l \notin Stranded
        PROVE  l \in {exec[<<n, i>>].log : i \in 1 .. Concurrency}
    <3>1. l \in DOMAIN logs /\ logs[l].status = "RUNNING" /\ ~WillClose(l)' /\ WillClose(l)
      BY <2>1, <2>2 DEF Stranded
    <3>2. PICK t \in Slot : exec[t].log = l
                /\ exec[t].pc \in {"markRunning", "lock", "handler", "okLog", "failLog"}
      BY <3>1 DEF WillClose
    <3>3. t[1] = n
      BY <2>1, <3>1, <3>2 DEF WillClose
    <3>4. PICK i \in 1 .. Concurrency : t = <<n, i>>
      BY <3>3 DEF Slot
    <3> QED
      BY <3>2, <3>4
  <2> QED
    BY <2>1, <2>2
<1>6. ASSUME NEW j \in Job, Stalled(j) \/ TriggerTaskNow(j) \/ SchedulerFires(j)
      PROVE  UNCHANGED <<exec, logs, faults, crashes>>
  BY <1>6, QueueSteps
<1>7. CASE UNCHANGED <<exec, logs, faults, crashes>>
  BY <1>7 DEF Stranded, WillClose
<1> QED
  BY <1>1, <1>2, <1>3, <1>4, <1>5, <1>6, <1>7, StepKinds

\* The slots of a process hold at most Concurrency logs.
LEMMA LogsOfNode ==
  ASSUME NEW n \in Node
  PROVE  LET T == {exec[<<n, i>>].log : i \in 1 .. Concurrency} IN
         IsFiniteSet(T) /\ Cardinality(T) \in Nat /\ Cardinality(T) <= Concurrency
<1> DEFINE T == {exec[<<n, i>>].log : i \in 1 .. Concurrency}
           f == [i \in 1 .. Concurrency |-> exec[<<n, i>>].log]
<1>1. f \in Surjection(1 .. Concurrency, T)
  BY DEF Surjection
<1>2. Concurrency \in Nat /\ Concurrency > 0
  BY ConcurrencyAssumption
<1>3. IsFiniteSet(1 .. Concurrency) /\ Cardinality(1 .. Concurrency) = Concurrency
  BY <1>2, FS_Interval
<1> HIDE DEF T, f
<1>4. IsFiniteSet(T) /\ Cardinality(T) <= Concurrency
  BY <1>1, <1>3, FS_Surjection
<1>5. Cardinality(T) \in Nat
  BY <1>4, FS_CardinalityType
<1> QED
  BY <1>4, <1>5 DEF T

LEMMA StrandedStep ==
  ASSUME TypeOK, OutcomeInv, StrandedBound, [Next]_vars
  PROVE  StrandedBound'
<1>1. /\ IsFiniteSet(Stranded) /\ Cardinality(Stranded) \in Nat
      /\ faults \in Nat /\ crashes \in Nat /\ Concurrency \in Nat
  BY StrandedFinite, ConcurrencyAssumption DEF TypeOK
<1>2. crashes * Concurrency \in Nat /\ (crashes + 1) * Concurrency = crashes * Concurrency + Concurrency
  BY <1>1
<1>3. Cardinality(Stranded) <= faults + crashes * Concurrency
  BY DEF StrandedBound
<1> DEFINE a == Cardinality(Stranded)
           b == Cardinality(Stranded')
<1>4. CASE Stranded' \subseteq Stranded /\ faults' \in {faults, faults + 1} /\ crashes' = crashes
  <2>1. IsFiniteSet(Stranded') /\ b <= a /\ b \in Nat
    BY <1>1, <1>4, FS_Subset, FS_CardinalityType
  <2>2. b <= faults' + crashes' * Concurrency
    BY <1>1, <1>2, <1>3, <1>4, <2>1
  <2> QED
    BY <2>2 DEF StrandedBound
<1>5. ASSUME NEW s \in Slot, Stranded' \subseteq Stranded \cup {exec[s].log},
             faults' = faults + 1, crashes' = crashes
      PROVE  StrandedBound'
  <2>1. /\ IsFiniteSet(Stranded \cup {exec[s].log})
        /\ Cardinality(Stranded \cup {exec[s].log}) <= a + 1
        /\ Cardinality(Stranded \cup {exec[s].log}) \in Nat
    <3> DEFINE l == exec[s].log
    <3> HIDE DEF l
    <3>1. /\ IsFiniteSet(Stranded \cup {l})
          /\ Cardinality(Stranded \cup {l}) \in {a, a + 1}
      BY <1>1, FS_AddElement
    <3>2. a \in Nat
      BY <1>1
    <3>3. \A k \in {a, a + 1} : k \in Nat /\ k <= a + 1
      BY <3>2
    <3> QED
      BY <3>1, <3>3 DEF l
  <2>2. IsFiniteSet(Stranded') /\ b <= Cardinality(Stranded \cup {exec[s].log}) /\ b \in Nat
    BY <1>5, <2>1, FS_Subset, FS_CardinalityType
  <2>3. b <= faults' + crashes' * Concurrency
    BY <1>1, <1>2, <1>3, <1>5, <2>1, <2>2
  <2> QED
    BY <2>3 DEF StrandedBound
<1>6. ASSUME NEW n \in Node,
             Stranded' \subseteq Stranded \cup {exec[<<n, i>>].log : i \in 1 .. Concurrency},
             faults' = faults, crashes' = crashes + 1
      PROVE  StrandedBound'
  <2> DEFINE T == {exec[<<n, i>>].log : i \in 1 .. Concurrency}
  <2>1. IsFiniteSet(T) /\ Cardinality(T) \in Nat /\ Cardinality(T) <= Concurrency
    BY LogsOfNode
  <2>2. Stranded' \subseteq Stranded \cup T
    BY <1>6
  <2> HIDE DEF T
  <2>3. /\ IsFiniteSet(Stranded \cup T) /\ Cardinality(Stranded \cup T) \in Nat
        /\ Cardinality(Stranded \cup T) <= a + Concurrency
    <3>1. IsFiniteSet(Stranded \cup T)
          /\ Cardinality(Stranded \cup T) = a + Cardinality(T) - Cardinality(Stranded \cap T)
      BY <1>1, <2>1, FS_Union
    <3>2. Cardinality(Stranded \cap T) \in Nat
      <4>1. Stranded \cap T \in SUBSET T
        OBVIOUS
      <4>2. IsFiniteSet(Stranded \cap T)
        BY <2>1, <4>1, FS_Subset
      <4> QED
        BY <4>2, FS_CardinalityType
    <3>3. Cardinality(Stranded \cup T) \in Nat
      BY <3>1, FS_CardinalityType
    <3> QED
      BY <1>1, <2>1, <3>1, <3>2, <3>3
  <2>4. IsFiniteSet(Stranded') /\ b <= Cardinality(Stranded \cup T) /\ b \in Nat
    BY <2>2, <2>3, FS_Subset, FS_CardinalityType
  <2>5. b <= faults' + crashes' * Concurrency
    BY <1>1, <1>2, <1>3, <1>6, <2>3, <2>4
  <2> QED
    BY <2>5 DEF StrandedBound
<1> QED
  BY <1>4, <1>5, <1>6, StrandedSteps

\* A log that stays RUNNING for ever costs a failed call or a slot of a crashed process.
THEOREM StrandedLogs == Spec => []StrandedLogsBounded
<1>1. Init => StrandedBound
  <2> SUFFICES ASSUME Init PROVE StrandedBound
    OBVIOUS
  <2>1. Stranded = {} /\ faults = 0 /\ crashes = 0
    BY DEF Init, Stranded
  <2>2. Cardinality(Stranded) = 0
    BY <2>1, FS_EmptySet
  <2> QED
    BY <2>1, <2>2, ConcurrencyAssumption DEF StrandedBound
<1>2. StrandedBound => StrandedLogsBounded
  BY DEF StrandedBound, Stranded, StrandedLogsBounded
<1> QED
  BY <1>1, <1>2, StrandedStep, OutcomeInvariant, TypeCorrect, PTL DEF Spec

=============================================================================
