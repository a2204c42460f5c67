---------------------------- MODULE QuartzExec ----------------------------
(***************************************************************************)
(* The execution core of the Quartz module: how BullMQ jobs of ONE task    *)
(* travel through QuartzBullService.processJob, the Redis lock that guards  *)
(* a task with allowConcurrent = false, the execution log, the write-back   *)
(* of the task row, BullMQ's retries, and crashes of worker processes.      *)
(*                                                                          *)
(* Everything here is keyed by the task id in the code (row, lock key, job  *)
(* data, log rows), so tasks do not influence one another except through    *)
(* the worker's concurrency limit.  One action is the code between two      *)
(* awaits.  Administrative operations (enable, edit, delete, resync) are    *)
(* atomic here.                                                             *)
(*                                                                          *)
(* Ghost variables, read by no guard: the owner stored in lock (Redis       *)
(* stores the constant "1"), breach, effects.                               *)
(***************************************************************************)
EXTENDS Integers, Sequences, FiniteSets

CONSTANTS
  Node,            \* worker processes (executeNode, one BullMQ Worker each)
  Concurrency,     \* concurrent jobs per worker; the code fixes 10
  Job,             \* BullMQ jobs of this task
  ManualJob,       \* those of them added by triggerTaskNow
  NoJob,           \* "no job"
  IsDelay,         \* scheduleType = DELAY (otherwise CRON or INTERVAL)
  RetryCount,      \* retryCount of the task
  TimeoutMs,       \* timeoutMs of the task, or Null
  Null,
  MaxStalled,      \* BullMQ's maxStalledCount
  HandlersInTime,  \* environment: handlers return before timeout and lock TTL
  MaxFaults,       \* bound: database and Redis calls that fail
  MaxCrashes,      \* bound: process crashes
  MaxAdmin         \* bound: administrative operations

ASSUME NodeAssumption == IsFiniteSet(Node) /\ Node # {}
ASSUME ConcurrencyAssumption == Concurrency \in Nat \ {0}
ASSUME JobAssumption == ManualJob \subseteq Job /\ NoJob \notin Job
ASSUME TaskAssumption ==
  /\ IsDelay \in BOOLEAN
  /\ RetryCount \in Int
  /\ Null \notin Int
  /\ TimeoutMs \in Int \cup {Null}
ASSUME EnvironmentAssumption ==
  /\ MaxStalled \in Nat
  /\ HandlersInTime \in BOOLEAN
  /\ {MaxFaults, MaxCrashes, MaxAdmin} \subseteq Nat

VARIABLES
  row,       \* the quartz_task row
  sched,     \* a scheduler, or the delayed job of a DELAY task, is in Redis
  jobs,      \* BullMQ's state of every job
  exec,      \* the processJob call running in each worker slot
  logs,      \* quartz_task_log, a log id being a position
  lock,      \* the Redis lock key: Free, or (ghost) the log id of its owner
  handlers,  \* handler promises that have not settled
  breach,    \* ghost: how the lock protocol has been broken so far
  effects,   \* ghost: successful handler runs per job
  faults, crashes, admin   \* uses of the bounds

vars == <<row, sched, jobs, exec, logs, lock, handlers, breach, effects,
          faults, crashes, admin>>

-----------------------------------------------------------------------------
(* Derived constants *)

Slot == Node \X (1 .. Concurrency)

AutoJob == Job \ ManualJob

\* buildJobOptions: retryCount counts the extra tries.
Attempts == IF RetryCount + 1 > 1 THEN RetryCount + 1 ELSE 1

\* runWithTimeout races the handler with a timer only for a positive timeout.
HasTimeout == TimeoutMs # Null /\ TimeoutMs > 0

\* Mutant: the five spare seconds of the lock are lost.
LockSecondsNoMargin(t) ==
  IF t = Null THEN 5 ELSE t \div 1000

\* processJob: max(5, ceil((timeoutMs ?? 5000) / 1000) + 5).
LockSeconds(t) ==
  LET seconds == ((IF t = Null THEN 5000 ELSE t) + 999) \div 1000 + 5
  IN  IF seconds > 5 THEN seconds ELSE 5

\* A pending handler may see its lock expire: no timer ends the call first.
MayOutliveLock ==
  /\ ~HandlersInTime
  /\ HasTimeout => LockSeconds(TimeoutMs) * 1000 <= TimeoutMs

Free == 0

\* The columns that decide what the code does.  lastStatus, nextTriggerAt and
\* the other columns the module only displays are left out.
Rows == [live : BOOLEAN, enable : BOOLEAN, allowConcurrent : BOOLEAN]

\* Places of processJob between two awaits; "idle" is a slot without a job.
EarlyPc  == {"load", "saveLog"}
LoggedPc == {"markRunning", "lock", "handler", "okLog", "okRow",
             "failLog", "failRow", "unlock"}
Pc == {"idle", "finish"} \cup EarlyPc \cup LoggedPc

JobState == [st : {"absent", "waiting", "active", "completed", "failed"},
             made : Nat, stalls : Nat]

LogRow == [job : Job, status : {"RUNNING", "SUCCESS", "FAIL"}]

IdleExec == [pc |-> "idle", job |-> NoJob, log |-> 0, lockKey |-> FALSE,
             result |-> "err",
             task |-> [live |-> FALSE, enable |-> FALSE, allowConcurrent |-> FALSE]]

\* A call of processJob: it has a job, every slot without a call is IdleExec.
Call == [pc : Pc \ {"idle"}, job : Job, log : Nat,
         lockKey : BOOLEAN, result : {"ok", "err"}, task : Rows]

Processing(j) == \E s \in Slot : exec[s].pc # "idle" /\ exec[s].job = j

\* Slots still waiting in runWithTimeout for the handler of log l.
Awaited(l) == \E s \in Slot : exec[s].pc = "handler" /\ exec[s].log = l

-----------------------------------------------------------------------------
(* Initial state: a saved task, synchronised with BullMQ *)

Init ==
  /\ row \in [live : {TRUE}, enable : {TRUE}, allowConcurrent : BOOLEAN]
  /\ sched = TRUE
  /\ jobs = [j \in Job |-> [st |-> "absent", made |-> 0, stalls |-> 0]]
  /\ exec = [s \in Slot |-> IdleExec]
  /\ logs = <<>>
  /\ lock = Free
  /\ handlers = {}
  /\ breach = {}
  /\ effects = [j \in Job |-> 0]
  /\ faults = 0 /\ crashes = 0 /\ admin = 0

-----------------------------------------------------------------------------
(* BullMQ: where jobs come from *)

\* triggerTaskNow (runNow, or runOnCreate): an extra job, run at once.
TriggerTaskNow(j) ==
  /\ j \in ManualJob
  /\ row.live
  /\ jobs[j].st = "absent"
  /\ jobs' = [jobs EXCEPT ![j].st = "waiting"]
  /\ UNCHANGED <<row, sched, exec, logs, lock, handlers, breach, effects,
                 faults, crashes, admin>>

\* The scheduler delivers its next iteration once the previous one was taken
\* by a worker; the delayed job of a DELAY task is delivered once.
SchedulerFires(j) ==
  /\ j \in AutoJob
  /\ sched
  /\ jobs[j].st = "absent"
  /\ \A k \in AutoJob : ~(jobs[k].st = "waiting" /\ jobs[k].made = 0 /\ jobs[k].stalls = 0)
  /\ jobs' = [jobs EXCEPT ![j].st = "waiting"]
  /\ sched' = ~IsDelay
  /\ UNCHANGED <<row, exec, logs, lock, handlers, breach, effects,
                 faults, crashes, admin>>

\* A free slot of a worker takes a waiting job and calls processJob.
Pick(s, j) ==
  /\ exec[s].pc = "idle"
  /\ jobs[j].st = "waiting"
  /\ jobs' = [jobs EXCEPT ![j].st = "active"]
  /\ exec' = [exec EXCEPT ![s] = [IdleExec EXCEPT !.pc = "load", !.job = j]]
  /\ UNCHANGED <<row, sched, logs, lock, handlers, breach, effects,
                 faults, crashes, admin>>

-----------------------------------------------------------------------------
(* processJob, from the read of the task to the handler *)

Goto(s, pc) == exec' = [exec EXCEPT ![s].pc = pc]

\* Mutant: the exception is swallowed.
ThrowSwallowed(s) == exec' = [exec EXCEPT ![s].pc = "finish", ![s].result = "ok"]

\* An exception outside try: neither the log nor the lock is touched.
ThrowOutsideTry(s) == exec' = [exec EXCEPT ![s].pc = "finish", ![s].result = "err"]

\* The database or Redis call of this step fails, without effect.
CallFails == faults < MaxFaults /\ faults' = faults + 1

CallSucceeds == faults' = faults

Refused(s) == ~row.live \/ (~row.enable /\ exec[s].job \notin ManualJob)

LoadTask(s) ==
  /\ exec[s].pc = "load"
  /\ \/ /\ CallSucceeds
        /\ IF Refused(s)
           THEN ThrowOutsideTry(s)
           ELSE exec' = [exec EXCEPT ![s].pc = "saveLog", ![s].task = row]
     \/ CallFails /\ ThrowOutsideTry(s)
  /\ UNCHANGED <<row, sched, jobs, logs, lock, handlers, breach, effects,
                 crashes, admin>>

SaveLog(s) ==
  /\ exec[s].pc = "saveLog"
  /\ \/ /\ CallSucceeds
        /\ logs' = Append(logs, [job |-> exec[s].job, status |-> "RUNNING"])
        /\ exec' = [exec EXCEPT ![s].pc = "markRunning", ![s].log = Len(logs) + 1]
     \/ CallFails /\ ThrowOutsideTry(s) /\ UNCHANGED logs
  /\ UNCHANGED <<row, sched, jobs, lock, handlers, breach, effects,
                 crashes, admin>>

\* Writes display columns only; what counts is that it may fail outside try.
MarkRunning(s) ==
  /\ exec[s].pc = "markRunning"
  /\ \/ CallSucceeds /\ Goto(s, "lock")
     \/ CallFails /\ ThrowOutsideTry(s)
  /\ UNCHANGED <<row, sched, jobs, logs, lock, handlers, breach, effects,
                 crashes, admin>>

\* The handler starts: its promise is pending until HandlerEnds, OrphanEnds
\* or a crash of the process.
StartHandler(s) ==
  handlers' = handlers \cup {[log |-> exec[s].log, node |-> s[1],
                              guarded |-> ~exec[s].task.allowConcurrent]}

EnterUnguarded(s) ==
  /\ exec[s].pc = "lock"
  /\ exec[s].task.allowConcurrent
  /\ StartHandler(s)
  /\ Goto(s, "handler")
  /\ UNCHANGED <<row, sched, jobs, logs, lock, breach, effects,
                 faults, crashes, admin>>

\* Mutant: SET without NX, the key is written whether or not it exists.
AcquireNoNx(s) ==
  /\ exec[s].pc = "lock"
  /\ ~exec[s].task.allowConcurrent
  /\ lock' = exec[s].log
  /\ StartHandler(s)
  /\ exec' = [exec EXCEPT ![s].pc = "handler", ![s].lockKey = TRUE]
  /\ UNCHANGED <<row, sched, jobs, logs, breach, effects, faults, crashes, admin>>

\* tryLock answers OK: SET key 1 EX seconds NX on a free key.
Acquire(s) ==
  /\ exec[s].pc = "lock"
  /\ ~exec[s].task.allowConcurrent
  /\ lock = Free
  /\ lock' = exec[s].log
  /\ StartHandler(s)
  /\ exec' = [exec EXCEPT ![s].pc = "handler", ![s].lockKey = TRUE]
  /\ UNCHANGED <<row, sched, jobs, logs, breach, effects, faults, crashes, admin>>

\* Mutant: the rejection bypasses the catch block.
RejectSilently(s) ==
  /\ exec[s].pc = "lock"
  /\ ~exec[s].task.allowConcurrent
  /\ lock # Free
  /\ ThrowOutsideTry(s)
  /\ UNCHANGED <<row, sched, jobs, logs, lock, handlers, breach, effects,
                 faults, crashes, admin>>

\* tryLock finds the key taken: the execution is rejected, inside try, with
\* lockKey already set.
Reject(s) ==
  /\ exec[s].pc = "lock"
  /\ ~exec[s].task.allowConcurrent
  /\ lock # Free
  /\ exec' = [exec EXCEPT ![s].pc = "failLog", ![s].lockKey = TRUE]
  /\ UNCHANGED <<row, sched, jobs, logs, lock, handlers, breach, effects,
                 faults, crashes, admin>>

\* The tryLock call fails; Redis may or may not have set the key.
LockCallFails(s) ==
  /\ exec[s].pc = "lock"
  /\ ~exec[s].task.allowConcurrent
  /\ CallFails
  /\ lock' \in {lock, IF lock = Free THEN exec[s].log ELSE lock}
  /\ exec' = [exec EXCEPT ![s].pc = "failLog", ![s].lockKey = TRUE]
  /\ UNCHANGED <<row, sched, jobs, logs, handlers, breach, effects, crashes, admin>>

-----------------------------------------------------------------------------
(* The handler *)

Settle(h, ok) ==
  /\ handlers' = handlers \ {h}
  /\ effects' = [effects EXCEPT ![logs[h.log].job] = IF ok THEN @ + 1 ELSE @]

\* The awaited handler resolves or rejects.
HandlerEnds(s, ok) ==
  /\ exec[s].pc = "handler"
  /\ \E h \in handlers : h.log = exec[s].log /\ Settle(h, ok)
  /\ Goto(s, IF ok THEN "okLog" ELSE "failLog")
  /\ UNCHANGED <<row, sched, jobs, logs, lock, breach, faults, crashes, admin>>

\* Mutant: the handler is awaited without a timer.
HandlerAwaitedForever(s) == s \notin Slot /\ UNCHANGED vars

\* The timer wins the race: the call goes on to its catch block while the
\* handler keeps running.
HandlerTimesOut(s) ==
  /\ exec[s].pc = "handler"
  /\ HasTimeout /\ ~HandlersInTime
  /\ breach' = breach \cup {"timeout"}
  /\ Goto(s, "failLog")
  /\ UNCHANGED <<row, sched, jobs, logs, lock, handlers, effects,
                 faults, crashes, admin>>

\* Mutant: the late answer of a timed-out handler is written to its log.
OrphanEndsLogged(h, ok) ==
  /\ h \in handlers
  /\ ~Awaited(h.log)
  /\ Settle(h, ok)
  /\ logs' = [logs EXCEPT ![h.log].status = IF ok THEN "SUCCESS" ELSE "FAIL"]
  /\ UNCHANGED <<row, sched, jobs, exec, lock, breach, faults, crashes, admin>>

\* A handler nobody awaits any more settles; its result is dropped.
OrphanEnds(h, ok) ==
  /\ h \in handlers
  /\ ~Awaited(h.log)
  /\ Settle(h, ok)
  /\ UNCHANGED <<row, sched, jobs, exec, logs, lock, breach,
                 faults, crashes, admin>>

-----------------------------------------------------------------------------
(* processJob, after the handler *)

\* Mutant: the attempt under way is not counted.
IsFinalAttemptOffByOne(j) == jobs[j].made >= Attempts

IsFinalAttempt(j) == jobs[j].made + 1 >= Attempts

RecordSuccess(s) ==
  /\ exec[s].pc = "okLog"
  /\ \/ /\ CallSucceeds
        /\ logs' = [logs EXCEPT ![exec[s].log].status = "SUCCESS"]
        /\ Goto(s, "okRow")
     \/ CallFails /\ Goto(s, "failLog") /\ UNCHANGED logs
  /\ UNCHANGED <<row, sched, jobs, lock, handlers, breach, effects,
                 crashes, admin>>

\* Mutant: the outcome of a successful call is lost.
WriteBackSuccessNoReturn(s) ==
  /\ exec[s].pc = "okRow"
  /\ row' = [row EXCEPT !.enable = ~IsDelay /\ exec[s].task.enable]
  /\ Goto(s, "unlock")
  /\ UNCHANGED <<sched, jobs, logs, lock, handlers, breach, effects,
                 faults, crashes, admin>>

\* The success write-back puts the snapshot's enable back into the row.
WriteBackSuccess(s) ==
  /\ exec[s].pc = "okRow"
  /\ \/ /\ CallSucceeds
        /\ row' = [row EXCEPT !.enable = ~IsDelay /\ exec[s].task.enable]
        /\ exec' = [exec EXCEPT ![s].pc = "unlock", ![s].result = "ok"]
     \/ CallFails /\ Goto(s, "failLog") /\ UNCHANGED row
  /\ UNCHANGED <<sched, jobs, logs, lock, handlers, breach, effects,
                 crashes, admin>>

\* Mutant: a status the column does not know.
RecordFailureTimeout(s) ==
  /\ exec[s].pc = "failLog"
  /\ CallSucceeds
  /\ logs' = [logs EXCEPT ![exec[s].log].status =
                IF "timeout" \in breach THEN "TIMEOUT" ELSE "FAIL"]
  /\ Goto(s, "failRow")
  /\ UNCHANGED <<row, sched, jobs, lock, handlers, breach, effects,
                 crashes, admin>>

RecordFailure(s) ==
  /\ exec[s].pc = "failLog"
  /\ \/ /\ CallSucceeds
        /\ logs' = [logs EXCEPT ![exec[s].log].status = "FAIL"]
        /\ Goto(s, "failRow")
     \/ CallFails /\ Goto(s, "unlock") /\ UNCHANGED logs
  /\ UNCHANGED <<row, sched, jobs, lock, handlers, breach, effects,
                 crashes, admin>>

WriteBackFailure(s) ==
  LET final == IsFinalAttempt(exec[s].job) IN
  /\ exec[s].pc = "failRow"
  /\ \/ /\ CallSucceeds
        /\ row' = [row EXCEPT !.enable = ~(IsDelay /\ final) /\ exec[s].task.enable]
     \/ CallFails /\ UNCHANGED row
  /\ Goto(s, "unlock")
  /\ UNCHANGED <<sched, jobs, logs, lock, handlers, breach, effects,
                 crashes, admin>>

\* Mutant: a successful call forgets its finally block.
UnlockOnFailureOnly(s) ==
  /\ exec[s].pc = "unlock"
  /\ lock' = IF exec[s].lockKey /\ exec[s].result = "err" THEN Free ELSE lock
  /\ Goto(s, "finish")
  /\ UNCHANGED <<row, sched, jobs, logs, handlers, breach, effects, faults,
                 crashes, admin>>

\* finally: DEL of the key whenever lockKey is set, whoever owns the lock.
\* A failing DEL replaces the outcome of the call by its own error.
Unlock(s) ==
  /\ exec[s].pc = "unlock"
  /\ \/ /\ CallSucceeds
        /\ Goto(s, "finish")
        /\ lock' = IF exec[s].lockKey THEN Free ELSE lock
        /\ breach' = IF exec[s].lockKey /\ lock \notin {Free, exec[s].log}
                     THEN breach \cup {"foreignUnlock"} ELSE breach
     \/ /\ exec[s].lockKey /\ CallFails
        /\ ThrowOutsideTry(s)
        /\ UNCHANGED <<lock, breach>>
  /\ UNCHANGED <<row, sched, jobs, logs, handlers, effects, crashes, admin>>

\* Mutant: one attempt too many is granted.
FinishExtraAttempt(s) ==
  LET j == exec[s].job IN
  /\ exec[s].pc = "finish"
  /\ exec' = [exec EXCEPT ![s] = IdleExec]
  /\ jobs' = [jobs EXCEPT
                ![j].made = IF exec[s].result = "ok" THEN @ ELSE @ + 1,
                ![j].st = IF exec[s].result = "ok" THEN "completed"
                          ELSE IF jobs[j].made + 1 <= Attempts THEN "waiting" ELSE "failed"]
  /\ UNCHANGED <<row, sched, logs, lock, handlers, breach, effects,
                 faults, crashes, admin>>

\* BullMQ settles the attempt: done, to be retried, or failed for good.
Finish(s) ==
  LET j == exec[s].job IN
  /\ exec[s].pc = "finish"
  /\ exec' = [exec EXCEPT ![s] = IdleExec]
  /\ jobs' = [jobs EXCEPT
                ![j].made = IF exec[s].result = "ok" THEN @ ELSE @ + 1,
                ![j].st = IF exec[s].result = "ok" THEN "completed"
                          ELSE IF jobs[j].made + 1 < Attempts THEN "waiting" ELSE "failed"]
  /\ UNCHANGED <<row, sched, logs, lock, handlers, breach, effects,
                 faults, crashes, admin>>

-----------------------------------------------------------------------------
(* The lock's time to live, crashes, stalled jobs *)

\* Mutant: the key is set without EX.
LockExpiresNever == FALSE /\ UNCHANGED vars

\* The key expires, unless its owner is inside a handler that is known to end
\* before the time to live does.
LockExpires ==
  /\ lock # Free
  /\ Awaited(lock) => MayOutliveLock
  /\ lock' = Free
  /\ breach' = IF \E h \in handlers : h.log = lock
               THEN breach \cup {"expiry"} ELSE breach
  /\ UNCHANGED <<row, sched, jobs, exec, logs, handlers, effects,
                 faults, crashes, admin>>

\* A process dies with everything it was doing; Redis and MySQL survive.
Crash(n) ==
  /\ crashes < MaxCrashes
  /\ crashes' = crashes + 1
  /\ \/ \E s \in Slot : s[1] = n /\ exec[s].pc # "idle"
     \/ \E h \in handlers : h.node = n
  /\ exec' = [s \in Slot |-> IF s[1] = n THEN IdleExec ELSE exec[s]]
  /\ handlers' = {h \in handlers : h.node # n}
  /\ UNCHANGED <<row, sched, jobs, logs, lock, breach, effects, faults, admin>>

\* BullMQ finds an active job without a live worker: it is run again without
\* counting an attempt, at most MaxStalled times.
Stalled(j) ==
  /\ jobs[j].st = "active"
  /\ ~Processing(j)
  /\ IF jobs[j].stalls < MaxStalled
     THEN jobs' = [jobs EXCEPT ![j].stalls = @ + 1, ![j].st = "waiting"]
     ELSE jobs' = [jobs EXCEPT ![j].st = "failed"]
  /\ UNCHANGED <<row, sched, exec, logs, lock, handlers, breach, effects,
                 faults, crashes, admin>>

-----------------------------------------------------------------------------
(* Administration, each operation atomic *)

AdminOperation ==
  /\ row.live
  /\ admin < MaxAdmin
  /\ admin' = admin + 1
  /\ UNCHANGED <<jobs, exec, logs, lock, handlers, breach, effects,
                 faults, crashes>>

\* changeEnable.
ChangeEnable(enable) ==
  /\ AdminOperation
  /\ row' = [row EXCEPT !.enable = enable]
  /\ sched' = enable

\* edit: the whole definition is overwritten, enable included.
Edit(enable, allowConcurrent) ==
  /\ AdminOperation
  /\ row' = [row EXCEPT !.enable = enable, !.allowConcurrent = allowConcurrent]
  /\ sched' = enable

\* delByIds.
DelByIds ==
  /\ AdminOperation
  /\ row' = [row EXCEPT !.live = FALSE]
  /\ sched' = FALSE

\* syncTask by an administrator, or syncEnabledTasks of a starting process
\* (which skips disabled tasks: their scheduler is not looked at).
Resync ==
  /\ AdminOperation
  /\ UNCHANGED row
  /\ sched' = row.enable

-----------------------------------------------------------------------------
(* The specification *)

Execute(s) ==
  \/ LoadTask(s) \/ SaveLog(s) \/ MarkRunning(s)
  \/ EnterUnguarded(s) \/ Acquire(s) \/ Reject(s) \/ LockCallFails(s)
  \/ RecordSuccess(s) \/ WriteBackSuccess(s)
  \/ RecordFailure(s) \/ WriteBackFailure(s)
  \/ Unlock(s) \/ Finish(s)

Handlers ==
  \/ \E s \in Slot, ok \in BOOLEAN : HandlerEnds(s, ok)
  \/ \E s \in Slot : HandlerTimesOut(s)
  \/ \E h \in handlers, ok \in BOOLEAN : OrphanEnds(h, ok)

Queue ==
  \/ \E j \in Job : TriggerTaskNow(j) \/ SchedulerFires(j) \/ Stalled(j)
  \/ \E s \in Slot, j \in Job : Pick(s, j)

Admin ==
  \/ \E enable \in BOOLEAN : ChangeEnable(enable)
  \/ \E enable, allowConcurrent \in BOOLEAN : Edit(enable, allowConcurrent)
  \/ DelByIds
  \/ Resync

Environment == LockExpires \/ \E n \in Node : Crash(n)

Next ==
  \/ \E s \in Slot : Execute(s)
  \/ Handlers
  \/ Queue
  \/ Environment
  \/ Admin

Spec == Init /\ [][Next]_vars

\* A live process goes on with every call it has begun (the event loop runs
\* every continuation), its timers fire, workers poll the queue, BullMQ looks
\* for stalled jobs and Redis expires keys.  Handlers promise nothing.
Fairness ==
  /\ \A s \in Slot : WF_vars(Execute(s)) /\ WF_vars(HandlerTimesOut(s))
  /\ \A j \in Job : WF_vars(\E s \in Slot : Pick(s, j)) /\ WF_vars(Stalled(j))
  /\ WF_vars(LockExpires)

FairSpec == Spec /\ Fairness

-----------------------------------------------------------------------------
(* Properties *)

\* Every variable holds a value the code can store in it.
TypeOK ==
  /\ row \in Rows
  /\ sched \in BOOLEAN
  /\ jobs \in [Job -> JobState]
  /\ exec \in [Slot -> Call \cup {IdleExec}]
  /\ logs \in Seq(LogRow)
  /\ lock \in Nat
  /\ handlers \subseteq [log : Nat, node : Node, guarded : BOOLEAN]
  /\ breach \subseteq {"foreignUnlock", "timeout", "expiry"}
  /\ effects \in [Job -> Nat]
  /\ faults \in Nat /\ crashes \in Nat /\ admin \in Nat

\* processJob's comment on the lock: of a task that does not allow concurrency
\* one instance at a time is inside the handler.  (The code does not keep it.)
SingleInstance ==
  \A g, h \in handlers : g.guarded /\ h.guarded => g = h

\* What the lock does give: two guarded handlers overlap only after the lock
\* was deleted by a call that did not own it, after a timed-out handler was
\* left running, or after the lock expired under a running handler.
SingleInstanceUnlessBreached == breach = {} => SingleInstance

\* lockSeconds outlives timeoutMs: the lock expires under a running handler
\* only for a task without timeout, or for a handler that already timed out.
ExpiryNeedsTimeout ==
  HasTimeout /\ "expiry" \in breach => "timeout" \in breach

\* While nothing fails, a held lock belongs to a call that is going to release
\* it: no path of processJob leaves the key behind for its time to live.
LockNotLeaked ==
  faults = 0 /\ crashes = 0 /\ lock # Free =>
    \E s \in Slot : exec[s].log = lock /\ exec[s].lockKey
                    /\ exec[s].pc \in LoggedPc \ {"markRunning", "lock"}

\* Calls that will still write the final status of log l.
WillClose(l) ==
  \E s \in Slot : exec[s].log = l
                  /\ exec[s].pc \in {"markRunning", "lock", "handler", "okLog", "failLog"}

\* A log row that stays RUNNING for ever costs one failed call or one slot of
\* a crashed process: every other path of processJob closes its log.
StrandedLogsBounded ==
  Cardinality({l \in DOMAIN logs : logs[l].status = "RUNNING" /\ ~WillClose(l)})
    <= faults + crashes * Concurrency

\* The history told by a log row only moves forward: RUNNING, then SUCCESS or
\* FAIL; a SUCCESS is taken back only after a failed write-back.
LogForward ==
  [][\A l \in DOMAIN logs :
        logs'[l].status # logs[l].status =>
          \/ logs[l].status = "RUNNING"
          \/ logs[l].status = "SUCCESS" /\ logs'[l].status = "FAIL" /\ faults > 0]_vars

LogsOf(j) == {l \in DOMAIN logs : logs[l].job = j}

\* BullMQ and the database agree: a completed job has a SUCCESS log, and
\* without failures a failed job has only FAIL logs.
JobOutcomeMatchesLog ==
  \A j \in Job :
    /\ jobs[j].st = "completed" => \E l \in LogsOf(j) : logs[l].status = "SUCCESS"
    /\ jobs[j].st = "failed" /\ faults = 0 /\ crashes = 0
         => \A l \in LogsOf(j) : logs[l].status = "FAIL"

\* retryCount bounds the executions of a job; only a stall adds one.
RunsWithinBudget ==
  \A j \in Job : Cardinality(LogsOf(j)) <= Attempts + jobs[j].stalls

\* A job's business effect happens twice only after a crash, a failed call or
\* a handler left running by its timeout: rejections and retries do not cause it.
SingleEffectUnlessDisturbed ==
  faults = 0 /\ crashes = 0 /\ "timeout" \notin breach
    => \A j \in Job : effects[j] <= 1

Settled(j) == jobs[j].st \in {"completed", "failed"}

\* A DELAY task whose jobs are all through is disabled, so that a restart does
\* not deliver it again (shouldDisableDelayTask), whatever the interleaving of
\* their write-backs.
DelayTaskRetired ==
  IsDelay /\ faults = 0 /\ crashes = 0 /\ admin = 0 /\ logs # <<>>
    /\ (\A j \in Job : Settled(j) \/ jobs[j].st = "absent")
    => ~row.enable

\* runNow only adds a job: a scheduled run of a task no administrator has
\* touched is not refused.  (The code does not keep it.)
ScheduledRunNotSuppressed ==
  faults = 0 /\ crashes = 0 /\ admin = 0
    => \A j \in AutoJob : jobs[j].st = "failed" => LogsOf(j) # {}

\* Every delivered job is completed or fails for good, through rejections,
\* retries, timeouts and crashes.
JobsSettle == \A j \in Job : jobs[j].st = "waiting" ~> Settled(j)

\* The lock never stays behind, not even after a crash or a failed DEL.
LockComesBack == lock # Free ~> lock = Free

-----------------------------------------------------------------------------
(* The inductive invariant behind SingleInstanceUnlessBreached and          *)
(* ExpiryNeedsTimeout                                                       *)

\* A call between saveLog and its end owns a log row of its own.
LogsOwned ==
  /\ \A s \in Slot : exec[s].pc \in LoggedPc => exec[s].log \in 1 .. Len(logs)
  /\ \A s, t \in Slot :
        exec[s].pc \in LoggedPc /\ exec[t].pc \in LoggedPc /\ exec[s].log = exec[t].log
          => s = t

\* At most one handler per log row, started after the call passed "lock", by
\* the process of the slot that awaits it.
HandlersOwned ==
  /\ \A h \in handlers : h.log \in 1 .. Len(logs)
  /\ \A g, h \in handlers : g.log = h.log => g = h
  /\ \A s \in Slot, h \in handlers :
        exec[s].log = h.log /\ exec[s].pc \in LoggedPc
          => exec[s].pc \notin {"markRunning", "lock"} /\ h.node = s[1]

\* Only a timeout leaves a handler that no call awaits.
HandlersAwaited == "timeout" \notin breach => \A h \in handlers : Awaited(h.log)

\* As long as the protocol is unbroken the lock belongs to the guarded handler.
LockOwned == breach = {} => \A h \in handlers : h.guarded => lock = h.log

\* The conjunction that every step of the specification preserves.
ExecInv ==
  /\ LogsOwned
  /\ HandlersOwned
  /\ HandlersAwaited
  /\ LockOwned
  /\ ExpiryNeedsTimeout

=============================================================================
