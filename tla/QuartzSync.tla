---------------------------- MODULE QuartzSync ----------------------------
(***************************************************************************)
(* How the administration of the Quartz module keeps the quartz_task row of *)
(* ONE task and BullMQ in step: save, edit, changeEnable, syncTask,         *)
(* delByIds, and the synchronisation when an instance starts, each awaiting *)
(* the database and Redis step by step, while runs of the task, by any job  *)
(* of it, write the row back, steps fail and instances restart.             *)
(*                                                                          *)
(* QuartzExec takes an administrative operation as one atomic step; this    *)
(* module shows when that is so.  Conversely a run is only its beginning    *)
(* and its end here; QuartzExec has it step by step.                        *)
(*                                                                          *)
(* Ghost variables, read by no guard: clash, overlapped, last.              *)
(***************************************************************************)
EXTENDS Naturals, FiniteSets

CONSTANTS
  Instance,     \* processes of the application
  Requests,     \* administrative requests an instance serves at a time
  Worker,       \* runs that may be in progress together
  Conf,         \* schedule configurations a task may be given
  DelayConf,    \* those with scheduleType = DELAY
  None,         \* "nothing scheduled"
  MaxCalls,     \* bound: administrative calls
  MaxRuns,      \* bound: runs of the task
  MaxFaults     \* bound: calls and runs broken by a failing step, and restarts

ASSUME InstanceAssumption == IsFiniteSet(Instance) /\ Requests \in Nat \ {0}
ASSUME ConfAssumption == Conf # {} /\ DelayConf \subseteq Conf /\ None \notin Conf
ASSUME BoundAssumption == {MaxCalls, MaxRuns, MaxFaults} \subseteq Nat

VARIABLES
  row,        \* the quartz_task row
  sched,      \* the job scheduler of the task: its configuration, or None
  delayJob,   \* the job with the fixed id of the task's delay job
  queued,     \* the other kinds of job added so far: "sched" by the scheduler, "manual"
              \* by runNow or runOnCreate.  There may be any number of a kind, and any of
              \* them may wait or be retried for long, so none is ever taken out
  calls,      \* the administrative calls in progress
  run,        \* the processJob calls in progress
  clash,      \* ghost: what was in progress together with a call since there was none,
              \*        another "call" or a "run"
  overlapped, \* ghost: two calls have ever been in progress together
  last,       \* ghost: the call that left BullMQ as it is and the entity it worked on,
              \*        "none" if it failed or overlapped another; and what runs did since
  made, runs, faults   \* uses of the bounds

vars == <<row, sched, delayJob, queued, calls, run, clash, overlapped, last,
          made, runs, faults>>

bounds == <<made, runs, faults>>

-----------------------------------------------------------------------------

\* The requests an instance serves, and its startup.
Caller == Instance \X (0 .. Requests)
Boot(i) == <<i, 0>>

Rows == [st : {"none", "live", "deleted"}, enable : BOOLEAN, conf : Conf]

JobStates == {"none", "waiting", "active", "failed"}

Ops == {"save", "edit", "changeEnable", "syncTask", "delByIds", "boot"}

\* Places of a call between two awaits; "idle" is no call.
Pc == {"idle", "write", "read", "removeScheduler", "removeDelayJob",
       "schedule", "finish", "softDelete"}

\* A call: what it was asked for, and the task entity it works on.
Calls == [pc : Pc, op : Ops, conf : Conf, enable : BOOLEAN, task : Rows]

Kinds == {"sched", "manual"}

Runs == [from : Kinds \cup {"idle", "delay"}, task : Rows]

\* Runs the call overlapped, runs that broke off, and runs of a DELAY task by another
\* job than its delay job.
Lasts == [op : Ops \cup {"none", "skip"}, task : Rows,
          runs : SUBSET {"crossed", "broken", "stray"}]

InProgress(c) == calls[c].pc # "idle"
CallInProgress == \E c \in Caller : InProgress(c)
RunInProgress == \E w \in Worker : run[w].from # "idle"

\* An arbitrary entity for the fields of calls and runs that do not exist.
Blank == [st |-> "none", enable |-> FALSE, conf |-> CHOOSE k \in Conf : TRUE]

IdleCall == [pc |-> "idle", op |-> "syncTask", conf |-> Blank.conf,
             enable |-> FALSE, task |-> Blank]
IdleRun == [from |-> "idle", task |-> Blank]
NoLast == [op |-> "none", task |-> Blank, runs |-> {}]

Init ==
  /\ row = Blank
  /\ sched = None
  /\ delayJob = "none" /\ queued = {}
  /\ calls = [c \in Caller |-> IdleCall]
  /\ run = [w \in Worker |-> IdleRun]
  /\ clash = {} /\ overlapped = FALSE /\ last = NoLast
  /\ made = 0 /\ runs = 0 /\ faults = 0

-----------------------------------------------------------------------------
(* How a call begins and ends *)

\* What a call finds in progress when it begins.
Overlap(others) == (IF others THEN {"call"} ELSE {}) \cup (IF RunInProgress THEN {"run"} ELSE {})

\* A request reaches an instance that has started, for an existing task unless
\* it is to be saved (checkThrowExist, or the find of delByIds).
Begin(c, call) ==
  /\ made < MaxCalls
  /\ made' = made + 1
  /\ c[2] # 0 /\ ~InProgress(Boot(c[1]))
  /\ ~InProgress(c)
  /\ calls' = [calls EXCEPT ![c] = call]
  /\ clash' = Overlap(CallInProgress)
  /\ overlapped' = (overlapped \/ CallInProgress)
  /\ last' = NoLast
  /\ UNCHANGED <<row, sched, delayJob, queued, run, runs, faults>>

Save(c, conf, enable) ==
  /\ row.st = "none"
  /\ \A d \in Caller : InProgress(d) => calls[d].op # "save"
  /\ Begin(c, [IdleCall EXCEPT !.pc = "write", !.op = "save",
                               !.conf = conf, !.enable = enable])

Edit(c, conf, enable) ==
  /\ row.st = "live"
  /\ Begin(c, [IdleCall EXCEPT !.pc = "write", !.op = "edit",
                               !.conf = conf, !.enable = enable])

\* Mutant: the switch is passed on as the request has it, absent perhaps.
ChangeEnableUnchecked(c, enable) ==
  /\ row.st = "live"
  /\ \E e \in {enable, None} :
       Begin(c, [IdleCall EXCEPT !.pc = "write", !.op = "changeEnable", !.enable = e])

ChangeEnable(c, enable) ==
  /\ row.st = "live"
  /\ Begin(c, [IdleCall EXCEPT !.pc = "write", !.op = "changeEnable",
                               !.enable = enable])

SyncTask(c) ==
  /\ row.st = "live"
  /\ Begin(c, [IdleCall EXCEPT !.pc = "read", !.op = "syncTask"])

DelByIds(c) ==
  /\ row.st = "live"
  /\ Begin(c, [IdleCall EXCEPT !.pc = "removeScheduler", !.op = "delByIds",
                               !.task = row])

Goto(c, pc) == calls' = [calls EXCEPT ![c].pc = pc]

Ends(c) == calls' = [calls EXCEPT ![c] = IdleCall]

\* What a call that returns leaves, unless it overlapped another.
LastIs(op, task) ==
  IF "call" \in clash THEN NoLast
  ELSE [op |-> op, task |-> task, runs |-> IF "run" \in clash THEN {"crossed"} ELSE {}]

\* The call returns; "skip" is a startup that found nothing to synchronise.
Returns(c) ==
  /\ Ends(c)
  /\ last' = LastIs(calls[c].op, calls[c].task)

Throws(c) == Ends(c) /\ last' = NoLast

\* A step of the call fails before it has an effect; a step whose effect stands
\* although its answer is lost is that step followed by this one.  A startup that
\* cannot read the tasks does not come up and is tried again.
CallFails(c) ==
  /\ InProgress(c)
  /\ faults < MaxFaults
  /\ faults' = faults + 1
  /\ IF calls[c].op = "boot" /\ calls[c].pc = "read"
     THEN last' = NoLast /\ UNCHANGED calls
     ELSE Throws(c)
  /\ UNCHANGED <<row, sched, delayJob, queued, run, clash, overlapped, made, runs>>

-----------------------------------------------------------------------------
(* The steps of a call *)

\* repo.save or repo.update.
Write(c) ==
  LET call == calls[c]
      new  == CASE call.op = "save" ->
                     [st |-> "live", enable |-> call.enable, conf |-> call.conf]
                [] call.op = "edit" ->
                     [row EXCEPT !.enable = call.enable, !.conf = call.conf]
                [] OTHER -> [row EXCEPT !.enable = call.enable]
  IN
  /\ call.pc = "write"
  /\ row' = new
  /\ calls' = [calls EXCEPT ![c] =
       IF call.op = "save"
       THEN [IdleCall EXCEPT !.pc = "removeScheduler", !.op = "save", !.task = new]
       ELSE [IdleCall EXCEPT !.pc = "read", !.op = call.op]]
  /\ UNCHANGED <<sched, delayJob, queued, run, clash, overlapped, last, bounds>>

\* The task is read back: checkThrowExist, or the find of syncEnabledTasks.
Read(c) ==
  /\ calls[c].pc = "read"
  /\ IF row.st # "live"
     THEN IF calls[c].op = "boot" THEN Ends(c) /\ UNCHANGED last ELSE Throws(c)
     ELSE IF calls[c].op = "boot" /\ ~row.enable
     THEN Ends(c) /\ last' = LastIs("skip", row)
     ELSE /\ calls' = [calls EXCEPT ![c].pc = "removeScheduler", ![c].task = row]
          /\ UNCHANGED last
  /\ UNCHANGED <<row, sched, delayJob, queued, run, clash, overlapped, bounds>>

\* Mutant: only a repeating task is taken to have a scheduler.
RemoveSchedulerByType(c) ==
  /\ calls[c].pc = "removeScheduler"
  /\ sched' = IF calls[c].task.conf \in DelayConf THEN sched ELSE None
  /\ Goto(c, "removeDelayJob")
  /\ UNCHANGED <<row, delayJob, queued, run, clash, overlapped, last, bounds>>

\* removeTaskScheduler, first half.
RemoveScheduler(c) ==
  /\ calls[c].pc = "removeScheduler"
  /\ sched' = None
  /\ Goto(c, "removeDelayJob")
  /\ UNCHANGED <<row, delayJob, queued, run, clash, overlapped, last, bounds>>

\* Where a call goes once nothing is scheduled any more.
AfterRemoval(call) ==
  IF call.op = "delByIds" THEN "softDelete"
  ELSE IF call.task.enable THEN "schedule" ELSE "finish"

\* Mutant: an error of job.remove() is ignored.
RemoveDelayJobIgnoring(c) ==
  /\ calls[c].pc = "removeDelayJob"
  /\ delayJob' = IF delayJob = "active" THEN delayJob ELSE "none"
  /\ Goto(c, AfterRemoval(calls[c]))
  /\ UNCHANGED <<row, sched, queued, run, clash, overlapped, last, bounds>>

\* removeTaskScheduler, second half: BullMQ refuses to remove a job that a worker
\* has locked, and the call throws.
RemoveDelayJob(c) ==
  /\ calls[c].pc = "removeDelayJob"
  /\ IF delayJob = "active"
     THEN Throws(c) /\ UNCHANGED delayJob
     ELSE delayJob' = "none" /\ Goto(c, AfterRemoval(calls[c])) /\ UNCHANGED last
  /\ UNCHANGED <<row, sched, queued, run, clash, overlapped, bounds>>

\* queue.add, which does nothing when a job with that id exists, or
\* upsertJobScheduler.
Schedule(c) ==
  /\ calls[c].pc = "schedule"
  /\ IF calls[c].task.conf \in DelayConf
     THEN /\ delayJob' = IF delayJob = "none" THEN "waiting" ELSE delayJob
          /\ UNCHANGED sched
     ELSE /\ sched' = calls[c].task.conf
          /\ UNCHANGED delayJob
  /\ Goto(c, "finish")
  /\ UNCHANGED <<row, queued, run, clash, overlapped, last, bounds>>

\* The update of nextTriggerAt and lastStatus, and a manual job if a task with
\* runOnCreate is saved; the call returns.
Finish(c) ==
  /\ calls[c].pc = "finish"
  /\ queued' \in {queued} \cup (IF calls[c].op = "save" THEN {queued \cup {"manual"}} ELSE {})
  /\ Returns(c)
  /\ UNCHANGED <<row, sched, delayJob, run, clash, overlapped, bounds>>

SoftDelete(c) ==
  /\ calls[c].pc = "softDelete"
  /\ row' = [row EXCEPT !.st = "deleted"]
  /\ Returns(c)
  /\ UNCHANGED <<sched, delayJob, queued, run, clash, overlapped, bounds>>

\* The process dies and is started again: its calls are gone, and onModuleInit
\* synchronises the enabled tasks before requests are served.
Restart(i) ==
  /\ faults < MaxFaults
  /\ faults' = faults + 1
  /\ calls' = [c \in Caller |->
       IF c = Boot(i) THEN [IdleCall EXCEPT !.pc = "read", !.op = "boot"]
       ELSE IF c[1] = i THEN IdleCall ELSE calls[c]]
  /\ LET others == \E c \in Caller : c[1] # i /\ InProgress(c) IN
     /\ clash' = Overlap(others)
     /\ overlapped' = (overlapped \/ others)
  /\ last' = NoLast
  /\ UNCHANGED <<row, sched, delayJob, queued, run, made, runs>>

-----------------------------------------------------------------------------
(* Jobs and runs of the task *)

\* The scheduler adds its next job.  removeJobScheduler takes back the job that is not
\* yet due; one that is stays, as do the retries of earlier ones.
SchedulerFires ==
  /\ sched # None
  /\ queued' = queued \cup {"sched"}
  /\ UNCHANGED <<row, sched, delayJob, calls, run, clash, overlapped, last, bounds>>

\* runNow: an instance that has started finds the task and adds a manual job.  The
\* two are one step, as a worker may take the job later just as well.
RunNow ==
  /\ row.st = "live"
  /\ \E i \in Instance : ~InProgress(Boot(i))
  /\ queued' = queued \cup {"manual"}
  /\ UNCHANGED <<row, sched, delayJob, calls, run, clash, overlapped, last, bounds>>

\* processJob refuses a task that is gone, or disabled but to a manual job.
Refused(from) == row.st # "live" \/ (~row.enable /\ from # "manual")

Due(from) == IF from = "delay" THEN delayJob = "waiting" ELSE from \in queued

\* A worker takes a job and loads the task.
RunBegins(w, from) ==
  /\ runs < MaxRuns
  /\ runs' = runs + 1
  /\ run[w].from = "idle" /\ Due(from) /\ ~Refused(from)
  /\ run' = [run EXCEPT ![w] = [from |-> from, task |-> row]]
  /\ delayJob' = IF from = "delay" THEN "active" ELSE delayJob
  /\ clash' = IF CallInProgress THEN clash \cup {"run"} ELSE clash
  /\ last' = IF from # "delay" /\ row.conf \in DelayConf
             THEN [last EXCEPT !.runs = @ \cup {"stray"}] ELSE last
  /\ UNCHANGED <<row, sched, queued, calls, overlapped, made, faults>>

\* A delay job that is refused uses up its attempts.
JobRefused ==
  /\ Due("delay") /\ Refused("delay")
  /\ delayJob' = "failed"
  /\ UNCHANGED <<row, sched, queued, calls, run, clash, overlapped, last, bounds>>

\* Mutant: a run that will be retried disables a DELAY task, too.
WriteBackAlways(task, retried) ==
  [row EXCEPT !.enable = IF task.conf \in DelayConf THEN FALSE ELSE task.enable]

\* A run writes enable back: a DELAY task, as loaded, is disabled unless the job will
\* be retried, any other gets the value it was loaded with.
WriteBack(task, retried) ==
  [row EXCEPT !.enable = IF task.conf \in DelayConf /\ ~retried THEN FALSE ELSE task.enable]

\* What becomes of the job of a run that ends: it is removed from BullMQ, kept as
\* failed or tried again.
JobEnds(from, outcome) ==
  delayJob' = IF from = "delay" THEN outcome ELSE delayJob

RunEnds(w, outcome) ==
  /\ run[w].from # "idle"
  /\ row' = WriteBack(run[w].task, outcome = "waiting")
  /\ JobEnds(run[w].from, outcome)
  /\ run' = [run EXCEPT ![w] = IdleRun]
  /\ UNCHANGED <<sched, queued, calls, clash, overlapped, last, bounds>>

\* The worker dies or its database fails, before or after the row is written: the job
\* is tried again or given up.
RunBreaks(w) ==
  /\ run[w].from # "idle"
  /\ faults < MaxFaults
  /\ faults' = faults + 1
  /\ row' \in {row} \cup {WriteBack(run[w].task, retried) : retried \in BOOLEAN}
  /\ \E outcome \in {"waiting", "failed"} : JobEnds(run[w].from, outcome)
  /\ run' = [run EXCEPT ![w] = IdleRun]
  /\ last' = [last EXCEPT !.runs = @ \cup {"broken"}]
  /\ UNCHANGED <<sched, queued, calls, clash, overlapped, made, runs>>

-----------------------------------------------------------------------------

Requested ==
  \E c \in Caller, conf \in Conf, enable \in BOOLEAN :
    \/ Save(c, conf, enable) \/ Edit(c, conf, enable)
    \/ ChangeEnable(c, enable) \/ SyncTask(c) \/ DelByIds(c)

CallSteps ==
  \E c \in Caller :
    \/ Write(c) \/ Read(c)
    \/ RemoveScheduler(c) \/ RemoveDelayJob(c) \/ Schedule(c)
    \/ Finish(c) \/ SoftDelete(c)
    \/ CallFails(c)

RunSteps ==
  \/ SchedulerFires \/ RunNow
  \/ JobRefused
  \/ \E w \in Worker :
       \/ \E from \in Kinds \cup {"delay"} : RunBegins(w, from)
       \/ \E outcome \in {"none", "failed", "waiting"} : RunEnds(w, outcome)
       \/ RunBreaks(w)

Next ==
  \/ Requested
  \/ CallSteps
  \/ RunSteps
  \/ \E i \in Instance : Restart(i)

Spec == Init /\ [][Next]_vars

-----------------------------------------------------------------------------
(* Properties *)

TypeOK ==
  /\ row \in Rows
  /\ sched \in Conf \cup {None}
  /\ delayJob \in JobStates
  /\ queued \subseteq Kinds
  /\ calls \in [Caller -> Calls]
  /\ run \in [Worker -> Runs]
  /\ clash \subseteq {"call", "run"} /\ overlapped \in BOOLEAN
  /\ last \in Lasts
  /\ made \in Nat /\ runs \in Nat /\ faults \in Nat

Scheduled == row.st = "live" /\ row.enable

\* BullMQ holds exactly what the row asks for.
InSync ==
  IF Scheduled /\ row.conf \in DelayConf
  THEN sched = None /\ delayJob = "waiting"
  ELSE IF Scheduled
  THEN sched = row.conf /\ delayJob = "none"
  ELSE sched = None /\ delayJob \in {"none", "failed"}

\* What a call asked for: asked is the call, or the record of it in last.
Asks(asked) == asked.op # "delByIds" /\ asked.task.enable

BullAsAsked(asked) ==
  LET delayed == asked.task.conf \in DelayConf IN
  /\ sched = IF Asks(asked) /\ ~delayed THEN asked.task.conf ELSE None
  /\ delayJob = "none" \/ (Asks(asked) /\ delayed)

RowAsAsked(asked) ==
  IF asked.op = "delByIds" THEN row.st = "deleted"
  ELSE row.st = "live" /\ row.conf = asked.task.conf

\* What the last call asked for is what BullMQ holds, and no other trigger.  The row may
\* differ in enable alone.
ScheduledAsAsked == BullAsAsked(last) /\ RowAsAsked(last)

\* A call that returned and overlapped no other call leaves BullMQ with what it asked
\* for, whatever failures, restarts and overlapping calls had left behind, and runs
\* before, beside and after it change nothing of that.  It also leaves BullMQ as the row
\* asks, enable included, and later runs keep it so, unless the call overlapped a run,
\* a run broke off, or a DELAY task was run by another job than its delay job: a manual
\* one, that of runOnCreate, or one that an earlier schedule left behind.
SyncedUnlessDisturbed ==
  last.op \in Ops =>
    /\ ScheduledAsAsked
    /\ last.runs = {} /\ ~RunInProgress => InSync

\* Failing steps and restarts alone never give a task two triggers: both are gone
\* before one is added.
OneTriggerUnlessOverlapped ==
  sched # None /\ delayJob \in {"waiting", "active"} => overlapped

\* Nor do they leave a deleted task a trigger: the row goes last.
DeletedHasNoTrigger ==
  row.st = "deleted" /\ ~overlapped =>
    sched = None /\ delayJob \notin {"waiting", "active"}

\* quartz-bull-service.ts:54-56: a restart restores the scheduling state from the
\* configuration in the database.
RestartRestores ==
  last.op \in {"boot", "skip"} /\ last.runs = {} /\ ~RunInProgress => InSync

=============================================================================
