------------------------- MODULE QuartzSyncProofs -------------------------
(***************************************************************************)
(* Proofs about QuartzSync for any number of instances, requests, workers   *)
(* and configurations, and any bounds: an administrative call that overlaps *)
(* no other leaves BullMQ as it asked, and as the row asks unless runs      *)
(* disturb the row; without overlapping calls a task never has two triggers *)
(* and a deleted task has none.                                             *)
(***************************************************************************)
EXTENDS QuartzSync, TLAPS

-----------------------------------------------------------------------------
(* How the calls change *)

LEMMA BlankTyped ==
  Blank \in Rows /\ IdleCall \in Calls /\ IdleRun \in Runs /\ NoLast \in Lasts
<1>1. Blank.conf \in Conf
  BY ConfAssumption DEF Blank
<1>2. Blank \in Rows
  BY <1>1 DEF Blank, Rows
<1> QED
  BY <1>1, <1>2 DEF IdleCall, Calls, IdleRun, Runs, NoLast, Lasts, Pc, Ops

LEMMA GotoMoves ==
  ASSUME TypeOK, NEW c \in Caller, NEW pc \in Pc, Goto(c, pc)
  PROVE  /\ calls' \in [Caller -> Calls]
         /\ calls'[c].pc = pc
         /\ calls'[c].op = calls[c].op /\ calls'[c].task = calls[c].task
         /\ \A d \in Caller : d # c => calls'[d] = calls[d]
<1>1. calls[c] \in Calls
  BY DEF TypeOK
<1>2. calls' = [calls EXCEPT ![c] = [calls[c] EXCEPT !.pc = pc]]
  BY DEF Goto, TypeOK
<1>3. [calls[c] EXCEPT !.pc = pc] \in Calls
  BY <1>1 DEF Calls
<1>4. calls'[c] = [calls[c] EXCEPT !.pc = pc]
  BY <1>2 DEF TypeOK
<1> QED
  BY <1>1, <1>2, <1>3, <1>4 DEF TypeOK, Calls

LEMMA EndsMoves ==
  ASSUME TypeOK, NEW c \in Caller, Ends(c)
  PROVE  /\ calls' \in [Caller -> Calls]
         /\ calls'[c] = IdleCall
         /\ \A d \in Caller : d # c => calls'[d] = calls[d]
BY BlankTyped DEF Ends, TypeOK

LEMMA BeginMoves ==
  ASSUME TypeOK, NEW c \in Caller, NEW call \in Calls, Begin(c, call)
  PROVE  /\ calls' \in [Caller -> Calls]
         /\ calls'[c] = call
         /\ \A d \in Caller : d # c => calls'[d] = calls[d]
BY DEF Begin, TypeOK

\* The entity a call has after it has written the row.
LEMMA WriteMoves ==
  ASSUME TypeOK, NEW c \in Caller, Write(c)
  PROVE  /\ calls' \in [Caller -> Calls] /\ row' \in Rows
         /\ \A d \in Caller : d # c => calls'[d] = calls[d]
         /\ calls'[c].op = calls[c].op
         /\ \/ /\ calls[c].op = "save" /\ calls'[c].pc = "removeScheduler"
               /\ calls'[c].task = row' /\ row'.st = "live"
            \/ calls'[c].pc = "read" /\ row'.st = row.st
<1>1. calls[c] \in Calls /\ row \in Rows
  BY DEF TypeOK
<1>2. CASE calls[c].op = "save"
  <2>1. row' = [st |-> "live", enable |-> calls[c].enable, conf |-> calls[c].conf]
    BY <1>2 DEF Write
  <2>2. row' \in Rows /\ row'.st = "live"
    BY <1>1, <2>1 DEF Rows, Calls
  <2>3. calls' = [calls EXCEPT ![c] = [IdleCall EXCEPT !.pc = "removeScheduler",
                                                       !.op = "save", !.task = row']]
    BY <1>2, <2>1 DEF Write
  <2>4. calls'[c] = [IdleCall EXCEPT !.pc = "removeScheduler", !.op = "save", !.task = row']
    BY <2>3 DEF TypeOK
  <2>5. calls'[c] \in Calls
    BY <2>2, <2>4, BlankTyped DEF Calls, Pc, Ops
  <2>6. calls'[c].pc = "removeScheduler" /\ calls'[c].task = row'
          /\ calls'[c].op = calls[c].op
    BY <1>2, <2>4, BlankTyped DEF Calls
  <2> QED
    BY <1>2, <2>2, <2>3, <2>4, <2>5, <2>6 DEF TypeOK
<1>3. CASE calls[c].op # "save"
  <2>1. row' \in Rows /\ row'.st = row.st
    BY <1>1, <1>3 DEF Write, Rows, Calls
  <2>2. calls' = [calls EXCEPT ![c] = [IdleCall EXCEPT !.pc = "read", !.op = calls[c].op]]
    BY <1>3 DEF Write
  <2>3. calls'[c] = [IdleCall EXCEPT !.pc = "read", !.op = calls[c].op]
    BY <2>2 DEF TypeOK
  <2>4. calls'[c] \in Calls /\ calls'[c].pc = "read" /\ calls'[c].op = calls[c].op
    BY <1>1, <2>3, BlankTyped DEF Calls, Pc
  <2> QED
    BY <2>1, <2>2, <2>3, <2>4 DEF TypeOK
<1> QED
  BY <1>2, <1>3

\* Records of what a call leaves.
LEMMA LastTyped ==
  ASSUME NEW op \in Ops \cup {"skip"}, NEW task \in Rows
  PROVE  /\ LastIs(op, task) \in Lasts
         /\ "call" \in clash => LastIs(op, task) = NoLast
         /\ LastIs(op, task).op \in {op, "none"}
         /\ LastIs(op, task).op \in Ops =>
              /\ "call" \notin clash /\ LastIs(op, task).op = op
              /\ LastIs(op, task).task = task
              /\ LastIs(op, task).runs = {} => "run" \notin clash
BY BlankTyped DEF LastIs, Lasts, NoLast, Ops

LEMMA LastAdds ==
  ASSUME TypeOK, NEW cause \in {"crossed", "broken", "stray"},
         last' = [last EXCEPT !.runs = @ \cup {cause}]
  PROVE  /\ last' \in Lasts /\ last'.op = last.op /\ last'.task = last.task
         /\ last'.runs # {}
BY DEF TypeOK, Lasts

LEMMA RunMoves ==
  ASSUME TypeOK, NEW w \in Worker, NEW new \in Runs, run' = [run EXCEPT ![w] = new]
  PROVE  /\ run' \in [Worker -> Runs] /\ run'[w] = new
         /\ \A v \in Worker : v # w => run'[v] = run[v]
BY DEF TypeOK

\* What a run writes back.
LEMMA WritesBack ==
  ASSUME TypeOK, NEW w \in Worker, NEW retried \in BOOLEAN
  PROVE  LET new == WriteBack(run[w].task, retried) IN
         /\ new \in Rows /\ new.st = row.st /\ new.conf = row.conf
         /\ new.enable = IF run[w].task.conf \in DelayConf /\ ~retried THEN FALSE
                         ELSE run[w].task.enable
BY DEF TypeOK, Rows, Runs, WriteBack

\* The three ways a read of the task goes on.
LEMMA ReadMoves ==
  ASSUME TypeOK, NEW c \in Caller, Read(c)
  PROVE  \/ Ends(c) /\ last' \in {last, NoLast, LastIs("skip", row)}
         \/ /\ calls' \in [Caller -> Calls] /\ row.st = "live" /\ last' = last
            /\ \A d \in Caller : d # c => calls'[d] = calls[d]
            /\ calls'[c].pc = "removeScheduler" /\ calls'[c].task = row
            /\ calls'[c].op = calls[c].op
<1>1. calls[c] \in Calls /\ row \in Rows
  BY DEF TypeOK
<1>2. CASE row.st # "live" \/ (calls[c].op = "boot" /\ ~row.enable)
  BY <1>2 DEF Read, Throws
<1>3. CASE ~(row.st # "live" \/ (calls[c].op = "boot" /\ ~row.enable))
  <2>1. calls' = [calls EXCEPT ![c] = [calls[c] EXCEPT !.pc = "removeScheduler",
                                                       !.task = row]]
    BY <1>1, <1>3 DEF Read, TypeOK, Calls
  <2>2. calls'[c] = [calls[c] EXCEPT !.pc = "removeScheduler", !.task = row]
    BY <2>1 DEF TypeOK
  <2>3. calls'[c] \in Calls /\ calls'[c].pc = "removeScheduler"
          /\ calls'[c].task = row /\ calls'[c].op = calls[c].op
    BY <1>1, <2>2 DEF Calls, Pc
  <2>4. last' = last
    BY <1>3 DEF Read
  <2> QED
    BY <1>3, <2>1, <2>2, <2>3, <2>4 DEF TypeOK
<1> QED
  BY <1>2, <1>3

LEMMA RestartMoves ==
  ASSUME TypeOK, NEW i \in Instance, Restart(i)
  PROVE  /\ calls' \in [Caller -> Calls] /\ Boot(i) \in Caller
         /\ calls'[Boot(i)].pc = "read" /\ calls'[Boot(i)].op = "boot"
         /\ \A c \in Caller : c # Boot(i) =>
              IF c[1] = i THEN calls'[c] = IdleCall ELSE calls'[c] = calls[c]
<1>1. Boot(i) \in Caller
  BY InstanceAssumption DEF Boot, Caller
<1> DEFINE boot == [IdleCall EXCEPT !.pc = "read", !.op = "boot"]
<1>2. boot \in Calls /\ boot.pc = "read" /\ boot.op = "boot"
  BY BlankTyped DEF Calls, Pc, Ops
<1>3. calls' = [c \in Caller |-> IF c = Boot(i) THEN boot
                                 ELSE IF c[1] = i THEN IdleCall ELSE calls[c]]
  BY DEF Restart
<1> HIDE DEF boot
<1> QED
  BY <1>1, <1>2, <1>3, BlankTyped DEF TypeOK

-----------------------------------------------------------------------------
(* Types *)

THEOREM TypeCorrect == Spec => []TypeOK
<1>1. Init => TypeOK
  <2> SUFFICES ASSUME Init
               PROVE  TypeOK
    OBVIOUS
  <2>1. /\ calls \in [Caller -> Calls] /\ row \in Rows /\ run \in [Worker -> Runs]
        /\ last \in Lasts
    BY BlankTyped DEF Init
  <2>2. overlapped \in BOOLEAN
    BY Zenon DEF Init
  <2> QED
    BY <2>1, <2>2 DEF Init, TypeOK, JobStates
<1>2. ASSUME TypeOK, [Next]_vars
      PROVE  TypeOK'
  <2> USE <1>2
  <2>1. ASSUME NEW c \in Caller, NEW call \in Calls, Begin(c, call)
        PROVE  TypeOK'
    <3>1. clash' \subseteq {"call", "run"} /\ overlapped' \in BOOLEAN
      BY <2>1 DEF Begin, Overlap, CallInProgress
    <3>2. made' \in Nat /\ last' \in Lasts
      BY <2>1, BlankTyped DEF Begin, TypeOK
    <3> QED
      BY <2>1, <3>1, <3>2, BeginMoves DEF Begin, TypeOK
  <2>2. CASE Requested
    <3>1. PICK c \in Caller, conf \in Conf, enable \in BOOLEAN :
            Save(c, conf, enable) \/ Edit(c, conf, enable)
              \/ ChangeEnable(c, enable) \/ SyncTask(c) \/ DelByIds(c)
      BY <2>2 DEF Requested
    <3>2. PICK call \in Calls : Begin(c, call)
      <4>1. [IdleCall EXCEPT !.pc = "write", !.op = "save",
                             !.conf = conf, !.enable = enable] \in Calls
        BY BlankTyped DEF Calls, Pc, Ops
      <4>2. [IdleCall EXCEPT !.pc = "write", !.op = "edit",
                             !.conf = conf, !.enable = enable] \in Calls
        BY BlankTyped DEF Calls, Pc, Ops
      <4>3. [IdleCall EXCEPT !.pc = "write", !.op = "changeEnable",
                             !.enable = enable] \in Calls
        BY BlankTyped DEF Calls, Pc, Ops
      <4>4. [IdleCall EXCEPT !.pc = "read", !.op = "syncTask"] \in Calls
        BY BlankTyped DEF Calls, Pc, Ops
      <4>5. [IdleCall EXCEPT !.pc = "removeScheduler", !.op = "delByIds",
                             !.task = row] \in Calls
        BY BlankTyped DEF Calls, Pc, Ops, TypeOK
      <4> QED
        BY <3>1, <4>1, <4>2, <4>3, <4>4, <4>5
           DEF Save, Edit, ChangeEnable, SyncTask, DelByIds
    <3> QED
      BY <3>2, <2>1
  <2>3. ASSUME NEW c \in Caller,
               Write(c) \/ Read(c) \/ RemoveScheduler(c) \/ RemoveDelayJob(c)
                 \/ Schedule(c) \/ Finish(c) \/ SoftDelete(c) \/ CallFails(c)
        PROVE  TypeOK'
    <3>0. /\ calls[c].op \in Ops /\ calls[c].task \in Rows /\ row \in Rows
          /\ LastIs(calls[c].op, calls[c].task) \in Lasts /\ LastIs("skip", row) \in Lasts
          /\ NoLast \in Lasts
      BY LastTyped, BlankTyped DEF TypeOK, Calls
    <3>1. CASE Write(c)
      BY <3>1, WriteMoves DEF Write, TypeOK, bounds
    <3>2. CASE Read(c)
      BY <3>0, <3>2, ReadMoves, EndsMoves DEF Read, TypeOK, bounds
    <3>3. CASE RemoveScheduler(c)
      BY <3>3, GotoMoves DEF RemoveScheduler, TypeOK, bounds, Pc
    <3>4. CASE RemoveDelayJob(c)
      <4>1. AfterRemoval(calls[c]) \in Pc
        BY DEF AfterRemoval, Pc
      <4>2. calls' \in [Caller -> Calls] /\ last' \in Lasts
        BY <3>0, <3>4, <4>1, GotoMoves, EndsMoves DEF RemoveDelayJob, Throws, TypeOK
      <4> QED
        BY <3>4, <4>2 DEF RemoveDelayJob, Throws, TypeOK, bounds, JobStates
    <3>5. CASE Schedule(c)
      <4>1. calls' \in [Caller -> Calls]
        BY <3>5, GotoMoves DEF Schedule, Pc
      <4>2. calls[c].task.conf \in Conf
        BY DEF TypeOK, Calls, Rows
      <4> QED
        BY <3>5, <4>1, <4>2 DEF Schedule, TypeOK, bounds, JobStates
    <3>6. CASE Finish(c)
      <4>1. queued' \subseteq Kinds
        BY <3>6 DEF Finish, TypeOK, Kinds
      <4> QED
        BY <3>0, <3>6, <4>1, EndsMoves DEF Finish, Returns, TypeOK, bounds
    <3>7. CASE SoftDelete(c)
      <4>1. row' \in Rows
        BY <3>7 DEF SoftDelete, TypeOK, Rows
      <4> QED
        BY <3>0, <3>7, <4>1, EndsMoves DEF SoftDelete, Returns, TypeOK, bounds
    <3>8. CASE CallFails(c)
      <4>1. calls' \in [Caller -> Calls] /\ last' = NoLast
        BY <3>8, EndsMoves DEF CallFails, Throws, TypeOK
      <4>2. faults' \in Nat
        BY <3>8 DEF CallFails, TypeOK
      <4> QED
        BY <3>0, <3>8, <4>1, <4>2 DEF CallFails, TypeOK
    <3> QED
      BY <2>3, <3>1, <3>2, <3>3, <3>4, <3>5, <3>6, <3>7, <3>8
  <2>4. CASE RunSteps
    <3>1. CASE SchedulerFires \/ RunNow
      BY <3>1 DEF SchedulerFires, RunNow, TypeOK, Kinds, bounds
    <3>2. ASSUME NEW w \in Worker, NEW from \in Kinds \cup {"delay"}, RunBegins(w, from)
          PROVE  TypeOK'
      <4>1. [from |-> from, task |-> row] \in Runs
        BY DEF TypeOK, Runs
      <4>2. run' \in [Worker -> Runs]
        BY <3>2, <4>1, RunMoves DEF RunBegins
      <4>3. clash' \subseteq {"call", "run"} /\ runs' \in Nat /\ delayJob' \in JobStates
        BY <3>2 DEF RunBegins, TypeOK, JobStates
      <4>4. last' \in Lasts
        BY <3>2, LastAdds DEF RunBegins, TypeOK
      <4> QED
        BY <3>2, <4>2, <4>3, <4>4 DEF RunBegins, TypeOK
    <3>3. ASSUME NEW w \in Worker, NEW outcome \in {"none", "failed", "waiting"},
                 RunEnds(w, outcome)
          PROVE  TypeOK'
      <4>1. row' \in Rows
        BY <3>3, WritesBack DEF RunEnds
      <4>2. run' \in [Worker -> Runs] /\ delayJob' \in JobStates
        BY <3>3, RunMoves, BlankTyped DEF RunEnds, JobEnds, TypeOK, JobStates
      <4> QED
        BY <3>3, <4>1, <4>2 DEF RunEnds, TypeOK, bounds
    <3>4. CASE JobRefused
      BY <3>4 DEF JobRefused, TypeOK, JobStates, bounds
    <3>5. ASSUME NEW w \in Worker, RunBreaks(w)
          PROVE  TypeOK'
      <4>1. row' \in Rows
        BY <3>5, WritesBack DEF RunBreaks, TypeOK
      <4>2. run' \in [Worker -> Runs] /\ delayJob' \in JobStates
        BY <3>5, RunMoves, BlankTyped DEF RunBreaks, JobEnds, TypeOK, JobStates
      <4>3. faults' \in Nat /\ last' \in Lasts
        BY <3>5, LastAdds DEF RunBreaks, TypeOK
      <4> QED
        BY <3>5, <4>1, <4>2, <4>3 DEF RunBreaks, TypeOK
    <3> QED
      BY <2>4, <3>1, <3>2, <3>3, <3>4, <3>5 DEF RunSteps
  <2>5. ASSUME NEW i \in Instance, Restart(i)
        PROVE  TypeOK'
    <3>1. clash' \subseteq {"call", "run"} /\ overlapped' \in BOOLEAN
      BY <2>5 DEF Restart, Overlap
    <3>2. faults' \in Nat /\ last' \in Lasts
      BY <2>5, BlankTyped DEF Restart, TypeOK
    <3> QED
      BY <2>5, <3>1, <3>2, RestartMoves DEF Restart, TypeOK
  <2>6. CASE UNCHANGED vars
    BY <2>6 DEF vars, TypeOK
  <2> QED
    BY <2>2, <2>3, <2>4, <2>5, <2>6 DEF Next, CallSteps
<1> QED
  BY <1>1, <1>2, PTL DEF Spec

-----------------------------------------------------------------------------
(* The inductive invariant *)

\* No call has overlapped another, or the present one has no other beside it.
Undisturbed == ~overlapped \/ "call" \notin clash

Exclusive ==
  Undisturbed => \A c, d \in Caller : InProgress(c) /\ InProgress(d) => c = d

RunAlone == "run" \notin clash /\ RunInProgress => ~CallInProgress

\* BullMQ's lock on a delay job that is running.
ActiveIsRun ==
  /\ delayJob = "active" <=> \E w \in Worker : run[w].from = "delay"
  /\ \A v, w \in Worker : run[v].from = "delay" /\ run[w].from = "delay" => v = w

\* What a call has removed stays removed until it schedules.
Cleared ==
  Undisturbed => \A c \in Caller :
    /\ calls[c].pc = "removeDelayJob" => sched = None
    /\ calls[c].pc \in {"schedule", "softDelete"} => sched = None /\ delayJob = "none"

\* After a deletion nothing is scheduled, and nothing is under way but a startup
\* that has not read the task yet.
DeletedIsOver ==
  row.st = "deleted" /\ ~overlapped =>
    /\ sched = None /\ delayJob = "none"
    /\ \A c \in Caller : InProgress(c) => calls[c].op = "boot" /\ calls[c].pc = "read"

Loaded == {"removeScheduler", "removeDelayJob", "schedule", "finish"}

\* A call without another beside it works on the task as the row has it but for enable,
\* and with no run beside it, enable too.
Snapshot ==
  "call" \notin clash => \A c \in Caller :
    /\ calls[c].pc \in Loaded /\ calls[c].op # "delByIds" =>
         /\ row.st = "live" /\ row.conf = calls[c].task.conf
         /\ "run" \notin clash => row.enable = calls[c].task.enable
    /\ calls[c].pc = "schedule" => Asks(calls[c])
    /\ calls[c].pc = "softDelete" => calls[c].op = "delByIds"
    /\ calls[c].pc = "finish" =>
         /\ calls[c].op # "delByIds" /\ BullAsAsked(calls[c])
         /\ "run" \notin clash /\ Asks(calls[c]) /\ row.conf \in DelayConf =>
              delayJob = "waiting"

\* The runs in progress have loaded the task as the row has it.
RunsLoaded ==
  \A w \in Worker : run[w].from # "idle" =>
    run[w].task.conf = row.conf /\ run[w].task.enable = row.enable

\* What a call left, and the runs after it that do not disturb the row, agree.
RowAgrees ==
  IF last.op = "delByIds" THEN ~RunInProgress
  ELSE IF Asks(last) /\ last.task.conf \in DelayConf
  THEN /\ \A w \in Worker : run[w].from \in {"idle", "delay"}
       /\ IF row.enable THEN delayJob \in {"waiting", "active"} /\ RunsLoaded
          ELSE delayJob \in {"none", "failed"}
  ELSE /\ row.enable = last.task.enable /\ RunsLoaded
       /\ row.conf \in DelayConf => ~RunInProgress

\* Agreement outlives the call, and the runs that come after it.
LastKept ==
  last.op \in Ops =>
    /\ ~CallInProgress
    /\ BullAsAsked(last) /\ RowAsAsked(last)
    /\ last.runs = {} => RowAgrees

SyncInv ==
  /\ Exclusive
  /\ RunAlone
  /\ ActiveIsRun
  /\ Cleared
  /\ OneTriggerUnlessOverlapped
  /\ DeletedIsOver
  /\ Snapshot
  /\ LastKept

LEMMA IdleFacts == IdleCall.pc = "idle" /\ IdleRun.from = "idle" /\ NoLast.op \notin Ops
BY DEF IdleCall, IdleRun, NoLast, Ops

LEMMA InvInit == Init => SyncInv
<1> SUFFICES ASSUME Init
             PROVE  SyncInv
  OBVIOUS
<1>1. \A c \in Caller : calls[c].pc = "idle"
  BY IdleFacts DEF Init
<1>2. (\A w \in Worker : run[w].from = "idle") /\ last.op \notin Ops /\ row.st = "none"
  BY IdleFacts DEF Init, Blank
<1> QED
  BY <1>1, <1>2 DEF Init, SyncInv, Exclusive, RunAlone, RunInProgress, InProgress, ActiveIsRun,
     Cleared, OneTriggerUnlessOverlapped, DeletedIsOver, Snapshot, Loaded, LastKept

-----------------------------------------------------------------------------
(* Steps of the calls *)

\* Everything but the agreement survives a call that ends.
LEMMA CallDropped ==
  ASSUME TypeOK, SyncInv,
         UNCHANGED <<row, sched, delayJob, run, clash, overlapped>>,
         \A c \in Caller : calls'[c] \in {calls[c], IdleCall}
  PROVE  /\ Exclusive' /\ RunAlone' /\ ActiveIsRun' /\ Cleared'
         /\ OneTriggerUnlessOverlapped' /\ DeletedIsOver' /\ Snapshot'
<1>1. \A c \in Caller : calls'[c].pc # "idle" => calls'[c] = calls[c]
  BY IdleFacts
<1>2. CallInProgress' => CallInProgress
  BY <1>1 DEF CallInProgress, InProgress
<1>3. Exclusive'
  BY <1>1 DEF SyncInv, Exclusive, Undisturbed, InProgress
<1>4. RunAlone' /\ ActiveIsRun' /\ OneTriggerUnlessOverlapped'
  BY <1>2 DEF SyncInv, RunAlone, RunInProgress, ActiveIsRun, OneTriggerUnlessOverlapped
<1>5. Cleared'
  BY <1>1 DEF SyncInv, Cleared, Undisturbed
<1>6. DeletedIsOver'
  BY <1>1 DEF SyncInv, DeletedIsOver, InProgress
<1>7. Snapshot'
  BY <1>1 DEF SyncInv, Snapshot, Loaded, BullAsAsked, Asks
<1> QED
  BY <1>3, <1>4, <1>5, <1>6, <1>7

\* What the last call left stays as long as nothing it speaks of changes.
LEMMA LastStays ==
  ASSUME SyncInv, UNCHANGED <<row, sched, delayJob, run, last>>,
         CallInProgress' => CallInProgress
  PROVE  LastKept'
BY DEF SyncInv, LastKept, BullAsAsked, RowAsAsked, Asks, RowAgrees, RunsLoaded, RunInProgress

\* A call that throws, or that finds nothing to do.
LEMMA CallGivesUp ==
  ASSUME TypeOK, SyncInv,
         UNCHANGED <<row, sched, delayJob, run, clash, overlapped>>,
         \A c \in Caller : calls'[c] \in {calls[c], IdleCall},
         last' = last \/ last'.op \notin Ops
  PROVE  SyncInv'
<1>1. CallInProgress' => CallInProgress
  BY IdleFacts DEF CallInProgress, InProgress
<1>2. LastKept'
  <2>1. CASE last' = last
    BY <1>1, <2>1, LastStays
  <2>2. CASE last'.op \notin Ops
    BY <2>2 DEF LastKept
  <2> QED
    BY <2>1, <2>2
<1> QED
  BY <1>2, CallDropped DEF SyncInv

LEMMA InvBegin ==
  ASSUME TypeOK, SyncInv, NEW c \in Caller, NEW call \in Calls, Begin(c, call),
         row.st # "deleted",
         \/ call.pc \in {"write", "read"}
         \/ call.pc = "removeScheduler" /\ call.op = "delByIds"
  PROVE  SyncInv'
<1>1. calls'[c] = call /\ \A d \in Caller : d # c => calls'[d] = calls[d]
  BY BeginMoves
<1>2. /\ UNCHANGED <<row, sched, delayJob, run>>
      /\ "call" \in clash' <=> CallInProgress
      /\ "run" \in clash' <=> RunInProgress
      /\ overlapped' = (overlapped \/ CallInProgress)
      /\ last' = NoLast
  BY DEF Begin, Overlap
<1>3. Undisturbed' => \A d \in Caller : d # c => calls'[d].pc = "idle"
  BY <1>1, <1>2 DEF Undisturbed, CallInProgress, InProgress
<1>4. Exclusive'
  BY <1>3 DEF Exclusive, InProgress
<1>5. RunAlone' /\ ActiveIsRun'
  BY <1>2 DEF SyncInv, RunAlone, RunInProgress, ActiveIsRun
<1>6. Cleared'
  BY <1>1, <1>3 DEF Cleared
<1>7. OneTriggerUnlessOverlapped' /\ DeletedIsOver'
  BY <1>2 DEF SyncInv, OneTriggerUnlessOverlapped, DeletedIsOver
<1>8. Snapshot'
  BY <1>1, <1>3 DEF Snapshot, Undisturbed, Loaded
<1>9. LastKept'
  BY <1>2, IdleFacts DEF LastKept
<1> QED
  BY <1>4, <1>5, <1>6, <1>7, <1>8, <1>9 DEF SyncInv

LEMMA InvRequested ==
  ASSUME TypeOK, SyncInv, Requested
  PROVE  SyncInv'
<1>1. PICK c \in Caller, conf \in Conf, enable \in BOOLEAN :
        Save(c, conf, enable) \/ Edit(c, conf, enable)
          \/ ChangeEnable(c, enable) \/ SyncTask(c) \/ DelByIds(c)
  BY DEF Requested
<1> DEFINE save == [IdleCall EXCEPT !.pc = "write", !.op = "save",
                                    !.conf = conf, !.enable = enable]
           edit == [IdleCall EXCEPT !.pc = "write", !.op = "edit",
                                    !.conf = conf, !.enable = enable]
           switch == [IdleCall EXCEPT !.pc = "write", !.op = "changeEnable",
                                      !.enable = enable]
           sync == [IdleCall EXCEPT !.pc = "read", !.op = "syncTask"]
           del == [IdleCall EXCEPT !.pc = "removeScheduler", !.op = "delByIds",
                                   !.task = row]
<1>2. /\ save \in Calls /\ save.pc = "write" /\ edit \in Calls /\ edit.pc = "write"
      /\ switch \in Calls /\ switch.pc = "write" /\ sync \in Calls /\ sync.pc = "read"
  BY BlankTyped DEF Calls, Pc, Ops
<1>3. del \in Calls /\ del.pc = "removeScheduler" /\ del.op = "delByIds"
  BY BlankTyped DEF Calls, Pc, Ops, TypeOK
<1>4. row.st # "deleted"
  BY <1>1 DEF Save, Edit, ChangeEnable, SyncTask, DelByIds
<1>5. Begin(c, save) \/ Begin(c, edit) \/ Begin(c, switch) \/ Begin(c, sync) \/ Begin(c, del)
  BY <1>1 DEF Save, Edit, ChangeEnable, SyncTask, DelByIds
<1> HIDE DEF save, edit, switch, sync, del
<1> QED
  BY <1>2, <1>3, <1>4, <1>5, InvBegin

\* A step of a call that goes on leaves the other calls alone, and there is no agreement
\* to keep.
LEMMA CallGoesOn ==
  ASSUME TypeOK, SyncInv, NEW c \in Caller, InProgress(c),
         \A d \in Caller : d # c => calls'[d] = calls[d],
         UNCHANGED <<run, clash, overlapped, last>>
  PROVE  /\ Exclusive' /\ RunAlone' /\ LastKept'
         /\ Undisturbed' <=> Undisturbed
         /\ Undisturbed' => \A d \in Caller : d # c => calls[d].pc = "idle" /\ calls'[d].pc = "idle"
<1>1. Undisturbed' => \A d \in Caller : d # c => calls[d].pc = "idle" /\ calls'[d].pc = "idle"
  BY DEF SyncInv, Exclusive, Undisturbed, InProgress
<1>2. Exclusive'
  BY <1>1 DEF Exclusive, InProgress
<1>3. RunAlone'
  BY DEF SyncInv, RunAlone, RunInProgress, CallInProgress
<1>4. LastKept'
  BY DEF SyncInv, LastKept, CallInProgress
<1> QED
  BY <1>1, <1>2, <1>3, <1>4 DEF Undisturbed

LEMMA InvWrite ==
  ASSUME TypeOK, SyncInv, NEW c \in Caller, Write(c)
  PROVE  SyncInv'
<1>1. /\ \A d \in Caller : d # c => calls'[d] = calls[d]
      /\ calls'[c].op = calls[c].op
      /\ \/ /\ calls'[c].pc = "removeScheduler"
            /\ calls'[c].task = row' /\ row'.st = "live"
         \/ calls'[c].pc = "read" /\ row'.st = row.st
  BY WriteMoves
<1>2. /\ calls[c].pc = "write" /\ InProgress(c)
      /\ UNCHANGED <<sched, delayJob, run, clash, overlapped, last>>
  BY DEF Write, InProgress, bounds
<1>3. /\ Exclusive' /\ RunAlone' /\ LastKept'
      /\ Undisturbed' => \A d \in Caller : d # c => calls[d].pc = "idle" /\ calls'[d].pc = "idle"
  BY <1>1, <1>2, CallGoesOn
<1>4. ActiveIsRun' /\ OneTriggerUnlessOverlapped'
  BY <1>2 DEF SyncInv, ActiveIsRun, OneTriggerUnlessOverlapped
<1>5. Cleared'
  BY <1>1, <1>3 DEF Cleared
<1>6. DeletedIsOver'
  BY <1>1, <1>2 DEF SyncInv, DeletedIsOver
<1>7. Snapshot'
  BY <1>1, <1>3 DEF Snapshot, Undisturbed, Loaded
<1> QED
  BY <1>3, <1>4, <1>5, <1>6, <1>7 DEF SyncInv

LEMMA InvRead ==
  ASSUME TypeOK, SyncInv, NEW c \in Caller, Read(c)
  PROVE  SyncInv'
<1>1. /\ calls[c].pc = "read" /\ InProgress(c)
      /\ UNCHANGED <<row, sched, delayJob, run, clash, overlapped>>
  BY DEF Read, InProgress, bounds
<1>2. CASE Ends(c) /\ last' \in {last, NoLast, LastIs("skip", row)}
  <2>1. LastIs("skip", row).op \notin Ops
    BY LastTyped DEF TypeOK, Ops
  <2> QED
    BY <1>1, <1>2, <2>1, IdleFacts, EndsMoves, CallGivesUp
<1>3. CASE /\ row.st = "live" /\ last' = last
           /\ \A d \in Caller : d # c => calls'[d] = calls[d]
           /\ calls'[c].pc = "removeScheduler" /\ calls'[c].task = row
           /\ calls'[c].op = calls[c].op
  <2>1. /\ Exclusive' /\ RunAlone' /\ LastKept'
        /\ Undisturbed' => \A d \in Caller : d # c => calls[d].pc = "idle" /\ calls'[d].pc = "idle"
    BY <1>1, <1>3, CallGoesOn
  <2>2. ActiveIsRun' /\ OneTriggerUnlessOverlapped' /\ DeletedIsOver'
    BY <1>1, <1>3 DEF SyncInv, ActiveIsRun, OneTriggerUnlessOverlapped, DeletedIsOver
  <2>3. Cleared' /\ Snapshot'
    BY <1>1, <1>3, <2>1 DEF Cleared, Snapshot, Undisturbed, Loaded
  <2> QED
    BY <2>1, <2>2, <2>3 DEF SyncInv
<1> QED
  BY <1>2, <1>3, ReadMoves

LEMMA InvRemoveScheduler ==
  ASSUME TypeOK, SyncInv, NEW c \in Caller, RemoveScheduler(c)
  PROVE  SyncInv'
<1>1. /\ calls[c].pc = "removeScheduler" /\ InProgress(c) /\ sched' = None
      /\ UNCHANGED <<row, delayJob, run, clash, overlapped, last>>
      /\ Goto(c, "removeDelayJob")
  BY DEF RemoveScheduler, InProgress, bounds
<1>2. /\ calls'[c].pc = "removeDelayJob"
      /\ calls'[c].op = calls[c].op /\ calls'[c].task = calls[c].task
      /\ \A d \in Caller : d # c => calls'[d] = calls[d]
  BY <1>1, GotoMoves DEF Pc
<1>3. /\ Exclusive' /\ RunAlone' /\ LastKept'
      /\ Undisturbed' => \A d \in Caller : d # c => calls[d].pc = "idle" /\ calls'[d].pc = "idle"
  BY <1>1, <1>2, CallGoesOn
<1>4. ActiveIsRun' /\ OneTriggerUnlessOverlapped'
  BY <1>1 DEF SyncInv, ActiveIsRun, OneTriggerUnlessOverlapped
<1>5. Cleared'
  BY <1>1, <1>2, <1>3 DEF Cleared
<1>6. DeletedIsOver'
  BY <1>1 DEF SyncInv, DeletedIsOver
<1>7. Snapshot'
  BY <1>1, <1>2, <1>3 DEF SyncInv, Snapshot, Undisturbed, Loaded
<1> QED
  BY <1>3, <1>4, <1>5, <1>6, <1>7 DEF SyncInv

LEMMA InvRemoveDelayJob ==
  ASSUME TypeOK, SyncInv, NEW c \in Caller, RemoveDelayJob(c)
  PROVE  SyncInv'
<1>1. /\ calls[c].pc = "removeDelayJob" /\ InProgress(c)
      /\ UNCHANGED <<row, sched, run, clash, overlapped>>
  BY DEF RemoveDelayJob, InProgress, bounds
<1>2. CASE delayJob = "active"
  BY <1>1, <1>2, IdleFacts, EndsMoves, CallGivesUp DEF RemoveDelayJob, Throws
<1>3. CASE delayJob # "active"
  <2>1. delayJob' = "none" /\ last' = last /\ Goto(c, AfterRemoval(calls[c]))
    BY <1>3 DEF RemoveDelayJob
  <2>2. /\ calls'[c].pc = AfterRemoval(calls[c])
        /\ calls'[c].op = calls[c].op /\ calls'[c].task = calls[c].task
        /\ \A d \in Caller : d # c => calls'[d] = calls[d]
    <3>1. AfterRemoval(calls[c]) \in Pc
      BY DEF AfterRemoval, Pc
    <3> QED
      BY <2>1, <3>1, GotoMoves
  <2>3. /\ Exclusive' /\ RunAlone' /\ LastKept'
        /\ Undisturbed' <=> Undisturbed
        /\ Undisturbed' => \A d \in Caller : d # c => calls[d].pc = "idle" /\ calls'[d].pc = "idle"
    BY <1>1, <2>1, <2>2, CallGoesOn
  <2>4. ActiveIsRun' /\ OneTriggerUnlessOverlapped'
    BY <1>1, <1>3, <2>1 DEF SyncInv, ActiveIsRun, OneTriggerUnlessOverlapped
  <2>5. calls'[c].pc = IF calls[c].op = "delByIds" THEN "softDelete"
                       ELSE IF calls[c].task.enable THEN "schedule" ELSE "finish"
    BY <2>2 DEF AfterRemoval
  <2>6. Undisturbed => sched = None
    BY <1>1 DEF SyncInv, Cleared
  <2>7. Cleared'
    BY <1>1, <2>1, <2>3, <2>5, <2>6 DEF Cleared
  <2>8. DeletedIsOver'
    BY <1>1 DEF SyncInv, DeletedIsOver
  <2>9. Snapshot'
    <3> SUFFICES ASSUME "call" \notin clash
                 PROVE  /\ calls[c].op # "delByIds" =>
                             /\ row.st = "live" /\ row.conf = calls[c].task.conf
                             /\ "run" \notin clash => row.enable = calls[c].task.enable
                        /\ calls'[c].pc = "finish" => ~calls[c].task.enable /\ sched = None
      BY <1>1, <2>1, <2>2, <2>3, <2>5 DEF Snapshot, Undisturbed, Loaded, BullAsAsked, Asks
    <3>1. calls[c].op # "delByIds" =>
            /\ row.st = "live" /\ row.conf = calls[c].task.conf
            /\ "run" \notin clash => row.enable = calls[c].task.enable
      BY <1>1 DEF SyncInv, Snapshot, Loaded
    <3> QED
      BY <2>5, <2>6, <3>1 DEF Undisturbed
  <2> QED
    BY <2>3, <2>4, <2>7, <2>8, <2>9 DEF SyncInv
<1> QED
  BY <1>2, <1>3

LEMMA InvSchedule ==
  ASSUME TypeOK, SyncInv, NEW c \in Caller, Schedule(c)
  PROVE  SyncInv'
<1>1. /\ calls[c].pc = "schedule" /\ InProgress(c) /\ Goto(c, "finish")
      /\ UNCHANGED <<row, run, clash, overlapped, last>>
  BY DEF Schedule, InProgress, bounds
<1>2. /\ calls'[c].pc = "finish"
      /\ calls'[c].op = calls[c].op /\ calls'[c].task = calls[c].task
      /\ \A d \in Caller : d # c => calls'[d] = calls[d]
  BY <1>1, GotoMoves DEF Pc
<1>3. /\ Exclusive' /\ RunAlone' /\ LastKept'
      /\ Undisturbed' <=> Undisturbed
      /\ Undisturbed' => \A d \in Caller : d # c => calls[d].pc = "idle" /\ calls'[d].pc = "idle"
  BY <1>1, <1>2, CallGoesOn
<1>4. Undisturbed => sched = None /\ delayJob = "none"
  BY <1>1 DEF SyncInv, Cleared
<1>5. \/ /\ calls[c].task.conf \in DelayConf /\ sched' = sched
         /\ delayJob' = IF delayJob = "none" THEN "waiting" ELSE delayJob
      \/ /\ calls[c].task.conf \notin DelayConf /\ delayJob' = delayJob
         /\ sched' = calls[c].task.conf
  BY DEF Schedule
<1>6. ActiveIsRun'
  BY <1>1, <1>5 DEF SyncInv, ActiveIsRun
<1>7. OneTriggerUnlessOverlapped'
  BY <1>1, <1>4, <1>5 DEF OneTriggerUnlessOverlapped, Undisturbed
<1>8. Cleared'
  BY <1>2, <1>3 DEF Cleared
<1>9. DeletedIsOver'
  BY <1>1 DEF SyncInv, DeletedIsOver
<1>10. Snapshot'
  <2> SUFFICES ASSUME "call" \notin clash
               PROVE  /\ calls[c].op # "delByIds" =>
                           /\ row.st = "live" /\ row.conf = calls[c].task.conf
                           /\ "run" \notin clash => row.enable = calls[c].task.enable
                      /\ Asks(calls[c])
                      /\ IF calls[c].task.conf \in DelayConf
                         THEN sched' = None /\ delayJob' = "waiting"
                         ELSE sched' = calls[c].task.conf /\ delayJob' = "none"
    BY <1>1, <1>2, <1>3 DEF Snapshot, Undisturbed, Loaded, BullAsAsked, Asks
  <2>1. /\ calls[c].op # "delByIds" =>
             /\ row.st = "live" /\ row.conf = calls[c].task.conf
             /\ "run" \notin clash => row.enable = calls[c].task.enable
        /\ Asks(calls[c])
    BY <1>1 DEF SyncInv, Snapshot, Loaded
  <2> QED
    BY <1>4, <1>5, <2>1 DEF Undisturbed
<1> QED
  BY <1>3, <1>6, <1>7, <1>8, <1>9, <1>10 DEF SyncInv

\* A call that returns; only its row may change, to deleted.
LEMMA Returned ==
  ASSUME TypeOK, SyncInv, NEW c \in Caller, InProgress(c), Returns(c),
         UNCHANGED <<run, clash>>
  PROVE  /\ calls'[c] = IdleCall /\ \A d \in Caller : d # c => calls'[d] = calls[d]
         /\ Undisturbed => \A d \in Caller : calls'[d].pc = "idle"
         /\ last'.op \in Ops =>
              /\ "call" \notin clash /\ ~CallInProgress'
              /\ last'.op = calls[c].op /\ last'.task = calls[c].task
              /\ last'.runs = {} => "run" \notin clash /\ ~RunInProgress
<1>1. calls'[c] = IdleCall /\ \A d \in Caller : d # c => calls'[d] = calls[d]
  BY EndsMoves DEF Returns
<1>2. Undisturbed => \A d \in Caller : calls'[d].pc = "idle"
  BY <1>1, IdleFacts DEF SyncInv, Exclusive, InProgress
<1>3. last' = LastIs(calls[c].op, calls[c].task)
        /\ calls[c].op \in Ops /\ calls[c].task \in Rows
  BY DEF Returns, TypeOK, Calls
<1>4. last'.op \in Ops =>
        /\ "call" \notin clash /\ last'.op = calls[c].op /\ last'.task = calls[c].task
        /\ last'.runs = {} => "run" \notin clash
  BY <1>3, LastTyped
<1>5. "call" \notin clash => ~CallInProgress'
  BY <1>2 DEF Undisturbed, CallInProgress, InProgress
<1>6. "run" \notin clash => ~RunInProgress
  BY DEF SyncInv, RunAlone, CallInProgress
<1> QED
  BY <1>1, <1>2, <1>4, <1>5, <1>6

LEMMA InvFinish ==
  ASSUME TypeOK, SyncInv, NEW c \in Caller, Finish(c)
  PROVE  SyncInv'
<1>1. /\ calls[c].pc = "finish" /\ InProgress(c) /\ Returns(c)
      /\ UNCHANGED <<row, sched, delayJob, run, clash, overlapped>>
  BY DEF Finish, InProgress
<1>2. /\ calls'[c] = IdleCall /\ \A d \in Caller : d # c => calls'[d] = calls[d]
      /\ last'.op \in Ops =>
           /\ "call" \notin clash /\ ~CallInProgress'
           /\ last'.op = calls[c].op /\ last'.task = calls[c].task
           /\ last'.runs = {} => "run" \notin clash /\ ~RunInProgress
  BY <1>1, Returned
<1>3. LastKept'
  <2> SUFFICES ASSUME last'.op \in Ops
               PROVE  LastKept'
    BY DEF LastKept
  <2>1. /\ row.st = "live" /\ row.conf = calls[c].task.conf
        /\ calls[c].op # "delByIds" /\ BullAsAsked(calls[c])
        /\ "run" \notin clash =>
             /\ row.enable = calls[c].task.enable
             /\ Asks(calls[c]) /\ row.conf \in DelayConf => delayJob = "waiting"
    BY <1>1, <1>2 DEF SyncInv, Snapshot, Loaded
  <2>2. BullAsAsked(last)' /\ RowAsAsked(last)'
    BY <1>1, <1>2, <2>1 DEF BullAsAsked, RowAsAsked, Asks
  <2>3. ASSUME last'.runs = {}
        PROVE  RowAgrees'
    <3>1. \A w \in Worker : run'[w].from = "idle"
      BY <1>1, <1>2, <2>3 DEF RunInProgress
    <3>2. ~RunInProgress'
      BY <3>1 DEF RunInProgress
    <3> QED
      BY <1>1, <1>2, <2>1, <2>3, <3>1, <3>2 DEF RowAgrees, RunsLoaded, Asks
  <2> QED
    BY <1>2, <2>2, <2>3 DEF LastKept
<1> QED
  BY <1>1, <1>2, <1>3, CallDropped DEF SyncInv

LEMMA InvSoftDelete ==
  ASSUME TypeOK, SyncInv, NEW c \in Caller, SoftDelete(c)
  PROVE  SyncInv'
<1>1. /\ calls[c].pc = "softDelete" /\ InProgress(c) /\ Returns(c)
      /\ row' = [row EXCEPT !.st = "deleted"] /\ row'.st = "deleted"
      /\ UNCHANGED <<sched, delayJob, run, clash, overlapped>>
  BY DEF SoftDelete, InProgress, bounds, TypeOK, Rows
<1>2. /\ calls'[c] = IdleCall /\ \A d \in Caller : d # c => calls'[d] = calls[d]
      /\ Undisturbed => \A d \in Caller : calls'[d].pc = "idle"
      /\ last'.op \in Ops =>
           /\ "call" \notin clash /\ ~CallInProgress'
           /\ last'.op = calls[c].op /\ last'.task = calls[c].task
           /\ last'.runs = {} => "run" \notin clash /\ ~RunInProgress
  BY <1>1, Returned
<1>3. Undisturbed => sched = None /\ delayJob = "none"
  BY <1>1 DEF SyncInv, Cleared
<1>4. Exclusive' /\ Cleared'
  BY <1>1, <1>2 DEF Exclusive, Cleared, Undisturbed, InProgress
<1>5. RunAlone' /\ ActiveIsRun' /\ OneTriggerUnlessOverlapped'
  <2>1. CallInProgress' => CallInProgress
    BY <1>1, <1>2 DEF CallInProgress, InProgress
  <2> QED
    BY <1>1, <2>1 DEF SyncInv, RunAlone, RunInProgress, ActiveIsRun, OneTriggerUnlessOverlapped
<1>6. DeletedIsOver'
  BY <1>1, <1>2, <1>3 DEF DeletedIsOver, Undisturbed, InProgress
<1>7. Snapshot'
  BY <1>1, <1>2 DEF Snapshot, Undisturbed, Loaded
<1>8. LastKept'
  <2> SUFFICES ASSUME last'.op \in Ops
               PROVE  LastKept'
    BY DEF LastKept
  <2>1. calls[c].op = "delByIds"
    BY <1>1, <1>2 DEF SyncInv, Snapshot
  <2>2. BullAsAsked(last)' /\ RowAsAsked(last)'
    BY <1>1, <1>2, <1>3, <2>1 DEF BullAsAsked, RowAsAsked, Asks, Undisturbed
  <2>3. last'.runs = {} => RowAgrees'
    BY <1>1, <1>2, <2>1 DEF RowAgrees, RunInProgress
  <2> QED
    BY <1>2, <2>2, <2>3 DEF LastKept
<1> QED
  BY <1>4, <1>5, <1>6, <1>7, <1>8 DEF SyncInv

LEMMA InvCallFails ==
  ASSUME TypeOK, SyncInv, NEW c \in Caller, CallFails(c)
  PROVE  SyncInv'
<1>1. UNCHANGED <<row, sched, delayJob, run, clash, overlapped>> /\ last' = NoLast
  BY DEF CallFails, Throws
<1>2. UNCHANGED calls \/ Ends(c)
  BY DEF CallFails, Throws
<1>3. \A d \in Caller : calls'[d] \in {calls[d], IdleCall}
  BY <1>2, EndsMoves
<1> QED
  BY <1>1, <1>3, IdleFacts, CallGivesUp

LEMMA InvRestart ==
  ASSUME TypeOK, SyncInv, NEW i \in Instance, Restart(i)
  PROVE  SyncInv'
<1>1. /\ UNCHANGED <<row, sched, delayJob, run>> /\ last' = NoLast
      /\ "call" \in clash' <=> \E c \in Caller : c[1] # i /\ InProgress(c)
      /\ "run" \in clash' <=> RunInProgress
      /\ overlapped' = (overlapped \/ \E c \in Caller : c[1] # i /\ InProgress(c))
  BY DEF Restart, Overlap
<1>2. /\ calls'[Boot(i)].pc = "read" /\ calls'[Boot(i)].op = "boot"
      /\ \A c \in Caller : c # Boot(i) =>
           IF c[1] = i THEN calls'[c] = IdleCall ELSE calls'[c] = calls[c]
  BY RestartMoves
<1>3. Undisturbed' => \A c \in Caller : c # Boot(i) => calls'[c].pc = "idle"
  BY <1>1, <1>2, IdleFacts DEF Undisturbed, InProgress
<1>4. Exclusive' /\ Cleared' /\ Snapshot'
  BY <1>2, <1>3 DEF Exclusive, Cleared, Snapshot, Loaded, InProgress, Undisturbed
<1>5. RunAlone' /\ ActiveIsRun' /\ OneTriggerUnlessOverlapped'
  BY <1>1 DEF SyncInv, RunAlone, RunInProgress, ActiveIsRun, OneTriggerUnlessOverlapped
<1>6. DeletedIsOver'
  BY <1>1, <1>2, <1>3 DEF SyncInv, DeletedIsOver, Undisturbed, InProgress
<1>7. LastKept'
  BY <1>1, IdleFacts DEF LastKept
<1> QED
  BY <1>4, <1>5, <1>6, <1>7 DEF SyncInv

-----------------------------------------------------------------------------
(* Runs of the task *)

LEMMA InvRunBegins ==
  ASSUME TypeOK, SyncInv, NEW w \in Worker, NEW from \in Kinds \cup {"delay"},
         RunBegins(w, from)
  PROVE  SyncInv'
<1>1. /\ UNCHANGED <<row, sched, calls, overlapped>>
      /\ run[w].from = "idle" /\ run' = [run EXCEPT ![w] = [from |-> from, task |-> row]]
      /\ "call" \in clash' <=> "call" \in clash
      /\ "run" \in clash' <=> CallInProgress \/ "run" \in clash
      /\ row.st = "live" /\ (row.enable \/ from = "manual")
      /\ from = "delay" => delayJob = "waiting"
      /\ delayJob' = IF from = "delay" THEN "active" ELSE delayJob
      /\ last' = IF from # "delay" /\ row.conf \in DelayConf
                 THEN [last EXCEPT !.runs = @ \cup {"stray"}] ELSE last
  BY DEF RunBegins, Refused, Due
<1>2. /\ run'[w].from = from /\ run'[w].task = row
      /\ \A v \in Worker : v # w => run'[v] = run[v]
  <2>1. [from |-> from, task |-> row] \in Runs
    BY DEF TypeOK, Runs
  <2> QED
    BY <1>1, <2>1, RunMoves
<1>3. from # "idle"
  BY DEF Kinds
<1>4. Exclusive' /\ RunAlone'
  BY <1>1 DEF SyncInv, Exclusive, RunAlone, CallInProgress, InProgress, Undisturbed
<1>5. ActiveIsRun' /\ OneTriggerUnlessOverlapped'
  BY <1>1, <1>2 DEF SyncInv, ActiveIsRun, OneTriggerUnlessOverlapped
<1>6. Cleared' /\ DeletedIsOver'
  BY <1>1 DEF SyncInv, Cleared, Undisturbed, DeletedIsOver
<1>7. Snapshot'
  <2>1. CASE CallInProgress
    BY <1>1, <2>1 DEF SyncInv, Snapshot, Loaded, BullAsAsked, Asks
  <2>2. CASE ~CallInProgress
    BY <1>1, <2>2 DEF Snapshot, Loaded, CallInProgress, InProgress
  <2> QED
    BY <2>1, <2>2
<1>8. LastKept'
  <2>1. /\ last'.op = last.op /\ last'.task = last.task
        /\ last'.runs = {} => last' = last /\ (from = "delay" \/ row.conf \notin DelayConf)
    BY <1>1, LastAdds
  <2> SUFFICES ASSUME last.op \in Ops
               PROVE  LastKept'
    BY <2>1 DEF LastKept
  <2>2. ~CallInProgress /\ BullAsAsked(last) /\ RowAsAsked(last)
    BY DEF SyncInv, LastKept
  <2>3. ~CallInProgress' /\ BullAsAsked(last)' /\ RowAsAsked(last)'
    BY <1>1, <2>1, <2>2 DEF CallInProgress, InProgress, BullAsAsked, RowAsAsked, Asks
  <2>4. ASSUME last'.runs = {}
        PROVE  RowAgrees'
    <3>1. RowAgrees /\ last' = last /\ last.op # "delByIds"
            /\ (from = "delay" \/ row.conf \notin DelayConf)
      BY <1>1, <2>1, <2>2, <2>4 DEF SyncInv, LastKept, RowAsAsked
    <3>2. RunsLoaded => RunsLoaded'
      BY <1>1, <1>2 DEF RunsLoaded
    <3>3. row.conf = last.task.conf
      BY <2>2, <3>1 DEF RowAsAsked
    <3>4. CASE Asks(last) /\ last.task.conf \in DelayConf
      BY <1>1, <1>2, <3>1, <3>2, <3>3, <3>4 DEF RowAgrees, Asks
    <3>5. CASE ~(Asks(last) /\ last.task.conf \in DelayConf)
      <4>1. delayJob = "none"
        BY <2>2, <3>5 DEF BullAsAsked
      <4>2. row.conf \notin DelayConf
        BY <1>1, <3>1, <4>1
      <4> QED
        BY <1>1, <3>1, <3>2, <3>3, <3>5, <4>2 DEF RowAgrees, Asks
    <3> QED
      BY <3>4, <3>5
  <2> QED
    BY <2>1, <2>3, <2>4 DEF LastKept
<1> QED
  BY <1>4, <1>5, <1>6, <1>7, <1>8 DEF SyncInv

\* What a run that ends, one way or another, does to everything but the agreement.
LEMMA RunDropped ==
  ASSUME TypeOK, SyncInv, NEW w \in Worker, run[w].from # "idle",
         run' = [run EXCEPT ![w] = IdleRun],
         UNCHANGED <<sched, calls, clash, overlapped>>,
         row'.st = row.st, row'.conf = row.conf,
         NEW outcome \in {"none", "failed", "waiting"}, JobEnds(run[w].from, outcome)
  PROVE  /\ Exclusive' /\ RunAlone' /\ ActiveIsRun' /\ Cleared'
         /\ OneTriggerUnlessOverlapped' /\ DeletedIsOver' /\ Snapshot'
         /\ run'[w].from = "idle" /\ \A v \in Worker : v # w => run'[v] = run[v]
<1>1. run'[w].from = "idle" /\ \A v \in Worker : v # w => run'[v] = run[v]
  BY IdleFacts, BlankTyped, RunMoves
<1>2. delayJob' = IF run[w].from = "delay" THEN outcome ELSE delayJob
  BY DEF JobEnds
<1>3. run[w].from = "delay" => delayJob = "active"
  BY DEF SyncInv, ActiveIsRun
<1>4. Exclusive'
  BY DEF SyncInv, Exclusive, Undisturbed, InProgress
<1>5. RunAlone'
  BY <1>1 DEF SyncInv, RunAlone, RunInProgress, CallInProgress, InProgress
<1>6. ActiveIsRun'
  BY <1>1, <1>2 DEF SyncInv, ActiveIsRun
<1>7. OneTriggerUnlessOverlapped'
  BY <1>2, <1>3 DEF SyncInv, OneTriggerUnlessOverlapped
<1>8. Cleared' /\ DeletedIsOver'
  BY <1>2, <1>3 DEF SyncInv, Cleared, Undisturbed, DeletedIsOver, InProgress
<1>9. Snapshot'
  <2>1. "run" \notin clash => \A c \in Caller : calls[c].pc = "idle"
    BY DEF SyncInv, RunAlone, RunInProgress, CallInProgress, InProgress
  <2>2. \A c \in Caller : BullAsAsked(calls[c]) => BullAsAsked(calls[c])'
    BY <1>2, <1>3 DEF BullAsAsked, Asks
  <2> QED
    BY <2>1, <2>2 DEF SyncInv, Snapshot, Loaded, Asks
<1> QED
  BY <1>1, <1>4, <1>5, <1>6, <1>7, <1>8, <1>9

\* What the last call asked for survives the end of a run.
LEMMA AskedSurvivesRun ==
  ASSUME TypeOK, SyncInv, NEW w \in Worker, UNCHANGED <<sched, calls>>,
         row'.st = row.st, row'.conf = row.conf,
         NEW outcome \in {"none", "failed", "waiting"}, JobEnds(run[w].from, outcome),
         last'.op = last.op, last'.task = last.task, last.op \in Ops
  PROVE  ~CallInProgress' /\ BullAsAsked(last)' /\ RowAsAsked(last)'
<1>1. ~CallInProgress /\ BullAsAsked(last) /\ RowAsAsked(last)
  BY DEF SyncInv, LastKept
<1>2. delayJob = "none" => delayJob' = "none"
  BY DEF SyncInv, ActiveIsRun, JobEnds
<1> QED
  BY <1>1, <1>2 DEF CallInProgress, InProgress, BullAsAsked, RowAsAsked, Asks

LEMMA InvRunEnds ==
  ASSUME TypeOK, SyncInv, NEW w \in Worker, NEW outcome \in {"none", "failed", "waiting"},
         RunEnds(w, outcome)
  PROVE  SyncInv'
<1> DEFINE off == run[w].task.conf \in DelayConf /\ outcome # "waiting"
<1>1. /\ run[w].from # "idle" /\ run' = [run EXCEPT ![w] = IdleRun]
      /\ UNCHANGED <<sched, calls, clash, overlapped, last>>
      /\ JobEnds(run[w].from, outcome)
      /\ row' = WriteBack(run[w].task, outcome = "waiting")
  BY DEF RunEnds, bounds
<1>2. /\ row'.st = row.st /\ row'.conf = row.conf
      /\ row'.enable = IF off THEN FALSE ELSE run[w].task.enable
  BY <1>1, WritesBack
<1>3. /\ Exclusive' /\ RunAlone' /\ ActiveIsRun' /\ Cleared'
      /\ OneTriggerUnlessOverlapped' /\ DeletedIsOver' /\ Snapshot'
      /\ run'[w].from = "idle" /\ \A v \in Worker : v # w => run'[v] = run[v]
  BY <1>1, <1>2, RunDropped
<1>4. LastKept'
  <2> SUFFICES ASSUME last.op \in Ops
               PROVE  LastKept'
    BY <1>1 DEF LastKept
  <2>1. ~CallInProgress' /\ BullAsAsked(last)' /\ RowAsAsked(last)'
    BY <1>1, <1>2, AskedSurvivesRun
  <2>2. ASSUME last.runs = {}
        PROVE  RowAgrees'
    <3>1. RowAgrees /\ BullAsAsked(last) /\ RowAsAsked(last)
      BY <2>2 DEF SyncInv, LastKept
    <3>2. last.op # "delByIds"
      BY <1>1, <3>1 DEF RowAgrees, RunInProgress
    <3>3. row.conf = last.task.conf
      BY <3>1, <3>2 DEF RowAsAsked
    <3>4. CASE Asks(last) /\ last.task.conf \in DelayConf
      <4>1. run[w].from = "delay" /\ delayJob = "active" /\ row.enable /\ RunsLoaded
        BY <1>1, <3>1, <3>2, <3>4 DEF RowAgrees, SyncInv, ActiveIsRun
      <4>2. \A v \in Worker : run'[v].from = "idle"
        BY <1>3, <3>1, <3>2, <3>4, <4>1 DEF RowAgrees, SyncInv, ActiveIsRun
      <4>3. run[w].task.conf = row.conf /\ run[w].task.enable = row.enable
        BY <1>1, <4>1 DEF RunsLoaded
      <4>4. delayJob' = outcome /\ row'.enable = (outcome = "waiting")
        BY <1>1, <1>2, <3>3, <3>4, <4>1, <4>3 DEF JobEnds
      <4> QED
        BY <1>1, <3>2, <3>4, <4>2, <4>4 DEF RowAgrees, RunsLoaded, Asks
    <3>5. CASE ~(Asks(last) /\ last.task.conf \in DelayConf)
      <4>1. /\ row.enable = last.task.enable /\ RunsLoaded
            /\ row.conf \notin DelayConf
        BY <1>1, <3>1, <3>2, <3>5 DEF RowAgrees, RunInProgress
      <4>2. run[w].task.conf = row.conf /\ run[w].task.enable = row.enable
        BY <1>1, <4>1 DEF RunsLoaded
      <4>3. row'.enable = row.enable
        BY <1>2, <4>1, <4>2
      <4>4. RunsLoaded'
        BY <1>2, <1>3, <4>1, <4>3 DEF RunsLoaded
      <4> QED
        BY <1>1, <1>2, <3>2, <3>5, <4>1, <4>3, <4>4 DEF RowAgrees, Asks
    <3> QED
      BY <3>4, <3>5
  <2> QED
    BY <1>1, <2>1, <2>2 DEF LastKept
<1> QED
  BY <1>3, <1>4 DEF SyncInv

LEMMA InvRunBreaks ==
  ASSUME TypeOK, SyncInv, NEW w \in Worker, RunBreaks(w)
  PROVE  SyncInv'
<1>1. /\ run[w].from # "idle" /\ run' = [run EXCEPT ![w] = IdleRun]
      /\ UNCHANGED <<sched, calls, clash, overlapped>>
      /\ \E outcome \in {"none", "failed", "waiting"} : JobEnds(run[w].from, outcome)
      /\ row' = row \/ \E retried \in BOOLEAN : row' = WriteBack(run[w].task, retried)
      /\ last' = [last EXCEPT !.runs = @ \cup {"broken"}]
  BY DEF RunBreaks
<1>2. row'.st = row.st /\ row'.conf = row.conf
  BY <1>1, WritesBack
<1>3. last'.op = last.op /\ last'.task = last.task /\ last'.runs # {}
  BY <1>1, LastAdds
<1>4. /\ Exclusive' /\ RunAlone' /\ ActiveIsRun' /\ Cleared'
      /\ OneTriggerUnlessOverlapped' /\ DeletedIsOver' /\ Snapshot'
  BY <1>1, <1>2, RunDropped
<1>5. LastKept'
  BY <1>1, <1>2, <1>3, AskedSurvivesRun DEF LastKept
<1> QED
  BY <1>4, <1>5 DEF SyncInv

LEMMA InvJobRefused ==
  ASSUME TypeOK, SyncInv, JobRefused
  PROVE  SyncInv'
<1>1. /\ UNCHANGED <<row, sched, calls, run, clash, overlapped, last>>
      /\ delayJob = "waiting" /\ delayJob' = "failed"
      /\ row.st # "live" \/ ~row.enable
  BY DEF JobRefused, Due, Refused, bounds
<1>2. Exclusive' /\ RunAlone' /\ ActiveIsRun' /\ OneTriggerUnlessOverlapped'
  BY <1>1 DEF SyncInv, Exclusive, Undisturbed, InProgress, RunAlone, RunInProgress,
              CallInProgress, ActiveIsRun, OneTriggerUnlessOverlapped
<1>3. Cleared' /\ DeletedIsOver'
  BY <1>1 DEF SyncInv, Cleared, Undisturbed, DeletedIsOver
<1>4. Snapshot'
  <2>1. \A c \in Caller : BullAsAsked(calls[c]) => BullAsAsked(calls[c])'
    BY <1>1 DEF BullAsAsked, Asks
  <2> QED
    BY <1>1, <2>1 DEF SyncInv, Snapshot, Loaded, Asks
<1>5. LastKept'
  <2> SUFFICES ASSUME last.op \in Ops
               PROVE  LastKept'
    BY <1>1 DEF LastKept
  <2>1. ~CallInProgress /\ BullAsAsked(last) /\ RowAsAsked(last)
    BY DEF SyncInv, LastKept
  <2>2. Asks(last) /\ last.task.conf \in DelayConf /\ last.op # "delByIds" /\ row.st = "live"
    BY <1>1, <2>1 DEF BullAsAsked, RowAsAsked, Asks
  <2>3. last.runs # {}
    BY <1>1, <2>2 DEF SyncInv, LastKept, RowAgrees
  <2> QED
    BY <1>1, <2>1, <2>3 DEF LastKept, CallInProgress, InProgress, BullAsAsked, RowAsAsked, Asks
<1> QED
  BY <1>2, <1>3, <1>4, <1>5 DEF SyncInv

LEMMA InvUnchanged ==
  ASSUME SyncInv,
         UNCHANGED <<row, sched, delayJob, calls, run, clash, overlapped, last>>
  PROVE  SyncInv'
BY DEF SyncInv, Exclusive, Undisturbed, InProgress, RunAlone, RunInProgress, CallInProgress,
   ActiveIsRun, Cleared, OneTriggerUnlessOverlapped, DeletedIsOver, Snapshot, Loaded, LastKept,
   BullAsAsked, RowAsAsked, Asks, RowAgrees, RunsLoaded

\* The invariant that relates calls, runs, row and BullMQ.
THEOREM SyncInvariant == Spec => []SyncInv
<1>1. ASSUME TypeOK, SyncInv, [Next]_vars
      PROVE  SyncInv'
  <2>1. CASE Requested
    BY <1>1, <2>1, InvRequested
  <2>2. CASE CallSteps
    BY <1>1, <2>2, InvWrite, InvRead, InvRemoveScheduler, InvRemoveDelayJob, InvSchedule,
       InvFinish, InvSoftDelete, InvCallFails DEF CallSteps
  <2>3. CASE RunSteps
    <3>1. CASE SchedulerFires \/ RunNow
      BY <1>1, <3>1, InvUnchanged DEF SchedulerFires, RunNow
    <3> QED
      BY <1>1, <2>3, <3>1, InvJobRefused, InvRunBegins, InvRunEnds, InvRunBreaks DEF RunSteps
  <2>4. CASE \E i \in Instance : Restart(i)
    BY <1>1, <2>4, InvRestart
  <2>5. CASE UNCHANGED vars
    BY <1>1, <2>5, InvUnchanged DEF vars
  <2> QED
    BY <1>1, <2>1, <2>2, <2>3, <2>4, <2>5 DEF Next
<1> QED
  BY InvInit, <1>1, TypeCorrect, PTL DEF Spec

\* A call that returned and overlapped no other leaves BullMQ with what it asked for,
\* whatever runs of the task do.
THEOREM CallLeavesWhatItAsked == Spec => [](last.op \in Ops => ScheduledAsAsked)
<1>1. SyncInv => (last.op \in Ops => ScheduledAsAsked)
  BY DEF SyncInv, LastKept, ScheduledAsAsked
<1> QED
  BY <1>1, SyncInvariant, PTL

\* Such a call leaves BullMQ as the row asks, and later runs keep it so, as long as no
\* run it overlapped, no broken one and no stray one of a DELAY task writes the row.
THEOREM SyncedAfterUndisturbedCall == Spec => []SyncedUnlessDisturbed
<1>1. TypeOK /\ SyncInv => SyncedUnlessDisturbed
  <2>0. SyncInv => (last.op \in Ops => ScheduledAsAsked)
    BY DEF SyncInv, LastKept, ScheduledAsAsked
  <2> SUFFICES ASSUME TypeOK, SyncInv, last.op \in Ops, last.runs = {}, ~RunInProgress
               PROVE  InSync
    BY <2>0 DEF SyncedUnlessDisturbed
  <2>1. BullAsAsked(last) /\ RowAsAsked(last) /\ RowAgrees
    BY DEF SyncInv, LastKept
  <2>2. delayJob # "active"
    BY DEF SyncInv, ActiveIsRun, RunInProgress
  <2>3. CASE last.op = "delByIds"
    BY <2>1, <2>3 DEF InSync, Scheduled, BullAsAsked, RowAsAsked, Asks
  <2>4. CASE last.op # "delByIds"
    <3>1. row.st = "live" /\ row.conf = last.task.conf
      BY <2>1, <2>4 DEF RowAsAsked
    <3>2. CASE Asks(last) /\ last.task.conf \in DelayConf
      BY <2>1, <2>2, <2>4, <3>1, <3>2 DEF InSync, Scheduled, BullAsAsked, RowAgrees
    <3>3. CASE ~(Asks(last) /\ last.task.conf \in DelayConf)
      BY <2>1, <2>4, <3>1, <3>3 DEF InSync, Scheduled, BullAsAsked, RowAgrees, Asks
    <3> QED
      BY <3>2, <3>3
  <2> QED
    BY <2>3, <2>4
<1> QED
  BY <1>1, SyncInvariant, TypeCorrect, PTL

\* Failing steps and restarts alone never give a task two triggers.
THEOREM OneTrigger == Spec => []OneTriggerUnlessOverlapped
<1>1. SyncInv => OneTriggerUnlessOverlapped
  BY DEF SyncInv
<1> QED
  BY <1>1, SyncInvariant, PTL

\* Nor do they leave a deleted task a trigger.
THEOREM DeletedStaysUnscheduled == Spec => []DeletedHasNoTrigger
<1>1. SyncInv => DeletedHasNoTrigger
  BY DEF SyncInv, DeletedIsOver, DeletedHasNoTrigger
<1> QED
  BY <1>1, SyncInvariant, PTL

=============================================================================
