--------------------------- MODULE TaskStopProofs ---------------------------
(***************************************************************************)
(* What a shutdown, a start and a stop leave behind, for any tasks,        *)
(* workers, queue and bounds.                                              *)
(*                                                                         *)
(* A shutdown closes the panel in an order: first those who may ask, then  *)
(* those who may launch, then those who run.  ClosedInv says at every      *)
(* place of main who is gone by then, given which waits timed out; the     *)
(* promises of the shutdown follow from it.                                *)
(***************************************************************************)
EXTENDS TaskRunProofs

Closing == {"stopping", "joining", "waiting", "marking", "leaving"}

\* Who may begin an operation: none of the HTTP server or cron once they are
\* closed, and the start-up loop only during the start.
GateInv ==
  /\ panel \in Closing \cup {"draining"} => ~serving
  /\ panel \in Closing => ~ticking
  /\ panel # "boot" => bootTodo = {} \/ made = MaxReqs
  /\ \A a \in Everyone : op[a].kind = "startup" => panel = "boot" /\ a = Boot
  /\ \A a \in Everyone : op[a].pc = "idle" => op[a] = NoOp

\* Who is gone, unless the wait for him timed out.
AllExited == \A w \in Workers : wpc[w] = "exited"
AllOver == \A r \in Reqs : rpc[r] \notin UnderWay
ClosedInv ==
  /\ panel \in Closing /\ "handlers" \notin lapses => Idle(HttpKinds)
  /\ panel \in Closing \ {"stopping"} => Idle(CronKinds)
  /\ panel \in {"waiting", "marking", "leaving"} /\ "workers" \notin lapses => AllExited
  /\ panel \in {"marking", "leaving"} /\ lapses \cap {"workers", "runs"} = {} => AllOver

\* When MarkActiveTasksInterrupted has been there.
RowsInv == panel = "leaving" /\ lapses = {} => \A t \in Tasks : status[t] \notin Active

ShutInv == GateInv /\ ClosedInv /\ RowsInv /\ RunningLogHasOwner

-----------------------------------------------------------------------------
(* Who may begin.                                                          *)

LEMMA InitGate == Init => GateInv
<1> SUFFICES ASSUME Init PROVE GateInv
  OBVIOUS
<1>1. \A a \in Everyone : op[a] = NoOp
  BY DEF Init, ControlInit
<1>2. NoOp.kind = "none"
  BY DEF NoOp
<1> QED
  BY <1>1, <1>2 DEF Init, ControlInit, GateInv, Closing

\* An operation goes on or ends, or one begins for those who may.
Turns(a) ==
  \/ op'[a] \in {op[a], NoOp}
  \/ /\ op'[a].pc # "idle"
     /\ \/ op'[a].kind \in {op[a].kind, "cliStop"}
        \/ op'[a].kind \in HttpKinds /\ serving
        \/ op'[a].kind \in CronKinds /\ ticking
        \/ op'[a].kind = "startup" /\ a = Boot /\ panel = "boot"

LEMMA ControlTurns ==
  ASSUME TypeInv, GateInv, ControlStep
  PROVE  (\A a \in Everyone : Turns(a)) /\ bootTodo' \subseteq bootTodo
<1>1. op \in [Everyone -> Ops] /\ made \in Nat /\ MaxReqs \in Nat
  BY TypeParts, StoreAssumption DEF OpsTyped, SchedTypeOK
<1>2. ASSUME NEW b \in Actors, Request(b)
      PROVE  (\A a \in Everyone : Turns(a)) /\ bootTodo' \subseteq bootTodo
  <2>1. PICK o : /\ Begin(b, o) /\ o.pc # "idle"
                 /\ o.kind \in HttpKinds \cup CronKinds \cup {"cliStop"}
    BY <1>2, BeginMoves
  <2> QED
    BY <1>1, <2>1 DEF Begin, Become, Turns
<1>3. CASE BootLoop
  <2>1. PICK t \in Tasks : StartupBegin(t)
    BY <1>3 DEF BootLoop
  <2> DEFINE o == [Blank("startup", t, "enqueue") EXCEPT !.req = made + 1]
  <2>2. Blank("startup", t, "enqueue") \in Ops
    BY BlankTypes DEF AllKinds, Pcs
  <2>3. o.pc = "enqueue" /\ o.kind = "startup"
    BY <2>2, NoOpType DEF Ops, Blank
  <2>4. panel = "boot"
    BY <1>1, <2>1 DEF StartupBegin, BuildRequest, GateInv
  <2>5. Become(Boot, o) /\ bootTodo' \subseteq bootTodo
    BY <2>1 DEF StartupBegin
  <2> HIDE DEF o
  <2> QED
    BY <1>1, <2>3, <2>4, <2>5 DEF Become, Turns
<1>4. ASSUME NEW b \in Everyone, Operation(b)
      PROVE  (\A a \in Everyone : Turns(a)) /\ bootTodo' \subseteq bootTodo
  <2>1. MovesOn(b, op'[b]) /\ \A a \in Everyone \ {b} : op'[a] = op[a]
    BY <1>4, OperationMoves DEF Operation
  <2>2. UNCHANGED bootTodo
    BY <1>4
    DEF Operation, ContinueStep, RequestStep, LoadTask, EnqueueRequest,
        MarkQueued, EditStep, SaveRow, RereadRow, RegisterJob, UnregisterJob,
        DeleteLogs, DeleteRow, StopStep, StopTask, KillVictims, LoadStopRow,
        MarkByPid, KillByPid, ResolveStop, WriteStopRow, FindRunningLog,
        AbortLog, WriteLastRun, gateVars
  <2> QED
    BY <2>1, <2>2 DEF MovesOn, Turns
<1> QED
  BY <1>2, <1>3, <1>4 DEF ControlStep

LEMMA NextGate ==
  ASSUME TypeInv, TypeInv', BuiltInv, DownInv, GateInv, [Next]_vars
  PROVE  GateInv'
<1>1. /\ made \in 0 .. MaxReqs /\ made' \in 0 .. MaxReqs /\ made' \in {made, made + 1}
      /\ MaxReqs \in Nat
  BY NextBuilt, StoreAssumption DEF TypeInv, TypeOK, SchedTypeOK
<1>2. made = MaxReqs => made' = MaxReqs
  BY <1>1
<1>3. NoOp.kind = "none" /\ NoOp.pc = "idle"
  BY DEF NoOp
<1>4. CASE Start
  <2>1. panel = "down" /\ panel' = "boot" /\ UNCHANGED op
    BY <1>4 DEF Start
  <2> QED
    BY <2>1 DEF GateInv, Closing
<1>5. CASE Exit \/ Crash
  <2>1. /\ panel' = "down" /\ bootTodo' = {}
        /\ op' = [a \in Everyone |-> IF op[a].kind = "cliStop" THEN op[a] ELSE NoOp]
    BY <1>5 DEF Exit, Crash, Vanish
  <2> QED
    BY <1>3, <2>1 DEF GateInv, Closing
<1>6. CASE Serve
  <2>1. /\ panel' = "up" /\ UNCHANGED <<op, bootTodo>> /\ op[Boot].pc = "idle"
        /\ bootTodo = {} \/ made = MaxReqs
    BY <1>6 DEF Serve
  <2>2. \A a \in Everyone : op[a].kind # "startup"
    BY <1>3, <2>1 DEF GateInv
  <2> QED
    BY <1>2, <2>1, <2>2 DEF GateInv, Closing
<1>7. CASE StopScheduler \/ Terminate \/ CronStopped \/ StopAllRunningTasks \/ Wait
             \/ MarkInterrupted
  <2>1. /\ panel # "boot" /\ UNCHANGED <<op, bootTodo>>
        /\ panel' \in Closing \cup {"draining"} =>
             serving' = FALSE \/ (panel \in Closing \cup {"draining"} /\ UNCHANGED serving)
        /\ panel' \in Closing => ticking' = FALSE \/ (panel \in Closing /\ UNCHANGED ticking)
        /\ panel' # "boot"
    BY <1>7
    DEF StopScheduler, Terminate, CronStopped, StopAllRunningTasks, Wait,
        MarkInterrupted, Step, Closing, ctlVars, gateVars
  <2> QED
    BY <1>2, <2>1 DEF GateInv
<1>8. CASE ControlStep
  <2>1. (\A a \in Everyone : Turns(a)) /\ bootTodo' \subseteq bootTodo
    BY <1>8, ControlTurns
  <2>2. UNCHANGED <<panel, serving, ticking>>
    BY <1>8, ControlFrame DEF panelVars
  <2>3. \A a \in Everyone : op'[a].kind = "startup" => panel = "boot" /\ a = Boot
    BY <1>3, <2>1 DEF Turns, GateInv, HttpKinds, CronKinds
  <2>4. \A a \in Everyone : op'[a].pc = "idle" => op'[a] = NoOp
    BY <2>1 DEF Turns, GateInv
  <2>5. panel # "boot" => bootTodo' = {} \/ made' = MaxReqs
    BY <1>2, <2>1 DEF GateInv
  <2> QED
    BY <2>2, <2>3, <2>4, <2>5 DEF GateInv
<1>9. CASE (\E w \in Workers : Worker(w)) \/ (\E r \in Reqs : Runner(r) \/ Process(r))
             \/ UNCHANGED vars
  <2>1. UNCHANGED <<op, panel, serving, ticking, bootTodo>>
    BY <1>9 DEF Worker, Runner, Process, vars, ctlVars, gateVars, panelVars
  <2> QED
    BY <1>2, <2>1 DEF GateInv
<1> QED
  BY <1>4, <1>5, <1>6, <1>7, <1>8, <1>9 DEF Next, ControlStep, LifeStep

-----------------------------------------------------------------------------
(* Who is gone.                                                            *)

LEMMA InitClosed == Init => ClosedInv
BY DEF Init, ClosedInv, Closing

\* Operations of a kind that nobody may begin any more stay over.
LEMMA IdleStays ==
  ASSUME TypeInv, GateInv, ControlStep
  PROVE  /\ Idle(HttpKinds) /\ ~serving => Idle(HttpKinds)'
         /\ Idle(CronKinds) /\ ~ticking => Idle(CronKinds)'
<1>1. \A a \in Everyone : Turns(a)
  BY ControlTurns
<1>2. NoOp.kind = "none"
  BY DEF NoOp
<1> QED
  BY <1>1, <1>2 DEF Turns, Idle, HttpKinds, CronKinds

\* Workers that have exited and runs that are over do nothing.
LEMMA ExitedStays ==
  ASSUME AllExited, NEW w \in Workers
  PROVE  ~Worker(w)
BY DEF AllExited, Worker, SchedulerStep, ExecutorStep, Dequeue, Admit, Quit,
   CheckConcurrency, AddRunningTask, RemoveRunningTask, OnTaskExecuting,
   MarkRunning, Launch, LaunchFails, FailLog, FailRow

LEMMA OverStays ==
  ASSUME AllOver, NEW r \in Reqs
  PROVE  ~Runner(r)
BY DEF AllOver, Runner, RunStep, Settlement, StartProcess, StartFails,
   RegisterRunningProcess, WritePid, Succeed, InstallDeps, AttemptFails,
   ApplyManualStopOverride, SettleLog, ResolveStatus, SettleRow, Finish,
   UnderWay, RunPcs

LEMMA NextClosed ==
  ASSUME TypeInv, GateInv, ClosedInv, [Next]_vars
  PROVE  ClosedInv'
<1>1. CASE Start \/ Serve \/ Terminate \/ Exit \/ Crash
  <2>1. panel' \in {"boot", "up", "draining", "down"}
    BY <1>1 DEF Start, Serve, Terminate, Exit, Crash, Vanish, Step
  <2> QED
    BY <2>1 DEF ClosedInv, Closing
<1>2. CASE StopScheduler
  <2>1. /\ panel' = "stopping" /\ UNCHANGED op
        /\ Idle(HttpKinds) \/ "handlers" \in lapses'
    BY <1>2 DEF StopScheduler, Step, Await
  <2> QED
    BY <2>1 DEF ClosedInv, Closing, Idle
<1>3. CASE CronStopped
  <2>1. /\ panel = "stopping" /\ panel' = "joining" /\ UNCHANGED <<op, lapses>>
        /\ Idle(CronKinds)
    BY <1>3 DEF CronStopped, Step, ctlVars
  <2> QED
    BY <2>1 DEF ClosedInv, Closing, Idle
<1>4. CASE StopAllRunningTasks
  <2>1. /\ panel = "joining" /\ panel' = "waiting" /\ UNCHANGED <<op, wpc>>
        /\ lapses \subseteq lapses'
        /\ AllExited \/ "workers" \in lapses'
    BY <1>4 DEF StopAllRunningTasks, Step, Await, ctlVars, schedVars, AllExited
  <2> QED
    BY <2>1 DEF ClosedInv, Closing, Idle, AllExited
<1>5. CASE Wait
  <2>1. /\ panel = "waiting" /\ panel' = "marking" /\ UNCHANGED <<op, wpc, rpc>>
        /\ lapses \subseteq lapses'
        /\ AllOver \/ "runs" \in lapses'
    BY <1>5 DEF Wait, Step, Await, ctlVars, schedVars, execVars, AllOver
  <2> QED
    BY <2>1 DEF ClosedInv, Closing, Idle, AllExited, AllOver
<1>6. CASE MarkInterrupted
  <2>1. /\ panel = "marking" /\ panel' = "leaving"
        /\ UNCHANGED <<op, wpc, rpc, lapses>>
    BY <1>6 DEF MarkInterrupted, Step, ctlVars, schedVars, execVars
  <2> QED
    BY <2>1 DEF ClosedInv, Closing, Idle, AllExited, AllOver
<1>7. CASE ControlStep
  <2>1. UNCHANGED <<panel, lapses, wpc, rpc>>
    BY <1>7, ControlFrame DEF panelVars
  <2> QED
    BY <1>7, <2>1, IdleStays DEF ClosedInv, GateInv, AllExited, AllOver
<1>8. CASE \E w \in Workers : Worker(w)
  <2>1. UNCHANGED <<panel, lapses, op>> /\ ~AllExited
    BY <1>8, ExitedStays DEF Worker, panelVars, ctlVars
  <2> QED
    BY <2>1 DEF ClosedInv, Idle, Closing
<1>9. ASSUME NEW r \in Reqs, Runner(r) \/ Process(r) PROVE ClosedInv'
  <2>1. UNCHANGED <<panel, lapses, op, wpc>>
    BY <1>9, RunMoves DEF Runner, Process, panelVars
  <2>2. AllOver => UNCHANGED rpc
    BY <1>9, OverStays DEF Process, ProcessExits
  <2> QED
    BY <2>1, <2>2 DEF ClosedInv, Idle, AllExited, AllOver
<1>10. CASE UNCHANGED vars
  BY <1>10
  DEF vars, panelVars, ctlVars, schedVars, execVars, ClosedInv, Idle, AllExited,
      AllOver
<1> QED
  BY <1>1, <1>2, <1>3, <1>4, <1>5, <1>6, <1>7, <1>8, <1>9, <1>10
  DEF Next, ControlStep, LifeStep

-----------------------------------------------------------------------------
(* Logs.                                                                   *)

\* A run that has yet to close its log.
Unlogged(r) == rpc[r] \in UnderWay \ {"logged", "resolved", "stored"}

\* Nobody but a launch makes a log run.
LEMMA LogsOfOthers ==
  ASSUME TypeInv, [Next]_vars, NEW r \in Reqs, log'[r] = "running",
         log[r] # "running"
  PROVE  \E w \in Workers : Worker(w) /\ Launch(w) /\ wreq[w] = r
<1>1. log \in [Reqs -> LogStatuses] /\ outcome \in [Reqs -> Results]
  BY TypeParts DEF StoreTypeOK, ExecTypeOK
<1>2. ASSUME NEW v, NEW q, log' = PutLog(q, v), v # "running" PROVE FALSE
  BY <1>1, <1>2 DEF PutLog
<1>3. ASSUME NEW w \in Workers, Worker(w), ~(Launch(w) /\ wreq[w] = r) PROVE FALSE
  BY <1>1, <1>3
  DEF Worker, SchedulerStep, ExecutorStep, OnTaskExecuting, MarkRunning, Launch,
      LaunchFails, FailLog, FailRow, storeVars
<1>4. ASSUME NEW q \in Reqs, Runner(q) \/ Process(q) PROVE FALSE
  <2>1. UNCHANGED log \/ log' = PutLog(q, outcome[q])
    BY <1>4
    DEF Runner, Process, RunStep, Settlement, ProcessExits, StartProcess,
        StartFails, RegisterRunningProcess, WritePid, Succeed, InstallDeps,
        AttemptFails, ApplyManualStopOverride, SettleLog, ResolveStatus,
        SettleRow, Finish, storeVars
  <2> QED
    BY <1>1, <1>2, <2>1 DEF Results
<1>5. ASSUME NEW a \in Everyone, Operation(a) PROVE FALSE
  <2>1. \/ UNCHANGED log
        \/ log' = PutLog(op[a].req, "aborted")
        \/ log' = [q \in Reqs |-> IF rtask[q] = op[a].task THEN "none" ELSE log[q]]
    BY <1>5
    DEF Operation, ContinueStep, RequestStep, LoadTask, EnqueueRequest,
        MarkQueued, EditStep, SaveRow, RereadRow, RegisterJob, UnregisterJob,
        DeleteLogs, DeleteRow, StopStep, StopTask, KillVictims, LoadStopRow,
        MarkByPid, KillByPid, ResolveStop, WriteStopRow, FindRunningLog,
        AbortLog, WriteLastRun, storeVars
  <2> QED
    BY <1>1, <1>2, <2>1
<1>6. ASSUME NEW a \in Actors, Request(a) PROVE FALSE
  BY <1>6, BeginMoves DEF Begin, storeVars
<1>7. ASSUME NEW f, MarkActiveTasksInterrupted(f) PROVE FALSE
  BY <1>1, <1>7 DEF MarkActiveTasksInterrupted
<1>8. CASE BootLoop \/ Start \/ LifeStep \/ Terminate \/ Crash
  BY <1>7, <1>8
  DEF BootLoop, StartupBegin, Start, LifeStep, Serve, StopScheduler, CronStopped,
      StopAllRunningTasks, Wait, MarkInterrupted, Exit, Terminate, Crash, Vanish,
      storeVars
<1> QED
  BY <1>3, <1>4, <1>5, <1>6, <1>8 DEF Next, vars, storeVars

\* A run that has yet to close its log goes on, unless it closes it or the
\* panel ends.
LEMMA UnloggedStays ==
  ASSUME TypeInv, PlaceInv, [Next]_vars, NEW r \in Reqs, Unlogged(r), ~Unlogged(r)'
  PROVE  (Runner(r) /\ SettleLog(r)) \/ Exit \/ Crash
<1>1. rpc \in [Reqs -> RunPcs] /\ wreq \in [Workers -> Reqs \cup {NoReq}]
  BY TypeParts DEF ExecTypeOK, SchedTypeOK
<1>2. rpc'[r] # rpc[r]
  BY DEF Unlogged
<1>3. ASSUME NEW w \in Workers, Worker(w) PROVE FALSE
  <2>1. Launch(w) /\ rpc' = [rpc EXCEPT ![wreq[w]] = "prepare"] /\ wreq[w] \in Reqs
    BY <1>2, <1>3, WorkerFrame DEF Launch, TypeInv, WorkersHoldRequest
  <2> QED
    BY <1>1, <1>2, <2>1 DEF Unlogged, UnderWay, RunPcs
<1>4. ASSUME NEW q \in Reqs, Runner(q) \/ Process(q), q # r PROVE FALSE
  BY <1>1, <1>2, <1>4, RunMoves
<1>5. ASSUME Runner(r) \/ Process(r), ~SettleLog(r) PROVE FALSE
  BY <1>1, <1>2, <1>5
  DEF Runner, Process, RunStep, Settlement, ProcessExits, StartProcess,
      StartFails, RegisterRunningProcess, WritePid, Succeed, InstallDeps,
      AttemptFails, ApplyManualStopOverride, ResolveStatus, SettleRow, Finish,
      Retry, RunGoto, Unlogged, UnderWay, RunPcs
<1>6. SettleLog(r) => ~Process(r)
  BY <1>1 DEF SettleLog, Process, ProcessExits, RunGoto, execVars
<1>7. ~ControlStep
  BY <1>2, ControlFrame
<1>8. CASE Start \/ LifeStep \/ Terminate
  BY <1>2, <1>8
  DEF Start, LifeStep, Serve, StopScheduler, CronStopped, StopAllRunningTasks,
      Wait, MarkInterrupted, Terminate, execVars
<1> QED
  BY <1>2, <1>3, <1>4, <1>5, <1>6, <1>7, <1>8 DEF Next, ControlStep, vars, execVars

LEMMA NextLogs ==
  ASSUME TypeInv, PlaceInv, ClosedInv, RunningLogHasOwner, [Next]_vars
  PROVE  RunningLogHasOwner'
<1> SUFFICES ASSUME lapses' = {}, NEW r \in Reqs, log'[r] = "running"
             PROVE  Unlogged(r)'
  BY DEF RunningLogHasOwner, Unlogged
<1>1. lapses = {} /\ ~Crash
  BY DEF Next, Worker, Runner, Process, Request, BootLoop, Operation, Start,
     LifeStep, Serve, StopScheduler, CronStopped, StopAllRunningTasks, Wait,
     MarkInterrupted, Exit, Terminate, Crash, Await, panelVars, vars
<1>2. rpc \in [Reqs -> RunPcs] /\ wreq \in [Workers -> Reqs \cup {NoReq}]
      /\ log \in [Reqs -> LogStatuses] /\ outcome \in [Reqs -> Results]
  BY TypeParts DEF ExecTypeOK, SchedTypeOK, StoreTypeOK
<1>3. CASE log[r] # "running"
  <2>1. PICK w \in Workers : Launch(w) /\ wreq[w] = r
    BY <1>3, LogsOfOthers
  <2> QED
    BY <1>2, <2>1 DEF Launch, Unlogged, UnderWay, RunPcs
<1>4. CASE log[r] = "running"
  <2>1. Unlogged(r)
    BY <1>1, <1>4 DEF RunningLogHasOwner, Unlogged
  <2>2. ~SettleLog(r)
    BY <1>2, <1>4 DEF SettleLog, PutLog, Results
  <2>3. ~Exit
    BY <1>1, <2>1 DEF Exit, ClosedInv, AllOver, Unlogged
  <2> QED
    BY <1>1, <2>1, <2>2, <2>3, UnloggedStays
<1> QED
  BY <1>3, <1>4

-----------------------------------------------------------------------------
(* Rows.                                                                   *)

\* Only a worker that marks and an operation that enqueued make a row active.
LEMMA RowsOfOthers ==
  ASSUME TypeInv, [Next]_vars, NEW t \in Tasks, status'[t] \in Active,
         status[t] \notin Active
  PROVE  \/ \E w \in Workers : Worker(w)
         \/ \E a \in Everyone : op[a].kind \in {"run", "tick", "startup"}
<1>1. /\ status \in [Tasks -> Statuses] /\ target \in [Reqs -> Inactive]
      /\ op \in [Everyone -> Ops]
  BY TypeParts DEF StoreTypeOK, ExecTypeOK, OpsTyped
<1>2. ASSUME NEW u, NEW v \in Inactive, status' = Put(status, u, v) PROVE FALSE
  BY <1>1, <1>2 DEF Put, Active, Inactive, Statuses
<1>3. ASSUME NEW f, \A u \in Tasks : f[u] \in Inactive,
             MarkActiveTasksInterrupted(f)
      PROVE  FALSE
  BY <1>1, <1>3 DEF MarkActiveTasksInterrupted, Active, Inactive
<1>4. ASSUME NEW q \in Reqs, Runner(q) \/ Process(q) PROVE FALSE
  <2>1. UNCHANGED status \/ status' = Put(status, rtask[q], target[q])
    BY <1>4
    DEF Runner, Process, RunStep, Settlement, ProcessExits, StartProcess,
        StartFails, RegisterRunningProcess, WritePid, Succeed, InstallDeps,
        AttemptFails, ApplyManualStopOverride, SettleLog, ResolveStatus,
        SettleRow, Finish, storeVars
  <2> QED
    BY <1>1, <1>2, <2>1
<1>5. ASSUME NEW a \in Everyone, Operation(a), ~MarkQueued(a) PROVE FALSE
  <2>1. \/ UNCHANGED status
        \/ status' = Put(status, op[a].task, op[a].target)
        \/ \E v \in {"enabled", "disabled", "deleted"} :
             status' = [status EXCEPT ![op[a].task] = v]
    BY <1>5
    DEF Operation, ContinueStep, RequestStep, LoadTask, EnqueueRequest,
        EditStep, SaveRow, RereadRow, RegisterJob, UnregisterJob, DeleteLogs,
        DeleteRow, StopStep, StopTask, KillVictims, LoadStopRow, MarkByPid,
        KillByPid, ResolveStop, WriteStopRow, FindRunningLog, AbortLog,
        WriteLastRun, storeVars
  <2>2. op[a].target \in Inactive
    BY <1>1 DEF Ops
  <2> QED
    BY <1>1, <1>2, <2>1, <2>2 DEF Active, Inactive
<1>6. ASSUME NEW a \in Actors, Request(a) PROVE FALSE
  BY <1>6, BeginMoves DEF Begin, storeVars
<1>7. CASE Start \/ MarkInterrupted
  BY <1>3, <1>7, InactiveType DEF Start, MarkInterrupted
<1>8. CASE BootLoop \/ (LifeStep /\ ~MarkInterrupted) \/ Terminate \/ Crash
  BY <1>8
  DEF BootLoop, StartupBegin, LifeStep, Serve, StopScheduler, CronStopped,
      StopAllRunningTasks, Wait, Exit, Terminate, Crash, Vanish, storeVars
<1>9. ASSUME NEW a \in Everyone, MarkQueued(a)
      PROVE  op[a].kind \in {"run", "tick", "startup"}
  BY <1>9 DEF MarkQueued, At
<1> QED
  BY <1>4, <1>5, <1>6, <1>7, <1>8, <1>9 DEF Next, LifeStep, vars, storeVars

LEMMA NextRows ==
  ASSUME TypeInv, GateInv, ClosedInv, RowsInv, [Next]_vars
  PROVE  RowsInv'
<1> SUFFICES ASSUME panel' = "leaving", lapses' = {}, NEW t \in Tasks
             PROVE  status'[t] \notin Active
  BY DEF RowsInv
<1>1. CASE MarkInterrupted
  <2>1. status \in [Tasks -> Statuses]
    BY TypeParts DEF StoreTypeOK
  <2> QED
    BY <1>1, <2>1, InactiveType
    DEF MarkInterrupted, MarkActiveTasksInterrupted, Active, Inactive
<1>2. CASE ~MarkInterrupted
  <2>1. panel = "leaving" /\ lapses = {}
    BY <1>2
    DEF Next, Worker, Runner, Process, Request, BootLoop, Operation, Start,
        LifeStep, Serve, StopScheduler, CronStopped, StopAllRunningTasks, Wait,
        Exit, Terminate, Crash, Vanish, Step, panelVars, vars
  <2>2. Idle(HttpKinds) /\ Idle(CronKinds) /\ AllExited
    BY <2>1 DEF ClosedInv, Closing
  <2>3. \A a \in Everyone : op[a].kind \notin {"run", "tick", "startup"}
    BY <2>1, <2>2 DEF Idle, HttpKinds, CronKinds, GateInv
  <2> QED
    BY <2>1, <2>2, <2>3, ExitedStays, RowsOfOthers DEF RowsInv
<1> QED
  BY <1>1, <1>2

-----------------------------------------------------------------------------
(* The promises of the shutdown.                                           *)

LEMMA ShutInvariance == Spec => []ShutInv
<1>1. Init => ShutInv
  BY InitGate, InitClosed
  DEF ShutInv, RowsInv, RunningLogHasOwner, Init, StoreInit
<1>2. RequestInv /\ RequestInv' /\ ShutInv /\ [Next]_vars => ShutInv'
  BY NextGate, NextClosed, NextRows, NextLogs
  DEF ShutInv, RequestInv, PanelInv
<1> QED
  BY <1>1, <1>2, RequestInvariance, PTL DEF Spec

\* A log that says "running" is that of a run that will close it: no order of
\* stops, settlements, failures and deletions leaves one behind, as long as the
\* panel was neither killed nor left before its runs.
THEOREM RunningLogsHaveOwners == Spec => []RunningLogHasOwner
BY ShutInvariance, PTL DEF ShutInv

\* An orderly shutdown leaves nothing active: no queued or running row, no
\* running log, no script.
THEOREM ShutdownIsClean == Spec => []CleanShutdown
<1>1. RequestInv /\ ShutInv => CleanShutdown
  <2> SUFFICES ASSUME RequestInv, ShutInv, panel = "leaving", lapses = {}
               PROVE  CleanShutdown!2
    BY DEF CleanShutdown
  <2>1. \A t \in Tasks : status[t] \notin Active
    BY DEF ShutInv, RowsInv
  <2>2. AllOver
    BY DEF ShutInv, ClosedInv
  <2>3. \A r \in Reqs : log[r] # "running"
    BY <2>2 DEF ShutInv, RunningLogHasOwner, AllOver
  <2>4. \A r \in Reqs : proc[r] # "alive"
    BY <2>2 DEF RequestInv, RunInv, AliveInv, AllOver, UnderWay, RunPcs
  <2> QED
    BY <2>1, <2>3, <2>4
<1> QED
  BY <1>1, RequestInvariance, ShutInvariance, PTL

\* Nothing is launched once Stop has returned, if its workers were gone by then.
THEOREM NothingLaunchedAfterStop == Spec => NoLaunchAfterStop
<1> DEFINE Silent == (panel \in {"waiting", "marking", "leaving"} /\ "workers" \notin lapses)
                       => \A r \in Reqs : rpc[r] = "none" => rpc'[r] = "none"
<1>1. ASSUME RequestInv, ShutInv, [Next]_vars PROVE [Silent]_vars
  <2> SUFFICES ASSUME panel \in {"waiting", "marking", "leaving"},
                      "workers" \notin lapses,
                      NEW r \in Reqs, rpc[r] = "none"
               PROVE  rpc'[r] = "none"
    OBVIOUS
  <2>1. AllExited /\ rpc \in [Reqs -> RunPcs]
    BY <1>1, TypeParts DEF ShutInv, ClosedInv, RequestInv, PanelInv, ExecTypeOK
  <2>2. ASSUME NEW q \in Reqs, Runner(q) \/ Process(q) PROVE rpc'[r] = "none"
    BY <2>1, <2>2, RunMoves
  <2>3. CASE Start \/ LifeStep \/ Terminate \/ Crash
    BY <2>3
    DEF Start, LifeStep, Serve, StopScheduler, CronStopped, StopAllRunningTasks,
        Wait, MarkInterrupted, Exit, Terminate, Crash, Vanish, DropExecutor,
        execVars
  <2> QED
    BY <1>1, <2>1, <2>2, <2>3, ExitedStays, ControlFrame
    DEF Next, ControlStep, vars, execVars
<1> QED
  BY <1>1, RequestInvariance, ShutInvariance, PTL DEF Spec, NoLaunchAfterStop

-----------------------------------------------------------------------------
(* Start-up tasks.                                                         *)

\* A request of the start-up loop that may still run, or has run.
Potential(r) == Sends(Boot, r) \/ Waits(r) \/ Held(r) \/ rpc[r] # "none"
Automatic(r, t) == rtask[r] = t /\ rtrig[r] = "startup" /\ Potential(r)

\* The loop sends what it has built for the task it is at, and nobody else
\* sends such a request.
BootInv ==
  /\ op[Boot].pc # "idle" =>
       /\ op[Boot].kind = "startup" /\ op[Boot].pc \in {"enqueue", "queued"}
       /\ op[Boot].task \notin bootTodo
  /\ op[Boot].pc = "enqueue" =>
       rtask[op[Boot].req] = op[Boot].task /\ rtrig[op[Boot].req] = "startup"
  /\ \A a \in Actors : \A r \in Reqs : Sends(a, r) => rtrig[r] # "startup"
  /\ bootTodo \cap bootDate = {}

\* A task with such a request has its date, or the loop is about to write it;
\* and it has one such request.
DateInv == "crash" \notin lapses =>
  \A t \in Tasks : \A r \in Reqs : Automatic(r, t) =>
    /\ t \in bootDate \/ (op[Boot].pc # "idle" /\ op[Boot].task = t)
    /\ \A q \in Reqs : Automatic(q, t) => q = r

LEMMA InitDate == Init => BootInv /\ DateInv
<1> SUFFICES ASSUME Init PROVE BootInv /\ DateInv
  OBVIOUS
<1>1. /\ \A a \in Everyone : op[a].pc = "idle"
      /\ bootTodo = {} /\ rtrig = [r \in Reqs |-> "none"]
  BY NoOpType DEF Init, ControlInit, SchedInit
<1> QED
  BY <1>1 DEF BootInv, DateInv, Automatic, Everyone, Sends

\* Nothing happens to the loop or to its requests but that they are lost.
LEMMA StillDate ==
  ASSUME BootInv, DateInv, UNCHANGED <<rtask, rtrig, bootDate>>, op'[Boot] = op[Boot],
         bootTodo' \subseteq bootTodo, lapses \subseteq lapses', Quiet,
         \A r \in Reqs : Potential(r)' => Potential(r)
  PROVE  BootInv' /\ DateInv'
<1>1. \A a \in Actors, r \in Reqs : Sends(a, r)' => Sends(a, r)
  BY DEF Quiet, Sends, Everyone
<1>2. BootInv'
  BY <1>1 DEF BootInv
<1>3. \A r \in Reqs, t \in Tasks : Automatic(r, t)' => Automatic(r, t)
  BY DEF Automatic
<1>4. DateInv'
  BY <1>3 DEF DateInv
<1> QED
  BY <1>2, <1>4

\* A worker takes what waits and launches what it holds.
LEMMA WorkerDate ==
  ASSUME TypeInv, PlaceInv, BootInv, DateInv, NEW w \in Workers, Worker(w)
  PROVE  BootInv' /\ DateInv'
<1>1. /\ rpc \in [Reqs -> RunPcs] /\ wpc \in [Workers -> WorkerPcs]
      /\ wreq \in [Workers -> Reqs \cup {NoReq}] /\ queue \in Seq(Reqs)
      /\ rtrig \in [Reqs -> Triggers] /\ NoReq \notin Reqs
  BY TypeParts, StoreAssumption DEF ExecTypeOK, SchedTypeOK, Reqs, NoReq
<1>2. /\ UNCHANGED <<op, bootTodo, bootDate, lapses, rtask>> /\ rtrig' = rtrig
  BY <1>1
  DEF Worker, SchedulerStep, Dequeue, Admit, Quit, CheckConcurrency,
      AddRunningTask, RemoveRunningTask, ExecutorStep, OnTaskExecuting,
      MarkRunning, Launch, LaunchFails, FailLog, FailRow, ctlVars, gateVars,
      panelVars, storeVars, requestVars
<1>3. \A r \in Reqs : Potential(r)' => Potential(r)
  <2>1. CASE Dequeue(w)
    <3>0. PICK e : e = Head(queue)
      OBVIOUS
    <3>1. Waits(e) /\ \A r : Waits(r)' <=> Waits(r) /\ r # e
      BY <1>1, <2>1, <3>0, TailPlace DEF Dequeue, PlaceInv
    <3>2. \A r \in Reqs, v \in Workers :
            Holds(v, r)' <=> Holds(v, r) \/ (v = w /\ r = e)
      BY <1>1, <2>1, <3>0 DEF Dequeue, Goto, Holds, PlaceInv, Released
    <3>3. UNCHANGED rpc
      BY <2>1, WorkerFrame DEF Dequeue, Launch
    <3> QED
      BY <1>2, <3>1, <3>2, <3>3 DEF Potential, Sends, Held
  <2>2. CASE ~Dequeue(w)
    <3>1. UNCHANGED <<op, queue>> /\ \A r \in Reqs : Held(r)' => Held(r)
      BY <2>2, WorkerHolds
    <3>2. ASSUME NEW r \in Reqs, rpc[r] = "none", rpc'[r] # "none" PROVE Held(r)
      <4>1. Launch(w) /\ wreq[w] = r
        BY <1>1, <3>2, WorkerFrame DEF Launch
      <4> QED
        BY <4>1 DEF Launch, Held, Holds
    <3> QED
      BY <3>1, <3>2 DEF Potential, Sends, Waits
  <2> QED
    BY <2>1, <2>2
<1> QED
  BY <1>2, <1>3, StillDate DEF Quiet

\* A step that is neither of the loop nor builds or sends a request.
LEMMA AsideDate ==
  ASSUME BootInv, DateInv, UNCHANGED <<rtask, rtrig, bootDate>>,
         op'[Boot] = op[Boot], bootTodo' \subseteq bootTodo,
         lapses \subseteq lapses', Quiet, UNCHANGED <<queue, wpc, wreq>>,
         \A r \in Reqs : rpc[r] = "none" => rpc'[r] = "none"
  PROVE  BootInv' /\ DateInv'
<1>1. \A r \in Reqs : Potential(r)' => Potential(r)
  BY DEF Potential, Sends, Waits, Held, Holds
<1> QED
  BY <1>1, StillDate

\* Run and the cron callback build requests of other kinds.
LEMMA LoadDate ==
  ASSUME TypeInv, BuiltInv, PlaceInv, BootInv, DateInv,
         NEW a \in Actors, LoadTask(a), UNCHANGED panelVars
  PROVE  BootInv' /\ DateInv'
<1>1. /\ made \in Nat /\ op \in [Everyone -> Ops] /\ rtask \in [Reqs -> Tasks \cup {NoTask}]
      /\ rtrig \in [Reqs -> Triggers] /\ a \in Everyone /\ a # Boot /\ Reqs \subseteq Nat
      /\ Boot \in Everyone
  BY TypeParts, ControlAssumption
  DEF SchedTypeOK, StoreTypeOK, OpsTyped, Everyone, Reqs
<1>2. /\ UNCHANGED <<queue, wpc, wreq, rpc, bootDate, bootTodo, lapses>>
      /\ op'[Boot] = op[Boot]
  BY <1>1
  DEF LoadTask, execVars, gateVars, panelVars, Become, Done
<1>3. CASE Done(a) /\ UNCHANGED <<rtask, requestVars>>
  BY <1>1, <1>2, <1>3, QuietMoves, AsideDate DEF requestVars
<1>4. ASSUME Become(a, [op[a] EXCEPT !.pc = "enqueue", !.req = made + 1]),
             made < MaxReqs, NEW trig \in {"cron", "manual"},
             rtask' = [rtask EXCEPT ![made + 1] = op[a].task],
             rtrig' = [rtrig EXCEPT ![made + 1] = trig]
      PROVE  BootInv' /\ DateInv'
  <2>1. PICK e \in Reqs : e = made + 1 /\ e \notin Built
    BY <1>1, <1>4, StoreAssumption DEF Reqs, Built
  <2>2. ~Waits(e) /\ ~Held(e) /\ rpc[e] = "none" /\ \A b \in Everyone : ~Sends(b, e)
    BY <2>1, FreshRequest
  <2>3. op'[a].pc = "enqueue" /\ op'[a].req = e /\ \A b \in Everyone : b # a => op'[b] = op[b]
    BY <1>1, <1>4, <2>1 DEF Become, Ops
  <2>4. \A r \in Reqs : r # e => rtask'[r] = rtask[r] /\ rtrig'[r] = rtrig[r]
    BY <1>1, <1>4, <2>1
  <2>5. rtrig'[e] # "startup"
    BY <1>1, <1>4, <2>1
  <2>6. \A r \in Reqs : /\ Potential(r)' <=> Potential(r)
                        /\ r = e => ~Potential(r)
    BY <1>1, <1>2, <2>2, <2>3 DEF Potential, Sends, Waits, Held, Holds
  <2>7. BootInv'
    <3>1. op[Boot].pc = "enqueue" => op[Boot].req \in Reqs \ {e}
      BY <1>1, <2>1 DEF BuiltInv, Built, TypeInv, SendersHoldRequest
    <3>2. \A b \in Actors, r \in Reqs : Sends(b, r)' => Sends(b, r) \/ r = e
      BY <2>3 DEF Sends, Everyone
    <3> QED
      BY <1>2, <2>4, <2>5, <3>1, <3>2 DEF BootInv, Sends
  <2>8. \A r \in Reqs, t \in Tasks : Automatic(r, t)' <=> Automatic(r, t)
    BY <2>4, <2>6 DEF Automatic
  <2>9. DateInv'
    BY <1>2, <2>8 DEF DateInv
  <2> QED
    BY <2>7, <2>9
<1> QED
  BY <1>3, <1>4 DEF LoadTask, BuildRequest

\* The loop builds the request of a task that has had none.
LEMMA BootDate ==
  ASSUME TypeInv, BuiltInv, PlaceInv, BootInv, DateInv, BootLoop
  PROVE  BootInv' /\ DateInv'
<1>0. PICK t \in Tasks : StartupBegin(t) /\ UNCHANGED panelVars
  BY DEF BootLoop
<1> DEFINE o == [Blank("startup", t, "enqueue") EXCEPT !.req = made + 1]
<1>1. /\ made \in Nat /\ op \in [Everyone -> Ops] /\ rtask \in [Reqs -> Tasks \cup {NoTask}]
      /\ rtrig \in [Reqs -> Triggers] /\ Boot \in Everyone /\ Reqs \subseteq Nat
      /\ Boot \notin Actors
  BY TypeParts, ControlAssumption
  DEF SchedTypeOK, StoreTypeOK, OpsTyped, Everyone, Reqs
<1>2. o.pc = "enqueue" /\ o.req = made + 1 /\ o.kind = "startup" /\ o.task = t
  <2>1. Blank("startup", t, "enqueue") \in Ops
    BY BlankTypes DEF AllKinds, Pcs
  <2> QED
    BY <2>1, NoOpType DEF Ops, Blank
<1>3. /\ UNCHANGED <<queue, wpc, wreq, rpc, bootDate, lapses>>
      /\ bootTodo' = bootTodo \ {t} /\ t \in bootTodo /\ op[Boot].pc = "idle"
      /\ made < MaxReqs /\ Become(Boot, o)
      /\ rtask' = [rtask EXCEPT ![made + 1] = t]
      /\ rtrig' = [rtrig EXCEPT ![made + 1] = "startup"]
  BY <1>0 DEF StartupBegin, BuildRequest, execVars, panelVars
<1> HIDE DEF o
<1>4. PICK e \in Reqs : e = made + 1 /\ e \notin Built
  BY <1>1, <1>3, StoreAssumption DEF Reqs, Built
<1>5. ~Waits(e) /\ ~Held(e) /\ rpc[e] = "none" /\ \A b \in Everyone : ~Sends(b, e)
  BY <1>4, FreshRequest
<1>6. /\ op'[Boot].pc = "enqueue" /\ op'[Boot].req = e /\ op'[Boot].kind = "startup"
      /\ op'[Boot].task = t /\ \A b \in Actors : op'[b] = op[b]
  BY <1>1, <1>2, <1>3, <1>4 DEF Become, Everyone
<1>7. /\ rtask'[e] = t /\ rtrig'[e] = "startup"
      /\ \A r \in Reqs : r # e => rtask'[r] = rtask[r] /\ rtrig'[r] = rtrig[r]
  BY <1>1, <1>3, <1>4
<1>8. \A r \in Reqs : Potential(r)' <=> Potential(r) \/ r = e
  BY <1>3, <1>6 DEF Potential, Sends, Waits, Held, Holds
<1>9. BootInv'
  <2>1. \A b \in Actors, r \in Reqs : Sends(b, r)' <=> Sends(b, r) /\ r # e
    BY <1>5, <1>6 DEF Sends, Everyone
  <2> QED
    BY <1>3, <1>6, <1>7, <2>1 DEF BootInv, Sends
<1>10. \A r \in Reqs, u \in Tasks :
         Automatic(r, u)' <=> Automatic(r, u) \/ (r = e /\ u = t)
  <2>1. ~Potential(e)
    BY <1>1, <1>5 DEF Potential
  <2> QED
    BY <1>7, <1>8, <2>1 DEF Automatic
<1>11. t \notin bootDate
  BY <1>3 DEF BootInv
<1>12. DateInv'
  BY <1>3, <1>6, <1>10, <1>11 DEF DateInv
<1> QED
  BY <1>9, <1>12

\* A request of another trigger is sent.
LEMMA SendDate ==
  ASSUME TypeInv, PlaceInv, BootInv, DateInv, NEW a \in Actors,
         EnqueueRequest(a), UNCHANGED panelVars
  PROVE  BootInv' /\ DateInv'
<1>1. /\ op \in [Everyone -> Ops] /\ queue \in Seq(Reqs) /\ a \in Everyone /\ a # Boot
      /\ Boot \in Everyone /\ op[a].req \in Reqs
  BY TypeParts, ControlAssumption
  DEF SchedTypeOK, OpsTyped, Everyone, TypeInv, SendersHoldRequest,
      EnqueueRequest, At
<1>2. PICK r \in Reqs : r = op[a].req
  BY <1>1
<1>3. /\ UNCHANGED <<wpc, wreq, rpc, rtask, rtrig, bootDate, bootTodo, lapses>>
      /\ Sends(a, r) /\ rtrig[r] # "startup"
  BY <1>2
  DEF EnqueueRequest, execVars, storeVars, requestVars, gateVars, panelVars, At,
      Sends, BootInv
<1>4. Quiet /\ op'[Boot] = op[Boot]
  <2>1. op'[a].pc \in {"queued", "idle"} /\ \A b \in Everyone : b # a => op'[b] = op[b]
    BY <1>1, NoOpType DEF EnqueueRequest, Proceed, Done, Become, Ops
  <2> QED
    BY <1>1, <2>1 DEF Quiet
<1>5. ~Waits(r) /\ \A q : Waits(q)' => Waits(q) \/ q = r
  <2>1. ~Waits(r)
    BY <1>1, <1>3 DEF PlaceInv, SentIsApart
  <2>2. CASE UNCHANGED queue
    BY <2>1, <2>2 DEF Waits
  <2>3. CASE queue' = Append(queue, r)
    BY <1>1, <2>1, <2>3, AppendPlace DEF PlaceInv
  <2> QED
    BY <1>2, <2>2, <2>3 DEF EnqueueRequest, Enqueue, EnqueueFails
<1>6. BootInv'
  BY <1>3, <1>4 DEF BootInv, Quiet, Sends, Everyone
<1>7. \A q \in Reqs, t \in Tasks : Automatic(q, t)' => Automatic(q, t)
  BY <1>3, <1>4, <1>5 DEF Automatic, Potential, Sends, Held, Holds
<1>8. DateInv'
  BY <1>3, <1>4, <1>7 DEF DateInv
<1> QED
  BY <1>6, <1>8

\* The request of the loop is sent, or refused: then the task has none.
LEMMA BootSendDate ==
  ASSUME TypeInv, BuiltInv, PlaceInv, BootInv, DateInv,
         EnqueueRequest(Boot), UNCHANGED panelVars
  PROVE  BootInv' /\ DateInv'
<1>1. /\ op \in [Everyone -> Ops] /\ queue \in Seq(Reqs) /\ Boot \in Everyone
      /\ Boot \notin Actors /\ op[Boot].req \in Reqs /\ op[Boot].task \in Tasks
  BY TypeParts, ControlAssumption
  DEF SchedTypeOK, OpsTyped, Everyone, TypeInv, SendersHoldRequest,
      EnqueueRequest, At
<1>2. PICK r \in Reqs : r = op[Boot].req
  BY <1>1
<1>3. PICK t \in Tasks : t = op[Boot].task
  BY <1>1
<1>4. /\ UNCHANGED <<wpc, wreq, rpc, rtask, rtrig, bootDate, bootTodo, lapses>>
      /\ Sends(Boot, r) /\ rtask[r] = t /\ rtrig[r] = "startup"
      /\ op[Boot].pc # "idle" /\ op[Boot].kind = "startup"
  BY <1>2, <1>3
  DEF EnqueueRequest, execVars, storeVars, requestVars, gateVars, panelVars, At,
      Sends, BootInv
<1>5. ~Waits(r) /\ ~Held(r) /\ rpc[r] = "none"
  BY <1>1, <1>4 DEF PlaceInv, SentIsApart
<1>6. Automatic(r, t)
  BY <1>4 DEF Automatic, Potential
<1>7. \A b \in Actors : op'[b] = op[b]
  BY <1>1 DEF EnqueueRequest, Proceed, Done, Become, Everyone
<1>8. \A b \in Actors, q \in Reqs : Sends(b, q)' <=> Sends(b, q)
  BY <1>7 DEF Sends
<1>9. CASE Enqueue(op[Boot].req) /\ Proceed(Boot, "queued")
  <2>1. op'[Boot].pc = "queued" /\ op'[Boot].kind = "startup" /\ op'[Boot].task = t
    BY <1>1, <1>3, <1>4, <1>9 DEF Proceed, Become, Ops
  <2>2. \A q : Waits(q)' <=> Waits(q) \/ q = r
    BY <1>1, <1>2, <1>5, <1>9, AppendPlace DEF Enqueue, PlaceInv
  <2>3. \A q \in Reqs : Potential(q)' <=> Potential(q)
    BY <1>2, <1>4, <2>1, <2>2 DEF Potential, Sends, Held, Holds
  <2>4. BootInv'
    BY <1>3, <1>4, <1>8, <2>1 DEF BootInv
  <2>5. \A q \in Reqs, u \in Tasks : Automatic(q, u)' <=> Automatic(q, u)
    BY <1>4, <2>3 DEF Automatic
  <2>6. DateInv'
    BY <1>3, <1>4, <2>1, <2>5 DEF DateInv
  <2> QED
    BY <2>4, <2>6
<1>10. CASE EnqueueFails /\ Done(Boot)
  <2>1. op'[Boot].pc = "idle" /\ UNCHANGED queue
    BY <1>1, <1>10, NoOpType DEF Done, Become, EnqueueFails
  <2>2. \A q \in Reqs : Potential(q)' => Potential(q) /\ q # r
    BY <1>4, <1>5, <2>1 DEF Potential, Sends, Waits, Held, Holds
  <2>3. BootInv'
    BY <1>4, <1>8, <2>1 DEF BootInv
  <2>4. \A q \in Reqs, u \in Tasks : Automatic(q, u)' => Automatic(q, u) /\ q # r
    BY <1>4, <2>2 DEF Automatic
  <2>5. DateInv'
    BY <1>3, <1>4, <1>6, <2>4 DEF DateInv
  <2> QED
    BY <2>3, <2>5
<1> QED
  BY <1>9, <1>10 DEF EnqueueRequest

\* The loop writes the date of its task; others write no date.
LEMMA MarkDate ==
  ASSUME TypeInv, GateInv, BootInv, DateInv, NEW a \in Everyone,
         MarkQueued(a), UNCHANGED panelVars
  PROVE  BootInv' /\ DateInv'
<1>1. /\ op \in [Everyone -> Ops] /\ Boot \in Everyone /\ Boot \notin Actors
  BY TypeParts, ControlAssumption DEF OpsTyped, Everyone
<1>2. Quiet /\ Aside /\ UNCHANGED <<rtask, rtrig, bootTodo, lapses>>
  BY QueuedQuiet DEF MarkQueued, schedVars, requestVars, gateVars, panelVars
<1>3. CASE a # Boot
  <2>1. op[a].kind # "startup" /\ op'[Boot] = op[Boot]
    BY <1>1, <1>3 DEF GateInv, MarkQueued, Done, Become
  <2>2. UNCHANGED bootDate
    BY <2>1 DEF MarkQueued
  <2> QED
    BY <1>2, <2>1, <2>2, AsideDate DEF Aside
<1>4. CASE a = Boot
  <2>1. /\ op[Boot].kind = "startup" /\ op[Boot].pc = "queued"
        /\ op[Boot].task \notin bootTodo
        /\ bootDate' = bootDate \cup {op[Boot].task} /\ op'[Boot].pc = "idle"
    BY <1>1, <1>4, NoOpType DEF MarkQueued, At, BootInv, Done, Become
  <2>2. BootInv'
    BY <1>2, <2>1 DEF BootInv, Quiet, Sends, Everyone
  <2>3. \A q \in Reqs, u \in Tasks : Automatic(q, u)' => Automatic(q, u)
    BY <1>2 DEF Aside, Quiet, Automatic, Potential, Sends, Waits, Held, Holds, Everyone
  <2>4. DateInv'
    BY <1>2, <2>1, <2>3 DEF DateInv
  <2> QED
    BY <2>2, <2>4
<1> QED
  BY <1>3, <1>4

LEMMA NextDate ==
  ASSUME TypeInv, BuiltInv, PlaceInv, DownInv, GateInv, BootInv, DateInv, [Next]_vars
  PROVE  BootInv' /\ DateInv'
<1>1. op \in [Everyone -> Ops] /\ Boot \in Everyone /\ Boot \notin Actors
      /\ Everyone = Actors \cup {Boot}
  BY TypeParts, ControlAssumption DEF OpsTyped, Everyone
<1>2. NoOp.kind = "none" /\ NoOp.pc = "idle"
  BY DEF NoOp
<1>3. ASSUME NEW r \in Reqs, Runner(r) \/ Process(r) PROVE BootInv' /\ DateInv'
  <2>1. UNCHANGED <<op, queue, wpc, wreq>> /\ \A q \in Reqs : rpc[q] = "none" => rpc'[q] = "none"
    <3>1. rpc \in [Reqs -> RunPcs]
      BY TypeParts DEF ExecTypeOK
    <3> QED
      BY <1>3, <3>1, RunMoves
  <2>2. UNCHANGED <<rtask, rtrig, bootDate, bootTodo, lapses>>
    BY <1>3
    DEF Runner, Process, RunStep, Settlement, ProcessExits, StartProcess,
        StartFails, RegisterRunningProcess, WritePid, Succeed, InstallDeps,
        AttemptFails, ApplyManualStopOverride, SettleLog, ResolveStatus,
        SettleRow, Finish, storeVars, schedVars, requestVars, ctlVars, gateVars,
        panelVars
  <2> QED
    BY <2>1, <2>2, AsideDate DEF Quiet
<1>4. ASSUME NEW a \in Actors, Request(a) PROVE BootInv' /\ DateInv'
  <2>1. PICK o : Begin(a, o)
    BY <1>4, BeginMoves
  <2>2. UNCHANGED <<rtask, rtrig, bootDate, bootTodo, lapses>> /\ op'[Boot] = op[Boot]
    BY <1>1, <1>4, <2>1
    DEF Request, Begin, Become, storeVars, schedVars, requestVars, panelVars
  <2> QED
    BY <1>4, <2>2, BeginQuiet, AsideDate DEF Aside
<1>5. ASSUME NEW a \in Everyone, Operation(a) PROVE BootInv' /\ DateInv'
  <2>1. ContinueStep(a) /\ UNCHANGED panelVars
    BY <1>5 DEF Operation
  <2>2. CASE LoadTask(a)
    <3>1. a # Boot
      BY <2>2 DEF LoadTask, At, BootInv
    <3> QED
      BY <1>1, <2>1, <2>2, <3>1, LoadDate
  <2>3. CASE EnqueueRequest(a)
    BY <1>1, <2>1, <2>3, SendDate, BootSendDate
  <2>4. CASE MarkQueued(a)
    BY <2>1, <2>4, MarkDate
  <2>5. CASE EditStep(a) \/ StopStep(a)
    <3>1. Quiet /\ Aside
      BY <2>5, EditQuiet, StopQuiet
    <3>2. a # Boot
      BY <2>5
      DEF EditStep, SaveRow, RereadRow, RegisterJob, UnregisterJob, DeleteLogs,
          DeleteRow, StopStep, StopTask, KillVictims, LoadStopRow, MarkByPid,
          KillByPid, ResolveStop, WriteStopRow, FindRunningLog, AbortLog,
          WriteLastRun, At, BootInv, Stops, ServerStops
    <3>3. op'[Boot] = op[Boot]
      BY <1>1, <2>1, <3>2, OperationMoves
    <3>4. UNCHANGED <<rtask, rtrig, bootDate, bootTodo, lapses>>
      BY <2>1, <2>5
      DEF EditStep, SaveRow, RereadRow, RegisterJob, UnregisterJob, DeleteLogs,
          DeleteRow, StopStep, StopTask, KillVictims, LoadStopRow, MarkByPid,
          KillByPid, ResolveStop, WriteStopRow, FindRunningLog, AbortLog,
          WriteLastRun, storeVars, schedVars, requestVars, gateVars, panelVars
    <3> QED
      BY <3>1, <3>3, <3>4, AsideDate DEF Aside
  <2> QED
    BY <2>1, <2>2, <2>3, <2>4, <2>5 DEF ContinueStep, RequestStep
<1>6. CASE Start
  <2>1. /\ panel = "down" /\ UNCHANGED <<op, rtrig, rpc, bootDate, lapses, rtask>>
        /\ bootTodo' = (jobs' \cap StartupTasks) \ bootDate
        /\ queue' = <<>> /\ wreq' = [w \in Workers |-> NoReq]
    BY <1>6
    DEF Start, MarkActiveTasksInterrupted, StartScheduler, requestVars, execVars
  <2>2. op[Boot].pc = "idle"
    BY <1>1, <2>1 DEF DownInv, BootInv
  <2>3. \A r \in Reqs : Potential(r)' => Potential(r)
    BY <2>1, EmptyHandsNext DEF Potential, Sends
  <2>4. BootInv'
    BY <2>1, <2>2 DEF BootInv, Sends
  <2>5. DateInv'
    BY <2>1, <2>3 DEF DateInv, Automatic
  <2> QED
    BY <2>4, <2>5
<1>7. CASE Exit \/ Crash
  <2>1. /\ UNCHANGED <<rtrig, bootDate, rtask>> /\ lapses \subseteq lapses'
        /\ Crash => "crash" \in lapses'
        /\ bootTodo' = {} /\ queue' = <<>> /\ wreq' = [w \in Workers |-> NoReq]
        /\ rpc' = [r \in Reqs |-> IF rpc[r] = "none" THEN "none" ELSE "done"]
        /\ op' = [b \in Everyone |-> IF op[b].kind = "cliStop" THEN op[b] ELSE NoOp]
    BY <1>7
    DEF Exit, Crash, Vanish, DropScheduler, DropExecutor, requestVars, storeVars
  <2>2. op'[Boot] = NoOp
    BY <1>1, <1>2, <2>1 DEF BootInv, GateInv
  <2>3. \A b \in Actors, r \in Reqs : Sends(b, r)' => Sends(b, r)
    BY <1>1, <1>2, <2>1 DEF Sends
  <2>4. BootInv'
    BY <1>2, <2>1, <2>2, <2>3 DEF BootInv
  <2>5. CASE Crash
    BY <2>1, <2>4, <2>5 DEF DateInv
  <2>6. CASE Exit
    <3>1. op[Boot].pc = "idle"
      BY <1>1, <2>6 DEF Exit, GateInv, BootInv
    <3>2. \A r \in Reqs : Potential(r)' => Potential(r)
      BY <1>2, <2>1, <2>2, EmptyHandsNext DEF Potential, Sends
    <3> QED
      BY <2>1, <2>4, <3>1, <3>2 DEF DateInv, Automatic
  <2> QED
    BY <1>7, <2>5, <2>6
<1>8. CASE Serve \/ StopScheduler \/ CronStopped \/ StopAllRunningTasks \/ Wait
             \/ MarkInterrupted \/ Terminate \/ UNCHANGED vars
  <2>1. /\ UNCHANGED <<op, queue, wpc, wreq, rpc, rtask, rtrig, bootDate, bootTodo>>
        /\ lapses \subseteq lapses'
    BY <1>8
    DEF Serve, StopScheduler, CronStopped, StopAllRunningTasks, Wait, Await,
        MarkInterrupted, MarkActiveTasksInterrupted, Terminate, vars, storeVars,
        schedVars, requestVars, execVars, ctlVars, gateVars, panelVars
  <2> QED
    BY <2>1, AsideDate DEF Quiet
<1> QED
  BY <1>3, <1>4, <1>5, <1>6, <1>7, <1>8, WorkerDate, BootDate DEF Next, LifeStep

LEMMA DateInvariance == Spec => [](BootInv /\ DateInv)
<1>1. RequestInv /\ ShutInv /\ BootInv /\ DateInv /\ [Next]_vars => (BootInv /\ DateInv)'
  BY NextDate DEF RequestInv, PanelInv, ShutInv
<1> QED
  BY <1>1, InitDate, RequestInvariance, ShutInvariance, PTL DEF Spec

\* A start-up task runs once a day, however often the panel is restarted: its
\* date is missing only as long as its request has not been sent.
THEOREM StartupRunsOnce == Spec => []StartupOncePerDay
<1>1. ASSUME DateInv, "crash" \notin lapses, NEW t \in Tasks
      PROVE  Cardinality(StartupRuns(t)) <= 1
  <2>1. \A q, r \in StartupRuns(t) : q = r
    BY <1>1 DEF DateInv, StartupRuns, Automatic, Potential
  <2>2. CASE StartupRuns(t) = {}
    BY <2>2, FS_EmptySet
  <2>3. CASE StartupRuns(t) # {}
    <3>1. PICK r : StartupRuns(t) = {r}
      BY <2>1, <2>3
    <3> QED
      BY <3>1, FS_Singleton
  <2> QED
    BY <2>2, <2>3
<1>2. DateInv => StartupOncePerDay
  BY <1>1 DEF StartupOncePerDay
<1> QED
  BY <1>2, DateInvariance, PTL

-----------------------------------------------------------------------------
(* What a stop knows of the processes it kills.                            *)

\* p is a process of a run of t.
Refers(t, p) == p[1] \in Reqs /\ rtask[p[1]] = t /\ rpc[p[1]] # "none"

\* The pids in the rows, in runningProcesses and in the hands of stops are of
\* runs of the task they are noted for.
RefInv ==
  /\ \A t \in Tasks : pid[t] # NoPid => Refers(t, pid[t])
  /\ \A t \in Tasks : \A p \in procs[t] : Refers(t, p)
  /\ \A a \in Everyone : op[a].pid # NoPid => Refers(op[a].task, op[a].pid)
  /\ \A a \in Everyone : \A p \in op[a].victims : Refers(op[a].task, p)

\* Two runs of a task at once are both noted as overlapping.
OverlapInv == \A q, r \in Reqs :
  rpc[q] \in UnderWay /\ rpc[r] \in UnderWay /\ rtask[q] = rtask[r] /\ q # r =>
    q \in overlap

\* A run that has yet to look for a mark finds one.
Marked(r) == rpc[r] \in Unsettled /\ r \notin overlap => rtask[r] \in marks

\* A stop marks before it kills, so that the mark is there from the time a
\* process is in its hands until the run of the process has read it.
MarkInv ==
  /\ \A a \in Everyone : \A p \in op[a].victims : Marked(p[1])
  /\ \A a \in Everyone : op[a].pc = "pidkill" /\ op[a].kind # "cliStop" =>
       op[a].pid # NoPid /\ Marked(op[a].pid[1])
  /\ \A r \in killed : rpc[r] # "none" /\ Marked(r)

KillInv == RefInv /\ OverlapInv /\ MarkInv /\ KilledRunAborts

LEMMA InitKill == Init => KillInv
<1> SUFFICES ASSUME Init PROVE KillInv
  OBVIOUS
<1>1. \A a \in Everyone : op[a] = NoOp
  BY DEF Init, ControlInit
<1>2. NoOp.pid = NoPid /\ NoOp.victims = {} /\ NoOp.pc = "idle"
  BY DEF NoOp
<1> QED
  BY <1>1, <1>2
  DEF Init, StoreInit, ExecInit, KillInv, RefInv, OverlapInv, MarkInv,
      KilledRunAborts, UnderWay

\* A request that was launched stays launched, and a request of its task.
LEMMA RunsStay ==
  ASSUME TypeInv, BuiltInv, [Next]_vars, NEW r \in Reqs, rpc[r] # "none"
  PROVE  rpc'[r] # "none" /\ rtask'[r] = rtask[r]
<1>1. /\ rpc \in [Reqs -> RunPcs] /\ rtask \in [Reqs -> Tasks \cup {NoTask}]
      /\ made \in Nat /\ r # made + 1
  BY TypeParts DEF ExecTypeOK, SchedTypeOK, StoreTypeOK, BuiltInv, Built, Reqs
<1>2. rpc'[r] # "none"
  <2>1. ASSUME NEW w \in Workers, Worker(w) PROVE rpc'[r] # "none"
    BY <1>1, <2>1, WorkerFrame DEF Launch
  <2>2. ASSUME NEW q \in Reqs, Runner(q) \/ Process(q) PROVE rpc'[r] # "none"
    BY <1>1, <2>2, RunMoves
  <2>3. CASE Start \/ LifeStep \/ Terminate \/ Crash
    BY <2>3
    DEF Start, LifeStep, Serve, StopScheduler, CronStopped, StopAllRunningTasks,
        Wait, MarkInterrupted, Exit, Terminate, Crash, Vanish, DropExecutor,
        execVars
  <2> QED
    BY <2>1, <2>2, <2>3, ControlFrame DEF Next, ControlStep, vars, execVars
<1>3. rtask'[r] = rtask[r]
  <2>1. UNCHANGED rtask \/ \E t, trig, st : BuildRequest(t, trig, st)
    <3>1. ASSUME NEW w \in Workers, Worker(w) PROVE UNCHANGED rtask
      BY <3>1
      DEF Worker, SchedulerStep, ExecutorStep, OnTaskExecuting, MarkRunning,
          Launch, LaunchFails, FailLog, FailRow, storeVars
    <3>2. ASSUME NEW q \in Reqs, Runner(q) \/ Process(q) PROVE UNCHANGED rtask
      BY <3>2
      DEF Runner, Process, RunStep, Settlement, ProcessExits, StartProcess,
          StartFails, RegisterRunningProcess, WritePid, Succeed, InstallDeps,
          AttemptFails, ApplyManualStopOverride, SettleLog, ResolveStatus,
          SettleRow, Finish, storeVars
    <3>3. ASSUME NEW a \in Everyone, Operation(a), ~LoadTask(a) PROVE UNCHANGED rtask
      BY <3>3
      DEF Operation, ContinueStep, RequestStep, EnqueueRequest, MarkQueued,
          EditStep, SaveRow, RereadRow, RegisterJob, UnregisterJob, DeleteLogs,
          DeleteRow, StopStep, StopTask, KillVictims, LoadStopRow, MarkByPid,
          KillByPid, ResolveStop, WriteStopRow, FindRunningLog, AbortLog,
          WriteLastRun, storeVars
    <3>4. ASSUME NEW a \in Actors, Request(a) PROVE UNCHANGED rtask
      BY <3>4, BeginMoves DEF Begin, storeVars
    <3>5. CASE Start \/ LifeStep \/ Terminate \/ Crash
      BY <3>5
      DEF Start, LifeStep, Serve, StopScheduler, CronStopped,
          StopAllRunningTasks, Wait, MarkInterrupted, MarkActiveTasksInterrupted,
          Exit, Terminate, Crash, Vanish, storeVars
    <3> QED
      BY <3>1, <3>2, <3>3, <3>4, <3>5
      DEF Next, vars, storeVars, LoadTask, BootLoop, StartupBegin
  <2> QED
    BY <1>1, <2>1 DEF BuildRequest
<1> QED
  BY <1>2, <1>3

\* Where the pid of a row comes from.
LEMMA PidMoves ==
  ASSUME TypeInv, [Next]_vars, NEW t \in Tasks
  PROVE  \/ pid'[t] \in {NoPid, pid[t]}
         \/ \E a \in Everyone : op[a].task = t /\ pid'[t] = op[a].pid
         \/ \E r \in Reqs : rpc[r] = "registered" /\ rtask[r] = t
                              /\ pid'[t] = <<r, attempt[r]>>
<1>1. pid \in [Tasks -> Pids \cup {NoPid}]
  BY TypeParts DEF StoreTypeOK
<1>2. ASSUME NEW u, pid' = Put(pid, u, NoPid) PROVE pid'[t] \in {NoPid, pid[t]}
  BY <1>1, <1>2 DEF Put
<1>3. ASSUME NEW w \in Workers, Worker(w) PROVE pid'[t] \in {NoPid, pid[t]}
  <2>1. UNCHANGED pid \/ \E u : pid' = Put(pid, u, NoPid)
    BY <1>3
    DEF Worker, SchedulerStep, ExecutorStep, OnTaskExecuting, MarkRunning, Launch,
        LaunchFails, FailLog, FailRow, storeVars
  <2> QED
    BY <1>2, <2>1
<1>4. ASSUME NEW q \in Reqs, Runner(q) \/ Process(q), ~WritePid(q)
      PROVE  pid'[t] \in {NoPid, pid[t]}
  <2>1. UNCHANGED pid \/ \E u : pid' = Put(pid, u, NoPid)
    BY <1>4
    DEF Runner, Process, RunStep, Settlement, ProcessExits, StartProcess,
        StartFails, RegisterRunningProcess, Succeed, InstallDeps, AttemptFails,
        ApplyManualStopOverride, SettleLog, ResolveStatus, SettleRow, Finish,
        storeVars
  <2> QED
    BY <1>2, <2>1
<1>5. ASSUME NEW q \in Reqs, WritePid(q), pid'[t] # pid[t]
      PROVE  rpc[q] = "registered" /\ rtask[q] = t /\ pid'[t] = <<q, attempt[q]>>
  BY <1>1, <1>5 DEF WritePid, Put
<1>6. ASSUME NEW a \in Everyone, Operation(a), ~SaveRow(a)
      PROVE  pid'[t] \in {NoPid, pid[t]}
  <2>1. UNCHANGED pid \/ (\E u : pid' = Put(pid, u, NoPid))
          \/ \E u : pid' = [pid EXCEPT ![u] = NoPid]
    BY <1>6
    DEF Operation, ContinueStep, RequestStep, LoadTask, EnqueueRequest,
        MarkQueued, EditStep, RereadRow, RegisterJob, UnregisterJob, DeleteLogs,
        DeleteRow, StopStep, StopTask, KillVictims, LoadStopRow, MarkByPid,
        KillByPid, ResolveStop, WriteStopRow, FindRunningLog, AbortLog,
        WriteLastRun, storeVars
  <2> QED
    BY <1>1, <1>2, <2>1
<1>7. ASSUME NEW a \in Everyone, SaveRow(a), pid'[t] # pid[t]
      PROVE  op[a].task = t /\ pid'[t] = op[a].pid
  BY <1>1, <1>7 DEF SaveRow
<1>8. ASSUME NEW f, MarkActiveTasksInterrupted(f) PROVE pid'[t] \in {NoPid, pid[t]}
  BY <1>8 DEF MarkActiveTasksInterrupted
<1>9. CASE (\E a \in Actors : Request(a)) \/ BootLoop \/ Start \/ LifeStep
             \/ Terminate \/ Crash
  BY <1>8, <1>9, BeginMoves
  DEF Begin, BootLoop, StartupBegin, Start, LifeStep, Serve, StopScheduler,
      CronStopped, StopAllRunningTasks, Wait, MarkInterrupted, Exit, Terminate,
      Crash, Vanish, storeVars
<1> QED
  BY <1>3, <1>4, <1>5, <1>6, <1>7, <1>9 DEF Next, vars, storeVars

\* What is in runningProcesses was there, or a run has just registered it.
LEMMA ProcsMoves ==
  ASSUME TypeInv, [Next]_vars, NEW t \in Tasks, NEW p \in procs'[t], p \notin procs[t]
  PROVE  \E r \in Reqs : rpc[r] = "spawned" /\ rtask[r] = t /\ p = <<r, attempt[r]>>
<1>1. procs \in [Tasks -> SUBSET Pids]
  BY TypeParts DEF ExecTypeOK
<1>2. ~(\E w \in Workers : Worker(w))
  BY WorkerFrame DEF Launch
<1>3. ASSUME NEW q \in Reqs, Runner(q) \/ Process(q), ~RegisterRunningProcess(q)
      PROVE  FALSE
  BY <1>1, <1>3
  DEF Runner, Process, RunStep, Settlement, ProcessExits, StartProcess,
      StartFails, WritePid, Succeed, InstallDeps, AttemptFails,
      ApplyManualStopOverride, SettleLog, ResolveStatus, SettleRow, Finish
<1>4. ASSUME NEW q \in Reqs, RegisterRunningProcess(q)
      PROVE  rpc[q] = "spawned" /\ rtask[q] = t /\ p = <<q, attempt[q]>>
  BY <1>1, <1>4 DEF RegisterRunningProcess
<1>5. ASSUME NEW a \in Everyone, Operation(a) PROVE FALSE
  <2>1. UNCHANGED procs \/ \E u : procs' = [procs EXCEPT ![u] = {}]
    BY <1>5
    DEF Operation, ContinueStep, RequestStep, LoadTask, EnqueueRequest,
        MarkQueued, EditStep, SaveRow, RereadRow, RegisterJob, UnregisterJob,
        DeleteLogs, DeleteRow, StopStep, StopTask, KillVictims, LoadStopRow,
        MarkByPid, KillByPid, ResolveStop, WriteStopRow, FindRunningLog,
        AbortLog, WriteLastRun, execVars
  <2> QED
    BY <1>1, <2>1
<1>6. ~((\E a \in Actors : Request(a)) \/ BootLoop \/ Start \/ LifeStep
             \/ Terminate \/ Crash)
  BY BeginMoves
  DEF Begin, BootLoop, StartupBegin, Start, LifeStep, Serve, StopScheduler,
      CronStopped, StopAllRunningTasks, Wait, MarkInterrupted, Exit, Terminate,
      Crash, Vanish, DropExecutor, execVars
<1> QED
  BY <1>2, <1>3, <1>4, <1>5, <1>6 DEF Next, vars, execVars

\* How an operation comes by processes: those it takes out of
\* runningProcesses, and the pid it goes for, are marked in the same step.
Takes(a) ==
  /\ marks' = marks \cup {op[a].task}
  /\ op'[a].victims \subseteq procs[op[a].task]
Aims(a) ==
  /\ marks' = marks \cup {op[a].task}
  /\ op[a].pid # NoPid /\ op'[a].pid = op[a].pid

LEMMA HandsMove ==
  ASSUME TypeInv, NEW a \in Everyone, ContinueStep(a)
  PROVE  /\ op'[a].victims \subseteq op[a].victims \/ Takes(a)
         /\ op'[a].pc = "pidkill" => Aims(a)
<1> DEFINE Good(o) == o.victims \subseteq op[a].victims /\ o.pc # "pidkill"
           G == /\ op'[a].victims \subseteq op[a].victims \/ Takes(a)
                /\ op'[a].pc = "pidkill" => Aims(a)
<1>1. op \in [Everyone -> Ops] /\ op[a] \in Ops
  BY TypeParts DEF OpsTyped
<1>2. NoOp.victims = {} /\ NoOp.pc = "idle"
  BY DEF NoOp
<1>3. ASSUME NEW o, Become(a, o), Good(o) PROVE G
  BY <1>1, <1>3 DEF Become
<1>4. Done(a) => G
  BY <1>1, <1>2, <1>3 DEF Done
<1>5. ASSUME NEW pc, pc # "pidkill", Proceed(a, pc) \/ DoneOr(a, pc) PROVE G
  BY <1>1, <1>3, <1>4, <1>5 DEF Proceed, DoneOr, Ops
<1>6. AfterKill(op[a]) # "pidkill" /\ AfterLog(op[a]) # "pidkill"
  BY DEF AfterKill, AfterLog
<1> HIDE DEF G
<1> SUFFICES G
  BY DEF G
<1>7. CASE LoadTask(a)
  BY <1>1, <1>3, <1>4, <1>7 DEF LoadTask, Ops
<1>8. CASE EnqueueRequest(a) \/ MarkQueued(a) \/ RegisterJob(a) \/ UnregisterJob(a)
             \/ DeleteLogs(a) \/ DeleteRow(a) \/ KillByPid(a) \/ WriteStopRow(a)
             \/ AbortLog(a) \/ WriteLastRun(a)
  BY <1>4, <1>5, <1>6, <1>8
  DEF EnqueueRequest, MarkQueued, RegisterJob, UnregisterJob, DeleteLogs,
      DeleteRow, KillByPid, WriteStopRow, AbortLog, WriteLastRun
<1>9. CASE SaveRow(a)
  BY <1>1, <1>3, <1>4, <1>9 DEF SaveRow, Ops
<1>10. CASE RereadRow(a)
  BY <1>1, <1>3, <1>10 DEF RereadRow, ReadRow, Ops
<1>11. CASE StopTask(a)
  <2>1. CASE procs[op[a].task] = {}
    BY <1>5, <1>11, <2>1 DEF StopTask
  <2>2. CASE procs[op[a].task] # {}
    <3>1. /\ marks' = marks \cup {op[a].task}
          /\ Become(a, [op[a] EXCEPT !.pc = "kill", !.victims = procs[op[a].task]])
      BY <1>11, <2>2 DEF StopTask, MarkManualStop
    <3>2. op'[a].victims = procs[op[a].task] /\ op'[a].pc = "kill"
      BY <1>1, <3>1 DEF Become, Ops
    <3> QED
      BY <3>1, <3>2 DEF G, Takes
  <2> QED
    BY <2>1, <2>2
<1>12. CASE KillVictims(a)
  BY <1>1, <1>3, <1>12 DEF KillVictims, Ops
<1>13. CASE LoadStopRow(a)
  BY <1>1, <1>3, <1>4, <1>13 DEF LoadStopRow, ReadRow, Ops
<1>14. CASE MarkByPid(a)
  <2>1. CASE op[a].pid = NoPid
    BY <1>5, <1>6, <1>14, <2>1 DEF MarkByPid
  <2>2. CASE op[a].pid # NoPid
    <3>1. marks' = marks \cup {op[a].task} /\ Proceed(a, "pidkill")
      BY <1>14, <2>2 DEF MarkByPid, MarkManualStop
    <3>2. op'[a].pid = op[a].pid /\ op'[a].victims = op[a].victims
      BY <1>1, <3>1 DEF Proceed, Become, Ops
    <3> QED
      BY <2>2, <3>1, <3>2 DEF G, Aims
  <2> QED
    BY <2>1, <2>2
<1>15. CASE ResolveStop(a)
  BY <1>1, <1>3, <1>15 DEF ResolveStop, Ops
<1>16. CASE FindRunningLog(a)
  BY <1>1, <1>3, <1>5, <1>6, <1>16 DEF FindRunningLog, Ops
<1> QED
  BY <1>7, <1>8, <1>9, <1>10, <1>11, <1>12, <1>13, <1>14, <1>15, <1>16
  DEF ContinueStep, RequestStep, EditStep, StopStep

\* An operation goes on, or it knows of no process but that of the row.
Knows(a) ==
  /\ op'[a].pid \in {NoPid} \cup {pid[t] : t \in {op'[a].task} \cap Tasks}
  /\ op'[a].victims = {}
  /\ op'[a].pc = "pidkill" =>
       op'[a].kind = "cliStop"

LEMMA OpMoves ==
  ASSUME TypeInv, TypeInv', [Next]_vars, NEW a \in Everyone, op'[a] # op[a]
  PROVE  Knows(a) \/ (Operation(a) /\ op'[a] # NoOp)
<1>1. op \in [Everyone -> Ops] /\ \A b \in Everyone : op'[b].pc # "idle" => op'[b].task \in Tasks
  BY TypeParts DEF OpsTyped, TypeInv, TypeOK, ControlTypeOK
<1>2. NoOp.pid = NoPid /\ NoOp.victims = {} /\ NoOp.pc = "idle"
  BY DEF NoOp
<1>3. op'[a] = NoOp => Knows(a)
  BY <1>2 DEF Knows
<1>4. ASSUME NEW b \in Actors, Request(b) PROVE Knows(a)
  <2>1. PICK o : /\ Begin(b, o) /\ o.pid \in {NoPid, pid[o.task]} /\ o.victims = {}
                 /\ o.pc # "idle" /\ (o.pc = "pidkill" => o.kind = "cliStop")
    BY <1>4, BeginMoves
  <2>2. op'[a] = o
    BY <1>1, <2>1 DEF Begin, Become
  <2> QED
    BY <1>1, <2>1, <2>2 DEF Knows
<1>5. CASE BootLoop
  <2>1. PICK t \in Tasks : StartupBegin(t)
    BY <1>5 DEF BootLoop
  <2>2. Blank("startup", t, "enqueue") \in Ops
    BY BlankTypes DEF AllKinds, Pcs
  <2>3. op'[a] = [Blank("startup", t, "enqueue") EXCEPT !.req = made + 1]
    BY <1>1, <2>1 DEF StartupBegin, Become
  <2>4. op'[a].pid = NoPid /\ op'[a].victims = {} /\ op'[a].pc = "enqueue"
    BY <2>2, <2>3, NoOpType DEF Ops, Blank, NoOp
  <2> QED
    BY <2>4 DEF Knows
<1>6. ASSUME NEW b \in Everyone, Operation(b) PROVE b = a
  BY <1>6, OperationMoves DEF Operation
<1>7. CASE Exit \/ Crash
  BY <1>3, <1>7 DEF Exit, Crash, Vanish
<1>8. CASE (\E w \in Workers : Worker(w)) \/ (\E r \in Reqs : Runner(r) \/ Process(r))
             \/ Start \/ Serve \/ StopScheduler \/ CronStopped
             \/ StopAllRunningTasks \/ Wait \/ MarkInterrupted \/ Terminate
             \/ UNCHANGED vars
  BY <1>8
  DEF Worker, Runner, Process, Start, Serve, StopScheduler, CronStopped,
      StopAllRunningTasks, Wait, MarkInterrupted, Terminate, vars, ctlVars
<1> QED
  BY <1>3, <1>4, <1>5, <1>6, <1>7, <1>8 DEF Next, LifeStep

LEMMA NextRef ==
  ASSUME TypeInv, TypeInv', BuiltInv, RefInv, [Next]_vars
  PROVE  RefInv'
<1>1. \A t : \A p : Refers(t, p) => Refers(t, p)'
  BY RunsStay DEF Refers
<1>2. \A r \in Reqs : \A n : rpc[r] # "none" => Refers(rtask[r], <<r, n>>)
  BY DEF Refers
<1>3. ASSUME NEW t \in Tasks, pid'[t] # NoPid PROVE Refers(t, pid'[t])
  <2>1. CASE pid'[t] = pid[t]
    BY <1>3, <2>1 DEF RefInv
  <2>2. ASSUME NEW a \in Everyone, op[a].task = t, pid'[t] = op[a].pid
        PROVE  Refers(t, pid'[t])
    BY <1>3, <2>2 DEF RefInv
  <2>3. ASSUME NEW r \in Reqs, rpc[r] = "registered", rtask[r] = t,
               pid'[t] = <<r, attempt[r]>>
        PROVE  Refers(t, pid'[t])
    BY <1>2, <2>3
  <2> QED
    BY <1>3, <2>1, <2>2, <2>3, PidMoves
<1>4. ASSUME NEW t \in Tasks, NEW p \in procs'[t] PROVE Refers(t, p)
  BY <1>2, <1>4, ProcsMoves DEF RefInv
<1>5. ASSUME NEW a \in Everyone
      PROVE  /\ op'[a].pid # NoPid => Refers(op'[a].task, op'[a].pid)
             /\ \A p \in op'[a].victims : Refers(op'[a].task, p)
  <2>1. CASE op'[a] = op[a]
    BY <2>1 DEF RefInv
  <2>2. CASE Knows(a)
    BY <2>2 DEF RefInv, Knows
  <2>3. CASE op'[a] # op[a] /\ Operation(a) /\ op'[a] # NoOp
    <3>1. op[a].task \in Tasks
      BY <2>3, TypeParts, OperationMoves DEF Operation, OpsTyped
    <3>2. /\ op'[a].task = op[a].task
          /\ op'[a].pid \in {op[a].pid, pid[op[a].task]}
          /\ op'[a].victims \in {op[a].victims, {}, procs[op[a].task]}
      BY <2>3, OperationMoves DEF Operation, MovesOn
    <3> QED
      BY <3>1, <3>2 DEF RefInv
  <2> QED
    BY <2>1, <2>2, <2>3, OpMoves
<1> QED
  BY <1>1, <1>3, <1>4, <1>5 DEF RefInv, Refers

\* A run is under way because it was, or because it is launched.
LEMMA RunsBegin ==
  ASSUME TypeInv, [Next]_vars, NEW r \in Reqs, rpc'[r] \in UnderWay
  PROVE  \/ rpc[r] \in UnderWay
         \/ \E w \in Workers : Worker(w) /\ Launch(w) /\ wreq[w] = r
<1>1. rpc \in [Reqs -> RunPcs]
  BY TypeParts DEF ExecTypeOK
<1>2. ASSUME NEW w \in Workers, Worker(w), ~(Launch(w) /\ wreq[w] = r)
      PROVE  rpc'[r] = rpc[r]
  BY <1>1, <1>2, WorkerFrame DEF Launch
<1>3. ASSUME NEW q \in Reqs, Runner(q) \/ Process(q), rpc[r] \notin UnderWay
      PROVE  rpc'[r] = rpc[r]
  <2>1. Runner(q) => rpc[q] \in UnderWay
    BY DEF Runner, RunStep, Settlement, StartProcess, StartFails,
       RegisterRunningProcess, WritePid, Succeed, InstallDeps, AttemptFails,
       ApplyManualStopOverride, SettleLog, ResolveStatus, SettleRow, Finish,
       UnderWay, RunPcs
  <2>2. Process(q) => UNCHANGED rpc
    BY DEF Process, ProcessExits
  <2> QED
    BY <1>1, <1>3, <2>1, <2>2, RunMoves
<1>4. CASE Start \/ LifeStep \/ Terminate \/ Crash
  <2>1. CASE Exit \/ Crash
    BY <1>1, <2>1 DEF Exit, Crash, Vanish, DropExecutor, UnderWay
  <2>2. CASE StopAllRunningTasks
    BY <1>1, <2>2 DEF StopAllRunningTasks, execVars
  <2>3. CASE \/ Start \/ Terminate \/ Serve \/ StopScheduler
             \/ CronStopped \/ Wait \/ MarkInterrupted
    BY <1>1, <2>3 DEF Start, Terminate, Serve, StopScheduler, CronStopped, Wait, MarkInterrupted, execVars
  <2> QED BY <1>4, <2>1, <2>2, <2>3 DEF LifeStep
<1> QED
  BY <1>2, <1>3, <1>4, ControlFrame DEF Next, ControlStep, vars, execVars

\* Overlaps are noted by launches, and for good.
LEMMA OverlapStays ==
  ASSUME [Next]_vars
  PROVE  overlap \subseteq overlap'
<1>1. ASSUME NEW w \in Workers, Worker(w) PROVE overlap \subseteq overlap'
  BY <1>1, WorkerFrame DEF Launch, histVars
<1>2. ASSUME NEW q \in Reqs, Runner(q) \/ Process(q) PROVE UNCHANGED overlap
  BY <1>2
  DEF Runner, Process, RunStep, Settlement, ProcessExits, StartProcess,
      StartFails, RegisterRunningProcess, WritePid, Succeed, InstallDeps,
      AttemptFails, ApplyManualStopOverride, SettleLog, ResolveStatus,
      SettleRow, Finish, histVars
<1>3. CASE Start \/ LifeStep \/ Terminate \/ Crash
  BY <1>3
  DEF Start, LifeStep, Serve, StopScheduler, CronStopped, StopAllRunningTasks,
      Wait, MarkInterrupted, Exit, Terminate, Crash, Vanish, execVars, histVars
<1> QED
  BY <1>1, <1>2, <1>3, ControlFrame
  DEF Next, ControlStep, vars, execVars, histVars

LEMMA NextOverlap ==
  ASSUME TypeInv, BuiltInv, PlaceInv, OverlapInv, [Next]_vars
  PROVE  OverlapInv'
<1> SUFFICES ASSUME NEW q \in Reqs, NEW r \in Reqs, rpc'[q] \in UnderWay,
                    rpc'[r] \in UnderWay, rtask'[q] = rtask'[r], q # r
             PROVE  q \in overlap'
  BY DEF OverlapInv
<1>1. /\ rpc \in [Reqs -> RunPcs] /\ NoReq \notin Reqs
      /\ wpc \in [Workers -> WorkerPcs] /\ wreq \in [Workers -> Reqs \cup {NoReq}]
  BY TypeParts DEF ExecTypeOK, SchedTypeOK, NoReq, Reqs
<1>2. CASE rpc[q] \in UnderWay /\ rpc[r] \in UnderWay
  <2>1. rtask[q] = rtask[r]
    BY <1>2, RunsStay DEF UnderWay
  <2> QED
    BY <1>2, <2>1, OverlapStays DEF OverlapInv
<1>3. ASSUME NEW w \in Workers, Launch(w), NEW p \in Reqs, wreq[w] = p,
             NEW s \in Reqs, s # p, rpc'[s] \in UnderWay, rtask'[p] = rtask'[s]
      PROVE  p \in overlap' /\ s \in overlap'
  <2>1. rpc[s] \in UnderWay /\ rtask[p] = rtask[s]
    BY <1>1, <1>3 DEF Launch
  <2> DEFINE mates == {x \in Reqs : rtask[x] = rtask[p] /\ rpc[x] \in UnderWay}
  <2>2. s \in mates
    BY <2>1
  <2>3. overlap' = overlap \cup mates \cup {p}
    BY <1>3, <2>2 DEF Launch
  <2> QED
    BY <2>2, <2>3
<1> QED
  BY <1>2, <1>3, RunsBegin

-----------------------------------------------------------------------------
(* Marks.                                                                  *)

\* A mark is used up by a run of its task, or lost with the panel.
LEMMA MarksMove ==
  ASSUME [Next]_vars, NEW t \in marks, t \notin marks'
  PROVE  \/ \E q \in Reqs : ApplyManualStopOverride(q) /\ rtask[q] = t
         \/ Exit \/ Crash
<1>1. ASSUME NEW w \in Workers, Worker(w) PROVE FALSE
  BY <1>1, WorkerFrame DEF Launch
<1>2. ASSUME NEW q \in Reqs, Runner(q) \/ Process(q) PROVE ApplyManualStopOverride(q) /\ rtask[q] = t
  BY <1>2
  DEF Runner, Process, RunStep, Settlement, ProcessExits, StartProcess,
      StartFails, RegisterRunningProcess, WritePid, Succeed, InstallDeps,
      AttemptFails, ApplyManualStopOverride, SettleLog, ResolveStatus,
      SettleRow, Finish
<1>3. ASSUME NEW a \in Everyone, Operation(a) PROVE FALSE
  BY <1>3
  DEF Operation, ContinueStep, RequestStep, LoadTask, EnqueueRequest,
      MarkQueued, EditStep, SaveRow, RereadRow, RegisterJob, UnregisterJob,
      DeleteLogs, DeleteRow, StopStep, StopTask, KillVictims, LoadStopRow,
      MarkByPid, KillByPid, ResolveStop, WriteStopRow, FindRunningLog,
      AbortLog, WriteLastRun, MarkManualStop, execVars
<1>4. CASE (\E a \in Actors : Request(a)) \/ BootLoop \/ Start \/ LifeStep
             \/ Terminate \/ Crash
  BY <1>4, BeginMoves
  DEF Begin, BootLoop, StartupBegin, Start, LifeStep, Serve, StopScheduler,
      CronStopped, StopAllRunningTasks, Wait, MarkInterrupted, Terminate, execVars
<1> QED
  BY <1>1, <1>2, <1>3, <1>4 DEF Next, vars, execVars

\* A run that has looked for a mark does not look again.
LEMMA SettledStays ==
  ASSUME TypeInv, PlaceInv, [Next]_vars, NEW r \in Reqs, rpc[r] # "none",
         rpc'[r] \in Unsettled
  PROVE  rpc[r] \in Unsettled /\ ~ApplyManualStopOverride(r)
<1>1. rpc \in [Reqs -> RunPcs]
  BY TypeParts DEF ExecTypeOK
<1>2. CASE rpc'[r] = rpc[r]
  BY <1>1, <1>2 DEF ApplyManualStopOverride, RunGoto, Unsettled
<1>3. CASE rpc'[r] # rpc[r]
  <2>1. rpc[r] \in UnderWay
    <3>1. ASSUME NEW w \in Workers, Launch(w), wreq[w] = r PROVE FALSE
      BY <3>1 DEF Launch, PlaceInv, HeldIsApart, Held, Holds
    <3> QED
      BY <3>1, RunsBegin DEF Unsettled, UnderWay, RunPcs
  <2>2. ASSUME NEW w \in Workers, Worker(w) PROVE FALSE
    BY <1>1, <1>3, <2>2, WorkerFrame DEF Launch, PlaceInv, HeldIsApart, Held, Holds
  <2>3. ASSUME NEW q \in Reqs, Runner(q) \/ Process(q), q # r PROVE FALSE
    BY <1>1, <1>3, <2>3, RunMoves
  <2>4. CASE Runner(r) \/ Process(r)
    BY <1>1, <1>3, <2>4
    DEF Runner, Process, RunStep, Settlement, ProcessExits, StartProcess,
        StartFails, RegisterRunningProcess, WritePid, Succeed, InstallDeps,
        AttemptFails, ApplyManualStopOverride, SettleLog, ResolveStatus,
        SettleRow, Finish, Retry, RunGoto, Unsettled
  <2>5. CASE Start \/ LifeStep \/ Terminate \/ Crash
    BY <1>1, <1>3, <2>5
    DEF Start, LifeStep, Serve, StopScheduler, CronStopped, StopAllRunningTasks,
        Wait, MarkInterrupted, Exit, Terminate, Crash, Vanish, DropExecutor,
        execVars, Unsettled
  <2> QED
    BY <1>3, <2>2, <2>3, <2>4, <2>5, ControlFrame
    DEF Next, ControlStep, vars, execVars
<1> QED
  BY <1>2, <1>3

\* Two runs that share a mark have overlapped: nobody else takes the mark of a
\* run that is alone.
LEMMA MarkStays ==
  ASSUME TypeInv, BuiltInv, PlaceInv, OverlapInv, [Next]_vars, NEW r \in Reqs,
         rpc[r] # "none", Marked(r)
  PROVE  Marked(r)'
<1> SUFFICES ASSUME rpc'[r] \in Unsettled, r \notin overlap', rtask'[r] \notin marks'
             PROVE  FALSE
  BY DEF Marked
<1>1. rpc[r] \in Unsettled /\ ~ApplyManualStopOverride(r)
  BY SettledStays
<1>2. r \notin overlap /\ rtask'[r] = rtask[r]
  BY OverlapStays, RunsStay
<1>3. rtask[r] \in marks
  BY <1>1, <1>2 DEF Marked
<1>4. ~Exit /\ ~Crash
  BY TypeParts DEF Exit, Crash, Vanish, DropExecutor, Unsettled, ExecTypeOK
<1>5. ASSUME NEW q \in Reqs, ApplyManualStopOverride(q), rtask[q] = rtask[r] PROVE FALSE
  BY <1>1, <1>2, <1>5
  DEF OverlapInv, ApplyManualStopOverride, Unsettled, UnderWay, RunPcs
<1> QED
  BY <1>2, <1>3, <1>4, <1>5, MarksMove

\* Who kills, and whom.
LEMMA KilledMoves ==
  ASSUME [Next]_vars, NEW r \in killed', r \notin killed
  PROVE  /\ ControlStep /\ proc[r] = "alive"
         /\ \E a \in Everyone :
              \/ \E p \in op[a].victims : p[1] = r
              \/ op[a].pc = "pidkill" /\ op[a].kind # "cliStop" /\ op[a].pid[1] = r
<1>1. ASSUME NEW w \in Workers, Worker(w) PROVE FALSE
  BY <1>1, WorkerFrame DEF Launch, histVars
<1>2. ASSUME NEW q \in Reqs, Runner(q) \/ Process(q) PROVE FALSE
  BY <1>2
  DEF Runner, Process, RunStep, Settlement, ProcessExits, StartProcess,
      StartFails, RegisterRunningProcess, WritePid, Succeed, InstallDeps,
      AttemptFails, ApplyManualStopOverride, SettleLog, ResolveStatus,
      SettleRow, Finish, histVars
<1>3. ASSUME NEW a \in Everyone, Operation(a), ~KillVictims(a), ~KillByPid(a)
      PROVE  FALSE
  BY <1>3
  DEF Operation, ContinueStep, RequestStep, LoadTask, EnqueueRequest,
      MarkQueued, EditStep, SaveRow, RereadRow, RegisterJob, UnregisterJob,
      DeleteLogs, DeleteRow, StopStep, StopTask, LoadStopRow, MarkByPid,
      ResolveStop, WriteStopRow, FindRunningLog, AbortLog, WriteLastRun,
      histVars, execVars
<1>4. ASSUME NEW a \in Everyone, KillVictims(a)
      PROVE  proc[r] = "alive" /\ \E p \in op[a].victims : p[1] = r
  BY <1>4 DEF KillVictims, AliveAmong
<1>5. ASSUME NEW a \in Everyone, KillByPid(a)
      PROVE  /\ proc[r] = "alive"
             /\ op[a].pc = "pidkill" /\ op[a].kind # "cliStop" /\ op[a].pid[1] = r
  <2>1. op[a].kind # "cliStop" /\ r \in AliveAmong({op[a].pid})
    BY <1>5 DEF KillByPid
  <2>2. proc[r] = "alive" /\ op[a].pid[1] = r
    BY <2>1 DEF AliveAmong
  <2> QED
    BY <1>5, <2>1, <2>2 DEF KillByPid, At
<1>6. CASE (\E a \in Actors : Request(a)) \/ BootLoop \/ Start \/ LifeStep
             \/ Terminate \/ Crash
  BY <1>6, BeginMoves
  DEF Begin, BootLoop, StartupBegin, Start, LifeStep, Serve, StopScheduler,
      CronStopped, StopAllRunningTasks, Wait, MarkInterrupted, Exit, Terminate,
      Crash, Vanish, histVars, execVars
<1> QED
  BY <1>1, <1>2, <1>3, <1>4, <1>5, <1>6
  DEF Next, ControlStep, vars, execVars, histVars

LEMMA NextMark ==
  ASSUME TypeInv, TypeInv', BuiltInv, PlaceInv, RefInv, OverlapInv, MarkInv,
         [Next]_vars
  PROVE  MarkInv'
<1>1. \A r \in Reqs : rpc[r] # "none" /\ Marked(r) => Marked(r)'
  BY MarkStays
<1>2. ASSUME NEW t, NEW p, Refers(t, p), t \in marks' PROVE Marked(p[1])'
  BY <1>2, RunsStay DEF Refers, Marked
<1>3. ASSUME NEW a \in Everyone PROVE \A p \in op[a].victims : Marked(p[1])'
  BY <1>1 DEF MarkInv, RefInv, Refers
<1>4. ASSUME NEW a \in Everyone, op[a].pc = "pidkill", op[a].kind # "cliStop",
             NEW p, p = op[a].pid
      PROVE  p # NoPid /\ Marked(p[1])'
  BY <1>1, <1>4 DEF MarkInv, RefInv, Refers
<1>5. ASSUME NEW a \in Everyone
      PROVE  /\ \A p \in op'[a].victims : Marked(p[1])'
             /\ op'[a].pc = "pidkill" /\ op'[a].kind # "cliStop" =>
                  \A p : p = op'[a].pid => p # NoPid /\ Marked(p[1])'
  <2>1. CASE op'[a] = op[a]
    BY <1>3, <1>4, <2>1
  <2>2. CASE Knows(a)
    BY <2>2 DEF Knows
  <2>3. CASE Operation(a) /\ op'[a] # NoOp
    <3>1. /\ op'[a].victims \subseteq op[a].victims \/ Takes(a)
          /\ op'[a].pc = "pidkill" => Aims(a)
      BY <2>3, HandsMove DEF Operation
    <3>2. op[a].task \in Tasks
      BY <2>3, TypeParts, OperationMoves DEF Operation, OpsTyped
    <3>3. Takes(a) => \A p \in op'[a].victims : Marked(p[1])'
      BY <1>2, <3>2 DEF Takes, RefInv
    <3>4. Aims(a) => \A p : p = op'[a].pid => p # NoPid /\ Marked(p[1])'
      BY <1>2, <3>2 DEF Aims, RefInv
    <3> QED
      BY <1>3, <3>1, <3>3, <3>4
  <2> QED
    BY <2>1, <2>2, <2>3, OpMoves
<1>6. ASSUME NEW r \in killed' PROVE (rpc[r] # "none" /\ Marked(r))'
  <2>1. CASE r \in killed
    BY <1>1, <2>1, RunsStay, TypeParts DEF MarkInv, ExecTypeOK
  <2>2. CASE r \notin killed
    <3>1. PICK a \in Everyone :
            \/ \E p \in op[a].victims : p[1] = r
            \/ op[a].pc = "pidkill" /\ op[a].kind # "cliStop" /\ op[a].pid[1] = r
      BY <2>2, KilledMoves
    <3>2. r \in Reqs /\ rpc[r] # "none"
      BY <3>1 DEF RefInv, Refers, MarkInv
    <3> QED
      BY <1>3, <1>4, <3>1, <3>2, RunsStay
  <2> QED
    BY <2>1, <2>2
<1> QED
  BY <1>5, <1>6 DEF MarkInv, Marked

-----------------------------------------------------------------------------
(* What the settlement makes of a kill.                                    *)

Settled == {"consumed", "logged", "resolved", "stored"}

\* A run that has looked for a mark keeps its result, and closes its log with
\* it before it goes on.
LEMMA SettlementMoves ==
  ASSUME TypeInv, PlaceInv, [Next]_vars, NEW r \in Reqs, rpc'[r] \in Settled
  PROVE  \/ ApplyManualStopOverride(r)
         \/ /\ rpc[r] \in Settled /\ outcome'[r] = outcome[r]
            /\ rpc[r] = "consumed" => rpc'[r] = "consumed" \/ SettleLog(r)
<1> DEFINE Same == rpc'[r] = rpc[r] /\ outcome'[r] = outcome[r]
           G == \/ ApplyManualStopOverride(r)
                \/ /\ rpc[r] \in Settled /\ outcome'[r] = outcome[r]
                   /\ rpc[r] = "consumed" => rpc'[r] = "consumed" \/ SettleLog(r)
<1>1. rpc \in [Reqs -> RunPcs] /\ outcome \in [Reqs -> Results]
  BY TypeParts DEF ExecTypeOK
<1>2. Same => G
  OBVIOUS
<1>3. ASSUME NEW w \in Workers, Worker(w) PROVE Same
  BY <1>1, <1>3, WorkerFrame DEF Launch, Settled
<1>4. ASSUME NEW q \in Reqs, Runner(q) \/ Process(q), q # r PROVE Same
  <2>1. rpc'[r] = rpc[r]
    BY <1>1, <1>4, RunMoves
  <2>2. outcome'[r] = outcome[r]
    BY <1>1, <1>4
    DEF Runner, Process, RunStep, Settlement, ProcessExits, StartProcess,
        StartFails, RegisterRunningProcess, WritePid, Succeed, InstallDeps,
        AttemptFails, ApplyManualStopOverride, SettleLog, ResolveStatus,
        SettleRow, Finish, Retry
  <2> QED
    BY <2>1, <2>2
<1>5. ASSUME Process(r) PROVE Same
  BY <1>5 DEF Process, ProcessExits
<1>6. ASSUME Runner(r) PROVE G
  BY <1>1, <1>6
  DEF Runner, RunStep, Settlement, StartProcess, StartFails,
      RegisterRunningProcess, WritePid, Succeed, InstallDeps, AttemptFails,
      SettleLog, ResolveStatus, SettleRow, Finish, Retry, RunGoto, Settled
<1>7. ASSUME Start \/ LifeStep \/ Terminate \/ Crash PROVE Same
  BY <1>1, <1>7
  DEF Start, LifeStep, Serve, StopScheduler, CronStopped, StopAllRunningTasks,
      Wait, MarkInterrupted, Exit, Terminate, Crash, Vanish, DropExecutor,
      execVars, Settled
<1>8. ASSUME ControlStep \/ UNCHANGED vars PROVE Same
  BY <1>8, ControlFrame DEF vars, execVars
<1> HIDE DEF G, Same
<1>9. G
  BY <1>2, <1>3, <1>4, <1>5, <1>6, <1>7, <1>8 DEF Next, ControlStep
<1> QED
  BY <1>9 DEF G

\* What may happen to the log of a run: it is deleted, aborted by a stop,
\* settled by the run, or closed by a start or an end of the panel.
LEMMA LogMoves ==
  ASSUME TypeInv, PlaceInv, [Next]_vars, NEW r \in Reqs, rpc[r] # "none",
         log[r] = "aborted" \/ log[r] = "none"
  PROVE  log'[r] \in {log[r], "aborted", "none"} \/ SettleLog(r)
<1> DEFINE Kept == log'[r] \in {log[r], "aborted", "none"}
<1>1. log \in [Reqs -> LogStatuses] /\ wpc \in [Workers -> WorkerPcs]
  BY TypeParts DEF StoreTypeOK, SchedTypeOK
<1>2. ASSUME NEW w \in Workers, Worker(w) PROVE Kept
  <2>1. CASE wpc[w] \in {"marked", "failing"}
    <3>1. wreq[w] # r
      BY <2>1 DEF PlaceInv, HeldIsApart, Held, Holds
    <3> QED
      BY <1>1, <1>2, <3>1
      DEF Worker, SchedulerStep, ExecutorStep, OnTaskExecuting, MarkRunning,
          Launch, LaunchFails, FailLog, FailRow, storeVars
  <2>2. CASE wpc[w] \notin {"marked", "failing"}
    BY <1>2, <2>2
    DEF Worker, SchedulerStep, ExecutorStep, OnTaskExecuting, MarkRunning,
        Launch, LaunchFails, FailLog, FailRow, storeVars
  <2> QED
    BY <2>1, <2>2
<1>3. ASSUME NEW q \in Reqs, Runner(q) \/ Process(q), ~SettleLog(r) PROVE Kept
  <2>1. UNCHANGED log \/ SettleLog(q)
    BY <1>3
    DEF Runner, Process, RunStep, Settlement, ProcessExits, StartProcess,
        StartFails, RegisterRunningProcess, WritePid, Succeed, InstallDeps,
        AttemptFails, ApplyManualStopOverride, ResolveStatus, SettleRow, Finish,
        storeVars
  <2> QED
    BY <1>1, <1>3, <2>1 DEF SettleLog, PutLog
<1>4. ASSUME NEW a \in Everyone, Operation(a) PROVE Kept
  <2>1. \/ UNCHANGED log
        \/ log' = PutLog(op[a].req, "aborted")
        \/ log' = [q \in Reqs |-> IF rtask[q] = op[a].task THEN "none" ELSE log[q]]
    BY <1>4
    DEF Operation, ContinueStep, RequestStep, LoadTask, EnqueueRequest,
        MarkQueued, EditStep, SaveRow, RereadRow, RegisterJob, UnregisterJob,
        DeleteLogs, DeleteRow, StopStep, StopTask, KillVictims, LoadStopRow,
        MarkByPid, KillByPid, ResolveStop, WriteStopRow, FindRunningLog,
        AbortLog, WriteLastRun, storeVars
  <2> QED
    BY <1>1, <2>1 DEF PutLog
<1>5. ASSUME NEW a \in Actors, Request(a) PROVE Kept
  BY <1>5, BeginMoves DEF Begin, storeVars
<1>6. ASSUME NEW f, MarkActiveTasksInterrupted(f) PROVE Kept
  BY <1>1, <1>6 DEF MarkActiveTasksInterrupted, NewestRunning, RunningLogs
<1>7. CASE BootLoop \/ Start \/ LifeStep \/ Terminate \/ Crash
  BY <1>6, <1>7
  DEF BootLoop, StartupBegin, Start, LifeStep, Serve, StopScheduler, CronStopped,
      StopAllRunningTasks, Wait, MarkInterrupted, Exit, Terminate, Crash, Vanish,
      storeVars
<1> QED
  BY <1>2, <1>3, <1>4, <1>5, <1>7 DEF Next, vars, storeVars

LEMMA NextAborts ==
  ASSUME TypeInv, TypeInv', PlaceInv, AliveInv, MarkInv, KilledRunAborts, [Next]_vars
  PROVE  KilledRunAborts'
<1> DEFINE Logged == {"logged", "resolved", "stored"}
<1> killed' \subseteq Reqs
  BY DEF TypeInv, TypeOK, ExecTypeOK
<1> SUFFICES ASSUME NEW r \in Reqs, r \in killed', r \notin overlap', rpc'[r] \in Settled
             PROVE  outcome'[r] = "aborted"
                      /\ (rpc'[r] \in Logged => log'[r] \in {"aborted", "none"})
  BY DEF KilledRunAborts, Settled
<1>1. r \notin overlap
  BY OverlapStays
<1>2. /\ rpc \in [Reqs -> RunPcs] /\ outcome \in [Reqs -> Results]
      /\ log \in [Reqs -> LogStatuses]
  BY TypeParts DEF ExecTypeOK, StoreTypeOK
<1>3. r \in killed
  BY KilledMoves, ControlFrame DEF AliveInv, Settled
<1>4. rpc[r] # "none" /\ Marked(r)
  BY <1>3 DEF MarkInv
<1>5. CASE ApplyManualStopOverride(r)
  BY <1>1, <1>2, <1>4, <1>5 DEF ApplyManualStopOverride, RunGoto, Marked, Unsettled
<1>6. CASE /\ rpc[r] \in Settled /\ outcome'[r] = outcome[r]
           /\ rpc[r] = "consumed" => rpc'[r] = "consumed" \/ SettleLog(r)
  <2>1. outcome[r] = "aborted" /\ (rpc[r] \in Logged => log[r] \in {"aborted", "none"})
    BY <1>1, <1>3, <1>6 DEF KilledRunAborts, Settled
  <2>2. CASE SettleLog(r)
    BY <1>2, <1>6, <2>1, <2>2 DEF SettleLog, PutLog
  <2>3. CASE ~SettleLog(r)
    BY <1>4, <1>6, <2>1, <2>3, LogMoves DEF Settled
  <2> QED
    BY <2>2, <2>3
<1> QED
  BY <1>5, <1>6, SettlementMoves

LEMMA KillInvariance == Spec => []KillInv
<1>1. RequestInv /\ RequestInv' /\ KillInv /\ [Next]_vars => KillInv'
  BY NextRef, NextOverlap, NextMark, NextAborts
  DEF KillInv, RunInv, RequestInv, PanelInv
<1> QED
  BY <1>1, InitKill, RequestInvariance, PTL DEF Spec

\* A run whose live process a stop killed settles as aborted, and so does its
\* log, whatever retries, other stops and the settlement do in between (the
\* property KilledRunAborts of the runs).
THEOREM KilledRunsAbort == Spec => []KilledRunAborts
BY KillInvariance, PTL DEF KillInv

\* The log that the stop closed is not rewritten by the run that follows (the
\* action property KilledLogFinal of the runs).
THEOREM KilledLogsAreFinal == Spec => KilledLogFinal
<1>1. RequestInv /\ KillInv /\ [Next]_vars =>
        [\A r \in killed \ overlap :
           log[r] = "aborted" => log'[r] \in {"aborted", "none"}]_vars
  <2> SUFFICES ASSUME RequestInv, KillInv, [Next]_vars,
                      NEW r \in killed \ overlap, log[r] = "aborted"
               PROVE  log'[r] \in {"aborted", "none"}
    OBVIOUS
  <2> TypeInv /\ PlaceInv
    BY DEF RequestInv, PanelInv
  <2>1. r \in Reqs /\ rpc[r] # "none"
    BY TypeParts DEF KillInv, MarkInv, ExecTypeOK
  <2>2. SettleLog(r) => log'[r] \in {"aborted", "none"}
    <3>1. log \in [Reqs -> LogStatuses]
      BY TypeParts DEF StoreTypeOK
    <3> QED
      BY <2>1, <3>1 DEF KillInv, KilledRunAborts, SettleLog, PutLog
  <2> QED
    BY <2>1, <2>2, LogMoves
<1> QED
  BY <1>1, RequestInvariance, KillInvariance, PTL DEF Spec, KilledLogFinal
-----------------------------------------------------------------------------
(* Whom a mark is for.                                                     *)

\* A mark was placed for a run that has yet to look for it, or is astray.
MarkedFor(t, r) == rtask[r] = t /\ rpc[r] \in Unsettled
AskInv == \A t \in marks : t \in strays \/ \E r \in stopSeen : MarkedFor(t, r)

LEMMA InitAsk == Init => AskInv
BY DEF Init, ExecInit, AskInv

\* Who places marks, and who takes them away.
LEMMA AskMoves ==
  ASSUME [Next]_vars
  PROVE  \/ marks' = marks /\ UNCHANGED askVars
         \/ \E t : MarkManualStop(t) /\ RecordStop(t)
         \/ \E q \in Reqs : Runner(q)
         \/ Exit \/ Crash
<1> DEFINE G == \/ marks' = marks /\ UNCHANGED askVars
                \/ \E t : MarkManualStop(t) /\ RecordStop(t)
<1>1. ASSUME NEW w \in Workers, Worker(w) PROVE G
  <2>1. UNCHANGED marks
    BY <1>1, WorkerFrame DEF Launch
  <2> QED
    BY <1>1, <2>1 DEF Worker, ctlVars
<1>2. ASSUME NEW q \in Reqs, Process(q) PROVE G
  BY <1>2 DEF Process, ProcessExits, ctlVars
<1>3. ASSUME NEW a \in Everyone, StopStep(a) PROVE G
  BY <1>3
  DEF StopStep, StopTask, KillVictims, LoadStopRow, MarkByPid, KillByPid,
      ResolveStop, WriteStopRow, FindRunningLog, AbortLog, WriteLastRun, execVars
<1>4. ASSUME NEW a \in Everyone, RequestStep(a) \/ EditStep(a) PROVE G
  BY <1>4
  DEF RequestStep, LoadTask, EnqueueRequest, MarkQueued, EditStep, SaveRow,
      RereadRow, RegisterJob, UnregisterJob, DeleteLogs, DeleteRow, execVars
<1>5. ASSUME NEW a \in Actors, Request(a) PROVE G
  BY <1>5
  DEF Request, BeginStep, RunBegin, TickBegin, EnableBegin, DisableBegin,
      UpdateBegin, DeleteBegin, StopBegin, BatchStopBegin, SchedStopBegin,
      CliStopBegin, Begin, execVars
<1>6. CASE BootLoop
  BY <1>6 DEF BootLoop, StartupBegin, execVars
<1>7. CASE Start \/ LifeStep \/ Terminate
  BY <1>7
  DEF Start, LifeStep, Serve, StopScheduler, CronStopped, StopAllRunningTasks,
      Wait, MarkInterrupted, Terminate, execVars, ctlVars
<1> QED
  BY <1>1, <1>2, <1>3, <1>4, <1>5, <1>6, <1>7
  DEF Next, Operation, ContinueStep, vars, execVars, ctlVars

\* A run that has yet to look for its mark does so next, or goes on.
LEMMA UnsettledGoesOn ==
  ASSUME TypeInv, PlaceInv, [Next]_vars, ~Exit, ~Crash, NEW r \in Reqs,
         rpc[r] \in Unsettled, ~ApplyManualStopOverride(r)
  PROVE  rpc'[r] \in Unsettled
<1>1. rpc \in [Reqs -> RunPcs]
  BY TypeParts DEF ExecTypeOK
<1>2. ASSUME NEW w \in Workers, Worker(w) PROVE rpc'[r] \in Unsettled
  <2>1. wreq[w] # r \/ ~Launch(w)
    BY DEF Launch, PlaceInv, HeldIsApart, Held, Holds, Unsettled
  <2> QED
    BY <1>1, <1>2, <2>1, WorkerFrame DEF Launch
<1>3. ASSUME NEW q \in Reqs, Runner(q) \/ Process(q) PROVE rpc'[r] \in Unsettled
  <2>1. CASE q # r
    BY <1>1, <1>3, <2>1, RunMoves
  <2>2. CASE q = r
    BY <1>1, <1>3, <2>2
    DEF Runner, Process, RunStep, Settlement, ProcessExits, StartProcess,
        StartFails, RegisterRunningProcess, WritePid, Succeed, InstallDeps,
        AttemptFails, SettleLog, ResolveStatus, SettleRow, Finish, Retry,
        RunGoto, Unsettled
  <2> QED
    BY <2>1, <2>2
<1>4. CASE Start \/ LifeStep \/ Terminate
  BY <1>4
  DEF Start, LifeStep, Serve, StopScheduler, CronStopped, StopAllRunningTasks,
      Wait, MarkInterrupted, Terminate, execVars
<1> QED
  BY <1>2, <1>3, <1>4, ControlFrame DEF Next, ControlStep, vars, execVars

LEMMA NextAsk ==
  ASSUME TypeInv, BuiltInv, PlaceInv, AskInv, [Next]_vars
  PROVE  AskInv'
<1> SUFFICES ASSUME NEW t \in marks'
             PROVE  t \in strays' \/ \E r \in stopSeen' : MarkedFor(t, r)'
  BY DEF AskInv
<1>1. stopSeen \in SUBSET Reqs /\ rpc \in [Reqs -> RunPcs]
  BY TypeParts DEF GatesTyped, ExecTypeOK
<1>2. ~Exit /\ ~Crash
  BY DEF Exit, Crash, Vanish, DropExecutor
<1>3. ASSUME NEW q \in Reqs, Runner(q), rtask[q] = t PROVE rpc[q] # "settle"
  BY <1>3
  DEF Runner, RunStep, Settlement, StartProcess, StartFails,
      RegisterRunningProcess, WritePid, Succeed, InstallDeps, AttemptFails,
      ApplyManualStopOverride, SettleLog, ResolveStatus, SettleRow, Finish
<1>4. ASSUME NEW r \in Reqs, MarkedFor(t, r) PROVE MarkedFor(t, r)'
  <2>1. ~ApplyManualStopOverride(r)
    BY <1>4 DEF MarkedFor, ApplyManualStopOverride
  <2> QED
    BY <1>2, <1>4, <2>1, UnsettledGoesOn, RunsStay DEF MarkedFor, Unsettled
<1>5. stopSeen \subseteq stopSeen'
  BY <1>2, AskMoves DEF askVars, RecordStop, Runner, RecordReading
<1>6. CASE t \in marks /\ t \in strays
  <2>1. t \in strays'
    BY <1>2, <1>3, <1>6, AskMoves DEF askVars, RecordStop, Runner, RecordReading
  <2> QED
    BY <2>1
<1>7. CASE t \in marks /\ t \notin strays
  BY <1>1, <1>4, <1>5, <1>7 DEF AskInv
<1>8. CASE t \notin marks
  <2>1. RecordStop(t)
    <3>1. ASSUME NEW q \in Reqs, Runner(q) PROVE FALSE
      BY <1>8, <3>1
      DEF Runner, RunStep, Settlement, StartProcess, StartFails,
          RegisterRunningProcess, WritePid, Succeed, InstallDeps, AttemptFails,
          ApplyManualStopOverride, SettleLog, ResolveStatus, SettleRow, Finish
    <3> QED
      BY <1>2, <1>8, <3>1, AskMoves DEF MarkManualStop
  <2> DEFINE there == {r \in Reqs : rtask[r] = t /\ rpc[r] \in Unsettled}
  <2>2. CASE there = {}
    BY <2>1, <2>2 DEF RecordStop
  <2>3. CASE there # {}
    <3>1. PICK r \in there : TRUE
      BY <2>3
    <3>2. r \in stopSeen' /\ r \in Reqs /\ MarkedFor(t, r)
      BY <2>1, <3>1 DEF RecordStop, MarkedFor
    <3> QED
      BY <1>4, <3>2
  <2> QED
    BY <2>2, <2>3
<1> QED
  BY <1>6, <1>7, <1>8

\* Nothing else makes a run end as aborted.
LEMMA AbortsMove ==
  ASSUME TypeInv, [Next]_vars, NEW r \in Reqs,
         outcome'[r] = "aborted", outcome[r] # "aborted"
  PROVE  ApplyManualStopOverride(r) /\ rtask[r] \in marks
<1>1. outcome \in [Reqs -> Results]
  BY TypeParts DEF ExecTypeOK
<1>2. ASSUME NEW w \in Workers, Worker(w) PROVE FALSE
  BY <1>2, WorkerFrame DEF Launch
<1>3. ASSUME NEW q \in Reqs, Runner(q) \/ Process(q)
      PROVE  ApplyManualStopOverride(r) /\ rtask[r] \in marks
  <2>1. CASE ApplyManualStopOverride(q)
    BY <1>1, <2>1 DEF ApplyManualStopOverride
  <2>2. CASE ~ApplyManualStopOverride(q)
    <3>1. \/ UNCHANGED outcome
          \/ \E result \in {"success", "failed"} :
               outcome' = [outcome EXCEPT ![q] = result]
      BY <1>3, <2>2
      DEF Runner, Process, RunStep, Settlement, ProcessExits, StartProcess,
          StartFails, RegisterRunningProcess, WritePid, Succeed, InstallDeps,
          AttemptFails, SettleLog, ResolveStatus, SettleRow, Finish, Retry
    <3> QED
      BY <1>1, <3>1
  <2> QED
    BY <2>1, <2>2
<1>4. CASE Start \/ LifeStep \/ Terminate \/ Crash
  BY <1>4
  DEF Start, LifeStep, Serve, StopScheduler, CronStopped, StopAllRunningTasks,
      Wait, MarkInterrupted, Exit, Terminate, Crash, Vanish, execVars
<1> QED
  BY <1>2, <1>3, <1>4, ControlFrame DEF Next, ControlStep, vars, execVars

\* A run that shares its task with no other run ends as aborted only if a stop
\* was asked for while it was there and had yet to look, or if a mark of its
\* task had gone astray: not by a shutdown, a crash or "ddp task stop", and not
\* by the stop of an earlier run (the action property AbortedOnlyIfStopAsked of
\* the runs).
THEOREM AbortedOnlyWhenAsked == Spec => AbortedOnlyIfStopAsked
<1>1. RequestInv /\ RequestInv' /\ AskInv /\ [Next]_vars => AskInv'
  BY NextAsk DEF RequestInv, PanelInv
<1>2. RequestInv /\ KillInv /\ AskInv /\ [Next]_vars =>
        [\A r \in Reqs \ overlap :
           outcome'[r] = "aborted" /\ outcome[r] # "aborted" =>
             r \in stopSeen \/ rtask[r] \in strays]_vars
  <2> SUFFICES ASSUME RequestInv, KillInv, AskInv, [Next]_vars,
                      NEW r \in Reqs \ overlap,
                      outcome'[r] = "aborted", outcome[r] # "aborted",
                      rtask[r] \notin strays
               PROVE  r \in stopSeen
    OBVIOUS
  <2>1. TypeInv /\ OverlapInv
    BY DEF RequestInv, PanelInv, KillInv
  <2>2. rpc[r] = "settle" /\ rtask[r] \in marks
    BY <2>1, AbortsMove DEF ApplyManualStopOverride
  <2>3. PICK q \in stopSeen : MarkedFor(rtask[r], q)
    BY <2>2 DEF AskInv
  <2>4. q \in Reqs
    BY <2>1, <2>3, TypeParts DEF GatesTyped
  <2> QED
    BY <2>1, <2>2, <2>3, <2>4 DEF OverlapInv, MarkedFor, Unsettled, UnderWay, RunPcs
<1> QED
  BY <1>1, <1>2, InitAsk, RequestInvariance, KillInvariance, PTL
  DEF Spec, AbortedOnlyIfStopAsked
=============================================================================
