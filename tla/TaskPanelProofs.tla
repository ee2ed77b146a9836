-------------------------- MODULE TaskPanelProofs --------------------------
(***************************************************************************)
(* Safety of TaskPanel, proved for any tasks, workers and bounds:          *)
(* RunningHasOwner.                                                        *)
(*                                                                         *)
(* It is not inductive.  It needs BuiltInv: nobody holds a request that    *)
(* has not been built, so that building one changes nothing others know.   *)
(* It needs, besides, that the owner at a worker is not a request for the  *)
(* zero Task: OnTaskFailed resets no row for those, and such a request     *)
(* never gets as far as marking a row running.                             *)
(***************************************************************************)
EXTENDS TaskPanelTypes

Built == 1 .. made

BuiltInv ==
  /\ \A a \in Everyone : op[a].pc = "enqueue" => op[a].req \in Built
  /\ queue \in Seq(Built)
  /\ \A w \in Workers : wpc[w] \notin {"idle", "exited"} => wreq[w] \in Built
  /\ \A r \in Reqs : rpc[r] # "none" => r \in Built

\* r will reset the row of its task.
Owns(r) ==
  \/ Settling(r)
  \/ /\ rsnap[r] # "deleted"
     /\ \E w \in Workers :
          wreq[w] = r /\ wpc[w] \in {"marked", "failing", "failrow"}

OwnerInv ==
  \A t \in Tasks : status[t] = "running" /\ panel # "down" =>
    \E r \in Built : rtask[r] = t /\ Owns(r)

PanelInv == TypeInv /\ BuiltInv /\ OwnerInv

\* Requests that are built stay built, and are requests.
LEMMA BuiltGrows ==
  ASSUME TypeInv, TypeInv', made' \in {made, made + 1}
  PROVE  Built \subseteq Built' /\ Built \subseteq Reqs /\ made \in Nat
<1>1. made \in 0 .. MaxReqs /\ made' \in 0 .. MaxReqs
  BY DEF TypeInv, TypeOK, SchedTypeOK
<1> QED
  BY <1>1, StoreAssumption DEF Built, Reqs

\* The property follows from the invariant.
LEMMA InvImplies == PanelInv => RunningHasOwner
<1> SUFFICES ASSUME PanelInv PROVE RunningHasOwner
  OBVIOUS
<1>1. Built \subseteq Reqs
  BY StoreAssumption DEF PanelInv, TypeInv, TypeOK, SchedTypeOK, Built, Reqs
<1> QED
  BY <1>1 DEF PanelInv, OwnerInv, RunningHasOwner, Owners, Owns, AtWorker

\* The invariant holds before the panel is first started.
LEMMA InitInv == Init => PanelInv
<1> SUFFICES ASSUME Init PROVE PanelInv
  OBVIOUS
<1>1. TypeInv
  BY InitTypes
<1>2. BuiltInv
  <2>1. queue = <<>>
    BY DEF Init, SchedInit
  <2>2. queue \in Seq(Built)
    BY <2>1
  <2>3. \A a \in Everyone : op[a].pc = "idle"
    BY NoOpType DEF Init, ControlInit
  <2> QED
    BY <2>2, <2>3 DEF BuiltInv, Init, SchedInit, ExecInit
<1>3. OwnerInv
  BY DEF OwnerInv, Init
<1> QED
  BY <1>1, <1>2, <1>3 DEF PanelInv

-----------------------------------------------------------------------------
(* Nobody holds a request that has not been built.                         *)

\* A step of a worker.
LEMMA WorkerBuilt ==
  ASSUME TypeInv, BuiltInv, NEW w \in Workers, Worker(w)
  PROVE  BuiltInv' /\ made' = made
<1> wpc \in [Workers -> WorkerPcs] /\ wreq \in [Workers -> Reqs \cup {NoReq}]
    /\ rpc \in [Reqs -> RunPcs]
  BY DEF TypeInv, TypeOK, SchedTypeOK, ExecTypeOK
<1> USE DEF BuiltInv, Built, Goto, Release, ctlVars
<1>1. CASE SchedulerStep(w) /\ UNCHANGED execVars
  <2> UNCHANGED <<op, rpc>>
    BY <1>1 DEF Worker, execVars
  <2>1. CASE Dequeue(w)
    <3>1. queue # <<>> /\ queue \in Seq(Built)
      BY <2>1 DEF Dequeue
    <3>2. Head(queue) \in Built /\ Tail(queue) \in Seq(Built)
      <4> HIDE DEF Built
      <4> QED
        BY ONLY <3>1
    <3> QED
      BY <2>1, <3>2 DEF Dequeue, requestVars
  <2>2. CASE Admit(w)
    BY <2>2 DEF Admit, requestVars
  <2>3. CASE Quit(w)
    BY <2>3 DEF Quit, requestVars
  <2>4. CASE CheckConcurrency(w)
    BY <2>4 DEF CheckConcurrency, requestVars
  <2>5. CASE AddRunningTask(w)
    BY <2>5 DEF AddRunningTask, requestVars
  <2>6. CASE RemoveRunningTask(w)
    BY <2>6 DEF RemoveRunningTask, requestVars
  <2> QED
    BY <1>1, <2>1, <2>2, <2>3, <2>4, <2>5, <2>6 DEF SchedulerStep
<1>2. CASE ExecutorStep(w)
  <2> UNCHANGED op
    BY DEF Worker
  <2>1. CASE OnTaskExecuting(w)
    BY <2>1 DEF OnTaskExecuting, requestVars, execVars
  <2>2. CASE MarkRunning(w)
    BY <2>2 DEF MarkRunning, execVars
  <2>3. CASE Launch(w)
    BY <2>3 DEF Launch, requestVars
  <2>4. CASE LaunchFails(w)
    BY <2>4 DEF LaunchFails, requestVars, execVars
  <2>5. CASE FailLog(w)
    BY <2>5 DEF FailLog, requestVars
  <2>6. CASE FailRow(w)
    BY <2>6 DEF FailRow, requestVars
  <2> QED
    BY <1>2, <2>1, <2>2, <2>3, <2>4, <2>5, <2>6 DEF ExecutorStep
<1> QED
  BY <1>1, <1>2 DEF Worker

\* A step of a run: only the goroutine of a launched request takes any.
LEMMA RunMoves ==
  ASSUME NEW r \in Reqs, Runner(r) \/ Process(r)
  PROVE  /\ UNCHANGED <<made, op, queue, wpc, wreq>>
         /\ \/ UNCHANGED rpc
            \/ /\ rpc[r] # "none"
               /\ \E pc \in RunPcs \ {"none"} : rpc' = [rpc EXCEPT ![r] = pc]
<1>1. UNCHANGED <<made, op, queue, wpc, wreq>>
  BY DEF Runner, Process, RunStep, Settlement, ProcessExits, StartProcess,
     StartFails, RegisterRunningProcess, WritePid, Succeed, InstallDeps,
     AttemptFails, ApplyManualStopOverride, SettleLog, ResolveStatus, SettleRow,
     Finish, schedVars, requestVars, ctlVars
<1>2. \/ UNCHANGED rpc
      \/ /\ rpc[r] # "none"
         /\ \E pc \in RunPcs \ {"none"} : rpc' = [rpc EXCEPT ![r] = pc]
  BY DEF Runner, Process, RunStep, Settlement, ProcessExits, StartProcess,
     StartFails, RegisterRunningProcess, WritePid, Succeed, InstallDeps,
     AttemptFails, ApplyManualStopOverride, SettleLog, ResolveStatus, SettleRow,
     Finish, Retry, RunGoto, RunPcs
<1> QED
  BY <1>1, <1>2

LEMMA RunBuilt ==
  ASSUME TypeInv, BuiltInv, NEW r \in Reqs, Runner(r) \/ Process(r)
  PROVE  BuiltInv' /\ made' = made
<1>1. rpc \in [Reqs -> RunPcs]
  BY DEF TypeInv, TypeOK, ExecTypeOK
<1> QED
  BY <1>1, RunMoves DEF BuiltInv, Built

\* No operation gets to the point of sending.
Quiet == \A b \in Everyone : op'[b].pc = "enqueue" => op'[b] = op[b]

\* Nothing is built, queued, handed over, launched or settled.
Aside == UNCHANGED <<made, queue, wpc, wreq, rpc>>

LEMMA QuietMoves ==
  ASSUME TypeInv, NEW a \in Everyone
  PROVE  /\ \A o : o.pc # "enqueue" /\ Become(a, o) => Quiet
         /\ Done(a) => Quiet
         /\ \A pc : pc # "enqueue" /\ (Proceed(a, pc) \/ DoneOr(a, pc)) => Quiet
<1>1. op \in [Everyone -> Ops] /\ op[a] \in Ops
  BY TypeParts DEF OpsTyped
<1>2. ASSUME NEW o, o.pc # "enqueue", Become(a, o) PROVE Quiet
  BY <1>1, <1>2 DEF Become, Quiet
<1>3. ASSUME Done(a) PROVE Quiet
  BY <1>2, <1>3, NoOpType DEF Done
<1>4. ASSUME NEW pc, pc # "enqueue", Proceed(a, pc) PROVE Quiet
  <2>1. [op[a] EXCEPT !.pc = pc].pc = pc
    BY <1>1 DEF Ops
  <2> QED
    BY <1>2, <1>4, <2>1 DEF Proceed
<1> QED
  BY <1>2, <1>3, <1>4 DEF DoneOr

\* A step that is quiet and builds, queues and hands over nothing.
LEMMA QuietBuilt ==
  ASSUME BuiltInv, Quiet, Aside
  PROVE  BuiltInv' /\ made' = made
BY DEF BuiltInv, Built, Quiet, Aside

\* A step of one of the stops.
LEMMA StopQuiet ==
  ASSUME TypeInv, NEW a \in Everyone, StopStep(a)
  PROVE  Quiet /\ Aside
<1> DEFINE o == op[a]
           t == op[a].task
<1>1. o \in Ops /\ AfterKill(o) # "enqueue" /\ AfterLog(o) # "enqueue"
  BY TypeParts DEF OpsTyped, AfterKill, AfterLog
<1>2. Aside
  BY DEF Aside, StopStep, StopTask, KillVictims, LoadStopRow, MarkByPid, KillByPid,
     ResolveStop, WriteStopRow, FindRunningLog, AbortLog, WriteLastRun,
     schedVars, requestVars, execVars
<1>3. Quiet
  <2>1. CASE StopTask(a)
    <3>1. \A v : [o EXCEPT !.pc = "kill", !.victims = v].pc = "kill"
      BY <1>1 DEF Ops
    <3> QED
      BY <2>1, <3>1, QuietMoves DEF StopTask
  <2>2. CASE KillVictims(a)
    <3> DEFINE after == IF o.kind = "schedStop" THEN "loadrow" ELSE "pidmark"
               p == [o EXCEPT !.pc = after, !.victims = {}]
    <3>1. p.pc = after /\ after # "enqueue"
      BY <1>1 DEF Ops
    <3>2. Become(a, p)
      BY <2>2 DEF KillVictims
    <3> HIDE DEF p, after
    <3> QED
      BY <3>1, <3>2, QuietMoves
  <2>3. CASE LoadStopRow(a)
    <3>1. [ReadRow(o, t) EXCEPT !.pc = "pidmark"].pc = "pidmark"
      BY <1>1 DEF Ops, ReadRow
    <3> QED
      BY <2>3, <3>1, QuietMoves DEF LoadStopRow
  <2>4. CASE MarkByPid(a)
    BY <1>1, <2>4, QuietMoves DEF MarkByPid
  <2>5. CASE KillByPid(a)
    BY <1>1, <2>5, QuietMoves DEF KillByPid
  <2>6. CASE ResolveStop(a)
    <3>1. \A s : [o EXCEPT !.pc = "row", !.target = s].pc = "row"
      BY <1>1 DEF Ops
    <3> QED
      BY <2>6, <3>1, QuietMoves DEF ResolveStop
  <2>7. CASE WriteStopRow(a)
    BY <2>7, QuietMoves DEF WriteStopRow
  <2>8. CASE FindRunningLog(a)
    <3>1. \A r : [o EXCEPT !.pc = "log", !.req = r].pc = "log"
      BY <1>1 DEF Ops
    <3> QED
      BY <1>1, <2>8, <3>1, QuietMoves DEF FindRunningLog
  <2>9. CASE AbortLog(a)
    BY <2>9, QuietMoves DEF AbortLog
  <2>10. CASE WriteLastRun(a)
    BY <1>1, <2>10, QuietMoves DEF WriteLastRun
  <2> QED
    BY <2>1, <2>2, <2>3, <2>4, <2>5, <2>6, <2>7, <2>8, <2>9, <2>10 DEF StopStep
<1> QED
  BY <1>2, <1>3

\* A step of enabling, disabling, editing or deleting.
LEMMA EditQuiet ==
  ASSUME TypeInv, NEW a \in Everyone, EditStep(a)
  PROVE  Quiet /\ Aside
<1> DEFINE o == op[a]
<1>1. o \in Ops /\ o.task \in Tasks
  BY TypeParts
  DEF OpsTyped, EditStep, At, SaveRow, RereadRow, RegisterJob, UnregisterJob,
      DeleteLogs, DeleteRow
<1>2. Aside
  BY DEF Aside, EditStep, SaveRow, RereadRow, RegisterJob, UnregisterJob, DeleteLogs,
     DeleteRow, schedVars, requestVars, execVars
<1>3. Quiet
  <2>1. CASE SaveRow(a)
    <3>1. [o EXCEPT !.pc = "addjob", !.st = "enabled"].pc = "addjob"
      BY <1>1 DEF Ops
    <3> QED
      BY <2>1, <3>1, QuietMoves DEF SaveRow
  <2>2. CASE RereadRow(a)
    <3>1. \A p \in Ops : [p EXCEPT !.pc = "addjob"].pc = "addjob"
      BY DEF Ops
    <3>2. ReadRow(o, o.task) \in Ops
      BY <1>1, ReadRowTypes, TypeParts
    <3> QED
      BY <1>1, <2>2, <3>1, <3>2, QuietMoves DEF RereadRow
  <2>3. CASE RegisterJob(a)
    BY <2>3, QuietMoves DEF RegisterJob
  <2>4. CASE UnregisterJob(a)
    BY <2>4, QuietMoves DEF UnregisterJob
  <2>5. CASE DeleteLogs(a)
    BY <2>5, QuietMoves DEF DeleteLogs
  <2>6. CASE DeleteRow(a)
    BY <2>6, QuietMoves DEF DeleteRow
  <2> QED
    BY <2>1, <2>2, <2>3, <2>4, <2>5, <2>6 DEF EditStep
<1> QED
  BY <1>2, <1>3

\* Building a request and going on to send it.
LEMMA BuildBuilt ==
  ASSUME TypeInv, BuiltInv, NEW a \in Everyone, NEW t, NEW trig, NEW st,
         NEW o, o.req = made + 1, Become(a, o), BuildRequest(t, trig, st),
         UNCHANGED <<queue, wpc, wreq, rpc>>
  PROVE  BuiltInv' /\ made' = made + 1
<1>1. made \in Nat /\ made' = made + 1
  BY TypeParts DEF SchedTypeOK, BuildRequest
<1>2. Built \subseteq Built' /\ made + 1 \in Built'
  BY <1>1 DEF Built
<1>3. queue' \in Seq(Built')
  <2>1. queue \in Seq(Built)
    BY DEF BuiltInv
  <2>2. queue \in Seq(Built')
    BY ONLY <1>2, <2>1
  <2> QED
    BY <2>2
<1>4. op \in [Everyone -> Ops]
  BY TypeParts DEF OpsTyped
<1>5. \A b \in Everyone : op'[b].pc = "enqueue" => op'[b].req \in Built'
  BY <1>2, <1>4 DEF Become, BuiltInv
<1> QED
  BY <1>1, <1>2, <1>3, <1>5 DEF BuiltInv

\* The row of a request that was sent.
LEMMA QueuedQuiet ==
  ASSUME TypeInv, NEW a \in Everyone, MarkQueued(a)
  PROVE  Quiet /\ Aside
BY QuietMoves DEF MarkQueued, Aside, schedVars, requestVars, execVars

\* A step of Run, of the cron callback or of the start-up loop.
LEMMA RequestBuilt ==
  ASSUME TypeInv, BuiltInv, NEW a \in Everyone, RequestStep(a)
  PROVE  BuiltInv' /\ made' \in {made, made + 1}
<1>1. op[a] \in Ops
  BY TypeParts DEF OpsTyped
<1>2. CASE LoadTask(a)
  <2>1. UNCHANGED <<queue, wpc, wreq, rpc>>
    BY <1>2 DEF LoadTask, execVars
  <2>2. [op[a] EXCEPT !.pc = "enqueue", !.req = made + 1].req = made + 1
    BY <1>1 DEF Ops
  <2>3. ASSUME Done(a), UNCHANGED requestVars PROVE BuiltInv' /\ made' = made
    BY <2>1, <2>3, QuietMoves, QuietBuilt DEF requestVars, Aside
  <2> QED
    BY <1>2, <2>1, <2>2, <2>3, BuildBuilt DEF LoadTask
<1>3. CASE EnqueueRequest(a)
  <2>1. Quiet
    BY <1>3, QuietMoves DEF EnqueueRequest
  <2>2. UNCHANGED <<made, wpc, wreq, rpc>>
    BY <1>3 DEF EnqueueRequest, requestVars, execVars
  <2>3. queue' \in Seq(Built)
    <3>1. queue \in Seq(Built) /\ op[a].req \in Built
      BY <1>3 DEF BuiltInv, EnqueueRequest, At
    <3>2. queue' \in {queue, Append(queue, op[a].req)}
      BY <1>3 DEF EnqueueRequest, Enqueue, EnqueueFails
    <3> QED
      BY ONLY <3>1, <3>2
  <2> QED
    BY <2>1, <2>2, <2>3 DEF BuiltInv, Built, Quiet
<1>4. CASE MarkQueued(a)
  BY <1>4, QueuedQuiet, QuietBuilt
<1> QED
  BY <1>2, <1>3, <1>4 DEF RequestStep

\* An operation begins, at a point where it does not send.
LEMMA BeginQuiet ==
  ASSUME TypeInv, NEW a \in Actors, Request(a)
  PROVE  Quiet /\ Aside
<1>1. PICK t \in Tasks : BeginStep(a, t)
  BY DEF Request
<1>2. \A kind, pc : Blank(kind, t, pc).pc = pc /\ ReadRow(Blank(kind, t, pc), t).pc = pc
  BY NoOpType DEF Blank, ReadRow, Ops
<1>3. \E o : Begin(a, o) /\ o.pc # "enqueue"
  <2>1. CASE RunBegin(a, t)
    BY <1>2, <2>1 DEF RunBegin
  <2>2. CASE TickBegin(a, t)
    BY <1>2, <2>2 DEF TickBegin
  <2>3. CASE EnableBegin(a, t)
    BY <1>2, <2>3 DEF EnableBegin
  <2>4. CASE DisableBegin(a, t)
    BY <1>2, <2>4 DEF DisableBegin
  <2>5. CASE UpdateBegin(a, t)
    BY <1>2, <2>5 DEF UpdateBegin
  <2>6. CASE DeleteBegin(a, t)
    BY <1>2, <2>6 DEF DeleteBegin
  <2>7. CASE StopBegin(a, t)
    BY <1>2, <2>7 DEF StopBegin
  <2>8. CASE BatchStopBegin(a, t)
    BY <1>2, <2>8 DEF BatchStopBegin
  <2>9. CASE SchedStopBegin(a, t)
    BY <1>2, <2>9 DEF SchedStopBegin
  <2>10. CASE CliStopBegin(a, t)
    BY <1>2, <2>10 DEF CliStopBegin
  <2> QED
    BY <1>1, <2>1, <2>2, <2>3, <2>4, <2>5, <2>6, <2>7, <2>8, <2>9, <2>10
    DEF BeginStep
<1>4. Quiet
  BY <1>3, QuietMoves DEF Begin, Everyone
<1>5. Aside
  BY <1>3 DEF Aside, Begin, schedVars, requestVars, execVars
<1> QED
  BY <1>4, <1>5

\* The start-up loop takes up a task.
LEMMA BootBuilt ==
  ASSUME TypeInv, BuiltInv, BootLoop
  PROVE  BuiltInv' /\ made' = made + 1
<1>1. PICK t \in Tasks : StartupBegin(t)
  BY DEF BootLoop
<1>2. Blank("startup", t, "enqueue") \in Ops
  BY BlankTypes DEF AllKinds, Pcs
<1>3. [Blank("startup", t, "enqueue") EXCEPT !.req = made + 1].req = made + 1
  BY <1>2 DEF Ops
<1> QED
  BY <1>1, <1>3, BuildBuilt DEF StartupBegin, execVars, Everyone

\* A step of main: what it makes anew is empty.
LEMMA LifeBuilt ==
  ASSUME TypeInv, BuiltInv, Start \/ LifeStep \/ Terminate \/ Crash
  PROVE  BuiltInv' /\ made' = made
<1>1. CASE Start
  <2>1. /\ UNCHANGED <<made, op, rpc>> /\ queue' = <<>>
        /\ \A w \in Workers : wpc'[w] = "idle"
    BY <1>1 DEF Start, StartScheduler, requestVars, execVars
  <2>2. queue' \in Seq(Built)
    BY <2>1
  <2> QED
    BY <2>1, <2>2 DEF BuiltInv, Built
<1>2. CASE Exit \/ Crash
  <2>1. /\ UNCHANGED made /\ queue' = <<>>
        /\ \A w \in Workers : wpc'[w] = "exited"
        /\ \A r \in Reqs : rpc'[r] # "none" => rpc[r] # "none"
    BY <1>2 DEF Exit, Crash, Vanish, DropScheduler, DropExecutor, requestVars
  <2>2. queue' \in Seq(Built)
    BY <2>1
  <2>3. \A a \in Everyone : op'[a] \in {op[a], NoOp}
    BY <1>2 DEF Exit, Crash, Vanish
  <2>4. Quiet
    BY <2>3, NoOpType DEF Quiet
  <2>5. Built' = Built
    BY <2>1 DEF Built
  <2>6. \A a \in Everyone : op'[a].pc = "enqueue" => op'[a].req \in Built'
    BY <2>4, <2>5 DEF BuiltInv, Quiet
  <2>7. \A r \in Reqs : rpc'[r] # "none" => r \in Built'
    BY <2>1, <2>5 DEF BuiltInv
  <2> QED
    BY <2>1, <2>2, <2>5, <2>6, <2>7 DEF BuiltInv
<1>3. CASE Serve \/ StopScheduler \/ CronStopped \/ StopAllRunningTasks \/ Wait
             \/ MarkInterrupted \/ Terminate
  BY <1>3
  DEF Serve, StopScheduler, CronStopped, StopAllRunningTasks, Wait,
      MarkInterrupted, Terminate, BuiltInv, Built, schedVars, requestVars,
      execVars, ctlVars
<1> QED
  BY <1>1, <1>2, <1>3 DEF LifeStep

\* Every step keeps it, and builds at most one request.
LEMMA NextBuilt ==
  ASSUME TypeInv, BuiltInv, [Next]_vars
  PROVE  BuiltInv' /\ made' \in {made, made + 1}
<1>1. ASSUME NEW a \in Everyone, Operation(a)
      PROVE  BuiltInv' /\ made' \in {made, made + 1}
  BY <1>1, RequestBuilt, EditQuiet, StopQuiet, QuietBuilt
  DEF Operation, ContinueStep
<1>2. CASE UNCHANGED vars
  BY <1>2
  DEF vars, BuiltInv, Built, schedVars, requestVars, execVars, ctlVars
<1> QED
  BY <1>1, <1>2, WorkerBuilt, RunBuilt, BeginQuiet, QuietBuilt, BootBuilt,
     LifeBuilt DEF Next

-----------------------------------------------------------------------------
(* A running row has an owner.                                             *)

\* A step that marks no row, and takes no owner from a row that stays marked.
LEMMA OwnersKept ==
  ASSUME OwnerInv, Built \subseteq Built',
         \A q \in Built : rtask'[q] = rtask[q],
         panel' # "down" => panel # "down",
         \A t \in Tasks : status'[t] = "running" =>
           /\ status[t] = "running"
           /\ \A q \in Built : rtask[q] = t /\ Owns(q) => Owns(q)'
  PROVE  OwnerInv'
<1> SUFFICES ASSUME NEW t \in Tasks, status'[t] = "running", panel' # "down"
             PROVE  \E r \in Built' : rtask'[r] = t /\ Owns(r)'
  BY DEF OwnerInv
<1>1. PICK r \in Built : rtask[r] = t /\ Owns(r)
  BY DEF OwnerInv
<1> QED
  BY <1>1

\* A write of another status, and no write, mark no row running.
LEMMA PutStatus ==
  ASSUME TypeInv, NEW u, NEW v, v # "running", status' = Put(status, u, v)
  PROVE  /\ \A t \in Tasks : status'[t] = "running" => status[t] = "running"
         /\ u \in Tasks => status'[u] # "running"
BY TypeParts DEF StoreTypeOK, Put, Exists

\* Owning is a matter of where the workers and the runs are.
LEMMA OwnsFrame ==
  ASSUME NEW q, UNCHANGED <<rpc, wpc, wreq>>, rsnap'[q] = rsnap[q]
  PROVE  Owns(q) => Owns(q)'
BY DEF Owns, Settling

\* A step of a worker in the scheduler: an owner is past the scheduler.
LEMMA SchedulerOwners ==
  ASSUME TypeInv, OwnerInv, NEW w \in Workers, Worker(w), SchedulerStep(w),
         UNCHANGED execVars
  PROVE  OwnerInv'
<1>1. UNCHANGED <<status, rtask, made, rsnap, rpc, panel>>
  BY DEF Worker, SchedulerStep, storeVars, execVars, panelVars, Dequeue, Admit,
     Quit, CheckConcurrency, AddRunningTask, RemoveRunningTask, requestVars
<1>2. wpc \in [Workers -> WorkerPcs] /\ wreq \in [Workers -> Reqs \cup {NoReq}]
  BY TypeParts DEF SchedTypeOK
<1>3. \A v \in Workers : wpc[v] \in {"marked", "failing", "failrow"} =>
        wpc'[v] = wpc[v] /\ wreq'[v] = wreq[v]
  BY <1>2
  DEF SchedulerStep, Dequeue, Admit, Quit, CheckConcurrency, AddRunningTask,
      RemoveRunningTask, Goto, Release
<1>4. \A q \in Built : Owns(q) => Owns(q)'
  BY <1>1, <1>3 DEF Owns, Settling
<1> QED
  BY <1>1, <1>4, OwnersKept DEF Built

\* A step of a worker in the executor.
LEMMA ExecutorOwners ==
  ASSUME TypeInv, BuiltInv, OwnerInv, NEW w \in Workers, Worker(w), ExecutorStep(w)
  PROVE  OwnerInv'
<1> DEFINE r == wreq[w]
<1>1. /\ wpc \in [Workers -> WorkerPcs] /\ rsnap \in [Reqs -> Statuses]
      /\ rpc \in [Reqs -> RunPcs]
      /\ wtarget[w] # "running"
  BY TypeParts DEF SchedTypeOK, ExecTypeOK, Inactive
<1>2. /\ UNCHANGED <<rtask, made, wreq, panel>>
      /\ r \in Built /\ r \in Reqs
  BY TypeParts
  DEF Worker, panelVars, ExecutorStep, OnTaskExecuting, MarkRunning, Launch,
      LaunchFails, FailLog, FailRow, requestVars, storeVars, BuiltInv,
      WorkersHoldRequest
<1>3. Built' = Built
  BY <1>2 DEF Built
<1>4. CASE OnTaskExecuting(w)
  <2>1. \A q \in Built : Owns(q) => Owns(q)'
    BY <1>1, <1>4
    DEF OnTaskExecuting, Goto, Owns, Settling, requestVars, execVars
  <2> QED
    BY <1>2, <1>3, <1>4, <2>1, OwnersKept DEF OnTaskExecuting, storeVars
<1>5. CASE MarkRunning(w)
  <2>1. /\ Owns(r)'
        /\ \A q \in Built : Owns(q) => Owns(q)'
    BY <1>1, <1>2, <1>5 DEF MarkRunning, Goto, Owns, Settling, execVars
  <2>2. \A t \in Tasks : t # rtask[r] => status'[t] = status[t]
    BY <1>5, TypeParts DEF MarkRunning, Put, StoreTypeOK
  <2> SUFFICES ASSUME NEW t \in Tasks, status'[t] = "running", panel' # "down"
               PROVE  \E q \in Built' : rtask'[q] = t /\ Owns(q)'
    BY DEF OwnerInv
  <2>3. CASE t = rtask[r]
    BY <1>2, <1>3, <2>1, <2>3
  <2>4. CASE t # rtask[r]
    BY <1>2, <1>3, <2>1, <2>2, <2>4 DEF OwnerInv
  <2> QED
    BY <2>3, <2>4
<1>6. CASE Launch(w)
  <2>1. \A q \in Built : Owns(q) => Owns(q)'
    <3>1. ASSUME NEW q, q = r PROVE Owns(q)'
      BY <1>1, <1>2, <1>6, <3>1 DEF Launch, Owns, Settling, UnderWay, RunPcs
    <3>2. ASSUME NEW q \in Built, Owns(q), q # r PROVE Owns(q)'
      <4>1. rpc'[q] = rpc[q]
        BY <1>1, <1>6, <3>2 DEF Launch
      <4>2. \A v \in Workers : wreq[v] = q => wpc'[v] = wpc[v]
        BY <1>1, <1>6, <3>2 DEF Launch, Goto
      <4>3. UNCHANGED <<rsnap, wreq>>
        BY <1>6 DEF Launch, requestVars
      <4> QED
        BY <3>2, <4>1, <4>2, <4>3 DEF Owns, Settling
    <3> QED
      BY <3>1, <3>2
  <2> QED
    BY <1>2, <1>3, <1>6, <2>1, OwnersKept DEF Launch
<1>7. CASE LaunchFails(w)
  <2>1. \A q \in Built : Owns(q) => Owns(q)'
    BY <1>1, <1>7
    DEF LaunchFails, Goto, Owns, Settling, requestVars, execVars
  <2> QED
    BY <1>2, <1>3, <1>7, <2>1, OwnersKept DEF LaunchFails, storeVars
<1>8. CASE FailLog(w)
  <2>1. \A q \in Built : Owns(q) => Owns(q)'
    BY <1>1, <1>8 DEF FailLog, Goto, Owns, Settling, requestVars
  <2> QED
    BY <1>2, <1>3, <1>8, <2>1, OwnersKept DEF FailLog
<1>9. CASE FailRow(w)
  <2>1. UNCHANGED <<rpc, rsnap, wreq>>
    BY <1>9 DEF FailRow, requestVars
  <2>2. \A q \in Built : Owns(q) /\ (q # r \/ rsnap[r] = "deleted") => Owns(q)'
    BY <1>1, <1>9, <2>1 DEF FailRow, Goto, Owns, Settling
  <2>3. CASE rsnap[r] = "deleted"
    BY <1>2, <1>3, <1>9, <2>2, <2>3, OwnersKept DEF FailRow
  <2>4. CASE rsnap[r] # "deleted"
    <3>1. status' = Put(status, rtask[r], wtarget[w])
      BY <1>9, <2>4 DEF FailRow
    <3>2. \A t \in Tasks : status'[t] = "running" =>
            status[t] = "running" /\ t # rtask[r]
      BY <1>1, <3>1, PutStatus
    <3> QED
      BY <1>2, <1>3, <2>2, <3>2, OwnersKept
  <2> QED
    BY <2>3, <2>4
<1> QED
  BY <1>4, <1>5, <1>6, <1>7, <1>8, <1>9 DEF ExecutorStep

\* A step of a run: it owns its row until it has written it.
LEMMA RunOwners ==
  ASSUME TypeInv, OwnerInv, NEW r \in Reqs, Runner(r) \/ Process(r)
  PROVE  OwnerInv'
<1>1. UNCHANGED <<rtask, made, panel, wpc, wreq, rsnap>>
  BY DEF Runner, Process, RunStep, Settlement, ProcessExits, StartProcess,
     StartFails, RegisterRunningProcess, WritePid, Succeed, InstallDeps,
     AttemptFails, ApplyManualStopOverride, SettleLog, ResolveStatus, SettleRow,
     Finish, schedVars, requestVars, storeVars, panelVars
<1>2. Built' = Built /\ Built \subseteq Reqs
  BY <1>1, TypeParts, StoreAssumption DEF SchedTypeOK, Built, Reqs
<1>3. rpc \in [Reqs -> RunPcs] /\ target[r] # "running"
  BY TypeParts DEF ExecTypeOK, Inactive
<1>4. ASSUME \/ UNCHANGED rpc
             \/ \E pc \in UnderWay \ {"stored"} : rpc' = [rpc EXCEPT ![r] = pc]
             \/ rpc[r] = "stored" /\ rpc' = [rpc EXCEPT ![r] = "done"],
             UNCHANGED status
      PROVE  OwnerInv'
  <2>1. \A q \in Built : Settling(q) => Settling(q)'
    BY <1>2, <1>3, <1>4 DEF Settling
  <2>2. \A q \in Built : Owns(q) => Owns(q)'
    BY <1>1, <2>1 DEF Owns
  <2> QED
    BY <1>1, <1>2, <1>4, <2>2, OwnersKept
<1>5. CASE SettleRow(r)
  <2>1. \A q \in Built : Owns(q) /\ q # r => Owns(q)'
    BY <1>1, <1>3, <1>5 DEF SettleRow, RunGoto, Owns, Settling
  <2>2. \A t \in Tasks : status'[t] = "running" =>
          status[t] = "running" /\ t # rtask[r]
    BY <1>3, <1>5, PutStatus DEF SettleRow
  <2> QED
    BY <1>1, <1>2, <2>1, <2>2, OwnersKept
<1>6. CASE Finish(r)
  BY <1>4, <1>6 DEF Finish, RunGoto, storeVars
<1>7. CASE Process(r)
  BY <1>4, <1>7 DEF Process, ProcessExits, storeVars
<1>8. CASE RunStep(r) /\ ~SettleRow(r) /\ ~Finish(r)
  <2>1. UNCHANGED status
    BY <1>8
    DEF RunStep, Settlement, StartProcess, StartFails, RegisterRunningProcess,
        WritePid, Succeed, InstallDeps, AttemptFails, ApplyManualStopOverride,
        SettleLog, ResolveStatus, storeVars
  <2>2. \E pc \in UnderWay \ {"stored"} : rpc' = [rpc EXCEPT ![r] = pc]
    BY <1>8
    DEF RunStep, Settlement, StartProcess, StartFails, RegisterRunningProcess,
        WritePid, Succeed, InstallDeps, AttemptFails, ApplyManualStopOverride,
        SettleLog, ResolveStatus, Retry, RunGoto, UnderWay, RunPcs
  <2> QED
    BY <1>4, <2>1, <2>2
<1> QED
  BY <1>5, <1>6, <1>7, <1>8 DEF Runner

\* Building a request changes nothing of those that are built.
LEMMA BuildKeeps ==
  ASSUME TypeInv, NEW t, NEW trig, NEW st, BuildRequest(t, trig, st)
  PROVE  \A q \in Built : rtask'[q] = rtask[q] /\ rsnap'[q] = rsnap[q]
<1>1. made \in Nat /\ rtask \in [Reqs -> Tasks \cup {NoTask}]
      /\ rsnap \in [Reqs -> Statuses] /\ Built \subseteq Reqs
  BY TypeParts, StoreAssumption DEF SchedTypeOK, StoreTypeOK, Built, Reqs
<1>2. \A q \in Built : q # made + 1
  BY <1>1 DEF Built
<1> QED
  BY <1>1, <1>2 DEF BuildRequest

\* Those who control tasks never mark a row running.
LEMMA ControlOwners ==
  ASSUME TypeInv, OwnerInv, Built \subseteq Built',
         \/ BootLoop
         \/ \E a \in Actors : Request(a)
         \/ \E a \in Everyone : Operation(a)
  PROVE  OwnerInv'
<1>1. ASSUME UNCHANGED <<panel, rpc, wpc, wreq>>,
             \A q \in Built : rtask'[q] = rtask[q] /\ rsnap'[q] = rsnap[q],
             \A t \in Tasks : status'[t] = "running" => status[t] = "running"
      PROVE  OwnerInv'
  <2>1. \A q \in Built : Owns(q) => Owns(q)'
    BY <1>1, OwnsFrame
  <2> QED
    BY <1>1, <2>1, OwnersKept
<1>2. CASE BootLoop
  BY <1>1, <1>2, BuildKeeps DEF BootLoop, StartupBegin, panelVars, execVars
<1>3. ASSUME NEW a \in Actors, Request(a) PROVE OwnerInv'
  <2>1. UNCHANGED <<storeVars, schedVars, execVars, panelVars>>
    BY <1>3
    DEF Request, BeginStep, RunBegin, TickBegin, EnableBegin, DisableBegin,
        UpdateBegin, DeleteBegin, StopBegin, BatchStopBegin, SchedStopBegin,
        CliStopBegin, Begin
  <2> QED
    BY <1>1, <2>1
    DEF storeVars, schedVars, requestVars, execVars, panelVars
<1>4. ASSUME NEW a \in Everyone, RequestStep(a), UNCHANGED panelVars PROVE OwnerInv'
  <2>1. CASE LoadTask(a)
    BY <1>1, <1>4, <2>1, BuildKeeps DEF LoadTask, panelVars, execVars, requestVars
  <2>2. CASE EnqueueRequest(a)
    BY <1>1, <1>4, <2>2
    DEF EnqueueRequest, panelVars, execVars, requestVars, storeVars
  <2>3. CASE MarkQueued(a)
    <3>1. \/ status' = status
          \/ status' = Put(status, op[a].task, "queued")
      BY <2>3 DEF MarkQueued
    <3>2. \A t \in Tasks : status'[t] = "running" => status[t] = "running"
      BY <3>1, PutStatus
    <3> QED
      BY <1>1, <1>4, <2>3, <3>2
      DEF MarkQueued, panelVars, execVars, schedVars, requestVars
  <2> QED
    BY <1>4, <2>1, <2>2, <2>3 DEF RequestStep
<1>5. ASSUME NEW a \in Everyone, EditStep(a), UNCHANGED panelVars PROVE OwnerInv'
  <2>1. UNCHANGED <<panel, rpc, wpc, wreq, rtask, rsnap>>
    BY <1>5
    DEF EditStep, SaveRow, RereadRow, RegisterJob, UnregisterJob, DeleteLogs,
        DeleteRow, panelVars, execVars, schedVars, requestVars, storeVars
  <2>2. \A t \in Tasks : status'[t] = "running" => status[t] = "running"
    BY <1>5, TypeParts
    DEF EditStep, SaveRow, RereadRow, RegisterJob, UnregisterJob, DeleteLogs,
        DeleteRow, storeVars, StoreTypeOK
  <2> QED
    BY <1>1, <2>1, <2>2
<1>6. ASSUME NEW a \in Everyone, StopStep(a), UNCHANGED panelVars PROVE OwnerInv'
  <2>1. UNCHANGED <<panel, rpc, wpc, wreq, rtask, rsnap>>
    BY <1>6
    DEF StopStep, StopTask, KillVictims, LoadStopRow, MarkByPid, KillByPid,
        ResolveStop, WriteStopRow, FindRunningLog, AbortLog, WriteLastRun,
        panelVars, execVars, schedVars, requestVars, storeVars
  <2>2. op[a].target # "running"
    BY TypeParts DEF OpsTyped, Ops, Inactive
  <2>3. status' = status \/ status' = Put(status, op[a].task, op[a].target)
    BY <1>6
    DEF StopStep, StopTask, KillVictims, LoadStopRow, MarkByPid, KillByPid,
        ResolveStop, WriteStopRow, FindRunningLog, AbortLog, WriteLastRun,
        storeVars
  <2>4. \A t \in Tasks : status'[t] = "running" => status[t] = "running"
    BY <2>2, <2>3, PutStatus
  <2> QED
    BY <1>1, <2>1, <2>4
<1> QED
  BY <1>2, <1>3, <1>4, <1>5, <1>6 DEF Operation, ContinueStep

\* The recovery of a start leaves no row running; before it and after the
\* process has ended nobody promises anything.
LEMMA LifeOwners ==
  ASSUME TypeInv, OwnerInv, Start \/ LifeStep \/ Terminate \/ Crash
  PROVE  OwnerInv'
<1>1. ASSUME NEW f \in [Tasks -> Inactive], MarkActiveTasksInterrupted(f)
      PROVE  \A t \in Tasks : status'[t] # "running"
  BY <1>1, TypeParts DEF MarkActiveTasksInterrupted, StoreTypeOK, Inactive, Active
<1>2. CASE Start
  <2>1. [t \in Tasks |-> ResolveTaskRecoveredStatus(status[t])] \in [Tasks -> Inactive]
    BY InactiveType
  <2> QED
    BY <1>1, <1>2, <2>1 DEF Start, OwnerInv
<1>3. CASE MarkInterrupted
  <2>1. [t \in Tasks |-> ResolveTaskInactiveStatus(status[t], HasJob(t))]
          \in [Tasks -> Inactive]
    BY InactiveType
  <2> QED
    BY <1>1, <1>3, <2>1 DEF MarkInterrupted, OwnerInv
<1>4. CASE Exit \/ Crash
  BY <1>4 DEF Exit, Crash, Vanish, OwnerInv
<1>5. CASE Serve \/ StopScheduler \/ CronStopped \/ StopAllRunningTasks \/ Wait
             \/ Terminate
  <2>1. /\ UNCHANGED <<status, rtask, made, rsnap, rpc, wpc, wreq>>
        /\ panel # "down"
    BY <1>5
    DEF Serve, StopScheduler, CronStopped, StopAllRunningTasks, Wait, Terminate,
        Step, storeVars, schedVars, requestVars, execVars
  <2>2. \A q \in Built : Owns(q) => Owns(q)'
    BY <2>1, OwnsFrame
  <2> QED
    BY <2>1, <2>2, OwnersKept DEF Built
<1> QED
  BY <1>2, <1>3, <1>4, <1>5 DEF LifeStep

-----------------------------------------------------------------------------
\* Every step of the panel keeps the invariant.
LEMMA NextInv == PanelInv /\ [Next]_vars => PanelInv'
<1> SUFFICES ASSUME PanelInv, [Next]_vars PROVE PanelInv'
  OBVIOUS
<1> TypeInv /\ BuiltInv /\ OwnerInv
  BY DEF PanelInv
<1>1. TypeInv'
  BY NextTypes
<1>2. BuiltInv' /\ Built \subseteq Built'
  BY <1>1, NextBuilt, BuiltGrows
<1>3. CASE UNCHANGED vars
  <2>1. \A q : Owns(q) => Owns(q)'
    BY <1>3, OwnsFrame DEF vars, schedVars, requestVars, execVars
  <2>2. OwnerInv'
    BY <1>2, <1>3, <2>1, OwnersKept DEF vars, storeVars, panelVars
  <2> QED
    BY <1>1, <1>2, <2>2 DEF PanelInv
<1>4. CASE Next
  <2>1. OwnerInv'
    BY <1>2, <1>4, SchedulerOwners, ExecutorOwners, RunOwners, ControlOwners,
       LifeOwners DEF Next, Worker
  <2> QED
    BY <1>1, <1>2, <2>1 DEF PanelInv
<1> QED
  BY <1>3, <1>4

LEMMA Invariance == Spec => []PanelInv
BY InitInv, NextInv, PTL DEF Spec

\* However many tasks, workers, requests and stops there are, and whenever the
\* panel is shut down, killed and started again: while it is alive no row says
\* "running" without a request that is still going to reset it.
THEOREM RunningAlwaysHasOwner == Spec => []RunningHasOwner
BY Invariance, InvImplies, PTL
=============================================================================
