--------------------------- MODULE TaskPanelTypes ---------------------------
(***************************************************************************)
(* Type correctness of TaskPanel, proved.                                  *)
(*                                                                         *)
(* TypeOK is not inductive: EnqueueRequest appends the request of an       *)
(* operation to the queue, AddRunningTask puts the one of a worker among   *)
(* the running ones, and the types of both allow that there is none.       *)
(* TypeInv adds that an operation about to send has a request, and that a  *)
(* worker past the queue has one.                                          *)
(***************************************************************************)
EXTENDS TaskPanelProps, FiniteSetTheorems, TLAPS

SendersHoldRequest ==
  \A a \in Everyone : op[a].pc = "enqueue" => op[a].req \in Reqs

WorkersHoldRequest ==
  \A w \in Workers : wpc[w] \notin {"idle", "exited"} => wreq[w] \in Reqs

TypeInv == TypeOK /\ SendersHoldRequest /\ WorkersHoldRequest

\* The initial state of the panel is type correct.
LEMMA InitTypes == Init => TypeInv
<1> SUFFICES ASSUME Init PROVE TypeInv
  OBVIOUS
<1> USE StoreAssumption DEF Init
<1>1. StoreTypeOK
  BY DEF StoreInit, StoreTypeOK, Statuses, Inactive, Active, Results,
         LogStatuses, Pids, NoPid
<1>2. SchedTypeOK /\ WorkersHoldRequest
  <2>1. queue = <<>>
    BY DEF SchedInit
  <2>2. queue \in Seq(Reqs) /\ Len(queue) = 0
    BY <2>1
  <2>3. Len(queue) <= QueueSize
    BY <2>2, SchedulerAssumption
  <2>4. /\ rtrig \in [Reqs -> Triggers]
        /\ rsnap \in [Reqs -> Statuses]
        /\ wreq \in [Workers -> Reqs \cup {NoReq}]
    BY DEF SchedInit, Triggers, Statuses
  <2>7. made \in 0 .. MaxReqs
    BY StoreAssumption DEF SchedInit
  <2>8. stopped \in BOOLEAN
    BY DEF SchedInit
  <2>5. wpc \in [Workers -> WorkerPcs] /\ \A w \in Workers : wpc[w] = "exited"
    BY DEF SchedInit, WorkerPcs
  <2>6. inFlight \in [Tasks -> SUBSET Reqs] /\ jobs = {} /\ stopJobs = {}
    BY DEF SchedInit
  <2> QED
    BY <2>2, <2>3, <2>4, <2>5, <2>6, <2>7, <2>8
    DEF SchedTypeOK, WorkersHoldRequest
<1>3. ExecTypeOK
  BY DEF ExecInit, ExecTypeOK, RunPcs, Results, Inactive, Pids
<1>4. NoOp \in Ops /\ NoOp.pc = "idle"
  BY DEF NoOp, Ops, AllKinds, HttpKinds, CronKinds, Pcs, Statuses, Inactive,
         Active, Pids, NoPid, Results, NoReq
<1>5. ControlTypeOK /\ SendersHoldRequest
  <2>1. \A a \in Everyone : op[a] = NoOp
    BY DEF ControlInit
  <2>2. op \in [Everyone -> Ops]
    BY <1>4 DEF ControlInit
  <2>3. begun \in 0 .. MaxOps
    BY ControlAssumption DEF ControlInit
  <2> QED
    BY <1>4, <2>1, <2>2, <2>3
    DEF ControlInit, ControlTypeOK, SendersHoldRequest
<1>6. PanelTypeOK
  BY PanelAssumption DEF PanelTypeOK, Panels, Lapses
<1> QED
  BY <1>1, <1>2, <1>3, <1>5, <1>6 DEF TypeInv, TypeOK

\* The start time of a request is a number: finitely many have one.
LEMMA NextStampType == NextStamp \in Nat
<1>1. IsFiniteSet(1 .. MaxReqs)
  BY FS_Interval, StoreAssumption
<1>2. IsFiniteSet({r \in Reqs : stamp[r] # 0})
  BY <1>1, FS_Subset DEF Reqs
<1> QED
  BY <1>2, FS_CardinalityType DEF NextStamp

\* The inactive status of a task is one.
LEMMA InactiveType ==
  ASSUME NEW st, NEW b
  PROVE  /\ ResolveTaskInactiveStatus(st, b) \in Inactive
         /\ ResolveTaskRecoveredStatus(st) \in Inactive
BY DEF ResolveTaskInactiveStatus, ResolveTaskRecoveredStatus, Inactive

\* Marking rows as interrupted keeps the type of the database.
LEMMA MarkActiveTypes ==
  ASSUME StoreTypeOK, NEW f \in [Tasks -> Inactive],
         MarkActiveTasksInterrupted(f)
  PROVE  StoreTypeOK'
BY DEF StoreTypeOK, MarkActiveTasksInterrupted, Statuses, Results, LogStatuses

\* What leaves the variables of a part alone leaves its type alone.
LEMMA StutterTypes ==
  /\ StoreTypeOK /\ UNCHANGED storeVars => StoreTypeOK'
  /\ SchedTypeOK /\ WorkersHoldRequest /\ UNCHANGED schedVars
       => SchedTypeOK' /\ WorkersHoldRequest'
  /\ ExecTypeOK /\ UNCHANGED execVars => ExecTypeOK'
  /\ ControlTypeOK /\ SendersHoldRequest /\ UNCHANGED ctlVars
       => ControlTypeOK' /\ SendersHoldRequest'
  /\ PanelTypeOK /\ UNCHANGED panelVars => PanelTypeOK'
BY DEF StoreTypeOK, storeVars, SchedTypeOK, schedVars, requestVars, entryVars,
       WorkersHoldRequest,       ExecTypeOK, execVars, loopVars, histVars, ControlTypeOK,
       SendersHoldRequest, ctlVars, gateVars, askVars, PanelTypeOK, panelVars

-----------------------------------------------------------------------------
(* The workers.                                                            *)

\* A worker's step in the scheduler keeps the types.
LEMMA SchedulerTypes ==
  ASSUME TypeInv, NEW w \in Workers, SchedulerStep(w), UNCHANGED execVars
  PROVE  StoreTypeOK' /\ SchedTypeOK' /\ ExecTypeOK' /\ WorkersHoldRequest'
<1> USE DEF SchedTypeOK, WorkersHoldRequest, requestVars, entryVars, Goto, Release, WorkerPcs, NoReq
<1>1. StoreTypeOK' /\ ExecTypeOK'
  BY StutterTypes DEF SchedulerStep, TypeInv, TypeOK
<1> SchedTypeOK /\ WorkersHoldRequest
  BY DEF TypeInv, TypeOK
<1>2. CASE Dequeue(w)
  <2>1. queue # <<>> /\ queue \in Seq(Reqs) /\ Len(queue) <= QueueSize
    BY <1>2 DEF Dequeue
  <2>2. /\ Head(queue) \in Reqs
        /\ Tail(queue) \in Seq(Reqs)
        /\ Len(Tail(queue)) <= QueueSize
    BY ONLY <2>1, SchedulerAssumption
  <2> QED
    BY <1>1, <1>2, <2>2 DEF Dequeue
<1>3. CASE Admit(w)
  BY <1>1, <1>3 DEF Admit
<1>4. CASE Quit(w)
  BY <1>1, <1>4 DEF Quit
<1>5. CASE CheckConcurrency(w)
  BY <1>1, <1>5 DEF CheckConcurrency
<1>6. CASE AddRunningTask(w)
  BY <1>1, <1>6 DEF AddRunningTask
<1>7. CASE RemoveRunningTask(w)
  BY <1>1, <1>7 DEF RemoveRunningTask
<1> QED
  BY <1>2, <1>3, <1>4, <1>5, <1>6, <1>7 DEF SchedulerStep

\* Put keeps the type of a column, and PutLog that of the logs.
LEMMA PutTypes ==
  ASSUME NEW S, NEW column \in [Tasks -> S], NEW t, NEW v \in S
  PROVE  Put(column, t, v) \in [Tasks -> S]
BY DEF Put

LEMMA PutLogTypes ==
  ASSUME StoreTypeOK, NEW r, NEW v \in LogStatuses
  PROVE  PutLog(r, v) \in [Reqs -> LogStatuses]
BY DEF PutLog, StoreTypeOK

\* A worker's step in the executor keeps the types.
LEMMA ExecutorTypes ==
  ASSUME TypeInv, NEW w \in Workers, ExecutorStep(w)
  PROVE  StoreTypeOK' /\ SchedTypeOK' /\ ExecTypeOK' /\ WorkersHoldRequest'
<1> DEFINE r == wreq[w]
<1> StoreTypeOK /\ SchedTypeOK /\ ExecTypeOK /\ WorkersHoldRequest
  BY DEF TypeInv, TypeOK
<1> wpc \in [Workers -> WorkerPcs]
  BY DEF SchedTypeOK
<1>a. ASSUME NEW pc \in WorkerPcs, wpc[w] \notin {"idle", "exited"}, Goto(w, pc),
             UNCHANGED <<made, rtrig, queue, stopped, wreq, inFlight, entryVars>>,
             rsnap' \in [Reqs -> Statuses]
      PROVE  SchedTypeOK' /\ WorkersHoldRequest'
  BY <1>a DEF Goto, SchedTypeOK, WorkersHoldRequest, entryVars
<1>b. rsnap \in [Reqs -> Statuses]
  BY DEF SchedTypeOK
<1>c. {"ready", "failing", "marked", "leaving", "failrow"} \subseteq WorkerPcs
  BY DEF WorkerPcs
<1>1. CASE OnTaskExecuting(w)
  <2>1. StoreTypeOK' /\ ExecTypeOK'
    BY <1>1, StutterTypes DEF OnTaskExecuting
  <2> QED
    BY <1>1, <1>a, <1>b, <1>c, <2>1 DEF OnTaskExecuting, requestVars
<1>2. CASE MarkRunning(w)
  <2>1. ExecTypeOK'
    BY <1>2, StutterTypes DEF MarkRunning
  <2>2. status' \in [Tasks -> Statuses]
    BY <1>2, PutTypes DEF MarkRunning, StoreTypeOK, Statuses, Active
  <2>3. stamp' \in [Reqs -> Nat]
    BY <1>2, NextStampType DEF MarkRunning, StoreTypeOK
  <2>4. StoreTypeOK'
    BY <1>2, <2>2, <2>3 DEF MarkRunning, StoreTypeOK
  <2>5. rsnap' \in [Reqs -> Statuses]
    BY <1>2, <1>b DEF MarkRunning, Statuses, Active
  <2> QED
    BY <1>2, <1>a, <1>c, <2>1, <2>4, <2>5 DEF MarkRunning
<1>3. CASE Launch(w)
  <2>1. r \in Reqs
    BY <1>3 DEF Launch, WorkersHoldRequest
  <2>2. StoreTypeOK'
    BY <1>3 DEF Launch, StoreTypeOK, LogStatuses
  <2>3. rpc' \in [Reqs -> RunPcs]
    BY <1>3 DEF Launch, ExecTypeOK, RunPcs
  <2>4. overlap' \subseteq Reqs
    BY <1>3, <2>1 DEF Launch, ExecTypeOK
  <2>5. ExecTypeOK'
    BY <1>3, <2>3, <2>4 DEF Launch, ExecTypeOK, loopVars
  <2> QED
    BY <1>3, <1>a, <1>b, <1>c, <2>2, <2>5 DEF Launch, requestVars
<1>4. CASE LaunchFails(w)
  <2>1. StoreTypeOK' /\ ExecTypeOK'
    BY <1>4, StutterTypes DEF LaunchFails
  <2> QED
    BY <1>4, <1>a, <1>b, <1>c, <2>1 DEF LaunchFails, requestVars
<1>5. CASE FailLog(w)
  <2>1. StoreTypeOK'
    BY <1>5 DEF FailLog, StoreTypeOK, LogStatuses, Results
  <2>2. wtarget' \in [Workers -> Inactive]
    BY <1>5, InactiveType DEF FailLog, ExecTypeOK
  <2>3. ExecTypeOK'
    BY <1>5, <2>2 DEF FailLog, ExecTypeOK, loopVars, histVars
  <2> QED
    BY <1>5, <1>a, <1>b, <1>c, <2>1, <2>3 DEF FailLog, requestVars
<1>6. CASE FailRow(w)
  <2>1. status' \in [Tasks -> Statuses]
    <3>1. wtarget[w] \in Statuses
      BY DEF ExecTypeOK, Statuses
    <3>2. Put(status, rtask[r], wtarget[w]) \in [Tasks -> Statuses]
      BY <3>1, PutTypes DEF StoreTypeOK
    <3> QED
      BY <1>6, <3>2 DEF FailRow, StoreTypeOK
  <2>2. lastRun' \in [Tasks -> Results]
    <3>1. Put(lastRun, rtask[r], "failed") \in [Tasks -> Results]
      BY PutTypes DEF StoreTypeOK, Results
    <3> QED
      BY <1>6, <3>1 DEF FailRow, StoreTypeOK
  <2>3. pid' \in [Tasks -> Pids \cup {NoPid}]
    <3>1. Put(pid, rtask[r], NoPid) \in [Tasks -> Pids \cup {NoPid}]
      BY PutTypes DEF StoreTypeOK
    <3> QED
      BY <1>6, <3>1 DEF FailRow, StoreTypeOK
  <2>4. StoreTypeOK'
    BY <1>6, <2>1, <2>2, <2>3 DEF FailRow, StoreTypeOK
  <2>5. ExecTypeOK'
    BY <1>6 DEF FailRow, ExecTypeOK, loopVars, histVars, Inactive
  <2> QED
    BY <1>6, <1>a, <1>b, <1>c, <2>4, <2>5 DEF FailRow, requestVars
<1> QED
  BY <1>1, <1>2, <1>3, <1>4, <1>5, <1>6 DEF ExecutorStep

-----------------------------------------------------------------------------
(* The runs.                                                               *)

\* A step of a run, or the end of its process, keeps the types.
LEMMA RunTypes ==
  ASSUME TypeInv, NEW r \in Reqs, RunStep(r) \/ ProcessExits(r)
  PROVE  StoreTypeOK' /\ SchedTypeOK' /\ ExecTypeOK' /\ WorkersHoldRequest'
<1> StoreTypeOK /\ SchedTypeOK /\ ExecTypeOK /\ WorkersHoldRequest
  BY DEF TypeInv, TypeOK
<1> USE DEF RunGoto, ExecTypeOK, loopVars, histVars
<1>a. UNCHANGED schedVars
  BY DEF RunStep, Settlement, ProcessExits, StartProcess, StartFails,
     RegisterRunningProcess, WritePid, Succeed, InstallDeps, AttemptFails,
     ApplyManualStopOverride, SettleLog, ResolveStatus, SettleRow, Finish
<1>b. SchedTypeOK' /\ WorkersHoldRequest'
  BY <1>a, StutterTypes
<1>c. ASSUME UNCHANGED storeVars PROVE StoreTypeOK'
  BY <1>c, StutterTypes
<1>1. CASE StartProcess(r)
  BY <1>1, <1>b, <1>c DEF StartProcess, RunPcs
<1>2. CASE StartFails(r)
  BY <1>2, <1>b, <1>c DEF StartFails, Retry, RunPcs, Results
<1>3. CASE RegisterRunningProcess(r)
  <2>1. <<r, attempt[r]>> \in Pids
    BY DEF Pids
  <2>2. procs' \in [Tasks -> SUBSET Pids]
    BY <1>3, <2>1 DEF RegisterRunningProcess
  <2> QED
    BY <1>3, <1>b, <1>c, <2>2 DEF RegisterRunningProcess, RunPcs
<1>4. CASE WritePid(r)
  <2>1. <<r, attempt[r]>> \in Pids
    BY DEF Pids
  <2>2. pid' \in [Tasks -> Pids \cup {NoPid}]
    BY <1>4, <2>1, PutTypes DEF WritePid, StoreTypeOK
  <2>3. StoreTypeOK'
    BY <1>4, <2>2 DEF WritePid, StoreTypeOK
  <2> QED
    BY <1>4, <1>b, <2>3 DEF WritePid, RunPcs
<1>5. CASE Succeed(r)
  BY <1>5, <1>b, <1>c DEF Succeed, RunPcs, Results
<1>6. CASE InstallDeps(r)
  BY <1>6, <1>b, <1>c, StoreAssumption DEF InstallDeps, RunPcs
<1>7. CASE AttemptFails(r)
  BY <1>7, <1>b, <1>c DEF AttemptFails, Retry, RunPcs, Results
<1>8. CASE ApplyManualStopOverride(r)
  BY <1>8, <1>b, <1>c DEF ApplyManualStopOverride, RunPcs, Results
<1>9. CASE SettleLog(r)
  <2>1. log' \in [Reqs -> LogStatuses]
    BY <1>9, PutLogTypes DEF SettleLog, LogStatuses
  <2>2. StoreTypeOK'
    BY <1>9, <2>1 DEF SettleLog, StoreTypeOK
  <2> QED
    BY <1>9, <1>b, <2>2 DEF SettleLog, RunPcs
<1>10. CASE ResolveStatus(r)
  <2>1. target' \in [Reqs -> Inactive]
    BY <1>10, InactiveType DEF ResolveStatus
  <2> QED
    BY <1>10, <1>b, <1>c, <2>1 DEF ResolveStatus, RunPcs
<1>11. CASE SettleRow(r)
  <2>1. status' \in [Tasks -> Statuses]
    BY <1>11, PutTypes DEF SettleRow, StoreTypeOK, Statuses
  <2>2. lastRun' \in [Tasks -> Results]
    BY <1>11, PutTypes DEF SettleRow, StoreTypeOK
  <2>3. pid' \in [Tasks -> Pids \cup {NoPid}]
    BY <1>11, PutTypes DEF SettleRow, StoreTypeOK
  <2>4. StoreTypeOK'
    BY <1>11, <2>1, <2>2, <2>3 DEF SettleRow, StoreTypeOK
  <2> QED
    BY <1>11, <1>b, <2>4 DEF SettleRow, RunPcs
<1>12. CASE Finish(r)
  BY <1>12, <1>b, <1>c DEF Finish, RunPcs, Inactive
<1>13. CASE ProcessExits(r)
  BY <1>13, <1>b, <1>c DEF ProcessExits
<1> QED
  BY <1>1, <1>2, <1>3, <1>4, <1>5, <1>6, <1>7, <1>8, <1>9, <1>10, <1>11,
     <1>12, <1>13 DEF RunStep, Settlement

-----------------------------------------------------------------------------
(* Those who control tasks.                                                *)

\* ControlTypeOK and SendersHoldRequest, apart: operations, and the rest.
OpsTyped ==
  /\ op \in [Everyone -> Ops]
  /\ \A a \in Everyone : op[a].pc # "idle" => op[a].task \in Tasks
  /\ SendersHoldRequest

GatesTyped ==
  /\ begun \in 0 .. MaxOps
  /\ serving \in BOOLEAN
  /\ ticking \in BOOLEAN
  /\ bootTodo \in SUBSET Tasks
  /\ bootDate \in SUBSET Tasks
  /\ stopSeen \in SUBSET Reqs
  /\ strays \in SUBSET Tasks

LEMMA ControlParts == ControlTypeOK /\ SendersHoldRequest <=> OpsTyped /\ GatesTyped
BY DEF ControlTypeOK, OpsTyped, GatesTyped

LEMMA ControlPartsPrime ==
  OpsTyped' /\ GatesTyped' => ControlTypeOK' /\ SendersHoldRequest'
BY DEF ControlTypeOK, OpsTyped, GatesTyped

\* The reading of TypeInv that the steps below start from.
LEMMA TypeParts ==
  TypeInv <=> /\ StoreTypeOK /\ SchedTypeOK /\ WorkersHoldRequest
              /\ ExecTypeOK /\ OpsTyped /\ GatesTyped /\ PanelTypeOK
BY ControlParts DEF TypeInv, TypeOK

\* An operation that moves on to a well-typed record leaves all well-typed.
LEMMA BecomeTypes ==
  ASSUME OpsTyped, NEW a \in Everyone, NEW o \in Ops, Become(a, o),
         o.pc # "idle" => o.task \in Tasks,
         o.pc = "enqueue" => o.req \in Reqs
  PROVE  OpsTyped'
<1>1. op' \in [Everyone -> Ops]
  BY DEF OpsTyped, Become
<1>2. \A b \in Everyone : op'[b] = IF b = a THEN o ELSE op[b]
  BY DEF OpsTyped, Become
<1> QED
  BY <1>1, <1>2 DEF OpsTyped, SendersHoldRequest

LEMMA NoOpType == NoOp \in Ops /\ NoOp.pc = "idle"
BY DEF NoOp, Ops, AllKinds, HttpKinds, CronKinds, Pcs, Statuses, Inactive,
       Active, Pids, NoPid, Results, NoReq

\* The same for the ways in which an operation moves on.
LEMMA MoveTypes ==
  ASSUME OpsTyped, NEW a \in Everyone
  PROVE  /\ Done(a) => OpsTyped'
         /\ \A pc \in Pcs \ {"enqueue"} :
              op[a].pc # "idle" /\ (Proceed(a, pc) \/ DoneOr(a, pc)) => OpsTyped'
<1>1. ASSUME Done(a) PROVE OpsTyped'
  BY <1>1, BecomeTypes, NoOpType DEF Done
<1>2. ASSUME NEW pc \in Pcs \ {"enqueue"}, op[a].pc # "idle", Proceed(a, pc)
      PROVE  OpsTyped'
  <2> DEFINE o == [op[a] EXCEPT !.pc = pc]
  <2>1. op[a] \in Ops /\ op[a].task \in Tasks
    BY <1>2 DEF OpsTyped
  <2>2. o \in Ops /\ o.pc = pc /\ o.task = op[a].task
    BY <2>1 DEF Ops
  <2>3. Become(a, o)
    BY <1>2 DEF Proceed
  <2> QED
    BY <2>1, <2>2, <2>3, BecomeTypes
<1>3. ASSUME NEW pc \in Pcs \ {"enqueue"}, op[a].pc # "idle", DoneOr(a, pc)
      PROVE  OpsTyped'
  BY <1>1, <1>2, <1>3 DEF DoneOr
<1> QED
  BY <1>1, <1>2, <1>3

\* Building a request keeps the types of the database and the scheduler.
LEMMA BuildTypes ==
  ASSUME StoreTypeOK, SchedTypeOK, WorkersHoldRequest, NEW t \in Tasks,
         NEW trig \in Triggers, NEW st \in Statuses, BuildRequest(t, trig, st),
         UNCHANGED <<status, lastRun, pid, log, stamp, queue, stopped, wpc,
                     wreq, inFlight, entryVars>>
  PROVE  /\ StoreTypeOK' /\ SchedTypeOK' /\ WorkersHoldRequest'
         /\ made + 1 \in Reqs
<1>1. made \in 0 .. MaxReqs /\ made < MaxReqs
  BY DEF SchedTypeOK, BuildRequest
<1>2. made + 1 \in Reqs /\ made + 1 \in 0 .. MaxReqs
  BY <1>1, StoreAssumption DEF Reqs
<1>3. StoreTypeOK'
  BY DEF StoreTypeOK, BuildRequest
<1>4. SchedTypeOK'
  BY <1>2 DEF SchedTypeOK, BuildRequest, entryVars
<1>5. WorkersHoldRequest'
  BY DEF WorkersHoldRequest
<1> QED
  BY <1>2, <1>3, <1>4, <1>5

\* Operations that have just begun, and what they read.
LEMMA ReadRowTypes ==
  ASSUME StoreTypeOK, NEW o \in Ops, NEW t \in Tasks
  PROVE  /\ ReadRow(o, t) \in Ops
         /\ ReadRow(o, t).pc = o.pc
         /\ ReadRow(o, t).task = o.task
BY DEF StoreTypeOK, ReadRow, Ops

LEMMA BlankTypes ==
  ASSUME NEW kind \in AllKinds, NEW t \in Tasks, NEW pc \in Pcs
  PROVE  /\ Blank(kind, t, pc) \in Ops
         /\ Blank(kind, t, pc).pc = pc
         /\ Blank(kind, t, pc).task = t
BY NoOpType DEF Blank, Ops

\* An operation begins.
LEMMA BeginTypes ==
  ASSUME TypeInv, NEW a \in Actors, NEW t \in Tasks, BeginStep(a, t)
  PROVE  /\ StoreTypeOK' /\ SchedTypeOK' /\ WorkersHoldRequest' /\ ExecTypeOK'
         /\ OpsTyped' /\ GatesTyped'
<1> /\ StoreTypeOK /\ SchedTypeOK /\ WorkersHoldRequest /\ ExecTypeOK
    /\ OpsTyped /\ GatesTyped /\ a \in Everyone
  BY TypeParts DEF Everyone
<1> DEFINE Fits(o) == o \in Ops /\ o.task = t /\ o.pc \in Pcs \ {"enqueue"}
<1>1. \E o : Begin(a, o) /\ Fits(o)
  <2>1. ASSUME NEW kind \in AllKinds, NEW pc \in Pcs \ {"enqueue"}
        PROVE  Fits(Blank(kind, t, pc)) /\ Fits(ReadRow(Blank(kind, t, pc), t))
    BY BlankTypes, ReadRowTypes
  <2>2. /\ {"run", "tick", "enable", "disable", "update", "delete", "stop",
            "batchStop", "schedStop", "cliStop"} \subseteq AllKinds
        /\ {"load", "save", "removejob", "reread", "exec", "pidkill"}
             \subseteq Pcs \ {"enqueue"}
    BY DEF AllKinds, HttpKinds, CronKinds, Pcs
  <2> HIDE DEF Fits
  <2>3. CASE RunBegin(a, t)
    <3>1. Begin(a, Blank("run", t, "load"))
      BY <2>3 DEF RunBegin
    <3> QED
      BY <2>1, <2>2, <3>1
  <2>4. CASE TickBegin(a, t)
    <3>1. Begin(a, Blank("tick", t, "load"))
      BY <2>4 DEF TickBegin
    <3> QED
      BY <2>1, <2>2, <3>1
  <2>5. CASE EnableBegin(a, t)
    <3>1. Begin(a, ReadRow(Blank("enable", t, "save"), t))
      BY <2>5 DEF EnableBegin
    <3> QED
      BY <2>1, <2>2, <3>1
  <2>6. CASE DisableBegin(a, t)
    <3>1. Begin(a, ReadRow(Blank("disable", t, "removejob"), t))
      BY <2>6 DEF DisableBegin
    <3> QED
      BY <2>1, <2>2, <3>1
  <2>7. CASE UpdateBegin(a, t)
    <3>1. Begin(a, ReadRow(Blank("update", t, "reread"), t))
      BY <2>7 DEF UpdateBegin
    <3> QED
      BY <2>1, <2>2, <3>1
  <2>8. CASE DeleteBegin(a, t)
    <3>1. Begin(a, Blank("delete", t, "removejob"))
      BY <2>8 DEF DeleteBegin
    <3> QED
      BY <2>1, <2>2, <3>1
  <2>9. CASE StopBegin(a, t)
    <3>1. Begin(a, ReadRow(Blank("stop", t, "exec"), t))
      BY <2>9 DEF StopBegin
    <3> QED
      BY <2>1, <2>2, <3>1
  <2>10. CASE BatchStopBegin(a, t)
    <3>1. Begin(a, ReadRow(Blank("batchStop", t, "exec"), t))
      BY <2>10 DEF BatchStopBegin
    <3> QED
      BY <2>1, <2>2, <3>1
  <2>11. CASE SchedStopBegin(a, t)
    <3>1. Begin(a, Blank("schedStop", t, "exec"))
      BY <2>11 DEF SchedStopBegin
    <3> QED
      BY <2>1, <2>2, <3>1
  <2>12. CASE CliStopBegin(a, t)
    <3>1. Begin(a, ReadRow(Blank("cliStop", t, "pidkill"), t))
      BY <2>12 DEF CliStopBegin
    <3> QED
      BY <2>1, <2>2, <3>1
  <2> QED
    BY <2>3, <2>4, <2>5, <2>6, <2>7, <2>8, <2>9,
       <2>10, <2>11, <2>12 DEF BeginStep
<1>2. OpsTyped'
  BY <1>1, BecomeTypes DEF Begin
<1>3. begun' \in 0 .. MaxOps
  <2>1. begun \in 0 .. MaxOps
    BY DEF GatesTyped
  <2>2. begun < MaxOps /\ begun' = begun + 1
    BY <1>1 DEF Begin
  <2> QED
    BY <2>1, <2>2, ControlAssumption
<1>4. GatesTyped'
  BY <1>1, <1>3 DEF Begin, GatesTyped, askVars
<1> QED
  BY <1>1, <1>2, <1>4, StutterTypes DEF Begin

\* The start-up loop enqueues a task.
LEMMA StartupTypes ==
  ASSUME TypeInv, NEW t \in Tasks, StartupBegin(t)
  PROVE  /\ StoreTypeOK' /\ SchedTypeOK' /\ WorkersHoldRequest' /\ ExecTypeOK'
         /\ OpsTyped' /\ GatesTyped'
<1> /\ StoreTypeOK /\ SchedTypeOK /\ WorkersHoldRequest /\ ExecTypeOK
    /\ OpsTyped /\ GatesTyped /\ Boot \in Everyone
  BY TypeParts DEF Everyone
<1>1. /\ StoreTypeOK' /\ SchedTypeOK' /\ WorkersHoldRequest'
      /\ made + 1 \in Reqs
  BY BuildTypes DEF StartupBegin, Triggers, Statuses, Inactive
<1>2. OpsTyped'
  <2> DEFINE b == Blank("startup", t, "enqueue")
             o == [b EXCEPT !.req = made + 1]
  <2>1. b \in Ops /\ b.pc = "enqueue" /\ b.task = t
    BY BlankTypes DEF AllKinds, Pcs
  <2>2. o \in Ops /\ o.task = t /\ o.req = made + 1
    BY <1>1, <2>1 DEF Ops
  <2>3. Become(Boot, o)
    BY DEF StartupBegin
  <2> QED
    BY <1>1, <2>2, <2>3, BecomeTypes
<1>3. GatesTyped'
  BY DEF StartupBegin, GatesTyped, askVars
<1> QED
  BY <1>1, <1>2, <1>3, StutterTypes DEF StartupBegin

\* A step of Run, of the cron callback or of the start-up loop.
LEMMA RequestTypes ==
  ASSUME TypeInv, NEW a \in Everyone, RequestStep(a)
  PROVE  /\ StoreTypeOK' /\ SchedTypeOK' /\ WorkersHoldRequest' /\ ExecTypeOK'
         /\ OpsTyped' /\ GatesTyped'
<1> /\ StoreTypeOK /\ SchedTypeOK /\ WorkersHoldRequest /\ ExecTypeOK
    /\ OpsTyped /\ GatesTyped
  BY TypeParts
<1> DEFINE t == op[a].task
<1>1. op[a] \in Ops /\ (op[a].pc # "idle" => t \in Tasks)
  BY DEF OpsTyped
<1>2. {"idle", "queued"} \subseteq Pcs \ {"enqueue"} /\ "enqueue" \in Pcs
  BY DEF Pcs
<1>3. CASE LoadTask(a)
  <2>1. t \in Tasks
    BY <1>1, <1>3 DEF LoadTask, At
  <2>2. GatesTyped' /\ ExecTypeOK'
    BY <1>3, StutterTypes DEF LoadTask, GatesTyped, gateVars, askVars
  <2>3. CASE Done(a) /\ UNCHANGED <<rtask, requestVars>>
    BY <1>3, <2>2, <2>3, MoveTypes, StutterTypes
    DEF LoadTask, storeVars, schedVars
  <2>4. ASSUME NEW trig \in Triggers, BuildRequest(t, trig, status[t]),
               Become(a, [op[a] EXCEPT !.pc = "enqueue", !.req = made + 1])
        PROVE  StoreTypeOK' /\ SchedTypeOK' /\ WorkersHoldRequest' /\ OpsTyped'
    <3> DEFINE o == [op[a] EXCEPT !.pc = "enqueue", !.req = made + 1]
    <3>1. status[t] \in Statuses
      BY <2>1 DEF StoreTypeOK
    <3>2. /\ StoreTypeOK' /\ SchedTypeOK' /\ WorkersHoldRequest'
          /\ made + 1 \in Reqs
      BY <1>3, <2>1, <2>4, <3>1, BuildTypes DEF LoadTask
    <3>3. o \in Ops /\ o.task = t /\ o.req = made + 1
      BY <1>1, <1>2, <3>2 DEF Ops
    <3>4. OpsTyped'
      BY <2>1, <2>4, <3>2, <3>3, BecomeTypes
    <3> QED
      BY <3>2, <3>4
  <2>5. {"cron", "manual"} \subseteq Triggers
    BY DEF Triggers
  <2> QED
    BY <1>3, <2>2, <2>3, <2>4, <2>5 DEF LoadTask
<1>4. CASE EnqueueRequest(a)
  <2>1. op[a].req \in Reqs /\ op[a].pc # "idle"
    BY <1>4 DEF EnqueueRequest, At, OpsTyped, SendersHoldRequest
  <2>2. queue' \in Seq(Reqs) /\ Len(queue') <= QueueSize
    <3>1. queue \in Seq(Reqs) /\ Len(queue) <= QueueSize
      BY DEF SchedTypeOK
    <3>2. \/ queue' = queue
          \/ queue' = Append(queue, op[a].req) /\ Len(queue) < QueueSize
      BY <1>4 DEF EnqueueRequest, Enqueue, CanEnqueue, EnqueueFails
    <3> QED
      BY ONLY <2>1, <3>1, <3>2, SchedulerAssumption
  <2>3. SchedTypeOK' /\ WorkersHoldRequest'
    BY <1>4, <2>2
    DEF EnqueueRequest, SchedTypeOK, WorkersHoldRequest, requestVars, entryVars
  <2>4. GatesTyped' /\ ExecTypeOK' /\ StoreTypeOK'
    BY <1>4, StutterTypes DEF EnqueueRequest, GatesTyped, gateVars, askVars
  <2>5. OpsTyped'
    BY <1>2, <1>4, <2>1, MoveTypes DEF EnqueueRequest
  <2> QED
    BY <2>3, <2>4, <2>5
<1>5. CASE MarkQueued(a)
  <2>1. t \in Tasks
    BY <1>1, <1>5 DEF MarkQueued, At
  <2>2. status' \in [Tasks -> Statuses]
    <3>1. Put(status, t, "queued") \in [Tasks -> Statuses]
      BY PutTypes DEF StoreTypeOK, Statuses, Active
    <3> QED
      BY <1>5, <3>1 DEF MarkQueued, StoreTypeOK
  <2>3. StoreTypeOK'
    BY <1>5, <2>2 DEF MarkQueued, StoreTypeOK
  <2>4. OpsTyped'
    BY <1>5, MoveTypes DEF MarkQueued
  <2>5. bootDate' \in SUBSET Tasks
    BY <1>5, <2>1 DEF MarkQueued, GatesTyped
  <2>6. GatesTyped'
    BY <1>5, <2>5 DEF MarkQueued, GatesTyped, gateVars, askVars
  <2> QED
    BY <1>5, <2>3, <2>4, <2>6, StutterTypes DEF MarkQueued
<1> QED
  BY <1>3, <1>4, <1>5 DEF RequestStep

\* A step of enabling, disabling, editing or deleting a task.
LEMMA EditTypes ==
  ASSUME TypeInv, NEW a \in Everyone, EditStep(a)
  PROVE  /\ StoreTypeOK' /\ SchedTypeOK' /\ WorkersHoldRequest' /\ ExecTypeOK'
         /\ OpsTyped' /\ GatesTyped'
<1> /\ StoreTypeOK /\ SchedTypeOK /\ WorkersHoldRequest /\ ExecTypeOK
    /\ OpsTyped /\ GatesTyped
  BY TypeParts
<1> DEFINE o == op[a]
           t == op[a].task
<1>1. /\ o \in Ops /\ o.pc # "idle" /\ t \in Tasks
  BY DEF OpsTyped, EditStep, At, SaveRow, RereadRow, RegisterJob,
         UnregisterJob, DeleteLogs, DeleteRow
<1>2. {"idle", "addjob", "save", "droplogs", "droprow"} \subseteq Pcs \ {"enqueue"}
  BY DEF Pcs
<1>3. GatesTyped' /\ ExecTypeOK'
  BY StutterTypes
  DEF EditStep, SaveRow, RereadRow, RegisterJob, UnregisterJob, DeleteLogs,
      DeleteRow, GatesTyped, gateVars, askVars
<1>4. CASE SaveRow(a)
  <2>1. StoreTypeOK'
    BY <1>1, <1>4 DEF SaveRow, StoreTypeOK, Ops, Statuses, Inactive
  <2>2. [o EXCEPT !.pc = "addjob", !.st = "enabled"] \in Ops
    BY <1>1, <1>2 DEF Ops, Statuses, Inactive
  <2>3. /\ [o EXCEPT !.pc = "addjob", !.st = "enabled"].task = t
        /\ [o EXCEPT !.pc = "addjob", !.st = "enabled"].pc = "addjob"
    BY <1>1 DEF Ops
  <2>4. OpsTyped'
    <3>1. CASE Become(a, [o EXCEPT !.pc = "addjob", !.st = "enabled"])
      BY <1>1, <2>2, <2>3, <3>1, BecomeTypes
    <3>2. CASE Done(a)
      BY <3>2, MoveTypes
    <3> QED
      BY <1>4, <3>1, <3>2 DEF SaveRow
  <2> QED
    BY <1>3, <1>4, <2>1, <2>4, StutterTypes DEF SaveRow
<1>5. CASE RereadRow(a)
  <2> DEFINE p == IF Exists(t) THEN ReadRow(o, t) ELSE o
             q == [p EXCEPT !.pc = "addjob"]
  <2>1. p \in Ops /\ p.task = t
    BY <1>1, ReadRowTypes
  <2>2. q \in Ops /\ q.task = t /\ q.pc = "addjob"
    BY <1>2, <2>1 DEF Ops
  <2>3. Become(a, q)
    BY <1>5 DEF RereadRow
  <2>4. OpsTyped'
    BY <1>1, <2>2, <2>3, BecomeTypes
  <2> QED
    BY <1>3, <1>5, <2>4, StutterTypes DEF RereadRow
<1>6. CASE RegisterJob(a)
  <2>1. jobs' \in SUBSET Tasks /\ stopJobs' \in SUBSET Tasks
    BY <1>1, <1>6 DEF RegisterJob, AddJob, SchedTypeOK
  <2>2. SchedTypeOK' /\ WorkersHoldRequest'
    BY <1>6, <2>1 DEF RegisterJob, SchedTypeOK, WorkersHoldRequest, requestVars
  <2> QED
    BY <1>3, <1>6, <2>2, MoveTypes, StutterTypes DEF RegisterJob
<1>7. CASE UnregisterJob(a)
  <2>1. SchedTypeOK' /\ WorkersHoldRequest'
    BY <1>7
    DEF UnregisterJob, RemoveJob, SchedTypeOK, WorkersHoldRequest, requestVars
  <2> QED
    BY <1>1, <1>2, <1>3, <1>7, <2>1, MoveTypes, StutterTypes DEF UnregisterJob
<1>8. CASE DeleteLogs(a)
  <2>1. StoreTypeOK'
    BY <1>8 DEF DeleteLogs, StoreTypeOK, LogStatuses, Results
  <2> QED
    BY <1>1, <1>2, <1>3, <1>8, <2>1, MoveTypes, StutterTypes DEF DeleteLogs
<1>9. CASE DeleteRow(a)
  <2>1. StoreTypeOK'
    BY <1>9 DEF DeleteRow, StoreTypeOK, Statuses, Results
  <2> QED
    BY <1>3, <1>9, <2>1, MoveTypes, StutterTypes DEF DeleteRow
<1> QED
  BY <1>4, <1>5, <1>6, <1>7, <1>8, <1>9 DEF EditStep

\* A step of one of the four stops keeps the types.
LEMMA StopTypes ==
  ASSUME TypeInv, NEW a \in Everyone, StopStep(a)
  PROVE  /\ StoreTypeOK' /\ SchedTypeOK' /\ WorkersHoldRequest' /\ ExecTypeOK'
         /\ OpsTyped' /\ GatesTyped'
<1> /\ StoreTypeOK /\ SchedTypeOK /\ WorkersHoldRequest /\ ExecTypeOK
    /\ OpsTyped /\ GatesTyped
  BY TypeParts
<1> DEFINE o == op[a]
           t == op[a].task
<1>1. /\ o \in Ops /\ o.pc # "idle" /\ t \in Tasks
  BY DEF OpsTyped, StopStep, At, StopTask, KillVictims, LoadStopRow, MarkByPid,
         KillByPid, ResolveStop, WriteStopRow, FindRunningLog, AbortLog,
         WriteLastRun
<1>2. {"idle", "kill", "loadrow", "pidmark", "pidkill", "resolve", "row", "find",
       "log", "last"} \subseteq Pcs \ {"enqueue"}
  BY DEF Pcs
<1>3. AfterKill(o) \in {"idle", "resolve", "find"} /\ AfterLog(o) \in {"idle", "resolve"}
  BY DEF AfterKill, AfterLog
<1>4. SchedTypeOK' /\ WorkersHoldRequest'
  BY StutterTypes
  DEF StopStep, StopTask, KillVictims, LoadStopRow, MarkByPid, KillByPid,
      ResolveStop, WriteStopRow, FindRunningLog, AbortLog, WriteLastRun
<1>5. ASSUME RecordStop(t), MarkManualStop(t)
      PROVE  /\ stopSeen' \in SUBSET Reqs /\ strays' \in SUBSET Tasks
             /\ marks' \in SUBSET Tasks
  BY <1>1, <1>5 DEF RecordStop, MarkManualStop, GatesTyped, ExecTypeOK
<1>6. ASSUME NEW victims, KillProcesses(victims)
      PROVE  proc' \in [Reqs -> {"none", "alive", "ok", "bad"}]
  BY <1>6 DEF KillProcesses, ExecTypeOK
<1>7. ASSUME NEW victims PROVE AliveAmong(victims) \subseteq Reqs
  BY DEF AliveAmong
<1>8. ASSUME NEW p \in Ops, p.task = t, p.pc # "enqueue", Become(a, p)
      PROVE  OpsTyped'
  BY <1>1, <1>8, BecomeTypes
<1>9. CASE StopTask(a)
  <2>1. StoreTypeOK'
    BY <1>9, StutterTypes DEF StopTask
  <2>2. OpsTyped'
    <3> DEFINE p == [o EXCEPT !.pc = "kill", !.victims = procs[t]]
    <3>1. procs[t] \in SUBSET Pids
      BY <1>1 DEF ExecTypeOK
    <3>2. p \in Ops /\ p.task = t /\ p.pc = "kill"
      BY <1>1, <1>2, <3>1 DEF Ops
    <3>3. CASE Become(a, p)
      BY <1>8, <3>2, <3>3
    <3>4. CASE \E pc \in {"loadrow", "pidmark"} : Proceed(a, pc)
      BY <1>1, <1>2, <3>4, MoveTypes
    <3> QED
      BY <1>9, <3>3, <3>4 DEF StopTask
  <2>3. /\ stopSeen' \in SUBSET Reqs /\ strays' \in SUBSET Tasks
        /\ marks' \in SUBSET Tasks
    BY <1>5, <1>9 DEF StopTask, askVars, GatesTyped, ExecTypeOK
  <2>4. ExecTypeOK'
    BY <1>9, <2>3 DEF StopTask, ExecTypeOK, loopVars, histVars
  <2>5. GatesTyped'
    BY <1>9, <2>3 DEF StopTask, GatesTyped, gateVars
  <2> QED
    BY <1>4, <2>1, <2>2, <2>4, <2>5
<1>10. CASE KillVictims(a)
  <2> DEFINE p(pc) == [o EXCEPT !.pc = pc, !.victims = {}]
  <2>1. \A pc \in {"loadrow", "pidmark"} :
          p(pc) \in Ops /\ p(pc).task = t /\ p(pc).pc = pc
    BY <1>1, <1>2 DEF Ops
  <2>2. \E pc \in {"loadrow", "pidmark"} : Become(a, p(pc))
    BY <1>10 DEF KillVictims
  <2>3. OpsTyped'
    BY <1>8, <2>1, <2>2
  <2>4. proc' \in [Reqs -> {"none", "alive", "ok", "bad"}]
    BY <1>6, <1>10 DEF KillVictims
  <2>5. killed' \in SUBSET Reqs
    BY <1>7, <1>10 DEF KillVictims, ExecTypeOK
  <2>6. ExecTypeOK'
    BY <1>10, <2>4, <2>5 DEF KillVictims, ExecTypeOK
  <2>7. StoreTypeOK' /\ GatesTyped'
    BY <1>10, StutterTypes DEF KillVictims, GatesTyped, gateVars, askVars
  <2> QED
    BY <1>4, <2>3, <2>6, <2>7
<1>11. CASE LoadStopRow(a)
  <2> DEFINE p == [ReadRow(o, t) EXCEPT !.pc = "pidmark"]
  <2>1. p \in Ops /\ p.task = t /\ p.pc = "pidmark"
    BY <1>1, <1>2, ReadRowTypes DEF Ops
  <2>2. OpsTyped'
    BY <1>8, <1>11, <2>1, MoveTypes DEF LoadStopRow
  <2>3. StoreTypeOK' /\ ExecTypeOK' /\ GatesTyped'
    BY <1>11, StutterTypes DEF LoadStopRow, GatesTyped, gateVars, askVars
  <2> QED
    BY <1>4, <2>2, <2>3
<1>12. CASE MarkByPid(a)
  <2>1. OpsTyped'
    BY <1>1, <1>2, <1>3, <1>12, MoveTypes DEF MarkByPid
  <2>2. /\ stopSeen' \in SUBSET Reqs /\ strays' \in SUBSET Tasks
        /\ marks' \in SUBSET Tasks
    BY <1>5, <1>12 DEF MarkByPid, askVars, GatesTyped, ExecTypeOK
  <2>3. ExecTypeOK'
    BY <1>12, <2>2 DEF MarkByPid, ExecTypeOK, loopVars, histVars
  <2>4. StoreTypeOK' /\ GatesTyped'
    BY <1>12, <2>2, StutterTypes DEF MarkByPid, GatesTyped, gateVars
  <2> QED
    BY <1>4, <2>1, <2>3, <2>4
<1>13. CASE KillByPid(a)
  <2>1. OpsTyped'
    BY <1>1, <1>2, <1>3, <1>13, MoveTypes DEF KillByPid
  <2>2. proc' \in [Reqs -> {"none", "alive", "ok", "bad"}]
    BY <1>6, <1>13 DEF KillByPid
  <2>3. killed' \in SUBSET Reqs /\ cliKilled' \in SUBSET Reqs
    BY <1>7, <1>13 DEF KillByPid, ExecTypeOK
  <2>4. ExecTypeOK'
    BY <1>13, <2>2, <2>3 DEF KillByPid, ExecTypeOK
  <2>5. StoreTypeOK' /\ GatesTyped'
    BY <1>13, StutterTypes DEF KillByPid, GatesTyped, gateVars, askVars
  <2> QED
    BY <1>4, <2>1, <2>4, <2>5
<1>14. CASE ResolveStop(a)
  <2> DEFINE s == ResolveTaskInactiveStatus(o.st, o.kind = "cliStop" \/ HasJob(t))
             p == [o EXCEPT !.pc = "row", !.target = s]
  <2>1. s \in Inactive
    BY InactiveType
  <2> HIDE DEF s
  <2>2. p \in Ops /\ p.task = t /\ p.pc = "row"
    BY <1>1, <1>2, <2>1 DEF Ops
  <2>3. Become(a, p)
    BY <1>14 DEF ResolveStop, s
  <2>4. OpsTyped'
    BY <1>8, <2>2, <2>3
  <2>5. StoreTypeOK' /\ ExecTypeOK' /\ GatesTyped'
    BY <1>14, StutterTypes DEF ResolveStop, GatesTyped, gateVars, askVars
  <2> QED
    BY <1>4, <2>4, <2>5
<1>15. CASE WriteStopRow(a)
  <2>1. o.target \in Statuses
    BY <1>1 DEF Ops, Statuses
  <2>2. /\ Put(status, t, o.target) \in [Tasks -> Statuses]
        /\ Put(lastRun, t, "aborted") \in [Tasks -> Results]
        /\ Put(pid, t, NoPid) \in [Tasks -> Pids \cup {NoPid}]
    BY <2>1, PutTypes DEF StoreTypeOK, Results
  <2>3. StoreTypeOK'
    BY <1>15, <2>2 DEF WriteStopRow, StoreTypeOK
  <2>4. OpsTyped'
    BY <1>1, <1>2, <1>15, MoveTypes DEF WriteStopRow
  <2>5. ExecTypeOK' /\ GatesTyped'
    BY <1>15, StutterTypes DEF WriteStopRow, GatesTyped, gateVars, askVars
  <2> QED
    BY <1>4, <2>3, <2>4, <2>5
<1>16. CASE FindRunningLog(a)
  <2> DEFINE p(r) == [o EXCEPT !.pc = "log", !.req = r]
  <2>1. \A r \in NewestRunning(t) :
          p(r) \in Ops /\ p(r).task = t /\ p(r).pc = "log"
    BY <1>1, <1>2 DEF Ops, NewestRunning, RunningLogs
  <2>2. ASSUME NEW r \in NewestRunning(t), Become(a, p(r)) PROVE OpsTyped'
    BY <1>8, <2>1, <2>2
  <2>3. ASSUME DoneOr(a, AfterLog(o)) PROVE OpsTyped'
    BY <1>1, <1>2, <1>3, <2>3, MoveTypes
  <2>4. StoreTypeOK' /\ ExecTypeOK' /\ GatesTyped'
    BY <1>16, StutterTypes DEF FindRunningLog, GatesTyped, gateVars, askVars
  <2> QED
    BY <1>4, <1>16, <2>2, <2>3, <2>4 DEF FindRunningLog
<1>17. CASE AbortLog(a)
  <2>1. StoreTypeOK'
    BY <1>17, PutLogTypes DEF AbortLog, StoreTypeOK, LogStatuses, Results
  <2>2. OpsTyped'
    BY <1>1, <1>2, <1>17, MoveTypes DEF AbortLog
  <2>3. ExecTypeOK' /\ GatesTyped'
    BY <1>17, StutterTypes DEF AbortLog, GatesTyped, gateVars, askVars
  <2> QED
    BY <1>4, <2>1, <2>2, <2>3
<1>18. CASE WriteLastRun(a)
  <2>1. Put(lastRun, t, "aborted") \in [Tasks -> Results]
    BY PutTypes DEF StoreTypeOK, Results
  <2>2. StoreTypeOK'
    BY <1>18, <2>1 DEF WriteLastRun, StoreTypeOK
  <2>3. OpsTyped'
    BY <1>1, <1>2, <1>3, <1>18, MoveTypes DEF WriteLastRun
  <2>4. ExecTypeOK' /\ GatesTyped'
    BY <1>18, StutterTypes DEF WriteLastRun, GatesTyped, gateVars, askVars
  <2> QED
    BY <1>4, <2>2, <2>3, <2>4
<1> QED
  BY <1>9, <1>10, <1>11, <1>12, <1>13, <1>14, <1>15, <1>16, <1>17, <1>18
  DEF StopStep

-----------------------------------------------------------------------------
(* The panel.                                                              *)

\* A step of main keeps the types.
LEMMA LifeTypes ==
  ASSUME TypeInv, Start \/ LifeStep \/ Terminate \/ Crash
  PROVE  /\ StoreTypeOK' /\ SchedTypeOK' /\ WorkersHoldRequest' /\ ExecTypeOK'
         /\ OpsTyped' /\ GatesTyped' /\ PanelTypeOK'
<1> /\ StoreTypeOK /\ SchedTypeOK /\ WorkersHoldRequest /\ ExecTypeOK
    /\ OpsTyped /\ GatesTyped /\ PanelTypeOK
  BY TypeParts
<1>1. ASSUME UNCHANGED op PROVE OpsTyped'
  BY <1>1 DEF OpsTyped, SendersHoldRequest
<1>2. ASSUME UNCHANGED ctlVars PROVE OpsTyped' /\ GatesTyped'
  BY <1>2 DEF OpsTyped, GatesTyped, SendersHoldRequest, ctlVars, gateVars, askVars
<1>3. ASSUME NEW from, NEW to \in Panels, NEW condition, NEW lapse \in Lapses,
             Step(from, to), UNCHANGED lapses \/ Await(condition, lapse)
      PROVE  PanelTypeOK'
  BY <1>3 DEF PanelTypeOK, Step, Await
<1>4. CASE Start
  <2>1. [t \in Tasks |-> ResolveTaskRecoveredStatus(status[t])] \in [Tasks -> Inactive]
    BY InactiveType
  <2>2. StoreTypeOK'
    BY <1>4, <2>1, MarkActiveTypes DEF Start
  <2>3. queue' \in Seq(Reqs) /\ Len(queue') <= QueueSize
    <3>1. queue' = <<>>
      BY <1>4 DEF Start, StartScheduler
    <3> QED
      BY ONLY <3>1, SchedulerAssumption
  <2>4. stopped' \in BOOLEAN
    BY <1>4 DEF Start, StartScheduler
  <2>5. /\ wpc' \in [Workers -> WorkerPcs]
        /\ \A w \in Workers : wpc'[w] = "idle"
        /\ wreq' \in [Workers -> Reqs \cup {NoReq}]
        /\ inFlight' \in [Tasks -> SUBSET Reqs]
    BY <1>4 DEF Start, StartScheduler, WorkerPcs
  <2>6. /\ jobs' \in SUBSET Tasks /\ stopJobs' \in SUBSET Tasks
        /\ bootTodo' \in SUBSET Tasks
    BY <1>4 DEF Start
  <2>7. SchedTypeOK' /\ WorkersHoldRequest'
    BY <1>4, <2>3, <2>4, <2>5, <2>6
    DEF Start, SchedTypeOK, WorkersHoldRequest, requestVars
  <2>8. ticking' \in BOOLEAN
    BY <1>4 DEF Start
  <2>9. GatesTyped'
    BY <1>4, <2>6, <2>8 DEF Start, GatesTyped, askVars
  <2>10. boots' \in 0 .. MaxBoots
    <3>1. boots \in 0 .. MaxBoots /\ boots < MaxBoots /\ boots' = boots + 1
      BY <1>4 DEF Start, PanelTypeOK
    <3> QED
      BY <3>1, PanelAssumption
  <2>11. PanelTypeOK'
    BY <1>4, <2>10 DEF Start, PanelTypeOK, Panels
  <2> QED
    BY <1>1, <1>4, <2>2, <2>7, <2>9, <2>11, StutterTypes DEF Start
<1>5. CASE Serve
  <2>1. PanelTypeOK'
    BY <1>5 DEF Serve, PanelTypeOK, Panels
  <2>2. GatesTyped'
    BY <1>5 DEF Serve, GatesTyped, askVars
  <2> QED
    BY <1>1, <1>5, <2>1, <2>2, StutterTypes DEF Serve
<1>6. CASE Terminate
  <2>1. PanelTypeOK'
    BY <1>6 DEF Terminate, Step, PanelTypeOK, Panels
  <2>2. GatesTyped'
    BY <1>6 DEF Terminate, GatesTyped, askVars
  <2> QED
    BY <1>1, <1>6, <2>1, <2>2, StutterTypes DEF Terminate
<1>7. CASE StopScheduler
  <2>1. PanelTypeOK'
    BY <1>3, <1>7 DEF StopScheduler, Panels, Lapses
  <2>2. stopped' \in BOOLEAN /\ ticking' \in BOOLEAN
    BY <1>7 DEF StopScheduler
  <2>3. GatesTyped'
    BY <1>7, <2>2 DEF StopScheduler, GatesTyped, askVars
  <2>4. SchedTypeOK' /\ WorkersHoldRequest'
    BY <1>7, <2>2
    DEF StopScheduler, SchedTypeOK, WorkersHoldRequest, requestVars, entryVars
  <2> QED
    BY <1>1, <1>7, <2>1, <2>3, <2>4, StutterTypes DEF StopScheduler
<1>8. CASE CronStopped
  <2>1. PanelTypeOK'
    BY <1>3, <1>8 DEF CronStopped, Panels, Lapses
  <2> QED
    BY <1>2, <1>8, <2>1, StutterTypes DEF CronStopped
<1>9. CASE StopAllRunningTasks
  <2>1. PanelTypeOK'
    BY <1>3, <1>9 DEF StopAllRunningTasks, Panels, Lapses
  <2>2. proc' \in [Reqs -> {"none", "alive", "ok", "bad"}]
    BY <1>9 DEF StopAllRunningTasks, KillProcesses, ExecTypeOK
  <2>3. procs' \in [Tasks -> SUBSET Pids]
    BY <1>9 DEF StopAllRunningTasks
  <2>4. ExecTypeOK'
    BY <1>9, <2>2, <2>3 DEF StopAllRunningTasks, ExecTypeOK, histVars
  <2> QED
    BY <1>2, <1>9, <2>1, <2>4, StutterTypes DEF StopAllRunningTasks
<1>10. CASE Wait
  <2>1. PanelTypeOK'
    BY <1>3, <1>10 DEF Wait, Panels, Lapses
  <2> QED
    BY <1>2, <1>10, <2>1, StutterTypes DEF Wait
<1>11. CASE MarkInterrupted
  <2>1. PanelTypeOK'
    BY <1>3, <1>11 DEF MarkInterrupted, Panels, Lapses
  <2>2. [t \in Tasks |-> ResolveTaskInactiveStatus(status[t], HasJob(t))]
          \in [Tasks -> Inactive]
    BY InactiveType
  <2>3. StoreTypeOK'
    BY <1>11, <2>2, MarkActiveTypes DEF MarkInterrupted
  <2> QED
    BY <1>2, <1>11, <2>1, <2>3, StutterTypes DEF MarkInterrupted
<1>12. CASE Exit \/ Crash
  <2>1. Vanish
    BY <1>12 DEF Exit, Crash
  <2>2. PanelTypeOK'
    BY <1>12, <2>1 DEF Exit, Crash, Vanish, PanelTypeOK, Panels, Lapses
  <2>3. queue' \in Seq(Reqs) /\ Len(queue') <= QueueSize
    <3>1. queue' = <<>>
      BY <2>1 DEF Vanish, DropScheduler
    <3> QED
      BY ONLY <3>1, SchedulerAssumption
  <2>4. stopped' \in BOOLEAN
    BY <2>1 DEF Vanish, DropScheduler
  <2>5. /\ wpc' \in [Workers -> WorkerPcs]
        /\ \A w \in Workers : wpc'[w] = "exited"
        /\ wreq' \in [Workers -> Reqs \cup {NoReq}]
        /\ inFlight' \in [Tasks -> SUBSET Reqs]
        /\ jobs' \in SUBSET Tasks /\ stopJobs' \in SUBSET Tasks
    BY <2>1 DEF Vanish, DropScheduler, WorkerPcs
  <2>6. SchedTypeOK' /\ WorkersHoldRequest'
    BY <2>1, <2>3, <2>4, <2>5
    DEF Vanish, SchedTypeOK, WorkersHoldRequest, requestVars
  <2>7. StoreTypeOK'
    BY <2>1, StutterTypes DEF Vanish
  <2>8. ExecTypeOK'
    BY <2>1 DEF Vanish, DropExecutor, ExecTypeOK, RunPcs, histVars
  <2>9. serving' \in BOOLEAN /\ ticking' \in BOOLEAN
    BY <2>1 DEF Vanish
  <2>10. GatesTyped'
    BY <2>1, <2>9 DEF Vanish, GatesTyped, askVars
  <2>11. op' \in [Everyone -> Ops] /\ \A a \in Everyone : op'[a] \in {op[a], NoOp}
    BY <2>1, NoOpType DEF Vanish, OpsTyped
  <2>12. OpsTyped'
    BY <2>11, NoOpType DEF OpsTyped, SendersHoldRequest
  <2> QED
    BY <2>2, <2>6, <2>7, <2>8, <2>10, <2>12
<1> QED
  BY <1>4, <1>5, <1>6, <1>7, <1>8, <1>9, <1>10, <1>11, <1>12 DEF LifeStep

-----------------------------------------------------------------------------
\* Every step of the panel keeps the types.
LEMMA NextTypes == TypeInv /\ [Next]_vars => TypeInv'
<1> SUFFICES ASSUME TypeInv, [Next]_vars PROVE TypeInv'
  OBVIOUS
<1> USE TypeParts
<1>1. /\ OpsTyped' /\ GatesTyped' => ControlTypeOK' /\ SendersHoldRequest'
      /\ StoreTypeOK' /\ SchedTypeOK' /\ ExecTypeOK' /\ ControlTypeOK'
         /\ PanelTypeOK' /\ SendersHoldRequest' /\ WorkersHoldRequest' => TypeInv'
  BY ControlPartsPrime DEF TypeInv, TypeOK
<1>2. ASSUME UNCHANGED ctlVars PROVE OpsTyped' /\ GatesTyped'
  BY <1>2 DEF OpsTyped, GatesTyped, SendersHoldRequest, ctlVars, gateVars, askVars
<1>3. ASSUME NEW w \in Workers, Worker(w) PROVE TypeInv'
  BY <1>1, <1>2, <1>3, SchedulerTypes, ExecutorTypes, StutterTypes DEF Worker
<1>4. ASSUME NEW r \in Reqs, Runner(r) \/ Process(r) PROVE TypeInv'
  <2>1. CASE Process(r)
    BY <1>1, <1>2, <2>1, RunTypes, StutterTypes DEF Process
  <2>2. CASE Runner(r)
    <3>1. GatesTyped'
      BY <2>2 DEF Runner, RecordReading, GatesTyped, gateVars
    <3>2. OpsTyped'
      BY <2>2 DEF Runner, OpsTyped, SendersHoldRequest
    <3> QED
      BY <1>1, <2>2, <3>1, <3>2, RunTypes, StutterTypes DEF Runner
  <2> QED
    BY <1>4, <2>1, <2>2
<1>5. ASSUME NEW a \in Actors, Request(a) PROVE TypeInv'
  BY <1>1, <1>5, BeginTypes, StutterTypes DEF Request
<1>6. ASSUME BootLoop PROVE TypeInv'
  BY <1>1, <1>6, StartupTypes, StutterTypes DEF BootLoop
<1>7. ASSUME NEW a \in Everyone, Operation(a) PROVE TypeInv'
  BY <1>1, <1>7, RequestTypes, EditTypes, StopTypes, StutterTypes
  DEF Operation, ContinueStep
<1>8. ASSUME Start \/ LifeStep \/ Terminate \/ Crash PROVE TypeInv'
  BY <1>1, <1>8, LifeTypes
<1>9. CASE UNCHANGED vars
  BY <1>1, <1>2, <1>9, StutterTypes DEF vars
<1> QED
  BY <1>3, <1>4, <1>5, <1>6, <1>7, <1>8, <1>9 DEF Next

\* The state of the panel is always type correct: every goroutine, row and
\* operation is where the code can be, the queue never holds more than its
\* capacity, and what is in it are requests.
THEOREM TypeCorrect == Spec => []TypeOK
<1>1. TypeInv => TypeOK
  BY DEF TypeInv
<1> QED
  BY <1>1, InitTypes, NextTypes, PTL DEF Spec
=============================================================================
