---------------------------- MODULE TaskControl ----------------------------
(***************************************************************************)
(* Everything that acts on a task from outside its run: the HTTP handlers  *)
(* of handler/task_control.go, task_batch.go and task_mutate.go, the cron  *)
(* callbacks of SchedulerV2.AddJob, stopTaskBySchedule, the start-up loop  *)
(* EnqueueStartupTasks, and the command line "ddp task stop".              *)
(*                                                                         *)
(* Each is a sequence of database statements and critical sections, run by *)
(* an actor: a goroutine of an HTTP request or of cron, the start-up       *)
(* goroutine (Boot), or the ddp process.  op[a] is the operation a is in   *)
(* the middle of: what it has read (st, pid, last), the request it built   *)
(* or the log row it found (req), the processes it took out of             *)
(* runningProcesses (victims), the status it resolved (target), and pc,    *)
(* the step it takes next.                                                 *)
(***************************************************************************)
EXTENDS TaskExecutor

CONSTANTS Actors,   \* goroutines that serve requests, cron and the CLI
          Boot,     \* the goroutine of InitSchedulerV2
          Kinds,    \* the operations the environment may perform
          MaxOps    \* bound: operations performed in a behaviour

ASSUME ControlAssumption == Boot \notin Actors /\ MaxOps \in Nat

VARIABLES
  op,        \* the operation each actor is performing
  begun,     \* how many operations were begun
  serving,   \* the HTTP server accepts requests
  ticking,   \* cron is started
  bootTodo,  \* tasks EnqueueStartupTasks has still to look at
  bootDate,  \* tasks whose last_startup_auto_run_date is today
  \* History, read by properties only:
  stopSeen,  \* runs that had yet to look for a mark when a stop placed one
  strays     \* tasks with a mark that was placed when no such run was there

askVars == <<stopSeen, strays>>
gateVars == <<begun, serving, ticking, bootTodo>>
ctlVars == <<op, gateVars, bootDate, askVars>>

Everyone == Actors \cup {Boot}

HttpKinds == {"run", "enable", "disable", "update", "delete", "stop", "batchStop"}
CronKinds == {"tick", "schedStop"}
AllKinds == HttpKinds \cup CronKinds \cup {"cliStop", "startup"}
Pcs == {"idle", "load", "enqueue", "queued", "save", "addjob", "reread",
        "removejob", "droplogs", "droprow", "exec", "kill", "loadrow",
        "pidmark", "pidkill", "resolve", "row", "find", "log", "last"}

NoOp == [kind |-> "none", pc |-> "idle", task |-> NoTask, st |-> "deleted",
         pid |-> NoPid, last |-> "none", req |-> NoReq, victims |-> {},
         target |-> "disabled"]

Ops == [kind : AllKinds \cup {"none"}, pc : Pcs, task : Tasks \cup {NoTask},
        st : Statuses, pid : Pids \cup {NoPid}, last : Results,
        req : Reqs \cup {NoReq}, victims : SUBSET Pids, target : Inactive]

ControlTypeOK ==
  /\ op \in [Everyone -> Ops]
  /\ \A a \in Everyone : op[a].pc # "idle" => op[a].task \in Tasks
  /\ begun \in 0 .. MaxOps
  /\ serving \in BOOLEAN
  /\ ticking \in BOOLEAN
  /\ bootTodo \in SUBSET Tasks
  /\ bootDate \in SUBSET Tasks
  /\ stopSeen \in SUBSET Reqs
  /\ strays \in SUBSET Tasks

ControlInit ==
  /\ op = [a \in Everyone |-> NoOp]
  /\ begun = 0
  /\ serving = FALSE
  /\ ticking = FALSE
  /\ bootTodo = {}
  /\ bootDate = {}
  /\ stopSeen = {}
  /\ strays = {}

-----------------------------------------------------------------------------
(* Moving an operation on.                                                 *)

At(a, kinds, pc) == op[a].pc = pc /\ op[a].kind \in kinds
Become(a, o) == op' = [op EXCEPT ![a] = o]
Done(a) == Become(a, NoOp)
Proceed(a, pc) == Become(a, [op[a] EXCEPT !.pc = pc])
DoneOr(a, pc) == IF pc = "idle" THEN Done(a) ELSE Proceed(a, pc)

\* The operation as it stands after reading its task's row.
ReadRow(o, t) == [o EXCEPT !.st = status[t], !.pid = pid[t], !.last = lastRun[t]]

Blank(kind, t, pc) == [NoOp EXCEPT !.kind = kind, !.task = t, !.pc = pc]

\* An actor takes up an operation; the environment may do so at any time the
\* HTTP server, or cron, is there to receive it.
Begin(a, o) ==
  /\ op[a].pc = "idle"
  /\ o.kind \in Kinds
  /\ o.kind \in HttpKinds => serving
  /\ o.kind \in CronKinds => ticking
  /\ Become(a, o)
  /\ begun < MaxOps
  /\ begun' = begun + 1
  /\ UNCHANGED <<storeVars, schedVars, execVars, serving, ticking, bootTodo,
                 bootDate, askVars>>

-----------------------------------------------------------------------------
(* Running a task: Run and the batch runs, the cron callback, the start-up *)
(* loop.                                                                   *)

RunBegin(a, t) ==
  /\ status[t] \notin {"deleted", "running"}
  /\ made < MaxReqs
  /\ Begin(a, Blank("run", t, "load"))

TickBegin(a, t) ==
  /\ t \in jobs \cap CronTasks
  /\ made < MaxReqs
  /\ Begin(a, Blank("tick", t, "load"))

\* The loop of EnqueueStartupTasks; its query has built the request's struct.
StartupBegin(t) ==
  /\ op[Boot].pc = "idle"
  /\ t \in bootTodo
  /\ bootTodo' = bootTodo \ {t}
  /\ BuildRequest(t, "startup", "enabled")
  /\ Become(Boot, [Blank("startup", t, "enqueue") EXCEPT !.req = made + 1])
  /\ UNCHANGED <<status, lastRun, pid, log, stamp, queue, stopped, wpc, wreq,
                 inFlight, entryVars, execVars, begun, serving, ticking,
                 bootDate, askVars>>

\* RunNow reads the row again and gives up when it is gone; the cron callback
\* ignores the error and goes on with the zero Task.
LoadTask(a) ==
  LET t == op[a].task
      trig == IF op[a].kind = "tick" THEN "cron" ELSE "manual" IN
  /\ At(a, {"run", "tick"}, "load")
  /\ \/ /\ Exists(t) \/ op[a].kind = "tick"
        /\ BuildRequest(t, trig, status[t])
        /\ Become(a, [op[a] EXCEPT !.pc = "enqueue", !.req = made + 1])
     \/ /\ ~Exists(t) /\ op[a].kind = "run"
        /\ Done(a)
        /\ UNCHANGED <<rtask, requestVars>>
     \/ /\ made = MaxReqs  \* the bound: the model gives up here
        /\ Done(a)
        /\ UNCHANGED <<rtask, requestVars>>
  /\ UNCHANGED <<status, lastRun, pid, log, stamp, queue, stopped, wpc, wreq,
                 inFlight, entryVars, execVars, gateVars, bootDate, askVars>>

EnqueueRequest(a) ==
  /\ At(a, {"run", "tick", "startup"}, "enqueue")
  /\ \/ Enqueue(op[a].req) /\ Proceed(a, "queued")
     \/ EnqueueFails /\ Done(a)
  /\ UNCHANGED <<storeVars, requestVars, stopped, wpc, wreq, inFlight,
                 entryVars, execVars, gateVars, bootDate, askVars>>

\* Mutant: the date of the automatic run is not written.
MarkQueuedWithoutDate(a) ==
  /\ At(a, {"run", "tick", "startup"}, "queued")
  /\ status' = Put(status, op[a].task, "queued")
  /\ Done(a)
  /\ UNCHANGED <<lastRun, pid, rtask, log, stamp, schedVars, execVars,
                 gateVars, bootDate, askVars>>

\* UPDATE status = queued WHERE status != running, after the request was sent;
\* EnqueueStartupTasks has no such condition and writes the date as well.
MarkQueued(a) ==
  LET t == op[a].task IN
  /\ At(a, {"run", "tick", "startup"}, "queued")
  /\ status' = IF op[a].kind # "startup" /\ status[t] = "running"
               THEN status ELSE Put(status, t, "queued")
  /\ bootDate' = IF op[a].kind = "startup" THEN bootDate \cup {t} ELSE bootDate
  /\ Done(a)
  /\ UNCHANGED <<lastRun, pid, rtask, log, stamp, schedVars, execVars,
                 gateVars, askVars>>

-----------------------------------------------------------------------------
(* Enabling, disabling, editing and deleting.                              *)

EnableBegin(a, t) == Exists(t) /\ Begin(a, ReadRow(Blank("enable", t, "save"), t))
DisableBegin(a, t) == Exists(t) /\ Begin(a, ReadRow(Blank("disable", t, "removejob"), t))
UpdateBegin(a, t) == Exists(t) /\ Begin(a, ReadRow(Blank("update", t, "reread"), t))
DeleteBegin(a, t) == Exists(t) /\ Begin(a, Blank("delete", t, "removejob"))

\* database.DB.Save(task): every column of the struct that was read, with its
\* new status.  gorm inserts the row when there is none left to update.
SaveRow(a) ==
  LET o == op[a] IN
  /\ At(a, {"enable", "disable"}, "save")
  /\ status' = [status EXCEPT ![o.task] =
                  IF o.kind = "enable" THEN "enabled" ELSE "disabled"]
  /\ lastRun' = [lastRun EXCEPT ![o.task] = o.last]
  /\ pid' = [pid EXCEPT ![o.task] = o.pid]
  /\ \/ o.kind = "enable" /\ Become(a, [o EXCEPT !.pc = "addjob", !.st = "enabled"])
     \/ o.kind = "disable" /\ Done(a)
  /\ UNCHANGED <<rtask, log, stamp, schedVars, execVars, gateVars, bootDate,
                 askVars>>

\* Update writes its columns (none of those modelled) and reads the row again;
\* when it is gone the struct keeps what was read first.
RereadRow(a) ==
  LET o == op[a] IN
  /\ At(a, {"update"}, "reread")
  /\ Become(a, [IF Exists(o.task) THEN ReadRow(o, o.task) ELSE o
                EXCEPT !.pc = "addjob"])
  /\ UNCHANGED <<storeVars, schedVars, execVars, gateVars, bootDate, askVars>>

RegisterJob(a) ==
  /\ At(a, {"enable", "update"}, "addjob")
  /\ AddJob(op[a].task, op[a].st)
  /\ Done(a)
  /\ UNCHANGED <<storeVars, requestVars, queue, stopped, wpc, wreq, inFlight,
                 execVars, gateVars, bootDate, askVars>>

\* Disabling a task that was running when it was read ends here: "takes
\* effect when the current execution ends".
UnregisterJob(a) ==
  LET o == op[a] IN
  /\ At(a, {"disable", "delete"}, "removejob")
  /\ RemoveJob(o.task)
  /\ DoneOr(a, IF o.kind = "delete" THEN "droplogs"
               ELSE IF o.st = "running" THEN "idle" ELSE "save")
  /\ UNCHANGED <<storeVars, requestVars, queue, stopped, wpc, wreq, inFlight,
                 execVars, gateVars, bootDate, askVars>>

DeleteLogs(a) ==
  /\ At(a, {"delete"}, "droplogs")
  /\ log' = [r \in Reqs |-> IF rtask[r] = op[a].task THEN "none" ELSE log[r]]
  /\ Proceed(a, "droprow")
  /\ UNCHANGED <<status, lastRun, pid, rtask, stamp, schedVars, execVars,
                 gateVars, bootDate, askVars>>

DeleteRow(a) ==
  LET t == op[a].task IN
  /\ At(a, {"delete"}, "droprow")
  /\ status' = [status EXCEPT ![t] = "deleted"]
  /\ lastRun' = [lastRun EXCEPT ![t] = "none"]
  /\ pid' = [pid EXCEPT ![t] = NoPid]
  /\ Done(a)
  /\ UNCHANGED <<rtask, log, stamp, schedVars, execVars, gateVars, bootDate,
                 askVars>>

RequestStep(a) ==
  \/ LoadTask(a)
  \/ EnqueueRequest(a)
  \/ MarkQueued(a)

EditStep(a) ==
  \/ SaveRow(a)
  \/ RereadRow(a)
  \/ RegisterJob(a)
  \/ UnregisterJob(a)
  \/ DeleteLogs(a)
  \/ DeleteRow(a)

-----------------------------------------------------------------------------
(* Stopping a task.  The four entries take these steps, each in its order: *)
(*   stop       exec kill pidmark pidkill resolve row find log last        *)
(*   batchStop  exec kill pidmark pidkill find log last resolve row        *)
(*   schedStop  exec kill loadrow pidmark pidkill, then like stop when the *)
(*              row it loaded was running                                  *)
(*   cliStop    pidkill resolve row find log                               *)

Stops == {"stop", "batchStop", "schedStop", "cliStop"}
ServerStops == Stops \ {"cliStop"}

StopBegin(a, t) == Exists(t) /\ Begin(a, ReadRow(Blank("stop", t, "exec"), t))
BatchStopBegin(a, t) ==
  status[t] = "running" /\ Begin(a, ReadRow(Blank("batchStop", t, "exec"), t))
SchedStopBegin(a, t) == t \in stopJobs /\ Begin(a, Blank("schedStop", t, "exec"))

\* stopTaskNow of the ddp process: it refuses a row without pid.  Its
\* MarkManualStop writes the map of its own process, not the server's.
CliStopBegin(a, t) ==
  pid[t] # NoPid /\ Begin(a, ReadRow(Blank("cliStop", t, "pidkill"), t))

\* History: whom a mark is for, and that its reader takes it away.
RecordStop(t) ==
  LET there == {r \in Reqs : rtask[r] = t /\ rpc[r] \in Unsettled} IN
  /\ stopSeen' = stopSeen \cup there
  /\ strays' = IF there = {} THEN strays \cup {t} ELSE strays

RecordReading(r) ==
  /\ strays' = IF rpc[r] = "settle" THEN strays \ {rtask[r]} ELSE strays
  /\ UNCHANGED stopSeen

\* Where an entry goes once it is done with the processes.
AfterKill(o) ==
  CASE o.kind \in {"stop", "cliStop"} -> "resolve"
    [] o.kind = "batchStop" -> "find"
    [] o.kind = "schedStop" -> IF o.st = "running" THEN "resolve" ELSE "idle"
    [] OTHER -> "idle"
AfterLog(o) == IF o.kind = "batchStop" THEN "resolve" ELSE "idle"

\* StopTask under processLock: the mark is placed and the entry taken; the
\* processes in it are killed next.  (The lock keeps others out of
\* runningProcesses between the two, where they could not tell.)
StopTask(a) ==
  LET o == op[a]
      after == IF o.kind = "schedStop" THEN "loadrow" ELSE "pidmark" IN
  /\ At(a, ServerStops, "exec")
  /\ \/ /\ procs[o.task] # {}
        /\ MarkManualStop(o.task)
        /\ RecordStop(o.task)
        /\ procs' = [procs EXCEPT ![o.task] = {}]
        /\ Become(a, [o EXCEPT !.pc = "kill", !.victims = procs[o.task]])
     \/ /\ procs[o.task] = {}
        /\ Proceed(a, after)
        /\ UNCHANGED <<marks, procs, askVars>>
  /\ UNCHANGED <<storeVars, schedVars, rpc, outcome, loopVars, target, wtarget,
                 histVars, gateVars, bootDate>>

KillVictims(a) ==
  LET o == op[a]
      after == IF o.kind = "schedStop" THEN "loadrow" ELSE "pidmark" IN
  /\ At(a, ServerStops, "kill")
  /\ KillProcesses(o.victims)
  /\ killed' = killed \cup AliveAmong(o.victims)
  /\ Become(a, [o EXCEPT !.pc = after, !.victims = {}])
  /\ UNCHANGED <<storeVars, schedVars, rpc, outcome, retries, deps, attempt,
                 target, wtarget, procs, marks, cliKilled, overlap, gateVars,
                 bootDate, askVars>>

\* stopTaskBySchedule reads the row only now.
LoadStopRow(a) ==
  LET o == op[a] IN
  /\ At(a, {"schedStop"}, "loadrow")
  /\ \/ Exists(o.task) /\ Become(a, [ReadRow(o, o.task) EXCEPT !.pc = "pidmark"])
     \/ ~Exists(o.task) /\ Done(a)
  /\ UNCHANGED <<storeVars, schedVars, execVars, gateVars, bootDate, askVars>>

\* The fallback by the pid that was read: mark, then kill.
MarkByPid(a) ==
  LET o == op[a] IN
  /\ At(a, ServerStops, "pidmark")
  /\ \/ /\ o.pid # NoPid
        /\ MarkManualStop(o.task)
        /\ RecordStop(o.task)
        /\ Proceed(a, "pidkill")
     \/ /\ o.pid = NoPid
        /\ DoneOr(a, AfterKill(o))
        /\ UNCHANGED <<marks, askVars>>
  /\ UNCHANGED <<storeVars, schedVars, rpc, outcome, loopVars, target, wtarget,
                 procs, histVars, gateVars, bootDate>>

KillByPid(a) ==
  LET o == op[a] IN
  /\ At(a, Stops, "pidkill")
  /\ KillProcesses({o.pid})
  /\ IF o.kind = "cliStop"
     THEN cliKilled' = cliKilled \cup AliveAmong({o.pid}) /\ UNCHANGED killed
     ELSE killed' = killed \cup AliveAmong({o.pid}) /\ UNCHANGED cliKilled
  /\ DoneOr(a, AfterKill(o))
  /\ UNCHANGED <<storeVars, schedVars, rpc, outcome, retries, deps, attempt,
                 target, wtarget, procs, marks, overlap, gateVars, bootDate,
                 askVars>>

\* The inactive status; the ddp process has no scheduler to ask for a job.
ResolveStop(a) ==
  LET o == op[a] IN
  /\ At(a, Stops, "resolve")
  /\ Become(a, [o EXCEPT !.pc = "row", !.target =
         ResolveTaskInactiveStatus(o.st, o.kind = "cliStop" \/ HasJob(o.task))])
  /\ UNCHANGED <<storeVars, schedVars, execVars, gateVars, bootDate, askVars>>

WriteStopRow(a) ==
  LET o == op[a] IN
  /\ At(a, Stops, "row")
  /\ status' = Put(status, o.task, o.target)
  /\ lastRun' = Put(lastRun, o.task, "aborted")
  /\ pid' = Put(pid, o.task, NoPid)
  /\ DoneOr(a, IF o.kind = "batchStop" THEN "idle" ELSE "find")
  /\ UNCHANGED <<rtask, log, stamp, schedVars, execVars, gateVars, bootDate,
                 askVars>>

FindRunningLog(a) ==
  LET o == op[a] IN
  /\ At(a, Stops, "find")
  /\ \/ \E r \in NewestRunning(o.task) :
           Become(a, [o EXCEPT !.pc = "log", !.req = r])
     \/ NewestRunning(o.task) = {} /\ DoneOr(a, AfterLog(o))
  /\ UNCHANGED <<storeVars, schedVars, execVars, gateVars, bootDate, askVars>>

AbortLog(a) ==
  LET o == op[a] IN
  /\ At(a, Stops, "log")
  /\ log' = PutLog(o.req, "aborted")
  /\ DoneOr(a, IF o.kind = "cliStop" THEN "idle" ELSE "last")
  /\ UNCHANGED <<status, lastRun, pid, rtask, stamp, schedVars, execVars,
                 gateVars, bootDate, askVars>>

WriteLastRun(a) ==
  LET o == op[a] IN
  /\ At(a, ServerStops, "last")
  /\ lastRun' = Put(lastRun, o.task, "aborted")
  /\ DoneOr(a, AfterLog(o))
  /\ UNCHANGED <<status, pid, rtask, log, stamp, schedVars, execVars, gateVars,
                 bootDate, askVars>>

StopStep(a) ==
  \/ StopTask(a)
  \/ KillVictims(a)
  \/ LoadStopRow(a)
  \/ MarkByPid(a)
  \/ KillByPid(a)
  \/ ResolveStop(a)
  \/ WriteStopRow(a)
  \/ FindRunningLog(a)
  \/ AbortLog(a)
  \/ WriteLastRun(a)

BeginStep(a, t) ==
  \/ RunBegin(a, t)
  \/ TickBegin(a, t)
  \/ EnableBegin(a, t)
  \/ DisableBegin(a, t)
  \/ UpdateBegin(a, t)
  \/ DeleteBegin(a, t)
  \/ StopBegin(a, t)
  \/ BatchStopBegin(a, t)
  \/ SchedStopBegin(a, t)
  \/ CliStopBegin(a, t)

ContinueStep(a) ==
  \/ RequestStep(a)
  \/ EditStep(a)
  \/ StopStep(a)
=============================================================================
