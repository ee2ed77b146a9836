----------------------------- MODULE TaskPanel -----------------------------
(***************************************************************************)
(* The task subsystem of one panel: main.go's life cycle around            *)
(* InitSchedulerV2 and ShutdownSchedulerV2 of service/scheduler_manager.go,*)
(* composed with the scheduler, the executor and those who control tasks.  *)
(*                                                                         *)
(* The server process is at panel:                                         *)
(*   down      there is none                                               *)
(*   boot      InitSchedulerV2 is in EnqueueStartupTasks                   *)
(*   up        serving                                                     *)
(*   draining  server.Shutdown waits for the handlers in flight            *)
(*   stopping  SchedulerV2.Stop waits for the cron callbacks               *)
(*   joining   SchedulerV2.Stop waits for the workers                      *)
(*   waiting   the processes are killed, Wait waits for the runs           *)
(*   marking   about to call MarkActiveTasksInterrupted                    *)
(*   leaving   about to return from main                                   *)
(* Three of the waits end in a timeout, after which the shutdown goes on   *)
(* while those it waited for are still at work.                            *)
(***************************************************************************)
EXTENDS TaskControl

CONSTANTS MaxBoots,   \* bound: starts of the panel in a behaviour
          Faults,     \* what may happen to it: shutdown, timeout, crash
          TimedTasks  \* tasks with a timeout: their scripts cannot run on

ASSUME PanelAssumption == MaxBoots \in Nat /\ TimedTasks \subseteq Tasks

VARIABLES
  panel,    \* where main is
  boots,    \* how many times the panel was started
  lapses    \* History: the timeouts and crashes so far

panelVars == <<panel, boots, lapses>>
vars == <<storeVars, schedVars, execVars, ctlVars, panelVars>>

Panels == {"down", "boot", "up", "draining", "stopping", "joining", "waiting",
           "marking", "leaving"}
Lapses == {"handlers", "workers", "runs", "crash"}

PanelTypeOK ==
  /\ panel \in Panels
  /\ boots \in 0 .. MaxBoots
  /\ lapses \in SUBSET Lapses

TypeOK ==
  /\ StoreTypeOK
  /\ SchedTypeOK
  /\ ExecTypeOK
  /\ ControlTypeOK
  /\ PanelTypeOK

Init ==
  /\ StoreInit
  /\ SchedInit
  /\ ExecInit
  /\ ControlInit
  /\ panel = "down"
  /\ boots = 0
  /\ lapses = {}

-----------------------------------------------------------------------------
(* Starting.                                                               *)

\* InitSchedulerV2 up to EnqueueStartupTasks, which has made its query.
Start ==
  /\ panel = "down"
  /\ boots < MaxBoots
  /\ panel' = "boot"
  /\ boots' = boots + 1
  /\ MarkActiveTasksInterrupted(
       [t \in Tasks |-> ResolveTaskRecoveredStatus(status[t])])
  /\ StartScheduler
  /\ jobs' = {t \in Tasks : status'[t] = "enabled"}
  /\ stopJobs' = jobs' \cap StopTasks
  /\ ticking' = TRUE
  /\ bootTodo' = (jobs' \cap StartupTasks) \ bootDate
  /\ UNCHANGED <<requestVars, execVars, op, begun, serving, bootDate, askVars, lapses>>

\* The loop of EnqueueStartupTasks is over; the HTTP server starts.
Serve ==
  /\ panel = "boot"
  /\ bootTodo = {} \/ made = MaxReqs  \* the bound: the model gives up here
  /\ op[Boot].pc = "idle"
  /\ panel' = "up"
  /\ serving' = TRUE
  /\ UNCHANGED <<storeVars, schedVars, execVars, op, begun, ticking, bootTodo,
                 bootDate, askVars, boots, lapses>>

-----------------------------------------------------------------------------
(* Stopping.                                                               *)

Step(from, to) == panel = from /\ panel' = to /\ UNCHANGED boots

\* A wait ends when what it waits for is over, or else in a timeout.
Await(condition, lapse) ==
  \/ condition /\ UNCHANGED lapses
  \/ ~condition /\ "timeout" \in Faults /\ lapses' = lapses \cup {lapse}

Idle(kinds) == \A a \in Everyone : op[a].kind \notin kinds

\* SIGTERM: server.Shutdown closes the listener first.
Terminate ==
  /\ "shutdown" \in Faults
  /\ Step("up", "draining")
  /\ serving' = FALSE
  /\ UNCHANGED <<storeVars, schedVars, execVars, op, begun, ticking, bootTodo,
                 bootDate, askVars, lapses>>

\* The handlers are done, or 15 seconds have passed; then stopped.Store(true)
\* and cron.Stop.
StopScheduler ==
  /\ Step("draining", "stopping")
  /\ Await(Idle(HttpKinds), "handlers")
  /\ stopped' = TRUE
  /\ ticking' = FALSE
  /\ UNCHANGED <<storeVars, requestVars, queue, wpc, wreq, inFlight, entryVars,
                 execVars, op, begun, serving, bootTodo, bootDate, askVars>>

\* <-ctx.Done(): the cron callbacks in flight are over; no timeout here.
CronStopped ==
  /\ Step("stopping", "joining")
  /\ Idle(CronKinds)
  /\ UNCHANGED <<storeVars, schedVars, execVars, ctlVars, lapses>>

\* Mutant: the shutdown goes on without the workers.
StopAllAtOnce ==
  /\ Step("joining", "waiting")
  /\ UNCHANGED lapses
  /\ KillProcesses(UNION {procs[t] : t \in Tasks})
  /\ procs' = [t \in Tasks |-> {}]
  /\ UNCHANGED <<storeVars, schedVars, rpc, outcome, retries, deps, attempt,
                 target, wtarget, marks, histVars, ctlVars>>

\* The workers have exited, or 5 seconds have passed; StopAllRunningTasks
\* empties runningProcesses and kills what was in it, without a mark.
StopAllRunningTasks ==
  /\ Step("joining", "waiting")
  /\ Await(\A w \in Workers : wpc[w] = "exited", "workers")
  /\ KillProcesses(UNION {procs[t] : t \in Tasks})
  /\ procs' = [t \in Tasks |-> {}]
  /\ UNCHANGED <<storeVars, schedVars, rpc, outcome, retries, deps, attempt,
                 target, wtarget, marks, histVars, ctlVars>>

\* Mutant: the shutdown goes on without the runs.
DoNotWait ==
  /\ Step("waiting", "marking")
  /\ UNCHANGED <<storeVars, schedVars, execVars, ctlVars, lapses>>

\* Wait(5 * time.Second).
Wait ==
  /\ Step("waiting", "marking")
  /\ Await(\A r \in Reqs : rpc[r] \notin UnderWay, "runs")
  /\ UNCHANGED <<storeVars, schedVars, execVars, ctlVars>>

MarkInterrupted ==
  /\ Step("marking", "leaving")
  /\ MarkActiveTasksInterrupted(
       [t \in Tasks |-> ResolveTaskInactiveStatus(status[t], HasJob(t))])
  /\ UNCHANGED <<schedVars, execVars, ctlVars, lapses>>

\* The process ends, and with it its goroutines; the ddp process goes on.
Vanish ==
  /\ panel' = "down"
  /\ DropScheduler
  /\ DropExecutor
  /\ op' = [a \in Everyone |-> IF op[a].kind = "cliStop" THEN op[a] ELSE NoOp]
  /\ serving' = FALSE
  /\ ticking' = FALSE
  /\ bootTodo' = {}
  /\ strays' = {}
  /\ UNCHANGED <<storeVars, requestVars, outcome, retries, deps, attempt,
                 target, wtarget, histVars, begun, bootDate, stopSeen, boots>>

Exit == panel = "leaving" /\ Vanish /\ UNCHANGED lapses

\* kill -9, a power cut, a signal before main listens for it.
Crash ==
  /\ "crash" \in Faults
  /\ panel # "down"
  /\ Vanish
  /\ lapses' = lapses \cup {"crash"}

-----------------------------------------------------------------------------
Worker(w) ==
  /\ \/ SchedulerStep(w) /\ UNCHANGED execVars
     \/ ExecutorStep(w)
  /\ UNCHANGED <<ctlVars, panelVars>>

Runner(r) ==
  RunStep(r) /\ RecordReading(r) /\ UNCHANGED <<op, gateVars, bootDate, panelVars>>
Process(r) == ProcessExits(r) /\ UNCHANGED <<ctlVars, panelVars>>

Request(a) == (\E t \in Tasks : BeginStep(a, t)) /\ UNCHANGED panelVars
BootLoop == (\E t \in Tasks : StartupBegin(t)) /\ UNCHANGED panelVars
Operation(a) == ContinueStep(a) /\ UNCHANGED panelVars

LifeStep ==
  \/ Serve
  \/ StopScheduler
  \/ CronStopped
  \/ StopAllRunningTasks
  \/ Wait
  \/ MarkInterrupted
  \/ Exit

Next ==
  \/ \E w \in Workers : Worker(w)
  \/ \E r \in Reqs : Runner(r) \/ Process(r)
  \/ \E a \in Actors : Request(a)
  \/ BootLoop
  \/ \E a \in Everyone : Operation(a)
  \/ Start
  \/ LifeStep
  \/ Terminate
  \/ Crash

Spec == Init /\ [][Next]_vars

\* Goroutines are scheduled; a database statement and a hook script return;
\* the rate limiter ticks; the script of a task with a timeout ends, at the
\* latest when the timeout kills it.  Nothing is assumed of a script without a
\* timeout, nor of the environment: requests, ticks, faults, restarts.
Fairness ==
  /\ \A w \in Workers : WF_vars(Worker(w))
  /\ \A r \in Reqs : WF_vars(Runner(r))
  /\ \A r \in Reqs : WF_vars(rtask[r] \in TimedTasks /\ Process(r))
  /\ \A a \in Everyone : WF_vars(Operation(a))
  /\ WF_vars(BootLoop)
  /\ WF_vars(LifeStep)

FairSpec == Spec /\ Fairness
=============================================================================
