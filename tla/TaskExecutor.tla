---------------------------- MODULE TaskExecutor ----------------------------
(***************************************************************************)
(* service/task_executor.go and service/manual_stop.go: the callbacks a    *)
(* worker makes, the goroutine runTask of every launched request with its  *)
(* retry loop and its deferred settlement, the map runningProcesses and    *)
(* the manual-stop marks.                                                  *)
(*                                                                         *)
(* A run's goroutine is at rpc:                                            *)
(*   none       not launched                                               *)
(*   prepare    before a call of RunCommandWithPlan: hooks, retry sleep    *)
(*   spawned    the process was started, onStart has not registered it     *)
(*   registered in runningProcesses, tasks.pid not yet written             *)
(*   waiting    the call waits for the process                             *)
(*   settle     the loop is over, hooks after it included                  *)
(*   consumed, logged, resolved, stored, done                              *)
(*              the steps of the deferred settlement                       *)
(* A run starts one process after the other (the multi-account mode of     *)
(* runConcurrentCommand, which starts several at once, is not modelled).   *)
(***************************************************************************)
EXTENDS SchedulerV2

CONSTANTS DependsOn    \* tasks.depends_on: a task, or NoTask

ASSUME ExecutorAssumption == DependsOn \in [Tasks -> Tasks \cup {NoTask}]

VARIABLES
  rpc,      \* where the goroutine of each run is
  outcome,  \* the result the run will settle with
  retries,  \* the loop's retries
  deps,     \* the loop's depInstallCount
  attempt,  \* processes the run has started
  proc,     \* the last of them: none, alive, ok (exited 0), bad
  target,   \* the status the settlement resolved, before it is written
  wtarget,  \* the same, in OnTaskFailed of a worker
  procs,    \* runningProcesses
  marks,    \* manualStopMarks
  \* History, read by properties only:
  killed,   \* runs whose live process a stop of this server killed
  cliKilled,\* runs whose live process "ddp task stop" killed
  overlap   \* runs that were under way together with another of their task

loopVars == <<retries, deps, attempt, proc>>
histVars == <<killed, cliKilled, overlap>>
execVars == <<rpc, outcome, loopVars, target, wtarget, procs, marks, histVars>>

RunPcs == {"none", "prepare", "spawned", "registered", "waiting", "settle",
           "consumed", "logged", "resolved", "stored", "done"}
UnderWay == RunPcs \ {"none", "done"}
\* A run that has yet to look for a mark.
Unsettled == {"prepare", "spawned", "registered", "waiting", "settle"}

ExecTypeOK ==
  /\ rpc \in [Reqs -> RunPcs]
  /\ outcome \in [Reqs -> Results]
  /\ retries \in [Reqs -> Nat]
  /\ deps \in [Reqs -> 0 .. MaxDeps]
  /\ attempt \in [Reqs -> Nat]
  /\ proc \in [Reqs -> {"none", "alive", "ok", "bad"}]
  /\ target \in [Reqs -> Inactive]
  /\ wtarget \in [Workers -> Inactive]
  /\ procs \in [Tasks -> SUBSET Pids]
  /\ marks \in SUBSET Tasks
  /\ killed \in SUBSET Reqs
  /\ cliKilled \in SUBSET Reqs
  /\ overlap \in SUBSET Reqs

ExecInit ==
  /\ rpc = [r \in Reqs |-> "none"]
  /\ outcome = [r \in Reqs |-> "none"]
  /\ retries = [r \in Reqs |-> 0]
  /\ deps = [r \in Reqs |-> 0]
  /\ attempt = [r \in Reqs |-> 0]
  /\ proc = [r \in Reqs |-> "none"]
  /\ target = [r \in Reqs |-> "disabled"]
  /\ wtarget = [w \in Workers |-> "disabled"]
  /\ procs = [t \in Tasks |-> {}]
  /\ marks = {}
  /\ killed = {}
  /\ cliKilled = {}
  /\ overlap = {}

-----------------------------------------------------------------------------
(* Callbacks of a worker, between addRunningTask and removeRunningTask.    *)

\* The dependency check of OnTaskExecuting passes unless the other task
\* exists and its last run did not succeed.
DependencyMet(r) ==
  LET d == DependsOn[rtask[r]] IN
  d \in Tasks /\ Exists(d) => lastRun[d] = "success"

\* Dependency check, command parsing (which may fail: the script may be gone;
\* the zero Task has no command) and the random delay.
OnTaskExecuting(w) ==
  /\ wpc[w] = "executing"
  /\ LET r == wreq[w] IN
     \/ DependencyMet(r) /\ rsnap[r] # "deleted" /\ Goto(w, "ready")
     \/ Goto(w, "failing")
  /\ UNCHANGED <<storeVars, requestVars, queue, stopped, wreq, inFlight,
                 entryVars, execVars>>

\* UPDATE status = running; gorm also stores it in the request's own struct.
MarkRunning(w) ==
  LET r == wreq[w] IN
  /\ wpc[w] = "ready"
  /\ status' = Put(status, rtask[r], "running")
  /\ rsnap' = [rsnap EXCEPT ![r] = "running"]
  /\ stamp' = [stamp EXCEPT ![r] = NextStamp]
  /\ Goto(w, "marked")
  /\ UNCHANGED <<lastRun, pid, rtask, log, made, rtrig, queue, stopped, wreq,
                 inFlight, entryVars, execVars>>

\* The log row is created and the goroutine started.
Launch(w) ==
  LET r == wreq[w]
      mates == {q \in Reqs : rtask[q] = rtask[r] /\ rpc[q] \in UnderWay} IN
  /\ wpc[w] = "marked"
  /\ log' = [log EXCEPT ![r] = "running"]
  /\ rpc' = [rpc EXCEPT ![r] = "prepare"]
  /\ overlap' = IF mates = {} THEN overlap ELSE overlap \cup mates \cup {r}
  /\ Goto(w, "leaving")
  /\ UNCHANGED <<status, lastRun, pid, rtask, stamp, requestVars, queue,
                 stopped, wreq, inFlight, entryVars, outcome, loopVars,
                 target, wtarget, procs, marks, killed, cliKilled>>

\* The log file of the run cannot be created: the row is running by now.
LaunchFails(w) ==
  /\ wpc[w] = "marked"
  /\ Goto(w, "failing")
  /\ UNCHANGED <<storeVars, requestVars, queue, stopped, wreq, inFlight,
                 entryVars, execVars>>

\* OnTaskFailed: a failed log, unless the task is the zero Task (its row
\* belongs to no task), and the status resolved from the request's struct.
FailLog(w) ==
  LET r == wreq[w] IN
  /\ wpc[w] = "failing"
  /\ log' = IF rsnap[r] = "deleted" THEN log ELSE [log EXCEPT ![r] = "failed"]
  /\ wtarget' = [wtarget EXCEPT ![w] =
                   ResolveTaskInactiveStatus(rsnap[r], HasJob(rtask[r]))]
  /\ Goto(w, "failrow")
  /\ UNCHANGED <<status, lastRun, pid, rtask, stamp, requestVars, queue,
                 stopped, wreq, inFlight, entryVars, rpc, outcome, loopVars,
                 target, procs, marks, histVars>>

\* Mutant: the row is not made inactive again.
FailRowKeepingStatus(w) ==
  LET t == rtask[wreq[w]] IN
  /\ wpc[w] = "failrow"
  /\ lastRun' = Put(lastRun, t, "failed")
  /\ Goto(w, "leaving")
  /\ UNCHANGED <<status, pid, rtask, log, stamp, requestVars, queue, stopped,
                 wreq, inFlight, entryVars, execVars>>

\* Mutant: a failure ends the worker.
FailRowAndExit(w) ==
  LET t == rtask[wreq[w]] IN
  /\ wpc[w] = "failrow"
  /\ status' = Put(status, t, wtarget[w])
  /\ Goto(w, "exited")
  /\ Release(w)
  /\ UNCHANGED <<lastRun, pid, rtask, log, stamp, requestVars, queue, stopped,
                 inFlight, entryVars, execVars>>

\* The update of the row; for the zero Task gorm refuses it (no condition).
FailRow(w) ==
  LET t == rtask[wreq[w]]
      zero == rsnap[wreq[w]] = "deleted" IN
  /\ wpc[w] = "failrow"
  /\ \/ zero /\ UNCHANGED <<status, lastRun, pid>>
     \/ /\ ~zero
        /\ status' = Put(status, t, wtarget[w])
        /\ lastRun' = Put(lastRun, t, "failed")
        /\ pid' = Put(pid, t, NoPid)
  /\ wtarget' = [wtarget EXCEPT ![w] = "disabled"]
  /\ Goto(w, "leaving")
  /\ UNCHANGED <<rtask, log, stamp, requestVars, queue, stopped, wreq,
                 inFlight, entryVars, rpc, outcome, loopVars, target, procs,
                 marks, histVars>>

ExecutorStep(w) ==
  \/ OnTaskExecuting(w)
  \/ MarkRunning(w)
  \/ Launch(w)
  \/ LaunchFails(w)
  \/ FailLog(w)
  \/ FailRow(w)

-----------------------------------------------------------------------------
(* runTask: the retry loop.                                                *)

RunGoto(r, pc) == rpc' = [rpc EXCEPT ![r] = pc]

\* retries++, and the loop's condition.
Retry(r) ==
  /\ retries' = [retries EXCEPT ![r] = @ + 1]
  /\ \/ retries[r] < MaxRetries /\ RunGoto(r, "prepare") /\ UNCHANGED outcome
     \/ /\ retries[r] >= MaxRetries
        /\ RunGoto(r, "settle")
        /\ outcome' = [outcome EXCEPT ![r] = "failed"]

StartProcess(r) ==
  /\ rpc[r] = "prepare"
  /\ proc' = [proc EXCEPT ![r] = "alive"]
  /\ attempt' = [attempt EXCEPT ![r] = @ + 1]
  /\ RunGoto(r, "spawned")
  /\ UNCHANGED <<storeVars, schedVars, outcome, retries, deps, target,
                 wtarget, procs, marks, histVars>>

\* RunCommandWithPlan returns an error before the process exists.
StartFails(r) ==
  /\ rpc[r] = "prepare"
  /\ Retry(r)
  /\ UNCHANGED <<storeVars, schedVars, deps, attempt, proc, target, wtarget,
                 procs, marks, histVars>>

RegisterRunningProcess(r) ==
  /\ rpc[r] = "spawned"
  /\ procs' = [procs EXCEPT ![rtask[r]] = @ \cup {<<r, attempt[r]>>}]
  /\ RunGoto(r, "registered")
  /\ UNCHANGED <<storeVars, schedVars, outcome, loopVars, target, wtarget,
                 marks, histVars>>

WritePid(r) ==
  /\ rpc[r] = "registered"
  /\ pid' = Put(pid, rtask[r], <<r, attempt[r]>>)
  /\ RunGoto(r, "waiting")
  /\ UNCHANGED <<status, lastRun, rtask, log, stamp, schedVars, outcome,
                 loopVars, target, wtarget, procs, marks, histVars>>

\* The process ends by itself, or the timeout kills it (bad).
ProcessExits(r) ==
  /\ proc[r] = "alive"
  /\ \E result \in {"ok", "bad"} : proc' = [proc EXCEPT ![r] = result]
  /\ UNCHANGED <<storeVars, schedVars, rpc, outcome, retries, deps, attempt,
                 target, wtarget, procs, marks, histVars>>

Succeed(r) ==
  /\ rpc[r] = "waiting"
  /\ proc[r] = "ok"
  /\ outcome' = [outcome EXCEPT ![r] = "success"]
  /\ RunGoto(r, "settle")
  /\ UNCHANGED <<storeVars, schedVars, loopVars, target, wtarget, procs,
                 marks, histVars>>

\* Mutant: the install is not counted.
InstallDepsUncounted(r) ==
  /\ rpc[r] = "waiting"
  /\ proc[r] = "bad"
  /\ deps[r] < MaxDeps
  /\ RunGoto(r, "prepare")
  /\ UNCHANGED <<storeVars, schedVars, outcome, loopVars, target, wtarget,
                 procs, marks, histVars>>

\* detectAndInstallDeps recognises the output and installs something: the
\* loop runs again and retries does not count it.
InstallDeps(r) ==
  /\ rpc[r] = "waiting"
  /\ proc[r] = "bad"
  /\ deps[r] < MaxDeps
  /\ deps' = [deps EXCEPT ![r] = @ + 1]
  /\ RunGoto(r, "prepare")
  /\ UNCHANGED <<storeVars, schedVars, outcome, retries, attempt, proc,
                 target, wtarget, procs, marks, histVars>>

AttemptFails(r) ==
  /\ rpc[r] = "waiting"
  /\ proc[r] = "bad"
  /\ Retry(r)
  /\ UNCHANGED <<storeVars, schedVars, deps, attempt, proc, target, wtarget,
                 procs, marks, histVars>>

-----------------------------------------------------------------------------
(* runTask: the deferred settlement.                                       *)

\* Mutant: the mark is read (Load) and stays.
ApplyWithoutDelete(r) ==
  /\ rpc[r] = "settle"
  /\ outcome' = [outcome EXCEPT ![r] = IF rtask[r] \in marks THEN "aborted" ELSE @]
  /\ RunGoto(r, "consumed")
  /\ UNCHANGED <<storeVars, schedVars, loopVars, target, wtarget, procs,
                 marks, histVars>>

\* applyManualStopOverride: the mark is read and cleared in one operation.
ApplyManualStopOverride(r) ==
  LET t == rtask[r] IN
  /\ rpc[r] = "settle"
  /\ outcome' = [outcome EXCEPT ![r] = IF t \in marks THEN "aborted" ELSE @]
  /\ marks' = marks \ {t}
  /\ RunGoto(r, "consumed")
  /\ UNCHANGED <<storeVars, schedVars, loopVars, target, wtarget, procs,
                 histVars>>

\* Mutant: the log gets the result of the last process.
SettleLogByExit(r) ==
  /\ rpc[r] = "consumed"
  /\ log' = PutLog(r, IF proc[r] = "ok" THEN "success" ELSE "failed")
  /\ RunGoto(r, "logged")
  /\ UNCHANGED <<status, lastRun, pid, rtask, stamp, schedVars, outcome,
                 loopVars, target, wtarget, procs, marks, histVars>>

\* Mutant: the log of a task that is gone is left alone.
SettleLogOfTask(r) ==
  /\ rpc[r] = "consumed"
  /\ log' = IF Exists(rtask[r]) THEN PutLog(r, outcome[r]) ELSE log
  /\ RunGoto(r, "logged")
  /\ UNCHANGED <<status, lastRun, pid, rtask, stamp, schedVars, outcome,
                 loopVars, target, wtarget, procs, marks, histVars>>

SettleLog(r) ==
  /\ rpc[r] = "consumed"
  /\ log' = PutLog(r, outcome[r])
  /\ RunGoto(r, "logged")
  /\ UNCHANGED <<status, lastRun, pid, rtask, stamp, schedVars, outcome,
                 loopVars, target, wtarget, procs, marks, histVars>>

ResolveStatus(r) ==
  /\ rpc[r] = "logged"
  /\ target' = [target EXCEPT ![r] =
                  ResolveTaskInactiveStatus(rsnap[r], HasJob(rtask[r]))]
  /\ RunGoto(r, "resolved")
  /\ UNCHANGED <<storeVars, schedVars, outcome, loopVars, wtarget, procs,
                 marks, histVars>>

\* Mutant: a failed run returns before it resets the row.
SettleRowOfSuccess(r) ==
  LET t == rtask[r] IN
  /\ rpc[r] = "resolved"
  /\ status' = IF outcome[r] = "failed" THEN status ELSE Put(status, t, target[r])
  /\ lastRun' = Put(lastRun, t, outcome[r])
  /\ RunGoto(r, "stored")
  /\ UNCHANGED <<pid, rtask, log, stamp, schedVars, outcome, loopVars, target,
                 wtarget, procs, marks, histVars>>

SettleRow(r) ==
  LET t == rtask[r] IN
  /\ rpc[r] = "resolved"
  /\ status' = Put(status, t, target[r])
  /\ lastRun' = Put(lastRun, t, outcome[r])
  /\ pid' = Put(pid, t, NoPid)
  /\ RunGoto(r, "stored")
  /\ UNCHANGED <<rtask, log, stamp, schedVars, outcome, loopVars, target,
                 wtarget, procs, marks, histVars>>

\* The whole entry of the task goes, whoever registered in it; then the
\* notification, and runWG.Done.
Finish(r) ==
  /\ rpc[r] = "stored"
  /\ procs' = [procs EXCEPT ![rtask[r]] = {}]
  /\ target' = [target EXCEPT ![r] = "disabled"]
  /\ RunGoto(r, "done")
  /\ UNCHANGED <<storeVars, schedVars, outcome, loopVars, wtarget, marks,
                 histVars>>

Settlement(r) ==
  \/ ApplyManualStopOverride(r)
  \/ SettleLog(r)
  \/ ResolveStatus(r)
  \/ SettleRow(r)
  \/ Finish(r)

RunStep(r) ==
  \/ StartProcess(r)
  \/ StartFails(r)
  \/ RegisterRunningProcess(r)
  \/ WritePid(r)
  \/ Succeed(r)
  \/ InstallDeps(r)
  \/ AttemptFails(r)
  \/ Settlement(r)

-----------------------------------------------------------------------------
(* Fragments for those who stop a task.                                    *)

\* The runs whose live process is among a set of pids.
AliveAmong(victims) ==
  {r \in Reqs : proc[r] = "alive" /\ <<r, attempt[r]>> \in victims}

KillProcesses(victims) ==
  proc' = [r \in Reqs |-> IF r \in AliveAmong(victims) THEN "bad" ELSE proc[r]]

ForgetManualStop(t) == marks' = marks \ {t}  \* Mutant: no mark
MarkManualStop(t) == marks' = marks \cup {t}

\* No run has a goroutine any more.  Processes of a server that died are on
\* their own: nothing refers to them after the restart.
DropExecutor ==
  /\ rpc' = [r \in Reqs |-> IF rpc[r] = "none" THEN "none" ELSE "done"]
  /\ proc' = [r \in Reqs |-> "none"]
  /\ procs' = [t \in Tasks |-> {}]
  /\ marks' = {}
=============================================================================
