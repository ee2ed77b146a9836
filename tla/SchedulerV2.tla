---------------------------- MODULE SchedulerV2 ----------------------------
(***************************************************************************)
(* service/scheduler_v2.go: the bounded channel taskQueue, the workers     *)
(* that drain it, the map runningTasks behind the concurrency check, and   *)
(* the cron entries of every task (entryMap, stopEntryMap).                *)
(*                                                                         *)
(* A worker's way through worker() and executeTask() is its wpc:           *)
(*   idle       blocked in the outer select                                *)
(*   taken      holds a request, blocked on the rate limiter               *)
(*   check      about to call checkConcurrency                             *)
(*   admitted   check passed, addRunningTask not yet called                *)
(*   executing, ready, marked, failing, failrow                            *)
(*              inside the executor's callbacks (module TaskExecutor)      *)
(*   leaving    the deferred removeRunningTask                             *)
(*   exited     the goroutine has returned                                 *)
(* Reading and writing runningTasks are two critical sections of           *)
(* runningLock, so they are two steps.                                     *)
(***************************************************************************)
EXTENDS TaskStore, Sequences

CONSTANTS Workers,      \* max_concurrent_tasks goroutines
          QueueSize,    \* capacity of taskQueue (100 in the code)
          MultiTasks,   \* tasks with allow_multiple_instances
          CronTasks,    \* tasks of type cron
          StartupTasks, \* tasks of type startup; the others are manual
          StopTasks     \* cron tasks with a stop_schedule

ASSUME SchedulerAssumption ==
  /\ QueueSize \in Nat \ {0}
  /\ MultiTasks \subseteq Tasks
  /\ CronTasks \subseteq Tasks
  /\ StartupTasks \subseteq Tasks \ CronTasks
  /\ StopTasks \subseteq CronTasks

VARIABLES
  made,     \* how many requests have been built
  rtrig,    \* ExecutionRequest.TriggerType
  rsnap,    \* ExecutionRequest.Task.Status: the row the request was built from
  queue,    \* taskQueue
  stopped,  \* the atomic flag stopped
  wpc,      \* where each worker is
  wreq,     \* the request a worker holds
  inFlight, \* runningTasks
  jobs,     \* the keys of entryMap
  stopJobs  \* the keys of stopEntryMap

requestVars == <<made, rtrig, rsnap>>
entryVars == <<jobs, stopJobs>>
schedVars == <<requestVars, queue, stopped, wpc, wreq, inFlight, entryVars>>

WorkerPcs == {"idle", "taken", "check", "admitted", "executing", "ready",
              "marked", "failing", "failrow", "leaving", "exited"}
Triggers == {"none", "cron", "manual", "startup"}

SchedTypeOK ==
  /\ made \in 0 .. MaxReqs
  /\ rtrig \in [Reqs -> Triggers]
  /\ rsnap \in [Reqs -> Statuses]
  /\ queue \in Seq(Reqs)
  /\ Len(queue) <= QueueSize
  /\ stopped \in BOOLEAN
  /\ wpc \in [Workers -> WorkerPcs]
  /\ wreq \in [Workers -> Reqs \cup {NoReq}]
  /\ inFlight \in [Tasks -> SUBSET Reqs]
  /\ jobs \in SUBSET Tasks
  /\ stopJobs \in SUBSET Tasks

\* No scheduler yet: its channel, maps and workers are made by StartScheduler.
SchedInit ==
  /\ made = 0
  /\ rtrig = [r \in Reqs |-> "none"]
  /\ rsnap = [r \in Reqs |-> "deleted"]
  /\ queue = <<>>
  /\ stopped = FALSE
  /\ wpc = [w \in Workers |-> "exited"]
  /\ wreq = [w \in Workers |-> NoReq]
  /\ inFlight = [t \in Tasks |-> {}]
  /\ jobs = {}
  /\ stopJobs = {}

-----------------------------------------------------------------------------
(* Requests and the queue.  These are fragments: the modules that use them *)
(* say what happens to the other variables.                                *)

\* req := &ExecutionRequest{TaskID: t, Task: &task, TriggerType: trig}, the
\* row having been read with status st.
BuildRequest(t, trig, st) ==
  LET r == made + 1 IN
  /\ made < MaxReqs
  /\ made' = r
  /\ rtask' = [rtask EXCEPT ![r] = t]
  /\ rtrig' = [rtrig EXCEPT ![r] = trig]
  /\ rsnap' = [rsnap EXCEPT ![r] = st]

\* Enqueue: an error when stopped or when the channel is full, else a send.
CanEnqueueUnbounded == ~stopped  \* Mutant: no capacity
CanEnqueue == ~stopped /\ Len(queue) < QueueSize
Enqueue(r) == CanEnqueue /\ queue' = Append(queue, r)
EnqueueFails == ~CanEnqueue /\ UNCHANGED queue

\* Start: the workers go idle; cron.Start is the caller's.
StartScheduler ==
  /\ queue' = <<>>
  /\ stopped' = FALSE
  /\ wpc' = [w \in Workers |-> "idle"]
  /\ wreq' = [w \in Workers |-> NoReq]
  /\ inFlight' = [t \in Tasks |-> {}]

\* The process is gone, and with it the scheduler's memory.
DropScheduler ==
  /\ queue' = <<>>
  /\ stopped' = FALSE
  /\ wpc' = [w \in Workers |-> "exited"]
  /\ wreq' = [w \in Workers |-> NoReq]
  /\ inFlight' = [t \in Tasks |-> {}]
  /\ jobs' = {}
  /\ stopJobs' = {}

-----------------------------------------------------------------------------
(* Cron entries.                                                           *)

HasJob(t) == t \in jobs

\* AddJob(task) for a task struct with status st: the old entries go, and a
\* struct that is not enabled gets none.  Only the last part of the function,
\* reached by enabled cron tasks, touches stopEntryMap.
AddJob(t, st) ==
  /\ jobs' = IF st = "enabled" THEN jobs \cup {t} ELSE jobs \ {t}
  /\ stopJobs' = IF st = "enabled" /\ t \in CronTasks
                 THEN (stopJobs \ {t}) \cup ({t} \cap StopTasks)
                 ELSE stopJobs

RemoveJob(t) ==
  /\ jobs' = jobs \ {t}
  /\ stopJobs' = stopJobs \ {t}

-----------------------------------------------------------------------------
(* The workers.                                                            *)

Goto(w, pc) == wpc' = [wpc EXCEPT ![w] = pc]
Release(w) == wreq' = [wreq EXCEPT ![w] = NoReq]

\* Mutant: the request is looked at, not received.
Peek(w) ==
  /\ wpc[w] = "idle"
  /\ queue # <<>>
  /\ wreq' = [wreq EXCEPT ![w] = Head(queue)]
  /\ Goto(w, "taken")
  /\ UNCHANGED <<requestVars, queue, stopped, inFlight, entryVars>>

Dequeue(w) ==
  /\ wpc[w] = "idle"
  /\ queue # <<>>
  /\ wreq' = [wreq EXCEPT ![w] = Head(queue)]
  /\ queue' = Tail(queue)
  /\ Goto(w, "taken")
  /\ UNCHANGED <<requestVars, stopped, inFlight, entryVars>>

\* The rate limiter ticks and stopped is still unset.
Admit(w) ==
  /\ wpc[w] = "taken"
  /\ ~stopped
  /\ Goto(w, "check")
  /\ UNCHANGED <<requestVars, queue, stopped, wreq, inFlight, entryVars>>

\* Mutant: a worker waiting for the rate limiter does not look at stopCh.
QuitWhenIdle(w) ==
  /\ wpc[w] = "idle"
  /\ stopped
  /\ Goto(w, "exited")
  /\ UNCHANGED <<requestVars, queue, stopped, wreq, inFlight, entryVars>>

\* The four checks of stopped and stopCh: a request in hand is dropped.  (The
\* channel is closed a moment after the flag is set; one flag stands for both.)
Quit(w) ==
  /\ wpc[w] \in {"idle", "taken"}
  /\ stopped
  /\ Goto(w, "exited")
  /\ Release(w)
  /\ UNCHANGED <<requestVars, queue, stopped, inFlight, entryVars>>

\* checkConcurrency(req): a request whose task was not found holds the zero
\* Task, which does not allow several instances.
AllowMultipleInstances(r) == rtask[r] \in MultiTasks /\ rsnap[r] # "deleted"
MayRun(r) == AllowMultipleInstances(r) \/ inFlight[rtask[r]] = {}

CheckConcurrency(w) ==
  /\ wpc[w] = "check"
  /\ \/ MayRun(wreq[w]) /\ Goto(w, "admitted") /\ UNCHANGED wreq
     \/ ~MayRun(wreq[w]) /\ Goto(w, "idle") /\ Release(w)
  /\ UNCHANGED <<requestVars, queue, stopped, inFlight, entryVars>>

AddRunningTask(w) ==
  /\ wpc[w] = "admitted"
  /\ inFlight' = [inFlight EXCEPT ![rtask[wreq[w]]] = @ \cup {wreq[w]}]
  /\ Goto(w, "executing")
  /\ UNCHANGED <<requestVars, queue, stopped, wreq, entryVars>>

RemoveRunningTask(w) ==
  /\ wpc[w] = "leaving"
  /\ inFlight' = [inFlight EXCEPT ![rtask[wreq[w]]] = @ \ {wreq[w]}]
  /\ Goto(w, "idle")
  /\ Release(w)
  /\ UNCHANGED <<requestVars, queue, stopped, entryVars>>

SchedulerStep(w) ==
  /\ \/ Dequeue(w)
     \/ Admit(w)
     \/ Quit(w)
     \/ CheckConcurrency(w)
     \/ AddRunningTask(w)
     \/ RemoveRunningTask(w)
  /\ UNCHANGED storeVars
=============================================================================
