----------------------------- MODULE TaskStore -----------------------------
(***************************************************************************)
(* The SQLite rows the task subsystem shares: table tasks (columns status, *)
(* last_run_status and pid) and table task_logs (column status).  Every    *)
(* statement the code issues on them is one atomic step of the modules     *)
(* that extend this one; a read and the write that depends on it are two.  *)
(*                                                                         *)
(* A request to execute a task is a number: the r-th ExecutionRequest the  *)
(* program builds.  A request has at most one log row, so log rows are     *)
(* indexed by request, and rtask[r] is both the request's TaskID and the   *)
(* log row's task_id.                                                      *)
(***************************************************************************)
EXTENDS Integers, FiniteSets

CONSTANTS Tasks,      \* the task ids in the database
          NoTask,     \* the TaskID of a request that has not been built
          MaxReqs,    \* bound: execution requests built in a behaviour
          MaxRetries, \* tasks.max_retries of every task
          MaxDeps     \* automatic dependency installs per run (5 in the code)

ASSUME StoreAssumption ==
  /\ NoTask \notin Tasks
  /\ MaxReqs \in Nat \ {0}
  /\ MaxRetries \in Nat
  /\ MaxDeps \in Nat

VARIABLES
  status,   \* tasks.status; "deleted": there is no such row
  lastRun,  \* tasks.last_run_status
  pid,      \* tasks.pid
  rtask,    \* ExecutionRequest.TaskID, and task_logs.task_id
  log,      \* task_logs.status of the row of a request; "none": no row
  stamp     \* task_logs.started_at of a request, as a position; 0: not started

storeVars == <<status, lastRun, pid, rtask, log, stamp>>

Reqs == 1 .. MaxReqs
NoReq == 0

Inactive == {"disabled", "enabled"}
Active == {"queued", "running"}
Statuses == Inactive \cup Active \cup {"deleted"}
Results == {"none", "success", "failed", "aborted"}
LogStatuses == Results \cup {"running"}

\* Process n of a run: a retried run starts several, one after the other.
Pids == Reqs \X Nat
NoPid == <<0, 0>>

StoreTypeOK ==
  /\ status \in [Tasks -> Statuses]
  /\ lastRun \in [Tasks -> Results]
  /\ pid \in [Tasks -> Pids \cup {NoPid}]
  /\ rtask \in [Reqs -> Tasks \cup {NoTask}]
  /\ log \in [Reqs -> LogStatuses]
  /\ stamp \in [Reqs -> Nat]

\* The database as it may be found: idle tasks with no history.
StoreInit ==
  /\ status \in [Tasks -> Inactive]
  /\ lastRun = [t \in Tasks |-> "none"]
  /\ pid = [t \in Tasks |-> NoPid]
  /\ rtask = [r \in Reqs |-> NoTask]
  /\ log = [r \in Reqs |-> "none"]
  /\ stamp = [r \in Reqs |-> 0]

-----------------------------------------------------------------------------
Exists(t) == status[t] # "deleted"

\* UPDATE tasks SET column = v WHERE id = t: no row, no effect.
Put(column, t, v) == IF Exists(t) THEN [column EXCEPT ![t] = v] ELSE column

\* UPDATE task_logs SET status = v WHERE id = the row of r.
PutLog(r, v) == IF log[r] # "none" THEN [log EXCEPT ![r] = v] ELSE log

\* SELECT ... FROM task_logs WHERE task_id = t AND status = running
\* ORDER BY started_at DESC LIMIT 1: at most one request.
RunningLogs(t) == {r \in Reqs : rtask[r] = t /\ log[r] = "running"}
NewestRunning(t) ==
  {r \in RunningLogs(t) : \A q \in RunningLogs(t) : stamp[q] <= stamp[r]}

\* started_at = time.Now(): later than every earlier one.
NextStamp == Cardinality({r \in Reqs : stamp[r] # 0}) + 1

\* ResolveTaskInactiveStatus on a task read with status st, when hasJob tells
\* whether the scheduler holds its job.
ResolveTaskInactiveStatus(st, hasJob) ==
  IF st \in {"disabled", "deleted"} \/ (st = "running" /\ ~hasJob)
  THEN "disabled" ELSE "enabled"

\* ResolveTaskRecoveredStatus: both branches of its final switch enable.
ResolveTaskRecoveredStatus(st) == IF st = "disabled" THEN "disabled" ELSE "enabled"

\* markActiveTasksInterrupted: every queued or running row is made inactive
\* and failed, and its newest running log closed as failed.  (When a task has
\* no running log a failed one is created; that row is final from the start
\* and no other step looks at it.)
MarkActiveTasksInterrupted(resolve) ==
  LET hit == {t \in Tasks : status[t] \in Active} IN
  /\ status' = [t \in Tasks |-> IF t \in hit THEN resolve[t] ELSE status[t]]
  /\ lastRun' = [t \in Tasks |-> IF t \in hit THEN "failed" ELSE lastRun[t]]
  /\ pid' = [t \in Tasks |-> IF t \in hit THEN NoPid ELSE pid[t]]
  /\ log' = [r \in Reqs |->
               IF \E t \in hit : r \in NewestRunning(t) THEN "failed" ELSE log[r]]
  /\ UNCHANGED <<rtask, stamp>>
=============================================================================
