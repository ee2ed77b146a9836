# A verification project for Daidai Panel

Daidai Panel is a panel for timed scripts: a Go server (`src/server`) with a
SQLite database, a web front end, an Android shell and a command line `ddp`.
It runs scripts by schedule, pulls them from git repositories, installs what
they need, keeps their logs, backs itself up and updates itself.  This directory
models these parts in TLA+, checks them with TLC on small instances, and proves
thirty-two theorems about them with TLAPS for every instance.

Contents: 1 inventory, 2 modules, 3 runs, 4 fairness, 5 proofs, 6 what is left
out, 7 disagreements with the documentation, 8 plan.  Paths are below
`src/server` unless they say otherwise.

## 1. Inventory of the system

| Component | State | Operations | How it interacts | What makes it correct |
|---|---|---|---|---|
| **Task rows** `model/task.go`, `task_log.go`, `service/task_status.go`, `task_lifecycle.go` | tables `tasks` (status, last_run_status, pid) and `task_logs` | single SQL statements; recovery and interruption of active rows | shared by everything below; no transactions, so a read and the write based on it are two steps | an active row or log always has somebody who will close it |
| **SchedulerV2** `service/scheduler_v2.go` | channel `taskQueue`, workers, `runningTasks`, cron entries, flag `stopped` | Enqueue, worker loop, concurrency check, AddJob/RemoveJob, RunNow, EnqueueStartupTasks, Stop | cron callbacks and HTTP handlers send; workers call the executor | a request is executed at most once and the queue loses none silently; Stop ends |
| **TaskExecutor** `service/task_executor.go`, `manual_stop.go` | `runningProcesses`, manual-stop marks, a goroutine per run with its retry loop | OnTaskExecuting, OnTaskFailed, runTask and its settlement, StopTask, StopAllRunningTasks, Wait | called by workers, stops, the shutdown | a stopped run is aborted, another is not; retries are bounded; rows are reset |
| **Task handlers** `handler/task_control.go`, `task_batch.go`, `task_mutate.go` | none of their own | run, stop, enable, disable, update, delete, batches | several at once, each a sequence of statements and calls | concurrent edits and runs leave no stuck row |
| **Life cycle** `main.go`, `service/scheduler_manager.go` | the process | start with recovery, SIGTERM, shutdown with three timeouts, crash | calls scheduler and executor in order | after a clean shutdown nothing is active |
| **Managed commands** `service/script_runner.go`, `runtime_exec.go` | the child with its pipe, reader, waiter and timer; temporary files; the `node_modules` link of a directory | prepare, start, write, end, time out, clean up | started by runs, hooks and debug runs; directories are shared | a command with a timeout ends; it leaves no files behind |
| **Accounts** `service/task_env_values.go`, `script_runner.go` | the values of one variable; the accounts a command names | join, split, pick, run concurrently | reads the variables, starts one command per account | the n-th account is the n-th variable, whatever it contains |
| **Environment variables** `handler/env.go`, `cmd/ddp/env_commands.go` | sort order and position of each row | create, import, delete, sort, move to the top and back | concurrent requests and `ddp` | a move changes the order of one variable only |
| **Dependency manager** `handler/deps.go`, `service/dependency_*.go` | rows (queued, installing, removing, ...), cancel functions, log broadcasters, two package mutexes | create, delete, reinstall, batches, cancel, automatic install, reinstall after a restore, reconciliation | a goroutine per operation or batch | one operation per package tool; no busy row without an operation; the rows are true after a start |
| **Python environments** `service/runtime_exec.go`, `python_runtime.go`, `appboot/appboot.go` | directories of each version and of older layouts, the rows' versions, a mutex | migration at a start, making, repair and replacement on demand | used by commands and by the dependency manager | an environment that works is not taken away |
| **Android runtimes** `handler/android_runtime.go` | files of a runtime, a mutex | install, uninstall, status | requests | the files come from one release |
| **Subscriptions** `handler/subscription.go`, `service/subscription*.go`, `git_auth.go` | row, cron entry, the slot of the running pull, working tree and `.git`, live log, tasks | pull, stop, hook, task synchronisation, the page's requests, cron | several pulls try for one slot; creates and deletes tasks | one pull at a time that can be stopped; the tree follows the remote and keeps what it should |
| **Debug runs** `handler/script_debug.go`, `script_runtime.go`, `script_run_code.go` | table of runs, a command and a status each; temporary scripts | start, stop, clear, install and retry | a goroutine per run | a stopped run stays stopped |
| **Log streams** `service/tiny_log.go`, `log_manager.go`, `log_cleanup.go`, `handler/log.go` | live log, its file, its row, the readers' channels | write, subscribe, follow, close, clean up | written by runs, read by HTTP | readers see the output in order and learn the end |
| **Backup and restore** `service/backup_*.go`, `restore_progress.go` | archives, progress record, cron entry, directories | backup by hand and by schedule, restore, reload of the schedulers | server and `ddp` side by side | a restore delivers its archive; no directory is half restored |
| **System update** `handler/system_update*.go` | update state, pending version, the helper that outlives the panel | by hand, by `ddp`, daily | replaces and restarts the process | an update ends, is announced once, and the panel comes back |
| Sessions, login, rate limits `service/auth.go`, `login_security.go`, `middleware/` | session and attempt rows, counters | login, refresh, count | HTTP middleware | counters count, refreshed tokens replace |
| Everything else (notifier, mirrors, open API, files, users, config, resource monitor, legacy `service/scheduler.go`, web, Android and Magisk shells) | rows and files | request-to-row, I/O | - | - |

What is hard here: almost nothing is transactional; a status is written by the
scheduler, the executor, several handlers, the command line and the recovery; a
goroutine decides by a copy of a row that it read long ago; marks, slots, locks
and broadcasters are per task, subscription or row rather than per run; package
tools, git commands, restores and updates end half-way; the panel may end
between any two steps and starts from what it finds.  `PROJECT.json` lists each
hazard at its line, with the properties that cover it.

## 2. The modules

```
TaskStore > SchedulerV2 > TaskExecutor > TaskControl > TaskPanel     RunLedger
                                                        |                ^ refinement
            MCTaskPanel <----------- TaskPanelProps <---+----------------+
            TaskPanelProps > TaskPanelTypes > TaskPanelProofs > TaskRunProofs > TaskStopProofs

DependencyManager > DependencyPanel > DependencyProps > MCDependencies, DependencyProofs
GitPull > SubscriptionPull > SubscriptionPanel > SubscriptionProps > MCSubscriptions, PullProofs
PanelBackup > BackupProps > MCBackup < QingLongImport
PanelUpdate > UpdateProps          ScriptDebug > DebugProps
LogStream > LogProps               ManagedCommand > CommandProps
EnvVariables > EnvProps            AndroidRuntime > AndroidProps
TaskAccounts > EnvProps            PythonVenv > VenvProps

ServiceProofs = proofs about Android, Debug, Command, Log
UpkeepProofs  = proofs about Venv, Update, Backup, Env, Accounts

MCServices   = Env, Debug, Accounts, Command, Android, Venv, one at a time
MCBackground = MCDependencies, Update, Log, Command, one at a time
```

`>` is EXTENDS read from the extended module.  Every component has a module (or
a chain of them) with its state and actions, a `...Props` module with what it
must guarantee; the proofs about tasks, dependencies and subscriptions have
modules of their own, those about the smaller components share two.  The
components that share state are composed: tasks with scheduler, executor,
handlers, command line and life cycle; dependencies with requests, scripts,
restores and restarts; pulls with the page's requests, the cron and the tasks;
restores with the schedule, the schedulers and `ddp`.  A step of a model is one
SQL statement or transaction, one critical section, one channel operation, one
external command or one signal; between two of them anything else may happen.

### Tasks

- **TaskStore**: `status`, `lastRun`, `pid` are columns of `tasks`; `rtask`,
  `log`, `stamp` describe the log row of each request (a request has at most
  one).  `MarkActiveTasksInterrupted` is recovery and interruption.  `Put` is an
  UPDATE by id: nothing happens when the row is gone.
- **SchedulerV2**: `queue`, `stopped`, `inFlight` (`runningTasks`), `jobs` and
  `stopJobs` (keys of the entry maps), `wpc`/`wreq` per worker.  `rsnap` is the
  status in the request's copy of the row, which gorm updates when the executor
  marks it running and nothing else updates.
- **TaskExecutor**: `rpc`, `outcome`, `retries`, `deps`, `attempt`, `proc` per
  run, `procs` (`runningProcesses`), `marks`.  The settlement is five steps:
  consume the mark, write the log, resolve the status, write the row, empty the
  entry.  `killed`, `cliKilled`, `overlap` are history for the properties; so are
  `stopSeen` (the runs that had yet to look for their mark when a stop marked their
  task) and `strays` (the tasks that were marked when no such run was there, until a
  run reads the mark or the process ends), which TaskControl keeps.
- **TaskControl**: `op[a]` is the operation an actor is in the middle of, with
  what it has read.  The four stops share their steps and differ in order; the
  comment above `Stops` gives each order.
- **TaskPanel**: `panel` is where `main` is; `lapses` records which waits timed
  out and whether there was a crash.
- **RunLedger**: the abstract specification: requests go free, built, sent,
  taken, running, closed; a script lives only in a running request.

Decisions: a request is the number of the r-th `ExecutionRequest`; a pid is a
pair of request and attempt, so it is never reused.  Timing is nondeterminism.
Recovery and interruption are one step although the code loops over the rows:
no worker exists at recovery, and at shutdown only a straggler after a timeout
could come in between.  `stopped` and `stopCh` are one flag; taking
`runningProcesses` and killing what was in it is one step in the shutdown and
two in a stop; `globalScheduler = nil` happens with the end of the process.  All
starts fall on one day, since `StartupOncePerDay` is about a single day.  The
legacy scheduler is never initialised, so the second branch of `Stop`
(`handler/task_control.go:96-100`) is not taken.  A task whose row was not found
when its cron callback read it is gorm's zero `Task` (`rsnap = "deleted"`): no
command, no several instances, and gorm refuses the update for lack of a
condition.

### Dependencies, environments, runtimes

- **DependencyManager**: `row` is the status column (`stranded` is history: rows
  nobody will write again before the next start, until somebody does); what is
  really installed is kept apart in `present`, and a package tool that does not
  succeed (it fails, is cancelled or is ended by its timeout) may have done its work
  or not.  `op[o]` is a goroutine with its kind, row, place and context; `opOf`
  is `depOperations`, `stream` is `depLogStreams`, `nodeLock` and `linuxLock` are
  the mutexes.  A batch is an operation with a list of rows still to do.
- **DependencyPanel**: the requests, with what each handler has read before it
  writes; automatic installs; a restore, which commits its rows
  (`restoreDependencies`), then restores scripts, logs and mirrors, and only at the
  end starts the reinstall (`dependencyReinstallBatchFunc`), unless one of the three
  fails and it returns (`RestoreFails`); the merge of two spellings of one python
  package; `Boot`, the reconciliation.  A send on a closed channel
  sets `panicked` and ends the process, as in Go.
- **PythonVenv**: a directory is absent, a shell without `bin`, or an
  environment with the version its interpreter reports, whether pip answers and
  the packages in it.  The four layouts of earlier releases are four functions;
  the initial states are every combination of them.  `Boot` is one thread among
  those that want an environment.  Versions that the image lacks are cleaned up.
- **AndroidRuntime**: a runtime is a function from entries to the release they
  come from; an installation removes, downloads, unpacks entry by entry, verifies.

### Subscriptions

- **GitPull**: the working tree, index, HEAD, FETCH_HEAD, stash and sparse
  setting of one repository, and the list of commands (`PlanFor`, `NextPlan`)
  the code goes through.  A file's content is a number: none, that of a commit,
  the user's, or a conflict.  Git's commands are external and modelled as far as
  the panel relies on them, including what a killed one leaves.
- **SubscriptionPull**: the slot (`running`), a pull's steps from `PullCheck` to
  `finishSubscriptionPull`, the hook, the tasks that are created, adopted or
  deleted, the broadcaster.  `early` is history: the pull was stopped before its
  last look at the context.
- **SubscriptionPanel**: the page's other requests as lists of steps (`StepsOf`),
  edits by the user, pushes to the remote, crashes.

### Backups and updates

- **PanelBackup**: `db` has the tables with rows that refer to each other by id;
  `restoreTasks` and its siblings translate ids, and write `on` where the code leaves
  a switch to the default of its column; a directory is filled beside the
  live one and switched by two renames.  Server and `ddp` have a progress record
  each.  `clean` says that nobody disturbed a restore.
- **QingLongImport**: the manifest that a QingLong backup becomes; MCBackup
  restores one made by it.
- **PanelUpdate**: a deployment is docker, a binary, or a binary under systemd.
  An update's steps may each fail (bounded by `MaxUpdateFaults`); the helper is a
  process of its own, and under systemd it ends with the service.

### Runs and their data

- **ManagedCommand**: for each form of command the list of its preparation
  steps, and for each step what its early return takes back (`Undone`).  A step that
  fails while it writes a file may leave a part of it (`PreparationFails`).  The
  pipe, the reader, `cmd.Wait`, the timer and the deferred cleanup are separate.
- **TaskAccounts**: `joinTaskEnvValues`, `splitTaskEnvValues` and the resolution
  of ranges as functions of sequences of characters `&`, escape and other.  A
  joined value that reads as a JSON array of strings, which the code parses as
  one, is left out.
- **EnvVariables**: rows are sort order and position; a request is a sequence of
  reads and writes, with the ids it has read.  `orderedEnvQuery` is the sequence
  of the ids, each once, in ascending order; it exists and is unique because the
  order falls back on the id.
- **LogStream**: output is a sequence of bytes, two to a character, in chunks
  cut anywhere; windows poll, take the history, subscribe, miss chunks when
  their channel is full, and reconnect.  The remainder buffer that a cut
  character shares with the chunk is modelled byte by byte.  Output may come as long
  as the panel lives: nobody waits for those who read the output of hooks and inline
  scripts, so `Write` stays possible when the file was closed (`CloseStream`), the
  TinyLog was closed and the row is settled.
- **ScriptDebug**: `trial` is a debug run with its goroutine; ids are made of
  the clock and may be equal, as in the code.

## 3. The runs

No run checks deadlock: once the bounds on requests, operations and starts are
used up a model stops, and a panel that is down may stay down.

| Run | Instance | Properties | Shows |
|---|---|---|---|
| `stop` | 1 cron task with a stop schedule, 1 request, 1 retry, 1 worker, 2 actors, 3 operations | `KilledRunAborts`, `KilledLogFinal` | a run that a stop killed settles as aborted in row and log, in every interleaving of two stops with it |
| `edit` | 1 cron task that allows several instances, 2 requests, queue of 1, 2 actors, 3 operations, 2 starts; the scene is either `edit` (tick, enable, disable, update, delete) or `later` (tick and stop, shutdown, crash) | `RunningHasOwner`, `RunningLogHasOwner`, `AbortedOnlyIfStopAsked` | edits, deletions and overlapping runs leave no running row or log without an owner; what a shutdown, a timeout, a crash or the stop of an earlier run has killed or marked does not read as aborted |
| `life` | a start-up task and a task that depends on it, 2 requests, 2 starts, shutdown, timeouts, crash | `CleanShutdown`, `StartupOncePerDay`, `NoLaunchAfterStop` | the order of the shutdown leaves nothing behind; restarts do not repeat start-up tasks |
| `ledger` | 1 start-up task, 2 requests, 2 workers, queue of 1, 1 install, crash, 2 starts | `TypeOK`, `AttemptsBounded`, `ImplementsRunLedger` | scheduler and executor implement `RunLedger` |
| `live` | 1 cron task, 2 requests, stops by schedule, batch and ddp, shutdown, crash | `RequestsEnd`, `RunningRowIsReset`, `ShutdownEnds` | progress of tasks |
| `deps` | a node package, two spellings of a python package; 2 operations, 2 requests, 1 reader, 1 restart | `PackageToolsSerialised`, `BusyRowHasOwner`, `ReconciledRowsAreTrue` | package tools run one at a time, a busy row has an operation, the reconciliation leaves no wrong row |
| `pull` | 2 pulls, 2 other requests of any kind, 1 reader, 1 file and commit | `PullSlotExact`, `StoppedPullFails`, `JobMatchesRow` | one pull in the slot; a stopped pull does not succeed; the cron follows the row |
| `git` | 2 pulls in succession, any directory, 2 files, 2 commits, 1 edit by the user, 1 failing command or crash, 1 change of filter or overwriting | `SuccessIsUpToDate`, `TasksFollowRemote`, `KeepsLocalWork` | success means up to date, local work is kept, the tasks follow the remote |
| `backup` | 2 restores (web and ddp), 1 backup (by hand or scheduled), 1 edit, crashes; 2 rows per table; a QingLong archive | `LiveDirectoryWhole`, `RestoreDelivers` | a completed restore has delivered its archive with new ids; no directory is half restored |
| `services` | MCServices, see below | `DoneRunIsDead`, `AccountsAreRows`, `LeavesNoFiles`, `OneReleasePerRuntime`, `RowsFollowPackages`, `KeepsPageOrder`, `WorkingEnvironmentStays` | safety of six independent parts |
| `background` | MCBackground, see below | `PendingHasOwner`, `ShownInOrder`, `SettledLogIsWhole`, `BusyRowsSettle`, `UpdatesEnd`, `UpdateRestarts`, `SubscribersLearnTheEnd`, `CommandsEnd` | what must end, ends |
| `doc_debug_retry` | 2 debug runs, 2 installs | `RetryFindsScript` (violated) | section 7 |

`services` and `background` check modules that have no variable in common on one
run.  `part` says which of them moves; the variables of the others keep one
initial value, so a behaviour is one of one part.  As no action of a part reads
or writes a variable of another, what holds of each alone holds of every
interleaving.

- `services`: 2 requests that move up to 3 variables whose positions may be
  equal; 2 debug runs with 1 install; lists of up to 2 values of up to two
  characters (and one with `&&`) and of 3 that are empty or begin with `&` or not,
  with missing, swapped and overlapping ranges;
  2 commands (ts-node, Go, inline) in one directory; 2 installations of 2
  releases with an executable that is neither the first nor the last entry; 2
  threads, 2 python versions, an image with both and one with a single version,
  1 bootstrap command that yields the wrong version, 1 fault.
- `background`: a python and a linux package, 2 requests, among them a restore
  that may fail after its commit, 1 restart; docker and
  binary updates, mirrored, with 2 updates and 1 fault; 2 characters in chunks
  of up to 3 bytes, a file of 3, a buffer of 4, a channel of 1, output that comes
  before or after each step of the end, one window that reconnects once; 1 command.

Why the bounds are enough: marks, rows, slots, broadcasters, links and mutexes
are per task, subscription, row or directory, so one of those and two
contenders show every conflict about it; a third operation gives a successor.
A queue of one is full after one request, a channel of one after one chunk.
One retry tells a killed attempt from a killed run.  Two starts are one restart.
One fault, at any step, is the single failure whose handling the code shows; a
second pull or update meets what it left.  `stop` has a single request because
overlapping runs are excluded from its properties; `later` has a second one that
begins when the first has settled, with the panel stopped and started in between
or not, for the mark that the first may leave: its operations come one at a time,
since `stop` interleaves them, and nobody stops the second run.  In `edit` the runs overlap
but the two ticks do not, which the schedule has a second apart.  What the two
scenes leave out of each other is covered by the proofs, which know of no scenes.
Two values of two characters put a separator, an escape or both at every place of a value, and a third one
stands between others.  Where a property
excludes states (`~raced`, `clean`, `late`, `logRun.cuts`, `faults = 0`), the
comment above it says which behaviour is meant, and the rest is in section 7.

Symmetry is used over goroutines (actors, workers, operations, pulls), in runs
without liveness properties; no property or action names one.

## 4. Fairness

Only weak fairness is assumed, and only of steps that the code itself drives.

- **Tasks** (`Fairness` of TaskPanel): each worker, each run's goroutine, each
  operation once begun, the start-up loop and `main`'s steps: goroutines are
  scheduled, SQLite statements return, the rate limiter ticks.  A script is fair
  only if its task has a timeout, since `runSingleCommand` then kills it; the
  default is none, and `RequestsEnd` and `RunningRowIsReset` say so.  In `live`
  no wait of the shutdown times out, so that `ShutdownEnds` shows that the waits
  end because what they wait for does; `CronStopped` has no timeout in the code.
- **Dependencies** (`DepFairness`): the start, handlers and goroutines; the
  command of an install or uninstall of the page, which has a timeout of 20
  minutes, but no other command (`UntimedCommand`).
- **Updates** (`UpdateFairness`): the steps of the updating process, whose
  commands have deadlines, the helper, and the end of a start that has begun.
  Nobody has to start a panel that is down.
- **Logs** (`LogFairness`): the run's own steps and the handler of each window.
  Nobody has to write anything.
- **Commands** (`CmdFair`): preparation, reader, waiter, clean-up and the timer
  (the commands of this run have a timeout).  Nothing makes a child write or end.

Nothing is assumed of the environment: requests, ticks, SIGTERM, crashes, pushes
and restarts may never come.  In MCBackground each condition is guarded by
`part`, which asks of a part what its own module asks.

## 5. What is proved

Thirty-two theorems hold for every value of the constants that meets the named
assumptions of the modules.

| Module | Theorem | Statement |
|---|---|---|
| TaskPanelTypes | `TypeCorrect` | `Spec => []TypeOK` |
| TaskPanelProofs | `RunningAlwaysHasOwner` | `Spec => []RunningHasOwner` |
| TaskRunProofs | `RequestsRunAtMostOnce` | `Spec => ImplementsRunLedger` |
| | `AttemptsAreBounded` | `Spec => []AttemptsBounded` |
| TaskStopProofs | `RunningLogsHaveOwners` | `Spec => []RunningLogHasOwner` |
| | `ShutdownIsClean` | `Spec => []CleanShutdown` |
| | `NothingLaunchedAfterStop` | `Spec => NoLaunchAfterStop` |
| | `StartupRunsOnce` | `Spec => []StartupOncePerDay` |
| | `KilledRunsAbort` | `Spec => []KilledRunAborts` |
| | `KilledLogsAreFinal` | `Spec => KilledLogFinal` |
| | `AbortedOnlyWhenAsked` | `Spec => AbortedOnlyIfStopAsked` |
| DependencyProofs | `ToolsAreSerialised` | `DepSpec => []PackageToolsSerialised` |
| | `BusyRowsHaveOwners` | `DepSpec => []BusyRowHasOwner` |
| | `ReconciledRowsTellTheTruth` | `DepSpec => []ReconciledRowsAreTrue` |
| PullProofs | `OnePullInTheSlot` | `PullSpec => []PullSlotExact` |
| | `StoppedPullsFail` | `PullSpec => []StoppedPullFails` |
| | `JobsMatchRows` | `PullSpec => []JobMatchesRow` |
| | `SuccessBringsTheRemote` | `PullSpec => []SuccessIsUpToDate` |
| | `LocalWorkIsKept` | `PullSpec => KeepsLocalWork` |
| | `TasksFollowTheRemote` | `PullSpec => []TasksFollowRemote` |
| UpkeepProofs | `WorkingEnvironmentsStay` | `VenvSpec => WorkingEnvironmentStays` |
| | `RowsStayWithPackages` | `VenvSpec => []RowsFollowPackages` |
| | `DirectoriesStayWhole` | `BackupSpec => []LiveDirectoryWhole` |
| | `RestoresDeliver` | `BackupSpec => RestoreDelivers` |
| | `PendingVersionsHaveOwners` | `UpdateSpec => []PendingHasOwner` |
| | `MovesKeepThePage` | `EnvSpec => KeepsPageOrder` |
| | `AccountsStayRows` | `AccountSpec => []AccountsAreRows` |
| ServiceProofs | `FilesOfOneRelease` | `AndroidSpec => []OneReleasePerRuntime` |
| | `DoneRunsAreDead` | `DebugSpec => []DoneRunIsDead` |
| | `NoFilesLeft` | `CmdSpec => []LeavesNoFiles` |
| | `SettledLogsAreWhole` | `LogSpec => []SettledLogIsWhole` |
| | `WindowsShowInOrder` | `LogSpec => []ShownInOrder` |

Each invariant is strengthened to an inductive one; a lemma for each group of
actions keeps it, and the theorem combines them.  An action property follows from
the inductive invariant of the same component, one step per action.

### Tasks

Assumptions: `StoreAssumption`, `SchedulerAssumption`, `ExecutorAssumption`,
`ControlAssumption`, `PanelAssumption`.  Each invariant below rests on those above
it.

- **Types and owners.**  Building and taking a request index functions by `made`,
  by the request an actor is sending and by the one a worker holds, so `TypeInv`
  adds to `TypeOK` that these exist.  `PanelInv` adds `BuiltInv` (a request that
  is anywhere was built, so it has a task, and building a new one disturbs none)
  and `OwnerInv` (a worker that has marked the row holds a request whose copy is no
  longer the zero `Task`, so that the failure path does reset the row).  A stop
  cannot break `OwnerInv`, since it
  writes only inactive statuses; the recovery establishes it anew; only
  `MarkRunning` makes a row running, and the worker is the owner until `Launch`
  hands over to the run.
- **A request runs at most once.**  `PlaceInv`: a built request is in one place,
  with the operation that sends it, in the channel, with one worker, or launched.
  No line of the code says so; it follows from the order in which a request is
  handed on.  `RunInv` bounds the attempts by the retries and installs counted so
  far and says that a script lives only in a run that awaits it; `DownInv` says
  that a panel that is down holds nothing.  `RequestInv` is their conjunction.
  The refinement maps the initial states, then each action to one step of
  `RunLedger` or to none; the end of the process is its `Perish`.
- **The shutdown.**  `ShutInv`: `GateInv` says who may still begin at each place
  of `main` and `ClosedInv` who is gone by then, given which waits timed out;
  `RowsInv` says what the interruption of the active rows has done.
  `RunningLogHasOwner` is part of it.  `CleanShutdown` and `NoLaunchAfterStop`
  follow.
- **The start.**  `BootInv` and `DateInv`: without a crash, a task has at most
  one start-up request that may still run or has run, and its date is written or
  the loop is about to write it.
- **Stops.**  `KillInv`: an entry of `runningProcesses` refers to a run of its
  task (`RefInv`), runs of one task that overlap are noted as such (`OverlapInv`),
  and the mark of a stop is there from before its kill until the run has read it
  (`MarkInv`).  What could take the mark away early is another run of the task,
  which `OverlapInv` excludes.  `AskInv` is the other direction: a mark is astray, or
  a run that had yet to look for it when it was placed still has.  So when a run
  looks (the only way to be aborted), the mark it finds is either astray or of a run
  of its task that is under way; runs that do not overlap leave only this one.

### Dependencies

`DependencyAssumption`.

- `DepInv`: an operation that works holds the mutex of its tool.  The kind and
  row of an operation, on which its mutex depends, do not change while it works.
- `OwnerInv`: whoever owns a busy row (`Hosts`) has *yet to settle* it, which is
  stronger than the owner of the property: a goroutine that is past its last write
  owns nothing, for it will not write a row that a second request has made busy
  since.  A request owns the rows it has queued or restored until it starts their
  batch; one that leaves without it strands them (`Kept` keeps that until somebody
  writes the row).
- `TrueRowsInv`: from the reconciliation until the server serves, an installed
  row has its package, so has a reinstall that succeeded (`TruthInv`), and from
  the merge on a python package has one row (`TwinInv`).

### Subscriptions

`GitAssumption`, `SubscriptionAssumption`.

- `PullInv`: a pull is past `beginSubscriptionPull` exactly if the slot names it,
  and one that was stopped early is cancelled.  Only the slot's pull can be
  cancelled, and a cancelled pull does not pass its last look at the context.
- `JobInv`: what each request has read of the row and has yet to do to the cron.
- `GitInv`: for the list of git commands that a pull has yet to go through, what
  the directory is like before each: what overwriting lists have reset, what
  keeping lists have stashed, what is still missing after a clone or a filter.
  `PlanFor` has few shapes and a list is only shortened or replaced by
  `NextPlan`, so the proof goes shape by shape and command by command.
- `TasksInv`: after the synchronisation of an overwriting pull nothing but an
  edit (`late`) changes a task until the pull is logged; what the
  synchronisation itself does follows from `GitInv`.

### The smaller components

- **Environments** (`PythonAssumption`).  `VenvInv`: who works on directories
  holds the mutex (or is the start, during which nobody asks), and where a thread
  is about to replace a directory it does not work, since the look and the
  replacement are in one critical section and nothing makes it work meanwhile.
  `FollowInv` adds the phases of the migration: which layouts are still to be
  moved and where the packages of each row are in each phase.
- **Backups** (`BackupAssumption`, `TableAssumption`).  `WholeInv`: a directory
  that misses is watched by a restore that still has the old one, and only a
  directory that has missed at a start, and an archive or old copy made of it,
  holds nothing but helpers.  For `RestoresDeliver`, `SoundInv` says that the
  tables of the panel, of archives and of backups in the making are tables, and
  `RestoredIs` what the transaction makes of them: `IdMapIs` (new ids keep rows
  apart, and none is the id of no row) gives `RenamesKeeps` (a reference leads to
  the same names under the new ids), and each table follows, the subscriptions,
  channels and apps with their switch on (`AllOn`), the logs with the choice of a
  task by its name: every log of a task that is there comes back with its columns
  (`LogFinds`).  `DeliverInv` then carries, stage by stage, what
  a restore has delivered: a restore that nobody has disturbed is alone, so only
  its own steps and starts write rows, scripts and schedulers.
- **Updates** (`UpdateAssumption`).  `PendingInv`: the server works on at most one
  update, which ends with it, and a pending version belongs to a silent update
  that is on its way or has just failed.
- **Environment variables** (`EnvAssumption`).  `EnvInv` holds types only.  The
  page is a strict total order whatever the positions are, shared ones included,
  because the id decides between equals, so the property needs no invariant about
  positions.  `Ranking` (an ascending sequence of all ids is determined by the
  order) gives `PageIsSorted`; `Renumbering` and `SortKeepsOrder` say that
  writing new positions into a list keeps what is not written, and `SortLands`,
  `TopLands`, `UntopLands` where the moved row comes to stand.
- **Accounts** (`AccountAssumption`).  `AccountsFrom` is inductive: what is picked
  was picked from these values by this command.  All else is about the operators,
  for lists and values of any length.  `RoundTrip` is that splitting gives back
  what was joined: `ScanCode` reads one character back from its code, `ScanValue`
  a value, `ScanJoin` all of them, and `JoinApart` with `NothingFound` says that
  no `&&` is found where a single `&` separates.  `NumbersAre` is that the numbers
  of any tokens are of accounts there are, each once.  Joining and splitting are
  recursive functions; that their equations hold, for they are defined by
  `CHOOSE`, is `Recursion`.  The induction runs over sets of numbers in place of
  a predicate: a set that holds 0 and is closed under the next number up to n
  holds all of them, since what it missed would have a least number (`Along`).
- **Android** (`AndroidAssumption`).  `AndroidInv`: an installation holds the
  mutex, and what is there while it unpacks is of its own release.
- **Debug runs** (`DebugAssumption`).  `DebugInv`: a living process has a
  goroutine that waits for it, and who is past its last look when the run is
  done was stopped too late.
- **Commands** (`CommandAssumption`).  `CmdInv`: during its preparation a command
  holds only what its steps so far have made.  The lemma `Covered` says for every
  form and step that its early return takes all of that back, except what the failing
  step itself has begun to write, where that is a wrapper or an inline script.
- **Logs** (`LogAssumption`).  `LogInv`: until it is closed, what the live log has
  passed on and the byte it keeps back make up what was written so far, as long as at
  most one chunk ended inside a character; from then on it holds what was written
  when it was closed, whatever comes (`NothingLost`).  `WindowsInv`: what waits for a window
  is later than what it shows, and in its order.

### The assumptions

They say of the constants what the code fixes.  Besides types and the usual
distinctness of model values: `NoOp` is neither an operation nor a row; an
uploaded archive never has a `helpers` directory in place of the scripts or
logs; no python version is called like the two marks for none, and tasks are not
packages; the first commit is one of the commits; ids of rows are numbers, two
rows of one task id have one name, and a log in the tables or in an archive names
its task, since a backup takes that name from the task (`backup_runtime.go:198-204`);
values of accounts are strings, and a token of a command is a number or a range of
two.

### What proving has corrected

- The guards of a `CASE` overlapped in `BatchNext`, `Waited` (ScriptDebug) and
  `Scan` (TaskAccounts): TLC takes the first, the semantics any.  They exclude each
  other now.
- `TasksFollowRemote` could not be proved and fell on a larger instance: files
  that a killed reset, a failing command or a stash pop has written are not those
  of HEAD, so git does not remove them when the remote drops them.  `touched` now
  records them (`Strays`, in SubscriptionPull), and the property says that it
  excludes them.
- `Separable`, the condition of `AccountsAreRows`, was wrong on both sides.  It
  forbade that values begin with `&`, which does no harm, and it let through an
  empty value between two others: `a`, nothing and `b` are joined to `a&&b`, which
  is split into `a` and `b`.  `JoinApart` could not be proved for it, and the lists
  of `services` had neither a third nor an empty value.  They have both now.
- `PlanFor`, `orderedEnvQuery`, the insertion of a row and the joining and
  splitting of accounts were written with operators that TLC evaluates but whose
  definitions the prover cannot see or reason about; they are functions and sets
  now, with the same values.

### What is only model-checked

All liveness (`RequestsEnd`, `RunningRowIsReset`, `ShutdownEnds`,
`BusyRowsSettle`, `UpdatesEnd`, `UpdateRestarts`, `SubscribersLearnTheEnd`,
`CommandsEnd`), which is out of the prover's reach; and `RetryFindsScript`, which
does not hold.  Every other property of the runs is a theorem.

## 6. What is left out

Within the modelled components:

- tasks: panics inside a run (recovered; they settle as failed), errors of the
  database, `Create` and `Copy` (the set of tasks is fixed), invalid cron
  expressions, `ddp task run`, which starts a scheduler of its own, and the
  failed log row the recovery creates for a task without a running log;
- commands: what the bootstrap does inside the child process; a panel that ends
  leaves the files of its commands, which no property speaks of;
- the queue: `Enqueue` looks at `stopped` and sends in one step
  (`service/scheduler_v2.go:236-247`); a send that comes after the stop all the same
  amounts to a send just before it, of a request that no worker takes;
- environments: `ddp` is a process of its own with its own `managedPythonVenvMu`
  (`cmd/ddp/run_commands.go:40`, `cmd/ddp/runtime.go:33`), so a `ddp` command and the
  server may make one environment at the same time; the model has the threads of one
  process, and `WorkingEnvironmentStays` is about these.  Renames that fail while an
  old layout is flattened (`service/runtime_exec.go:472-484`) are left out;
- subscriptions: single-file subscriptions (one download), the deadlines of
  downloads, the text of hooks; the line that tells the live log of a stop
  (`handler/subscription.go:415-420`); `SubPath` and the whitelist are one filter
  (`service/subscription.go:417-438`, `675-694`), and `sparse-checkout init` and `set`
  one step (`480-493`);
- backups: file formats, encryption, compression; how the files of a QingLong
  backup are read;
- updates: the Watchtower trigger, the Windows helper script, Magisk.  While the
  state says restarting it refuses later updates (`handler/system_update.go:138`) and
  counts as an end in `UpdatesEnd`, so a helper that fails after that is not seen by
  this property, but by `UpdateRestarts`;
- logs: deleting a log by request, closing a stream by its id; `FindByTaskID` and
  the look at the row's status (`handler/log.go:84`, `123`) are one step, and so are
  the writes of one chunk to the TinyLog and to the file;
- notifications, log contents apart from the live log, run times, formatting.

Not modelled at all, with the reason in `PROJECT.json`: sessions, login and rate
limits (token checks and counters over time windows; planned); the legacy
scheduler (nothing initialises it); notifications (outgoing calls without state);
mirrors, open API, files, users, configuration (one request, one row or file);
the resource monitor (feeds no decision); the front ends.

## 7. Where the code and its documentation disagree

`doc_debug_retry` states what the release notes promise and finds the behaviour
that does not keep it: the goroutine of an inline debug run removes its temporary
file when the first process has ended (`handler/script_debug.go:122`); the retry
after an automatic install starts the interpreter on a path that is gone, so the
loop of five rounds (`src/docs/release-notes/v2.0.5.md:27`) cannot go on.

Read from the code while modelling it, and part of the models, but not stated as
a property of a run:

- `ddp task stop` marks the task in its own process
  (`cmd/ddp/commands.go:633`), so the server's run consumes no mark and settles
  as failed, although `src/.trellis/spec/backend/quality-guidelines.md:168`
  requires aborted for every kind of stop.
- A stop that finds no process closes the log without a mark, and the run
  rewrites it as it ended, although `handler/task_control.go:126` says that both
  write the same.
- A stop between the consumption of the mark and the removal from
  `runningProcesses` leaves a mark for the next run of the task, which then settles
  as aborted although nobody stopped it; so does a stop that read the pid in the row
  and marks (`handler/task_control.go:104`) when the run has settled.
  `service/manual_stop.go:30` says that no mark remains.  `AbortedOnlyIfStopAsked`
  names these marks (`strays`) and excuses only the run that reads one.
- `max_concurrent_tasks` bounds launches, not running tasks, although
  `model/system_config_registry.go:50` names the latter.
- A manual task that is edited while it runs is left disabled, although
  `src/docs/release-notes/v2.1.1.md:21` says that only tasks with a cron rule are
  checked against the scheduler.
- A request that was skipped or has ended before its row is marked queued leaves
  the row queued until the next restart; so do dependencies that were queued when
  the process died (`stranded`).
- The automatic install in the Android sandbox runs `npm install` without the
  lock (`service/android_sandbox_runtime.go:141`), although
  `quality-guidelines.md:461` requires it of every npm command.  `Mutex` says so,
  and `deps` runs with `Sandbox = FALSE`.
- A restore writes the rows of missing dependencies as installing and commits; if
  the scripts, the logs or the mirrors then fail (`service/backup_runtime.go:795-811`)
  it returns an error without starting the reinstall of line 828, and the rows stay
  installing until the panel is started again, which a failed restore does not do.
  `BusyRowHasOwner` and `BusyRowsSettle` name these rows (`stranded`).
- A subscription, a channel or an app that was disabled comes back from a restore
  enabled, and the subscription is scheduled: its row is created
  with the zero value, for which gorm takes the default of the model, which is true
  (`model/subscription.go:28`, `notification.go:12`, `open_app.go:13`;
  `service/backup_runtime.go:908-944`, `1095-1112`).  Variables and tasks keep theirs.
  Users, which are not modelled, share the channels' fate (`restoreUsers`,
  `model/user.go:12`).  `Delivered` says so (`AllOn`), so that a change is seen.
- A wrapper of a Go script or an inline script whose writing fails half-way stays
  where it is: `service/script_runner.go:1059-1061` returns before the removal is
  deferred, and `service/runtime_exec.go:966-968` takes back the environment only,
  although another function reckons with such a file (`runtime_exec.go:1162-1164`).
  `LeavesNoFiles` excuses the file of the step that failed, and no other.
- What a process that a hook or an inline script left behind writes after the run
  has ended is not in the log: `service/tiny_log.go:45-47` refuses it, the settled
  row does not have it, and the file, which `service/log_manager.go:34-69` opens again
  and nobody closes, is not shown once the row has content (`handler/log.go:202-214`).
  `SettledLogIsWhole` is about what was written until the TinyLog closed.
- An invalid `default_cron_rule` falls back to midnight, not to skipping the
  script, although the comment at `service/subscription.go:888-891` says so.
- Two overlapping requests may leave the cron of a subscription unlike its row
  (`raced`), and the loser of two pulls may close the winner's live log, after
  which a send panics.
- The switch of a restored directory is two renames
  (`service/backup_runtime.go:1275-1285`); a crash between them leaves no
  directory, although `quality-guidelines.md:624` calls it atomic.
  `LiveDirectoryWhole` excludes exactly that point (`cut`).
- Under systemd the update helper is a child of the service and ends with it,
  although the notes of v2.1.6 say that the panel restarts by itself
  (`src/docs/release-notes/v2.1.6.md:13`).  The model has this deployment;
  `background` checks the other two.
- A window that subscribes to a live log that has just been closed is never told
  of the end, although the comment at `handler/log.go:114` relies on the channel
  being closed; `SubscribersLearnTheEnd` speaks of windows that came in time.
- Joining and splitting accounts are not inverse for a single value with `&` or
  the escape, nor for values but the last that end with `&`, nor for an empty
  value between others where no value has `&`, although
  `service/runtime_exec.go:155-156` calls them symmetric (`Separable`).

## 8. Plan

Done: the parts above, their runs, and thirty-two theorems: type correctness, all
invariants the runs check, every action property and the refinement.
Next:

1. `TaskPanel`: `Create` and `Copy`, `ddp task run`, with the proofs carried over.
2. Sessions and login: tokens, refreshes and the windows of the counters.
