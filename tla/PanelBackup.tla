---------------------------- MODULE PanelBackup ----------------------------
(***************************************************************************)
(* Backups, restores and the backup schedule: service/backup_runtime.go,   *)
(* backup_schedule.go, backup_qinglong.go and restore_progress.go, as the  *)
(* panel's handlers and the ddp command line use them.                     *)
(*                                                                         *)
(* A restore replaces the selected tables in one transaction, with new     *)
(* ids, then the directories, and then makes the schedulers read the new   *)
(* rows.  It runs in the server or, from ddp, in a process of its own with *)
(* progress and schedulers of its own.                                     *)
(***************************************************************************)
EXTENDS Naturals, FiniteSets

CONSTANTS
    Restorers,    \* the restores in flight at a time
    Cli,          \* those of them that ddp runs
    Creators,     \* the backups being made: Manual by request, others by the schedule
    Manual,
    Selections,   \* what a backup may be asked to hold
    Uploads,      \* archives that come from outside: a function from names
    InitialDb,    \* the tables when the panel is installed
    RowsPerTable, \* no archive has more rows of a table
    MaxRestores, MaxBackups, MaxEdits \* bounds of the model

NoRow == 0         \* the id of no row
Absent == "absent"

VARIABLES
    db,        \* the tables; rows refer to each other by id
    live,      \* what the scripts and log directories hold
    cut,       \* the directories whose switch was cut short
    archives,  \* data/backups
    progress,  \* restoreProgressState, one per process
    rest,      \* the restore each restorer runs
    maker,     \* the backup each creator makes
    jobs,      \* the entries of the three schedulers of the server
    serverUp,        \* whether the server runs
    backupCounts     \* how often the bounded actions happened

backupVars == <<db, live, cut, archives, progress, rest, maker, jobs, serverUp, backupCounts>>

\* "helpers" is what a start makes of a missing directory, and no upload's content.
ASSUME BackupAssumption ==
    /\ Cli \subseteq Restorers /\ Manual \in Creators
    /\ \A n \in DOMAIN Uploads : Uploads[n].scripts # "helpers" /\ Uploads[n].logfiles # "helpers"
    /\ {RowsPerTable, MaxRestores, MaxBackups, MaxEdits} \subseteq Nat

Dirs == {"scripts", "logs"}
ProcessOf(r) == IF r \in Cli THEN "ddp" ELSE "server"
Ids(rows) == {row.id : row \in rows}
NamesOf(rows, i) == {row.name : row \in {q \in rows : q.id = i}}
IdleProgress == [active |-> FALSE, status |-> "idle"]
NoArchive == [source |-> Absent]
NoRestore ==
    [pc |-> "idle", archive |-> NoArchive, pending |-> FALSE, old |-> Absent, clean |-> TRUE,
     dir |-> "scripts"]
NoMaker == [pc |-> "idle", archive |-> NoArchive]

\* The tables as a panel keeps them, and as it writes them to an archive: ids are
\* numbers, a task has one name, and a log the name of its task.
Table(rows, columns) ==
    /\ IsFiniteSet(Ids(rows))
    /\ \A row \in rows : columns \subseteq DOMAIN row /\ row.id \in Nat \ {NoRow}
Tables(d) ==
    /\ {"channels", "apps", "config", "tasks", "logs", "keys", "subs", "envs", "deps"} \subseteq DOMAIN d
    /\ Table(d.channels, {"id", "name", "on"}) /\ Table(d.keys, {"id", "name"})
    /\ Table(d.subs, {"id", "name", "on", "schedule", "key"})
    /\ Table(d.tasks, {"id", "name", "status", "needs", "channel"})
    /\ \A t, u \in d.tasks : t.id = u.id => t.name = u.name
    /\ \A a \in d.apps : {"name", "on"} \subseteq DOMAIN a
    /\ \A l \in d.logs : /\ {"task", "name", "status"} \subseteq DOMAIN l
                         /\ \A t \in d.tasks : t.id = l.task => t.name = l.name
    /\ {"schedule", "pending"} \subseteq DOMAIN d.config /\ d.config.pending \in BOOLEAN

ASSUME TableAssumption ==
    /\ Tables(InitialDb) /\ "next" \in DOMAIN InitialDb /\ InitialDb.next \in Nat \ {0}
    /\ \A n \in DOMAIN Uploads : Tables(Uploads[n])

-----------------------------------------------------------------------------
(* What a restore makes of a manifest                                       *)

\* deleteAll and Create: a row gets the next free id, in the order of the old ones.
IdMap(rows, next) ==
    [o \in Ids(rows) |-> next + Cardinality({p \in Ids(rows) : p < o})]

\* An id that the map does not know reads as zero.
Mapped(idMap, o) == IF o \in DOMAIN idMap THEN idMap[o] ELSE NoRow

normalizeRestoredTaskStatus(status) == IF status = "disabled" THEN status ELSE "enabled"

restoreTasksKeepingNeeds(rows, idMap, channelMap) ==
    {[t EXCEPT !.id = idMap[t.id],
               !.status = normalizeRestoredTaskStatus(t.status),
               !.channel = Mapped(channelMap, t.channel)] : t \in rows}

restoreTasks(rows, idMap, channelMap) ==
    {[t EXCEPT !.id = idMap[t.id],
               !.status = normalizeRestoredTaskStatus(t.status),
               !.needs = Mapped(idMap, t.needs),
               !.channel = Mapped(channelMap, t.channel)] : t \in rows}

\* Create leaves the zero value of a column with a default to the database: TRUE.
restoreNotifyChannels(rows, idMap) == {[c EXCEPT !.id = idMap[c.id], !.on = TRUE] : c \in rows}
restoreOpenApps(rows) == {[a EXCEPT !.on = TRUE] : a \in rows}
restoreSubscriptions(rows, idMap, keyMap) ==
    {[s EXCEPT !.id = idMap[s.id], !.on = TRUE, !.key = Mapped(keyMap, s.key)] : s \in rows}
restoreSSHKeys(rows, idMap) == {[k EXCEPT !.id = idMap[k.id]] : k \in rows}

\* The column is written a second time after Create.
restoreEnvVars(rows) == rows

\* A log goes to the task its old one became, or else to the first of that name.
LogTask(l, idMap, tasks) ==
    LET named == {t.id : t \in {u \in tasks : u.name = l.name}}
    IN  IF Mapped(idMap, l.task) # NoRow THEN idMap[l.task]
        ELSE IF named = {} THEN NoRow ELSE CHOOSE i \in named : \A j \in named : i <= j

restoreTaskLogs(rows, idMap, tasks) ==
    {[l EXCEPT !.task = LogTask(l, idMap, tasks)] :
        l \in {k \in rows : LogTask(k, idMap, tasks) # NoRow}}

\* One row for each name and type; DependencyPanel models what is installed then.
restoreDependencyRows(rows) == rows

\* The rows of the update in progress are neither restored nor lost.
restoreSystemConfigs(m) == [schedule |-> m.config.schedule, pending |-> FALSE]

\* The transaction: what the tables hold when it has committed.
Restored(d, m) ==
    LET has(k) == k \in m.sel
        channelMap == IF has("configs") THEN IdMap(m.channels, d.next) ELSE << >>
        taskMap == IF has("tasks") THEN IdMap(m.tasks, d.next) ELSE << >>
        keyMap == IdMap(m.keys, d.next)
        tasks == IF has("tasks") THEN restoreTasks(m.tasks, taskMap, channelMap) ELSE d.tasks
    IN  [channels |-> IF has("configs") THEN restoreNotifyChannels(m.channels, channelMap)
                      ELSE d.channels,
         apps |-> IF has("configs") THEN restoreOpenApps(m.apps) ELSE d.apps,
         config |-> IF has("configs") THEN restoreSystemConfigs(m) ELSE d.config,
         tasks |-> tasks,
         logs |-> IF has("logs") THEN restoreTaskLogs(m.logs, taskMap, tasks)
                  ELSE IF has("tasks") THEN {} ELSE d.logs,
         keys |-> IF has("subscriptions") THEN restoreSSHKeys(m.keys, keyMap) ELSE d.keys,
         subs |-> IF has("subscriptions")
                  THEN restoreSubscriptions(m.subs, IdMap(m.subs, d.next), keyMap) ELSE d.subs,
         envs |-> IF has("env_vars") THEN restoreEnvVars(m.envs) ELSE d.envs,
         deps |-> IF has("dependencies") THEN restoreDependencyRows(m.deps) ELSE d.deps,
         next |-> d.next + RowsPerTable]

-----------------------------------------------------------------------------
(* Progress and schedulers                                                  *)

\* BeginRestoreProgress: one restore at a time in each process.
BeginRestoreProgress(p) ==
    /\ ~progress[p].active
    /\ progress' = [progress EXCEPT ![p] = [active |-> TRUE, status |-> "running"]]

EndProgress(p, status) == progress' = [progress EXCEPT ![p] = [active |-> FALSE, status |-> status]]

\* Every return with an error passes the deferred FailRestoreProgress.
FailRestore(r) ==
    /\ rest' = [rest EXCEPT ![r] = NoRestore]
    /\ EndProgress(ProcessOf(r), "failed")

NextStage(r, pc) == rest' = [rest EXCEPT ![r].pc = pc] /\ UNCHANGED progress

\* The directories are restored one after the other, each in three steps.
AtDir(r, pc, d) == rest[r].pc = pc /\ rest[r].dir = d
AfterDir(r, d) ==
    /\ rest' = [rest EXCEPT ![r].pc = IF d = "scripts" THEN "fill" ELSE "mirrors", ![r].dir = "logs"]
    /\ UNCHANGED progress

EnabledTasks(d) == Ids({t \in d.tasks : t.status = "enabled"})
ScheduledSubs(d) == Ids({s \in d.subs : s.on /\ s.schedule})
NoJobs == [tasks |-> {}, subs |-> {}, backup |-> FALSE]
AllJobs(d) == [tasks |-> EnabledTasks(d), subs |-> ScheduledSubs(d), backup |-> d.config.schedule]

\* A restore that somebody disturbs can promise less.
Disturbed(others) ==
    [r \in Restorers |-> IF r \in others /\ rest[r].pc # "idle"
                         THEN [rest[r] EXCEPT !.clean = FALSE] ELSE rest[r]]

-----------------------------------------------------------------------------
(* A restore, step by step                                                  *)

BeginRestore(r, name) ==
    /\ rest[r].pc = "idle" /\ backupCounts.restores < MaxRestores
    /\ r \notin Cli => serverUp
    /\ BeginRestoreProgress(ProcessOf(r))
    /\ backupCounts' = [backupCounts EXCEPT !.restores = @ + 1]
    /\ rest' = [Disturbed(Restorers \ {r}) EXCEPT
                    ![r] = [NoRestore EXCEPT !.pc = "read", !.archive = archives[name],
                            !.clean = \A q \in Restorers \ {r} : rest[q].pc = "idle"]]
    /\ UNCHANGED <<db, live, cut, archives, maker, jobs, serverUp>>

\* Read, decrypt, unpack, convert: a missing, foreign, locked or empty archive ends it.
ReadArchive(r) ==
    /\ rest[r].pc = "read"
    /\ \/ rest[r].archive # NoArchive /\ rest[r].archive.sel # {} /\ NextStage(r, "snapshot")
       \/ rest[r].archive = NoArchive /\ FailRestore(r)
       \/ rest[r].archive # NoArchive /\ rest[r].archive.encrypted /\ FailRestore(r)
       \/ rest[r].archive # NoArchive /\ rest[r].archive.sel = {} /\ FailRestore(r)
    /\ UNCHANGED <<db, live, cut, archives, maker, jobs, serverUp, backupCounts>>

snapshotProtectedRuntimeSystemConfigs(r) ==
    /\ rest[r].pc = "snapshot"
    /\ rest' = [rest EXCEPT ![r].pending = db.config.pending, ![r].pc = "data"]
    /\ UNCHANGED <<db, live, cut, archives, progress, maker, jobs, serverUp, backupCounts>>

\* One transaction: all of it, or nothing.
restoreBackupManifest(r) ==
    /\ rest[r].pc = "data"
    /\ \/ /\ db' = Restored(db, rest[r].archive)
          /\ rest' = [Disturbed(Restorers \ {r}) EXCEPT ![r].pc = "protect"]
          /\ UNCHANGED progress
       \/ FailRestore(r) /\ UNCHANGED db
    /\ UNCHANGED <<live, cut, archives, maker, jobs, serverUp, backupCounts>>

restoreProtectedRuntimeSystemConfigs(r) ==
    /\ rest[r].pc = "protect"
    /\ db' = [db EXCEPT !.config.pending = @ \/ rest[r].pending]
    /\ NextStage(r, "fill")
    /\ UNCHANGED <<live, cut, archives, maker, jobs, serverUp, backupCounts>>

Content(m, d) == IF d = "scripts" THEN m.scripts ELSE m.logfiles
Filled(m, d) == IF Content(m, d) = Absent THEN "empty" ELSE Content(m, d)

\* The directory is emptied first and filled where it is.
FillInPlace(r, d) ==
    /\ AtDir(r, "fill", d)
    /\ LET m == rest[r].archive
       IN  IF d \notin m.sel \/ Content(m, d) = Absent
           THEN AfterDir(r, d) /\ UNCHANGED live
           ELSE \/ NextStage(r, "out") /\ UNCHANGED live
                \/ FailRestore(r) /\ live' = [live EXCEPT ![d] = Absent]
    /\ UNCHANGED <<db, cut, archives, maker, jobs, serverUp, backupCounts>>

\* The stage directory is filled beside the live one; QingLong logs are added in place.
Fill(r, d) ==
    /\ AtDir(r, "fill", d)
    /\ LET m == rest[r].archive
           inPlace == d = "logs" /\ m.source = "qinglong"
       IN  IF d \notin m.sel \/ inPlace \/ (Content(m, d) = Absent /\ d = "scripts")
           THEN AfterDir(r, d)
           ELSE NextStage(r, "out") \/ FailRestore(r)
    /\ UNCHANGED <<db, live, cut, archives, maker, jobs, serverUp, backupCounts>>

\* The first rename of restoreDirectoryWithStage: from here on nothing is live.
SwapOut(r, d) ==
    /\ AtDir(r, "out", d)
    /\ \/ /\ rest' = [rest EXCEPT ![r].pc = "in", ![r].old = live[d]]
          /\ live' = [live EXCEPT ![d] = Absent]
          /\ UNCHANGED progress
       \/ FailRestore(r) /\ UNCHANGED live
    /\ UNCHANGED <<db, cut, archives, maker, jobs, serverUp, backupCounts>>

\* The second rename; when it fails the old directory is renamed back, unless
\* something has been put in its place, which makes both renames fail.
SwapIn(r, d) ==
    /\ AtDir(r, "in", d)
    /\ IF live[d] = Absent
       THEN \/ /\ live' = [live EXCEPT ![d] = Filled(rest[r].archive, d)]
               /\ AfterDir(r, d)
            \/ live' = [live EXCEPT ![d] = rest[r].old] /\ FailRestore(r)
       ELSE FailRestore(r) /\ UNCHANGED live
    /\ UNCHANGED <<db, cut, archives, maker, jobs, serverUp, backupCounts>>

ApplyDependencyMirrorSettings(r) ==
    /\ rest[r].pc = "mirrors"
    /\ \/ NextStage(r, "tasks")
       \/ "configs" \in rest[r].archive.sel /\ rest[r].archive.mirrors /\ FailRestore(r)
    /\ UNCHANGED <<db, live, cut, archives, maker, jobs, serverUp, backupCounts>>

\* The schedulers of the server read the tables anew; ddp has none.
Reload(r, pc, next, read) ==
    /\ rest[r].pc = pc
    /\ jobs' = IF r \in Cli THEN jobs ELSE read
    /\ NextStage(r, next)
    /\ UNCHANGED <<db, live, cut, archives, maker, serverUp, backupCounts>>
ReloadTasks(r) == Reload(r, "tasks", "subs", [jobs EXCEPT !.tasks = EnabledTasks(db)])
ReloadSubs(r) == Reload(r, "subs", "backup", [jobs EXCEPT !.subs = ScheduledSubs(db)])
ReloadBackup(r) == Reload(r, "backup", "complete", [jobs EXCEPT !.backup = db.config.schedule])

\* ddp then stops the server, whose supervisor starts it again.
CompleteRestore(r) ==
    /\ rest[r].pc = "complete"
    /\ EndProgress(ProcessOf(r), "completed")
    /\ rest' = [rest EXCEPT ![r] = IF r \in Cli THEN [NoRestore EXCEPT !.pc = "signal"]
                                   ELSE NoRestore]
    /\ UNCHANGED <<db, live, cut, archives, maker, jobs, serverUp, backupCounts>>

-----------------------------------------------------------------------------
(* Server life                                                              *)

\* The server and its restores and backups are gone; the files stay as they are.
ServerGone ==
    /\ serverUp' = FALSE /\ jobs' = NoJobs
    /\ maker' = [c \in Creators |-> NoMaker]
    /\ cut' = cut \cup {d \in Dirs : \E r \in Restorers \ Cli : AtDir(r, "in", d)}
    /\ progress' = [progress EXCEPT !["server"] = IdleProgress]
    /\ UNCHANGED <<db, live, archives>>

CrashServer ==
    /\ serverUp /\ backupCounts.edits < MaxEdits
    /\ ServerGone
    /\ backupCounts' = [backupCounts EXCEPT !.edits = @ + 1]
    /\ rest' = [r \in Restorers |-> IF r \in Cli THEN [rest[r] EXCEPT !.clean = FALSE] ELSE NoRestore]

\* runBackupRestore ends with SIGTERM to the server.
SignalServer(r) ==
    /\ rest[r].pc = "signal"
    /\ IF serverUp THEN ServerGone /\ rest' = [q \in Restorers |->
                       IF q = r \/ q \notin Cli THEN NoRestore ELSE rest[q]]
       ELSE rest' = [rest EXCEPT ![r] = NoRestore]
            /\ UNCHANGED <<db, live, cut, archives, progress, maker, jobs, serverUp>>
    /\ UNCHANGED backupCounts

\* LoadAndInit creates directories that are missing, and the helpers go into them;
\* every ddp command does the same beside a running server.
Bootstrap ==
    /\ live' = [d \in Dirs |-> IF live[d] = Absent THEN "helpers" ELSE live[d]]
    /\ cut' = cut \cup {d \in Dirs : live[d] = Absent}

StartServer ==
    /\ ~serverUp
    /\ serverUp' = TRUE /\ jobs' = AllJobs(db)
    /\ Bootstrap
    /\ UNCHANGED <<db, archives, progress, rest, maker, backupCounts>>

CliCommand ==
    /\ \E d \in Dirs : live[d] = Absent
    /\ Bootstrap
    /\ UNCHANGED <<db, archives, progress, rest, maker, jobs, serverUp, backupCounts>>

-----------------------------------------------------------------------------
(* Backups                                                                  *)

\* Manual: whenever asked.  Scheduled: when the job fires, unless one is running.
BeginBackup(c, sel) ==
    /\ serverUp /\ maker[c].pc = "idle" /\ backupCounts.backups < MaxBackups
    /\ c # Manual => /\ jobs.backup /\ db.config.schedule
                     /\ \A e \in Creators \ {Manual} : maker[e].pc = "idle"
    /\ maker' = [maker EXCEPT ![c] = [pc |-> "configs", archive |->
                    [source |-> "daidai-panel", encrypted |-> FALSE, mirrors |-> "configs" \in sel,
                     sel |-> sel, scripts |-> Absent, logfiles |-> Absent,
                     channels |-> {}, apps |-> {}, config |-> [schedule |-> FALSE, pending |-> FALSE],
                     tasks |-> {}, envs |-> {}, keys |-> {}, subs |-> {}, deps |-> {}, logs |-> {}]]]
    /\ backupCounts' = [backupCounts EXCEPT !.backups = @ + 1]
    /\ UNCHANGED <<db, live, cut, archives, progress, rest, jobs, serverUp>>

\* buildBackupManifest reads table after table, without a transaction.
snapshotConfigBundle(c) ==
    /\ maker[c].pc = "configs"
    /\ maker' = [maker EXCEPT ![c].pc = "tables",
                   ![c].archive = IF "configs" \notin @.sel THEN @
                                  ELSE [@ EXCEPT !.channels = db.channels, !.apps = db.apps,
                                                 !.config = db.config]]
    /\ UNCHANGED <<db, live, cut, archives, progress, rest, jobs, serverUp, backupCounts>>

buildBackupManifest(c) ==
    /\ maker[c].pc = "tables"
    /\ LET s == maker[c].archive.sel
           If(k, rows) == IF k \in s THEN rows ELSE {}
       IN  maker' = [maker EXCEPT ![c] = [pc |-> "files", archive |->
              [@.archive EXCEPT !.tasks = If("tasks", db.tasks), !.envs = If("env_vars", db.envs),
                 !.keys = If("subscriptions", db.keys), !.subs = If("subscriptions", db.subs),
                 !.deps = If("dependencies", db.deps), !.logs = If("logs", db.logs)]]]
    /\ UNCHANGED <<db, live, cut, archives, progress, rest, jobs, serverUp, backupCounts>>

\* A file that grows while it is read makes the backup fail.
createBackupArchive(c) ==
    /\ maker[c].pc = "files"
    /\ maker' = [maker EXCEPT ![c] = NoMaker]
    /\ LET s == maker[c].archive.sel
           Of(d) == IF d \in s THEN live[d] ELSE Absent
       IN  \/ archives' = [archives EXCEPT ![c] =
                              [maker[c].archive EXCEPT !.scripts = Of("scripts"), !.logfiles = Of("logs")]]
           \/ "logs" \in s /\ UNCHANGED archives
    /\ UNCHANGED <<db, live, cut, progress, rest, jobs, serverUp, backupCounts>>

\* By request, or by cleanupOldScheduledBackups when the backup is three days old.
DeleteBackup(name) ==
    /\ archives[name] # NoArchive /\ backupCounts.edits < MaxEdits
    /\ archives' = [archives EXCEPT ![name] = NoArchive]
    /\ backupCounts' = [backupCounts EXCEPT !.edits = @ + 1]
    /\ UNCHANGED <<db, live, cut, progress, rest, maker, jobs, serverUp>>

-----------------------------------------------------------------------------
(* What users do meanwhile                                                  *)

EditRows(newDb, newJobs) ==
    /\ serverUp /\ backupCounts.edits < MaxEdits
    /\ db' = newDb /\ jobs' = newJobs
    /\ rest' = Disturbed(Restorers)
    /\ backupCounts' = [backupCounts EXCEPT !.edits = @ + 1]
    /\ UNCHANGED <<live, cut, archives, progress, maker, serverUp>>

SetStatus(t, status) == [db EXCEPT !.tasks = (@ \ {t}) \cup {[t EXCEPT !.status = status]}]
DisableTask == \E t \in db.tasks :
    t.status = "enabled" /\ EditRows(SetStatus(t, "disabled"), [jobs EXCEPT !.tasks = @ \ {t.id}])
RunTask == \E t \in db.tasks : t.status = "enabled" /\ EditRows(SetStatus(t, "running"), jobs)
DisableEnv == \E e \in db.envs :
    e.on /\ EditRows([db EXCEPT !.envs = (@ \ {e}) \cup {[e EXCEPT !.on = FALSE]}], jobs)
DisableSub == \E s \in db.subs :
    s.on /\ EditRows([db EXCEPT !.subs = (@ \ {s}) \cup {[s EXCEPT !.on = FALSE]}],
                 [jobs EXCEPT !.subs = @ \ {s.id}])
SetBackupSchedule ==
    EditRows([db EXCEPT !.config.schedule = ~@], [jobs EXCEPT !.backup = ~db.config.schedule])
DeleteBackupSchedule == db.config.schedule /\ EditRows([db EXCEPT !.config.schedule = FALSE], jobs)
BeginUpdate == ~db.config.pending /\ EditRows([db EXCEPT !.config.pending = TRUE], jobs)

-----------------------------------------------------------------------------
BackupInit ==
    /\ db = InitialDb /\ live = [d \in Dirs |-> "initial"] /\ cut = {}
    /\ archives = [n \in Creators \cup DOMAIN Uploads |->
                       IF n \in DOMAIN Uploads THEN Uploads[n] ELSE NoArchive]
    /\ progress = [p \in {"server", "ddp"} |-> IdleProgress]
    /\ rest = [r \in Restorers |-> NoRestore]
    /\ maker = [c \in Creators |-> NoMaker]
    /\ jobs = AllJobs(InitialDb) /\ serverUp = TRUE
    /\ backupCounts = [restores |-> 0, backups |-> 0, edits |-> 0]

RestoreStep(r) ==
    \/ ReadArchive(r) \/ snapshotProtectedRuntimeSystemConfigs(r) \/ restoreBackupManifest(r)
    \/ restoreProtectedRuntimeSystemConfigs(r)
    \/ \E d \in Dirs : Fill(r, d) \/ SwapOut(r, d) \/ SwapIn(r, d)
    \/ ApplyDependencyMirrorSettings(r)
    \/ ReloadTasks(r) \/ ReloadSubs(r) \/ ReloadBackup(r) \/ CompleteRestore(r) \/ SignalServer(r)

BackupStep(c) ==
    \/ \E sel \in Selections : BeginBackup(c, sel)
    \/ snapshotConfigBundle(c) \/ buildBackupManifest(c) \/ createBackupArchive(c)

BackupNext ==
    \/ \E r \in Restorers : \/ \E n \in DOMAIN archives : BeginRestore(r, n)
                            \/ RestoreStep(r)
    \/ \E c \in Creators : BackupStep(c)
    \/ \E n \in DOMAIN archives : DeleteBackup(n)
    \/ DisableTask \/ RunTask \/ DisableEnv \/ DisableSub
    \/ SetBackupSchedule \/ DeleteBackupSchedule \/ BeginUpdate
    \/ CrashServer \/ StartServer \/ CliCommand

BackupSpec == BackupInit /\ [][BackupNext]_backupVars
=============================================================================
