---------------------------- MODULE BackupProps ----------------------------
(***************************************************************************)
(* What backups and restores must guarantee.                               *)
(***************************************************************************)
EXTENDS PanelBackup

\* Rows without their ids, which a restore renumbers.
TaskView(d, withChannels) ==
    {[name |-> t.name, disabled |-> t.status = "disabled", needs |-> NamesOf(d.tasks, t.needs),
      channel |-> IF withChannels THEN NamesOf(d.channels, t.channel) ELSE {}] : t \in d.tasks}
SubView(d) ==
    {[name |-> s.name, schedule |-> s.schedule, key |-> NamesOf(d.keys, s.key)] : s \in d.subs}
LogView(d) ==
    {[name |-> l.name, status |-> l.status, task |-> NamesOf(d.tasks, l.task)] : l \in d.logs}
RowNames(rows) == {row.name : row \in rows}
AllOn(rows) == \A row \in rows : row.on

\* Those logs of an archive whose task there is afterwards, each with that task.
LogsOf(m, tasks) ==
    {[name |-> l.name, status |-> l.status, task |-> {l.name}] :
        l \in {k \in m.logs : k.name \in RowNames(tasks)}}

Delivered(r) ==
    LET m == rest[r].archive
        has(k) == k \in m.sel
    IN  /\ has("tasks") => TaskView(db, has("configs")) = TaskView(m, has("configs"))
        /\ has("env_vars") => db.envs = m.envs
        /\ has("subscriptions") => SubView(db) = SubView(m) /\ AllOn(db.subs)
        /\ has("configs") => /\ RowNames(db.channels) = RowNames(m.channels) /\ AllOn(db.channels)
                             /\ RowNames(db.apps) = RowNames(m.apps) /\ AllOn(db.apps)
                             /\ db.config.schedule = m.config.schedule
        /\ has("dependencies") => db.deps = m.deps
        /\ has("logs") => LogView(db) = LogsOf(m, db.tasks)
        /\ has("scripts") /\ m.scripts # Absent => live["scripts"] = m.scripts
        /\ rest[r].pending => db.config.pending
        /\ r \notin Cli => jobs = AllJobs(db)

\* A restore that nobody disturbs and that reports completion has delivered the
\* rows and the scripts of its archive, with the references of the rows, although
\* every id is new; it has kept an update in progress, and the schedulers run exactly
\* the new rows.  Tasks and variables are disabled if they were; subscriptions,
\* channels and apps are all enabled, because Create writes the default of a column
\* for FALSE (backup_runtime.go:908-944, 1095-1112): one that was disabled is
\* scheduled again.  Of the logs those are there whose task is there.
RestoreDelivers ==
    [][\A r \in Restorers :
          /\ rest[r].pc = "complete" /\ rest'[r].pc # "complete" /\ rest[r].clean
          /\ progress'[ProcessOf(r)].status = "completed"
          => Delivered(r)]_backupVars

\* A directory is never half restored: it misses only between the two renames, or
\* when a restart or a ddp command came exactly there; a copy that fails leaves it.
LiveDirectoryWhole ==
    \A d \in Dirs : live[d] \in {Absent, "helpers"} =>
        d \in cut \/ \E r \in Restorers : AtDir(r, "in", d)
=============================================================================
