------------------------- MODULE SubscriptionPanel -------------------------
(***************************************************************************)
(* The other requests of the subscriptions page, the user's edits, and the *)
(* end of the process, composed with the pulls to a specification.         *)
(***************************************************************************)
EXTENDS SubscriptionPull

\* The steps of a request, each one access to the database, the cron or the
\* slot.  Update writes "filter" or "schedule"; "load" is ReloadAllJobs after
\* a restore.
StepsOf(kind) ==
  CASE kind = "create" -> <<"insert", "job">>
    [] kind \in {"filter", "schedule"} -> <<"read", "update", "reread", "job">>
    [] kind = "enable" -> <<"read", "update", "job">>
    [] kind = "disable" -> <<"read", "update", "unjob">>
    [] kind = "delete" -> <<"unjob", "drop", "logs">>
    [] kind = "batchDelete" -> <<"drop", "logs", "unjob">>
    [] kind = "reload" -> <<"unjob", "load", "job">>
    [] kind = "overwrite" -> <<"setting">>
    [] OTHER -> <<"running", "stop">>

Harmless == {"none", "stop", "overwrite"}
Request(a, kind) ==
  /\ op[a] = Idle
  /\ kind \in Kinds
  /\ used.ops < MaxOps
  /\ kind = "create" => row = NoRow
  /\ kind # "create" => row # NoRow
  /\ Use("ops")
  /\ op' = [op EXCEPT ![a] = [Idle EXCEPT !.kind = kind, !.plan = StepsOf(kind)]]
  /\ raced' = (raced \/ (kind \notin Harmless /\ \E b \in Actors : op[b].kind \notin Harmless))
  /\ UNCHANGED <<gitVars, row, entry, running, pull, stream, reader, task, logs,
                 panicked, touched, late>>

At(a, step) == op[a].plan # <<>> /\ Head(op[a].plan) = step
Next1(a) == IF Tail(op[a].plan) = <<>> THEN Idle ELSE [op[a] EXCEPT !.plan = Tail(@)]
Goes(a) == op' = [op EXCEPT ![a] = Next1(a)]
Answers(a) == op' = [op EXCEPT ![a] = Idle]
With(a, enabled, sched) ==
  op' = [op EXCEPT ![a] = [Next1(a) EXCEPT !.enabled = enabled, !.sched = sched]]

\* First: the request ends when the row is not there.
ReadRow(a) ==
  /\ At(a, "read")
  /\ IF Exists THEN With(a, row.enabled, row.sched) ELSE Answers(a)
  /\ UNCHANGED <<row, entry, logs, pull>>

InsertRow(a) ==
  /\ At(a, "insert")
  /\ \E sched, filtered \in BOOLEAN :
       /\ row' = IF row = NoRow THEN [state |-> "there", enabled |-> TRUE,
                                      sched |-> sched, filtered |-> filtered] ELSE row
       /\ IF row = NoRow THEN With(a, TRUE, sched) ELSE Answers(a)
  /\ UNCHANGED <<entry, logs, pull>>

\* One UPDATE; the struct gets the new values even if there was no row.
UpdateRow(a) ==
  LET changed == CASE op[a].kind = "enable" -> [row EXCEPT !.enabled = TRUE]
                   [] op[a].kind = "disable" -> [row EXCEPT !.enabled = FALSE]
                   [] op[a].kind = "schedule" -> [row EXCEPT !.sched = ~op[a].sched]
                   [] OTHER -> [row EXCEPT !.filtered = ~@] IN
  /\ At(a, "update")
  /\ row' = IF Exists THEN changed ELSE row
  /\ LET enabled == IF op[a].kind = "enable" THEN TRUE ELSE op[a].enabled
         sched == IF op[a].kind = "schedule" THEN ~op[a].sched ELSE op[a].sched IN
     With(a, enabled, sched)
  /\ UNCHANGED <<entry, logs, pull>>

RereadRow(a) ==
  /\ At(a, "reread")
  /\ IF Exists THEN With(a, row.enabled, row.sched) ELSE Goes(a)
  /\ UNCHANGED <<row, entry, logs, pull>>

DropRow(a) ==
  /\ At(a, "drop")
  /\ row' = IF Exists THEN [NoRow EXCEPT !.state = "gone"] ELSE row
  /\ Goes(a)
  /\ UNCHANGED <<entry, logs, pull>>

DropLogs(a) == At(a, "logs") /\ logs' = {} /\ Goes(a) /\ UNCHANGED <<row, entry, pull>>

\* Mutant: the job of a subscription that was disabled is kept.
AddOrUpdateJobOfAny(a) ==
  /\ At(a, "job")
  /\ entry' = (entry \/ op[a].sched)
  /\ Goes(a)
  /\ UNCHANGED <<row, logs, pull>>

\* The old job is removed; a new one needs an enabled copy with a schedule.
AddOrUpdateJob(a) ==
  /\ At(a, "job")
  /\ entry' = (op[a].enabled /\ op[a].sched)
  /\ Goes(a)
  /\ UNCHANGED <<row, logs, pull>>

RemoveJob(a) == At(a, "unjob") /\ entry' = FALSE /\ Goes(a) /\ UNCHANGED <<row, logs, pull>>

LoadJobs(a) ==
  /\ At(a, "load")
  /\ IF Scheduled THEN With(a, TRUE, TRUE) ELSE Answers(a)
  /\ UNCHANGED <<row, entry, logs, pull>>

\* The setting is read by each pull when it starts.
SetOverwrite(a) ==
  /\ At(a, "setting")
  /\ force' = ~force
  /\ Goes(a)
  /\ UNCHANGED <<row, entry, logs, pull>>

\* StopPull asks first whether a pull is running.
CheckRunning(a) ==
  /\ At(a, "running")
  /\ IF running # NoPull THEN Goes(a) ELSE Answers(a)
  /\ UNCHANGED <<row, entry, logs, pull>>
StopPull(a) ==
  /\ At(a, "stop")
  /\ pull' = Cancelled
  /\ Goes(a)
  /\ UNCHANGED <<row, entry, logs>>

Serve(a) ==
  /\ \/ SetOverwrite(a) /\ UNCHANGED <<refVars, sparse, tree, index, stash, unmerged, remote>>
     \/ /\ UNCHANGED gitVars
        /\ \/ ReadRow(a) \/ InsertRow(a) \/ UpdateRow(a) \/ RereadRow(a)
           \/ DropRow(a) \/ DropLogs(a) \/ AddOrUpdateJob(a) \/ RemoveJob(a)
           \/ LoadJobs(a) \/ CheckRunning(a) \/ StopPull(a)
  /\ UNCHANGED <<running, stream, reader, task, panicked, userVars>>

----------------------------------------------------------------------------
(* The user and the remote *)

Active == \E p \in Pulls : pull[p].pc \in {"git", "hook", "hooked", "sync", "log"}
Edited(f) == /\ used.edits < MaxEdits /\ Use("edits")
             /\ late' = IF Active THEN late \cup {f} ELSE late

EditScript(f) ==
  /\ EditFile(f)
  /\ Edited(f)
  /\ touched' = touched \cup {f}
  /\ UNCHANGED <<row, entry, running, pull, stream, op, reader, task, logs, panicked, raced>>
EditTask(f) ==
  /\ task' = [task EXCEPT ![f] = IF @ = "none" THEN "user" ELSE "none"]
  /\ Edited(f)
  /\ UNCHANGED <<gitVars, row, entry, running, pull, stream, op, reader, logs,
                 panicked, touched, raced>>
Push == PushCommit /\ UNCHANGED subVars

----------------------------------------------------------------------------
(* The process ends, by itself or by a send on a closed channel, and starts. *)

Crash ==
  /\ panicked \/ used.faults < MaxFaults
  /\ IF panicked THEN UNCHANGED used ELSE Use("faults")
  /\ IF running # NoPull /\ pull[running].pc = "git" /\ pull[running].plan # <<>>
     THEN Failure(Head(pull[running].plan), TRUE) /\ UNCHANGED <<remote, force>>
     ELSE UNCHANGED gitVars
  /\ running' = NoPull
  /\ pull' = [p \in Pulls |-> FreePull]
  /\ stream' = NoPull
  /\ op' = [a \in Actors |-> Idle]
  /\ reader' = [r \in Readers |-> IF reader[r].pc = "idle" THEN reader[r]
                                  ELSE [QuietReader EXCEPT !.pc = "over"]]
  /\ entry' = Scheduled
  /\ panicked' = FALSE
  /\ raced' = FALSE
  /\ touched' = touched \cup Strays
  /\ UNCHANGED <<row, task, logs, late>>

----------------------------------------------------------------------------
(* Specification *)

Start(p) == PullCheck(p) \/ CronFires(p)
Command1(p) == GitStep(p) \/ GitFails(p)
Advance(p) ==
  \/ PullStart(p) \/ beginSubscriptionPull(p) \/ buildGitAuthConfig(p)
  \/ GitDone(p) \/ Hook(p) \/ HookDone(p) \/ syncSubscriptionTasks(p)
  \/ WriteLog(p) \/ finishSubscriptionPull(p)
  \/ Broadcast(p) \/ Done(p) \/ removeSubBroadcaster(p)

Next ==
  \/ Crash
  \/ /\ ~panicked
     /\ \/ \E p \in Pulls : Start(p) \/ Command1(p) \/ Advance(p)
        \/ \E a \in Actors : Serve(a) \/ \E kind \in OpKinds : Request(a, kind)
        \/ \E r \in Readers : PullStream(r) \/ subscribe(r) \/ unsubscribe(r)
        \/ \E f \in Files : EditScript(f) \/ EditTask(f)
        \/ Push

PullSpec == SubInit /\ [][Next]_pullVars
=============================================================================
