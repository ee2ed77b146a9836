-------------------------- MODULE SubscriptionPull --------------------------
(***************************************************************************)
(* One subscription: its row and cron entry, the pulls that requests and   *)
(* the cron start, the slot that keeps them apart, the live log of a pull, *)
(* and the tasks a pull creates and deletes (service/subscription.go,      *)
(* service/subscription_scheduler.go, handler/subscription.go).            *)
(*                                                                         *)
(* Subscriptions share no state with each other; every file of the save    *)
(* directory stands for one possible task ("task <file>").                 *)
(***************************************************************************)
EXTENDS GitPull, FiniteSets

CONSTANTS
  Pulls,         \* pulls that may be under way at one time
  Actors,        \* goroutines that serve other requests of the page
  Readers,       \* clients of PullStream
  Kinds,         \* the requests the actors may send
  HookScript,    \* the subscription has a hook script
  AutoAdd, AutoDelete,   \* auto_add_cron, auto_del_cron
  HasCron,       \* the scripts with a cron expression in a comment
  Helpers,       \* scripts with the name of a notification helper
  DefaultRule,   \* default_cron_rule: "empty", "invalid" or "valid"
  MaxPulls, MaxOps, MaxEdits, MaxFaults,
  NoPull

OpKinds == {"create", "filter", "schedule", "enable", "disable", "delete",
            "batchDelete", "reload", "overwrite", "stop"}

ASSUME SubscriptionAssumption ==
  /\ Kinds \subseteq OpKinds
  /\ NoPull \notin Pulls
  /\ HasCron \subseteq Files /\ Helpers \subseteq Files
  /\ DefaultRule \in {"empty", "invalid", "valid"}
  /\ HookScript \in BOOLEAN /\ AutoAdd \in BOOLEAN /\ AutoDelete \in BOOLEAN
  /\ {MaxPulls, MaxOps, MaxEdits, MaxFaults} \subseteq Nat

VARIABLES
  row,       \* the subscription's row
  entry,     \* the cron has a job for it
  running,   \* subscriptionPullRunning and -Cancels: the pull in the slot
  pull,      \* pulls and requests for pulls
  stream,    \* subPullStreams: whose broadcaster it is
  op,        \* other requests under way
  reader,
  task,      \* the task of a file: "none", "user", or with the label
             \* of the subscription: "adopted", "created"
  logs,      \* outcomes in sub_logs of this subscription
  panicked,
  used,      \* how often each bounded thing has happened
  touched,   \* files the user, a killed reset or a stash pop wrote
  late,      \* files, or their tasks, the user changed during the last pull
  raced      \* two of the other requests have overlapped

subVars == <<row, entry, running, pull, stream, op, reader, task, logs,
             panicked, used, touched, late, raced>>
pullVars == <<gitVars, subVars>>
userVars == <<used, touched, late, raced>>

FreePull == [pc |-> "free", by |-> "none", stopped |-> FALSE, early |-> FALSE,
             filtered |-> FALSE, force |-> FALSE, plan |-> <<>>, goal |-> 0, bc |-> NoPull]
Idle == [kind |-> "none", plan |-> <<>>, enabled |-> FALSE, sched |-> FALSE]
QuietReader == [pc |-> "idle", bc |-> NoPull, closed |-> FALSE]
NoRow == [state |-> "none", enabled |-> FALSE, sched |-> FALSE, filtered |-> FALSE]

Exists == row.state = "there"
Scheduled == Exists /\ row.enabled /\ row.sched

SubInit ==
  /\ GitInit
  /\ row \in {NoRow} \cup [state : {"there"}, enabled : BOOLEAN, sched : BOOLEAN, filtered : BOOLEAN]
  /\ entry = Scheduled
  /\ running = NoPull
  /\ pull = [p \in Pulls |-> FreePull]
  /\ stream = NoPull
  /\ op = [a \in Actors |-> Idle]
  /\ reader = [r \in Readers |-> QuietReader]
  /\ task = [f \in Files |-> "none"]
  /\ logs = {}
  /\ panicked = FALSE
  /\ used = [pulls |-> 0, ops |-> 0, edits |-> 0, faults |-> 0]
  /\ touched = {f \in Files : tree[f] # 0}
  /\ late = {}
  /\ raced = FALSE

Strays == {f \in Files : tree'[f] # tree[f]}

Use(k) == used' = [used EXCEPT ![k] = @ + 1]

----------------------------------------------------------------------------
(* Starting a pull *)

\* A broadcaster has the name of the pull that created it; the name is not
\* used again while somebody refers to it.
Unused(p) == /\ pull[p].pc = "free"
             /\ \A q \in Pulls : pull[q].bc # p
             /\ \A r \in Readers : reader[r].bc # p

\* Handler Pull: the row is there and no pull is running, as read.
PullCheck(p) ==
  /\ Unused(p)
  /\ used.pulls < MaxPulls
  /\ Exists
  /\ running = NoPull
  /\ Use("pulls")
  /\ pull' = [pull EXCEPT ![p] = [FreePull EXCEPT !.pc = "checked", !.by = "handler",
                                                  !.filtered = row.filtered]]
  /\ UNCHANGED <<gitVars, row, entry, running, stream, op, reader, task, logs,
                 panicked, touched, late, raced>>

\* getOrCreateSubBroadcaster and the goroutine.
PullStart(p) ==
  LET b == IF stream = NoPull THEN p ELSE stream IN
  /\ pull[p].pc = "checked"
  /\ stream' = b
  /\ pull' = [pull EXCEPT ![p].pc = "started", ![p].bc = b]
  /\ UNCHANGED <<gitVars, row, entry, running, op, reader, task, logs, panicked, userVars>>

\* The callback of AddOrUpdateJob reads the row again.
CronFires(p) ==
  /\ Unused(p)
  /\ used.pulls < MaxPulls
  /\ entry
  /\ Exists /\ row.enabled
  /\ Use("pulls")
  /\ pull' = [pull EXCEPT ![p] = [FreePull EXCEPT !.pc = "started", !.by = "cron",
                                                  !.filtered = row.filtered]]
  /\ UNCHANGED <<gitVars, row, entry, running, stream, op, reader, task, logs,
                 panicked, touched, late, raced>>

\* A pull of the cron has no broadcaster to end.
AfterPull(p) == IF pull[p].by = "cron" THEN FreePull ELSE [pull[p] EXCEPT !.pc = "done"]

\* Mutant: the slot is taken whether or not it is free.
beginSubscriptionPullUnchecked(p) ==
  /\ pull[p].pc = "started"
  /\ running' = p
  /\ pull' = [pull EXCEPT ![p].pc = "auth"]
  /\ UNCHANGED <<gitVars, row, entry, stream, op, reader, task, logs, panicked, userVars>>

beginSubscriptionPull(p) ==
  /\ pull[p].pc = "started"
  /\ \/ /\ running = NoPull
        /\ running' = p
        /\ pull' = [pull EXCEPT ![p].pc = "auth"]
     \/ /\ running # NoPull
        /\ pull' = [pull EXCEPT ![p] = AfterPull(p)]
        /\ UNCHANGED running
  /\ UNCHANGED <<gitVars, row, entry, stream, op, reader, task, logs, panicked, userVars>>

----------------------------------------------------------------------------
(* PullSubscriptionWithContext *)

\* The key and the credentials: an error returns without a log of the pull.
buildGitAuthConfig(p) ==
  /\ pull[p].pc = "auth"
  /\ \/ pull' = [pull EXCEPT ![p].pc = "git", ![p].goal = remote,
                                ![p].force = force,
                                ![p].plan = PlanFor(pull[p].filtered, force)]
        /\ late' = {}
        /\ UNCHANGED used
     \/ used.faults < MaxFaults /\ Use("faults")
        /\ pull' = [pull EXCEPT ![p].pc = "finish"]
        /\ UNCHANGED late
  /\ UNCHANGED <<gitVars, row, entry, running, stream, op, reader, task, logs,
                 panicked, touched, raced>>

\* A step of the repository, if its command was started before the context was
\* cancelled or ends before it is killed.
GitStep(p) ==
  /\ pull[p].pc = "git" /\ pull[p].plan # <<>>
  /\ Command(Head(pull[p].plan), pull[p].filtered)
  /\ pull' = [pull EXCEPT ![p].plan = NextPlan(@),
                          ![p].pc = IF pull[p].stopped /\ Head(pull[p].plan) # "pop"
                                    THEN "failed" ELSE "git"]
  /\ touched' = IF Head(pull[p].plan) = "pop" THEN touched \cup Strays ELSE touched
  /\ UNCHANGED <<remote, force, row, entry, running, stream, op, reader, task, logs, panicked,
                 used, late, raced>>

\* Only the failure of a stash pop is not an error.
GitFails(p) ==
  /\ pull[p].pc = "git" /\ pull[p].plan # <<>>
  /\ Failure(Head(pull[p].plan), pull[p].stopped)
  /\ \/ pull[p].stopped /\ UNCHANGED used
     \/ Head(pull[p].plan) = "occupied" /\ UNCHANGED used
     \/ used.faults < MaxFaults /\ Use("faults")
  /\ pull' = IF Head(pull[p].plan) = "pop" THEN [pull EXCEPT ![p].plan = <<>>]
             ELSE [pull EXCEPT ![p].pc = "failed", ![p].plan = <<>>]
  /\ touched' = touched \cup Strays
  /\ UNCHANGED <<remote, force, row, entry, running, stream, op, reader, task, logs,
                 panicked, late, raced>>

\* The three checks of the context: after the repository, after the hook.
Moved(p, pc) == pull' = [pull EXCEPT ![p].pc = pc]

GitDone(p) ==
  /\ pull[p].pc = "git" /\ pull[p].plan = <<>>
  /\ Moved(p, IF pull[p].stopped THEN "failed" ELSE "hook")
  /\ UNCHANGED <<gitVars, row, entry, running, stream, op, reader, task, logs, panicked, userVars>>

\* The hook has its own timeout and does not see the context.
Hook(p) ==
  /\ pull[p].pc = "hook"
  /\ \/ Moved(p, "hooked") /\ UNCHANGED used
     \/ HookScript /\ used.faults < MaxFaults /\ Use("faults") /\ Moved(p, "failed")
  /\ UNCHANGED <<gitVars, row, entry, running, stream, op, reader, task, logs,
                 panicked, touched, late, raced>>

\* Mutant: the second check is missing.
HookDoneUnchecked(p) ==
  /\ pull[p].pc = "hooked"
  /\ Moved(p, "sync")
  /\ UNCHANGED <<gitVars, row, entry, running, stream, op, reader, task, logs, panicked, userVars>>

HookDone(p) ==
  /\ pull[p].pc = "hooked"
  /\ Moved(p, IF pull[p].stopped THEN "failed" ELSE "sync")
  /\ UNCHANGED <<gitVars, row, entry, running, stream, op, reader, task, logs, panicked, userVars>>

\* collectSubscriptionTaskCandidates: the scripts in the directory that the
\* filters select, or all of them if the filters select none.
Managed(filtered, f) ==
  filtered /\ (\E g \in Kept : tree[g] # 0) => f \in Kept
\* A script without a cron of its own gets the default one, unless it is a helper.
DefaultCron == IF DefaultRule = "valid" THEN "default_cron_rule" ELSE "FallbackSubscriptionCron"
CronOf(f) == CASE f \in HasCron -> "own"
               [] f \in Helpers \ HasCron -> "none"
               [] OTHER -> DefaultCron
Candidates(filtered) ==
  {f \in Files : tree[f] # 0 /\ Managed(filtered, f) /\ CronOf(f) # "none"}

\* syncSubscriptionTasks: a candidate's task is created or, if it is there,
\* gets the label; a labelled task without a candidate is deleted.
Synced(cands, f) ==
  CASE f \in cands /\ AutoAdd /\ task[f] = "none" -> "created"
    [] f \in cands /\ AutoAdd /\ task[f] = "user" -> "adopted"
    [] f \notin cands /\ AutoDelete /\ task[f] \in {"adopted", "created"} -> "none"
    [] OTHER -> task[f]

\* Mutant: tasks whose script has disappeared stay.
syncWithoutDelete(p) ==
  /\ pull[p].pc = "sync"
  /\ task' = [f \in Files |-> IF Synced(Candidates(pull[p].filtered), f) = "none"
                              THEN task[f] ELSE Synced(Candidates(pull[p].filtered), f)]
  /\ Moved(p, "log")
  /\ UNCHANGED <<gitVars, row, entry, running, stream, op, reader, logs, panicked, userVars>>

syncSubscriptionTasks(p) ==
  /\ pull[p].pc = "sync"
  /\ task' = [f \in Files |-> Synced(Candidates(pull[p].filtered), f)]
  /\ Moved(p, "log")
  /\ UNCHANGED <<gitVars, row, entry, running, stream, op, reader, logs, panicked, userVars>>

\* A log row is written also for a subscription that has been deleted.
WriteLog(p) ==
  /\ pull[p].pc \in {"log", "failed"}
  /\ logs' = logs \cup {pull[p].pc}
  /\ Moved(p, "finish")
  /\ UNCHANGED <<gitVars, row, entry, running, stream, op, reader, task, panicked, userVars>>

\* finishSubscriptionPull frees the slot, whoever is in it.
finishSubscriptionPull(p) ==
  /\ pull[p].pc = "finish"
  /\ running' = NoPull
  /\ pull' = [pull EXCEPT ![p] = AfterPull(p)]
  /\ UNCHANGED <<gitVars, row, entry, stream, op, reader, task, logs, panicked, userVars>>

\* StopSubscriptionPull: the function that is registered now is called.
Cancelled ==
  [p \in Pulls |-> IF p # running THEN pull[p]
                   ELSE [pull[p] EXCEPT !.stopped = TRUE,
                           !.early = @ \/ pull[p].pc \in {"auth", "git", "hook", "hooked"}]]
----------------------------------------------------------------------------
(* The live log *)

Listening(b) == {r \in Readers : reader[r].bc = b /\ reader[r].pc \in {"reading", "told"}}
SendPanics(b) == \E r \in Listening(b) : reader[r].closed

Emitting(p) == pull[p].by = "handler" /\ pull[p].pc \in {"auth", "git", "hook", "hooked", "sync", "log", "failed"}
Broadcast(p) ==
  /\ Emitting(p)
  /\ SendPanics(pull[p].bc)
  /\ panicked' = TRUE
  /\ UNCHANGED <<gitVars, row, entry, running, pull, stream, op, reader, task, logs, userVars>>

\* done(), then the deferred removeSubBroadcaster, which closes the channels
\* of whatever broadcaster the subscription has now.
Done(p) ==
  /\ pull[p].pc = "done"
  /\ panicked' = SendPanics(pull[p].bc)
  /\ reader' = [r \in Readers |-> IF r \in Listening(pull[p].bc) /\ ~reader[r].closed
                                  THEN [reader[r] EXCEPT !.pc = "told"] ELSE reader[r]]
  /\ Moved(p, "remove")
  /\ UNCHANGED <<gitVars, row, entry, running, stream, op, task, logs, userVars>>

removeSubBroadcaster(p) ==
  /\ pull[p].pc = "remove"
  /\ reader' = [r \in Readers |-> IF stream # NoPull /\ r \in Listening(stream)
                                  THEN [reader[r] EXCEPT !.closed = TRUE] ELSE reader[r]]
  /\ stream' = NoPull
  /\ pull' = [pull EXCEPT ![p] = FreePull]
  /\ UNCHANGED <<gitVars, row, entry, running, op, task, logs, panicked, userVars>>

PullStream(r) ==
  /\ reader[r].pc = "idle"
  /\ stream # NoPull
  /\ reader' = [reader EXCEPT ![r] = [QuietReader EXCEPT !.pc = "found", !.bc = stream]]
  /\ UNCHANGED <<gitVars, row, entry, running, pull, stream, op, task, logs, panicked, userVars>>
subscribe(r) ==
  /\ reader[r].pc = "found"
  /\ reader' = [reader EXCEPT ![r].pc = "reading"]
  /\ UNCHANGED <<gitVars, row, entry, running, pull, stream, op, task, logs, panicked, userVars>>
unsubscribe(r) ==
  /\ reader[r].pc \in {"reading", "told"}
  /\ reader' = [reader EXCEPT ![r] = [QuietReader EXCEPT !.pc = "over"]]
  /\ UNCHANGED <<gitVars, row, entry, running, pull, stream, op, task, logs, panicked, userVars>>
=============================================================================
