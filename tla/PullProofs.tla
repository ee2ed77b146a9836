------------------------------ MODULE PullProofs ------------------------------
(***************************************************************************)
(* What subscriptions promise, for every number of pulls, requests,        *)
(* readers, files, commits, failures and crashes.                          *)
(*                                                                         *)
(* One pull at a time, and a pull that is stopped in time fails: what git, *)
(* the cron, the tasks and the live log do is of no importance.  The       *)
(* argument needs where each pull stands, whom the slot names, and that a  *)
(* pull is cancelled only while the slot names it.                         *)
(*                                                                         *)
(* The cron follows the row: it needs the requests alone, what each has    *)
(* read and has yet to do.                                                 *)
(*                                                                         *)
(* A successful pull brings the remote, local work is kept and the tasks   *)
(* follow: this is about the list of git commands that a pull has yet to   *)
(* go through, and what the save directory is like before each of them.    *)
(***************************************************************************)
EXTENDS SubscriptionProps, TLAPS

PullFields == {"pc", "by", "stopped", "early", "plan", "bc", "goal", "force"}
PullShape == DOMAIN pull = Pulls /\ \A p \in Pulls : PullFields \subseteq DOMAIN pull[p]

\* The context of a pull that was stopped early says so.
EarlyIsStopped == \A p \in Pulls : pull[p].early => pull[p].stopped

PullInv == PullShape /\ PullSlotExact /\ EarlyIsStopped /\ StoppedPullFails

\* The parts of the invariant that speak of one pull.
PullOK(t, inSlot) ==
  /\ PullFields \subseteq DOMAIN t
  /\ t.pc \in Holding <=> inSlot
  /\ t.early => t.stopped /\ t.pc \notin {"sync", "log"}

LEMMA InvIsOfPulls ==
  PullInv <=> DOMAIN pull = Pulls /\ \A p \in Pulls : PullOK(pull[p], running = p)
BY DEF PullInv, PullShape, PullSlotExact, EarlyIsStopped, StoppedPullFails, PullOK

LEMMA InvIsOfPullsNext ==
  PullInv' <=> DOMAIN pull' = Pulls /\ \A p \in Pulls : PullOK(pull'[p], running' = p)
BY DEF PullInv, PullShape, PullSlotExact, EarlyIsStopped, StoppedPullFails, PullOK

\* A step that changes one pull, and no other pull's hold on the slot.
LEMMA OnePull ==
  ASSUME PullInv, NEW p \in Pulls, NEW t, pull' = [pull EXCEPT ![p] = t],
         PullOK(t, running' = p),
         \A q \in Pulls \ {p} : running' = q <=> running = q
  PROVE  PullInv'
BY InvIsOfPulls, InvIsOfPullsNext DEF PullOK

LEMMA OnePullMoves ==
  ASSUME PullInv, NEW p \in Pulls, NEW t, pull' = [pull EXCEPT ![p] = t],
         PullOK(t, running = p), UNCHANGED running
  PROVE  PullInv'
BY OnePull

LEMMA NothingMoves ==
  ASSUME PullInv, UNCHANGED <<pull, running>>
  PROVE  PullInv'
BY InvIsOfPulls, InvIsOfPullsNext

\* A pull that is set to rest outside of the slot.
LEMMA FreeIsOK == PullOK(FreePull, FALSE)
BY DEF FreePull, PullOK, PullFields, Holding

LEMMA StartKeeps ==
  ASSUME PullInv, NEW p \in Pulls, Start(p)
  PROVE  PullInv'
<1>1. pull[p].pc = "free" /\ UNCHANGED running
  BY DEF Start, PullCheck, CronFires, Unused
<1>2. running # p
  BY <1>1, InvIsOfPulls DEF PullOK, Holding
<1>3. PICK pc \in {"checked", "started"}, by \in {"handler", "cron"} :
        pull' = [pull EXCEPT ![p] = [FreePull EXCEPT !.pc = pc, !.by = by, !.filtered = row.filtered]]
  BY DEF Start, PullCheck, CronFires
<1>4. PullOK([FreePull EXCEPT !.pc = pc, !.by = by, !.filtered = row.filtered], FALSE)
  BY DEF FreePull, PullOK, PullFields, Holding
<1> QED BY <1>1, <1>2, <1>3, <1>4, OnePullMoves

\* Each command ends in "git" again or in "failed", both in the slot.
LEMMA CommandKeeps ==
  ASSUME PullInv, NEW p \in Pulls, Command1(p)
  PROVE  PullInv'
<1>1. pull[p].pc = "git" /\ UNCHANGED running
  BY DEF Command1, GitStep, GitFails
<1>2. PullOK(pull[p], running = p) /\ DOMAIN pull = Pulls
  BY InvIsOfPulls
<1>3. CASE GitStep(p)
  <2>1. PICK pc \in {"git", "failed"} :
          pull' = [pull EXCEPT ![p].plan = NextPlan(pull[p].plan), ![p].pc = pc]
    BY <1>3, <1>2 DEF GitStep
  <2> DEFINE t == [pull[p] EXCEPT !.plan = NextPlan(pull[p].plan), !.pc = pc]
  <2>2. pull' = [pull EXCEPT ![p] = t]
    BY <2>1, <1>2
  <2>3. PullOK(t, running = p)
    BY <1>1, <1>2 DEF PullOK, PullFields, Holding
  <2> HIDE DEF t
  <2> QED BY <2>2, <2>3, <1>1, OnePullMoves
<1>4. CASE GitFails(p)
  <2> DEFINE popped == [pull[p] EXCEPT !.plan = <<>>]
             failed == [pull[p] EXCEPT !.pc = "failed", !.plan = <<>>]
  <2>1. pull' = [pull EXCEPT ![p] = popped] \/ pull' = [pull EXCEPT ![p] = failed]
    BY <1>4, <1>2 DEF GitFails
  <2>2. PullOK(popped, running = p) /\ PullOK(failed, running = p)
    BY <1>1, <1>2 DEF PullOK, PullFields, Holding
  <2> HIDE DEF popped, failed
  <2> QED BY <2>1, <2>2, <1>1, OnePullMoves
<1> QED BY <1>3, <1>4 DEF Command1

\* The slot is taken when it is free, and given back by the pull it names.
LEMMA SlotKeeps ==
  ASSUME PullInv, NEW p \in Pulls, beginSubscriptionPull(p) \/ finishSubscriptionPull(p)
  PROVE  PullInv'
<1>1. PullOK(pull[p], running = p) /\ DOMAIN pull = Pulls
  BY InvIsOfPulls
<1>2. NoPull \notin Pulls
  BY SubscriptionAssumption
<1>3. pull[p].pc \in Holding \cup {"started"}
  BY DEF beginSubscriptionPull, finishSubscriptionPull, Holding
<1>4. PullOK(AfterPull(p), FALSE)
  BY <1>1, FreeIsOK DEF AfterPull, PullOK, PullFields, Holding
<1>5. CASE beginSubscriptionPull(p)
  <2>1. pull[p].pc = "started" /\ running # p
    BY <1>5, <1>1 DEF beginSubscriptionPull, PullOK, Holding
  <2>2. CASE running = NoPull /\ running' = p /\ pull' = [pull EXCEPT ![p].pc = "auth"]
    <3>1. PullOK([pull[p] EXCEPT !.pc = "auth"], TRUE)
      BY <1>1 DEF PullOK, PullFields, Holding
    <3> QED BY <2>2, <3>1, <1>2, OnePull
  <2>3. CASE UNCHANGED running /\ pull' = [pull EXCEPT ![p] = AfterPull(p)]
    BY <2>1, <2>3, <1>4, OnePullMoves
  <2> QED BY <1>5, <2>2, <2>3 DEF beginSubscriptionPull
<1>6. CASE finishSubscriptionPull(p)
  <2>1. running = p /\ running' = NoPull /\ pull' = [pull EXCEPT ![p] = AfterPull(p)]
    BY <1>6, <1>1 DEF finishSubscriptionPull, PullOK, Holding
  <2> QED BY <2>1, <1>2, <1>4, OnePull
<1> QED BY <1>5, <1>6

\* A move within the slot, or outside of it.  Only HookDone comes to "sync",
\* past a look at the context.
LEMMA MoveKeeps ==
  ASSUME PullInv, NEW p \in Pulls, NEW pc, Moved(p, pc), UNCHANGED running,
         pc \in Holding <=> pull[p].pc \in Holding,
         pc \in {"sync", "log"} => ~pull[p].stopped \/ pull[p].pc \in {"sync", "log"}
  PROVE  PullInv'
<1>1. PullOK(pull[p], running = p) /\ DOMAIN pull = Pulls
  BY InvIsOfPulls
<1>2. PullOK([pull[p] EXCEPT !.pc = pc], running = p)
  BY <1>1 DEF PullOK, PullFields
<1>3. pull' = [pull EXCEPT ![p] = [pull[p] EXCEPT !.pc = pc]]
  BY DEF Moved
<1> QED BY <1>2, <1>3, OnePullMoves

LEMMA AdvanceKeeps ==
  ASSUME PullInv, NEW p \in Pulls, Advance(p)
  PROVE  PullInv'
<1>1. PullOK(pull[p], running = p) /\ DOMAIN pull = Pulls
  BY InvIsOfPulls
<1>2. CASE PullStart(p)
  <2>1. PICK b : pull' = [pull EXCEPT ![p].pc = "started", ![p].bc = b]
    BY <1>2 DEF PullStart
  <2>2. pull' = [pull EXCEPT ![p] = [pull[p] EXCEPT !.pc = "started", !.bc = b]]
    BY <2>1, <1>1
  <2>3. pull[p].pc = "checked" /\ UNCHANGED running
    BY <1>2 DEF PullStart
  <2>4. PullOK([pull[p] EXCEPT !.pc = "started", !.bc = b], running = p)
    BY <2>3, <1>1 DEF PullOK, PullFields, Holding
  <2> QED BY <2>2, <2>3, <2>4, OnePullMoves
<1>3. CASE beginSubscriptionPull(p) \/ finishSubscriptionPull(p)
  BY <1>3, SlotKeeps
<1>4. CASE buildGitAuthConfig(p)
  <2>1. pull[p].pc = "auth" /\ UNCHANGED running
    BY <1>4 DEF buildGitAuthConfig
  <2>2. PullOK([pull[p] EXCEPT !.pc = "finish"], running = p)
    BY <2>1, <1>1 DEF PullOK, PullFields, Holding
  <2>3. CASE pull' = [pull EXCEPT ![p].pc = "finish"]
    BY <2>1, <2>2, <2>3, OnePullMoves
  <2> DEFINE plan == PlanFor(pull[p].filtered, force)
             t == [pull[p] EXCEPT !.pc = "git", !.goal = remote, !.force = force, !.plan = plan]
  <2>4. ASSUME NEW planned PROVE
          PullOK([pull[p] EXCEPT !.pc = "git", !.goal = remote, !.force = force, !.plan = planned], running = p)
    BY <2>1, <1>1 DEF PullOK, PullFields, Holding
  <2>5. CASE pull' = [pull EXCEPT ![p].pc = "git", ![p].goal = remote, ![p].force = force, ![p].plan = plan]
    <3> HIDE DEF plan
    <3>1. pull' = [pull EXCEPT ![p] = t]
      BY <2>5, <1>1
    <3>2. PullOK(t, running = p)
      BY <2>4
    <3> HIDE DEF t
    <3> QED BY <3>1, <3>2, <2>1, OnePullMoves
  <2> QED BY <1>4, <2>3, <2>5 DEF buildGitAuthConfig
<1>5. CASE GitDone(p) \/ Hook(p) \/ HookDone(p)
  BY <1>5, MoveKeeps DEF GitDone, Hook, HookDone, Holding
<1>6. CASE syncSubscriptionTasks(p) \/ WriteLog(p)
  BY <1>6, MoveKeeps DEF syncSubscriptionTasks, WriteLog, Holding
<1>7. CASE Broadcast(p)
  BY <1>7, NothingMoves DEF Broadcast
<1>8. CASE Done(p)
  BY <1>8, MoveKeeps DEF Done, Holding
<1>9. CASE removeSubBroadcaster(p)
  <2>1. running # p
    BY <1>9, <1>1 DEF removeSubBroadcaster, PullOK, Holding
  <2> QED BY <1>9, <2>1, FreeIsOK, OnePullMoves DEF removeSubBroadcaster
<1> QED BY <1>2, <1>3, <1>4, <1>5, <1>6, <1>7, <1>8, <1>9 DEF Advance

\* A stop reaches the pull in the slot, and is early only before "sync".
LEMMA StopKeeps ==
  ASSUME PullInv, pull' = Cancelled, UNCHANGED running
  PROVE  PullInv'
<1>1. DOMAIN pull = Pulls /\ \A p \in Pulls : PullOK(pull[p], running = p)
  BY InvIsOfPulls
<1>2. DOMAIN pull' = Pulls
  BY DEF Cancelled
<1>3. ASSUME NEW p \in Pulls PROVE PullOK(pull'[p], running = p)
  <2>1. CASE p # running
    BY <1>1, <2>1 DEF Cancelled
  <2>2. CASE p = running
    <3>1. pull'[p] = [pull[p] EXCEPT !.stopped = TRUE,
                        !.early = @ \/ pull[p].pc \in {"auth", "git", "hook", "hooked"}]
      BY <2>2 DEF Cancelled
    <3> QED BY <1>1, <3>1 DEF PullOK, PullFields
  <2> QED BY <2>1, <2>2
<1> QED BY <1>2, <1>3, InvIsOfPullsNext

LEMMA CrashKeeps ==
  ASSUME Crash
  PROVE  PullInv'
BY SubscriptionAssumption, FreeIsOK, InvIsOfPullsNext DEF Crash

LEMMA OthersKeep ==
  ASSUME PullInv,
         \/ \E a \in Actors : Serve(a) \/ \E kind \in OpKinds : Request(a, kind)
         \/ \E r \in Readers : PullStream(r) \/ subscribe(r) \/ unsubscribe(r)
         \/ \E f \in Files : EditScript(f) \/ EditTask(f)
         \/ Push
  PROVE  PullInv'
<1>1. CASE \E a \in Actors : Serve(a)
  <2>1. UNCHANGED running /\ (UNCHANGED pull \/ pull' = Cancelled)
    BY <1>1 DEF Serve, SetOverwrite, ReadRow, InsertRow, UpdateRow, RereadRow, DropRow,
                DropLogs, AddOrUpdateJob, RemoveJob, LoadJobs, CheckRunning, StopPull
  <2> QED BY <2>1, NothingMoves, StopKeeps
<1>2. CASE \E a \in Actors, kind \in OpKinds : Request(a, kind)
  BY <1>2, NothingMoves DEF Request
<1>3. CASE \E r \in Readers : PullStream(r) \/ subscribe(r) \/ unsubscribe(r)
  BY <1>3, NothingMoves DEF PullStream, subscribe, unsubscribe
<1>4. CASE \E f \in Files : EditScript(f) \/ EditTask(f)
  BY <1>4, NothingMoves DEF EditScript, EditTask
<1>5. CASE Push
  BY <1>5, NothingMoves DEF Push, subVars
<1> QED BY <1>1, <1>2, <1>3, <1>4, <1>5

THEOREM PullInvariant == PullSpec => []PullInv
<1>1. SubInit => PullInv
  <2>1. SubInit => running = NoPull /\ pull = [p \in Pulls |-> FreePull]
    BY DEF SubInit
  <2> QED BY <2>1, SubscriptionAssumption, FreeIsOK, InvIsOfPulls
<1>2. PullInv /\ [Next]_pullVars => PullInv'
  <2> SUFFICES ASSUME PullInv, [Next]_pullVars PROVE PullInv'
    OBVIOUS
  <2>1. CASE UNCHANGED pullVars
    BY <2>1, NothingMoves DEF pullVars, subVars
  <2>2. ASSUME NEW p \in Pulls, Start(p) \/ Command1(p) \/ Advance(p) PROVE PullInv'
    BY <2>2, StartKeeps, CommandKeeps, AdvanceKeeps
  <2> QED BY <2>1, <2>2, CrashKeeps, OthersKeep DEF Next
<1> QED BY <1>1, <1>2, PTL DEF PullSpec

\* Whoever starts pulls and however they end, the pull between begin and finish
\* is the one the slot names: two git processes never work in one directory, and
\* a stop reaches the pull that runs.
THEOREM OnePullInTheSlot == PullSpec => []PullSlotExact
<1>1. PullInv => PullSlotExact
  BY DEF PullInv
<1> QED BY <1>1, PullInvariant, PTL

\* A pull whose stop was answered before its last look at the context touches
\* no task and writes no success into the log.
THEOREM StoppedPullsFail == PullSpec => []StoppedPullFails
<1>1. PullInv => StoppedPullFails
  BY DEF PullInv
<1> QED BY <1>1, PullInvariant, PTL

-----------------------------------------------------------------------------
(***************************************************************************)
(* The cron has a job just if the subscription is enabled with a schedule. *)
(*                                                                         *)
(* A request reads, writes the row and changes the cron in steps of its    *)
(* own.  While only one such request is under way, what it has read and    *)
(* what it has yet to do determine how the cron differs from the row.      *)
(***************************************************************************)
Agree == entry = Scheduled
Copied(t) == Exists /\ t.enabled = row.enabled /\ t.sched = row.sched

\* What is left of a request, and what holds before it.
Harmlessly(t) == t.kind \in Harmless
                 /\ t.plan \in {<<>>, <<"setting">>, <<"running", "stop">>, <<"stop">>}
Creates(t) == t.kind = "create" /\ \/ t.plan = <<"insert", "job">> /\ Agree
                                   \/ t.plan = <<"job">> /\ Copied(t)
Updates(t) == t.kind \in {"filter", "schedule"} /\
  \/ t.plan = <<"read", "update", "reread", "job">> /\ Agree
  \/ t.plan = <<"update", "reread", "job">> /\ Exists
  \/ t.plan = <<"reread", "job">> /\ Exists
  \/ t.plan = <<"job">> /\ Copied(t)
Enables(t) == t.kind = "enable" /\ \/ t.plan = <<"read", "update", "job">> /\ Agree
                                   \/ t.plan = <<"update", "job">> /\ Copied(t)
                                   \/ t.plan = <<"job">> /\ Copied(t)
Disables(t) == t.kind = "disable" /\ \/ t.plan = <<"read", "update", "unjob">> /\ Agree
                                     \/ t.plan = <<"update", "unjob">> /\ Exists
                                     \/ t.plan = <<"unjob">> /\ ~Scheduled
Deletes(t) == t.kind = "delete" /\ \/ t.plan = <<"unjob", "drop", "logs">>
                                   \/ t.plan = <<"drop", "logs">> /\ entry = FALSE
                                   \/ t.plan = <<"logs">> /\ entry = FALSE /\ ~Exists
BatchDeletes(t) == t.kind = "batchDelete" /\ \/ t.plan = <<"drop", "logs", "unjob">>
                                             \/ t.plan = <<"logs", "unjob">> /\ ~Exists
                                             \/ t.plan = <<"unjob">> /\ ~Exists
Reloads(t) == t.kind = "reload" /\ \/ t.plan = <<"unjob", "load", "job">>
                                   \/ t.plan = <<"load", "job">> /\ entry = FALSE
                                   \/ t.plan = <<"job">> /\ Copied(t)
Stage(t) == \/ Harmlessly(t) \/ Creates(t) \/ Updates(t) \/ Enables(t) \/ Disables(t)
            \/ Deletes(t) \/ BatchDeletes(t) \/ Reloads(t)

RequestFields == {"kind", "plan", "enabled", "sched"}
RowFields == {"state", "enabled", "sched", "filtered"}
JobInv ==
  /\ DOMAIN op = Actors /\ \A a \in Actors : RequestFields \subseteq DOMAIN op[a]
  /\ RowFields \subseteq DOMAIN row
  /\ ~raced => /\ \A a \in Actors : Stage(op[a])
               /\ \A a, b \in Actors : a # b => op[a].kind \in Harmless \/ op[b].kind \in Harmless
               /\ JobMatchesRow

LEMMA IdleStage == Harmlessly(Idle) /\ RequestFields \subseteq DOMAIN Idle
BY DEF Harmlessly, Harmless, Idle, RequestFields

LEMMA HarmlessStage ==
  ASSUME NEW t, Stage(t), t.kind \in Harmless
  PROVE  Harmlessly(t)
BY DEF Stage, Harmless, Creates, Updates, Enables, Disables, Deletes, BatchDeletes, Reloads

\* A stage lasts while row and cron stay as they are.
LEMMA StageLasts ==
  ASSUME UNCHANGED <<row, entry>>, NEW a, NEW t, Stage(t), op'[a] = t
  PROVE  Stage(op[a])'
<1>1. /\ UNCHANGED <<Agree, Exists, Scheduled>>
      /\ Copied(t) => Copied(op[a])'
  BY DEF Agree, Exists, Scheduled, Copied
<1>2. CASE Harmlessly(t)
  BY <1>2 DEF Harmlessly, Stage
<1>3. CASE Creates(t)
  BY <1>1, <1>3 DEF Creates, Stage
<1>4. CASE Updates(t)
  BY <1>1, <1>4 DEF Updates, Stage
<1>5. CASE Enables(t)
  BY <1>1, <1>5 DEF Enables, Stage
<1>6. CASE Disables(t)
  BY <1>1, <1>6 DEF Disables, Stage
<1>7. CASE Deletes(t)
  BY <1>1, <1>7 DEF Deletes, Stage
<1>8. CASE BatchDeletes(t)
  BY <1>1, <1>8 DEF BatchDeletes, Stage
<1>9. CASE Reloads(t)
  BY <1>1, <1>9 DEF Reloads, Stage
<1> QED BY <1>2, <1>3, <1>4, <1>5, <1>6, <1>7, <1>8, <1>9 DEF Stage

\* One request goes on: a harmless one leaves row and cron alone, and the last
\* step of any other makes them agree.
GoesOn(a, t) ==
  /\ Harmlessly(t) \/ (t.kind = op[a].kind /\ Stage(t)')
  /\ op[a].kind \in Harmless => t.kind \in Harmless /\ UNCHANGED <<row, entry>>
  /\ op[a].kind \notin Harmless /\ t.kind \in Harmless => Agree'

LEMMA RequestGoesOn ==
  ASSUME JobInv, NEW a \in Actors, NEW t, op' = [op EXCEPT ![a] = t], RequestFields \subseteq DOMAIN t,
         RowFields \subseteq DOMAIN row', raced' = raced, ~raced => GoesOn(a, t)
  PROVE  JobInv'
<1> USE DEF GoesOn
<1>1. DOMAIN op' = Actors /\ op'[a] = t /\ \A b \in Actors \ {a} : op'[b] = op[b]
  BY DEF JobInv
<1>2. \A b \in Actors : RequestFields \subseteq DOMAIN op'[b]
  BY <1>1 DEF JobInv
<1>3. ASSUME ~raced, NEW b \in Actors PROVE Stage(op[b]) /\ (b # a => op[a].kind \in Harmless \/ op[b].kind \in Harmless)
  BY <1>3 DEF JobInv
<1>4. ASSUME ~raced, NEW b \in Actors PROVE Stage(op[b])'
  <2>1. CASE b = a
    BY <1>1, <1>4, <2>1 DEF Stage, Harmlessly
  <2>2. CASE b # a /\ op[b].kind \in Harmless
    <3>1. Harmlessly(op[b]) /\ op'[b] = op[b]
      BY <1>1, <1>3, <1>4, <2>2, HarmlessStage
    <3> QED BY <3>1 DEF Stage, Harmlessly
  <2>3. CASE b # a /\ op[b].kind \notin Harmless
    <3>1. UNCHANGED <<row, entry>> /\ op'[b] = op[b] /\ Stage(op[b])
      BY <1>1, <1>3, <1>4, <2>3
    <3> QED BY <3>1, StageLasts
  <2> QED BY <2>1, <2>2, <2>3
<1>5. ASSUME ~raced, NEW b \in Actors, NEW c \in Actors, b # c
      PROVE  op'[b].kind \in Harmless \/ op'[c].kind \in Harmless
  <2>1. op[b].kind \in Harmless \/ op[c].kind \in Harmless
    BY <1>5 DEF JobInv
  <2>2. t.kind \in Harmless \/ t.kind = op[a].kind
    BY <1>5 DEF Harmlessly
  <2> QED BY <1>1, <2>1, <2>2
<1>6. ASSUME ~raced, \A b \in Actors : op'[b].kind \in Harmless PROVE entry' = Scheduled'
  <2>1. t.kind \in Harmless
    BY <1>1, <1>6
  <2>2. CASE op[a].kind \notin Harmless
    BY <1>6, <2>1, <2>2 DEF Agree
  <2>3. CASE op[a].kind \in Harmless
    <3>1. \A b \in Actors : op[b].kind \in Harmless
      BY <1>1, <1>6, <2>3
    <3>2. entry = Scheduled /\ UNCHANGED <<row, entry>>
      BY <1>6, <2>3, <3>1 DEF JobInv, JobMatchesRow
    <3> QED BY <3>2 DEF Scheduled, Exists
  <2> QED BY <2>2, <2>3
<1> QED BY <1>1, <1>2, <1>4, <1>5, <1>6 DEF JobInv, JobMatchesRow

LEMMA WithIs ==
  ASSUME JobInv, NEW a \in Actors, NEW e, NEW s, With(a, e, s)
  PROVE  \E t : /\ op' = [op EXCEPT ![a] = t] /\ RequestFields \subseteq DOMAIN t
                /\ Tail(op[a].plan) # <<>> => /\ t.kind = op[a].kind /\ t.plan = Tail(op[a].plan)
                                              /\ t.enabled = e /\ t.sched = s
<1> DEFINE t == [Next1(a) EXCEPT !.enabled = e, !.sched = s]
<1>1. RequestFields \subseteq DOMAIN op[a]
  BY DEF JobInv
<1>2. RequestFields \subseteq DOMAIN Next1(a)
      /\ (Tail(op[a].plan) # <<>> => Next1(a).kind = op[a].kind /\ Next1(a).plan = Tail(op[a].plan))
  BY <1>1, IdleStage DEF Next1, RequestFields
<1>3. op' = [op EXCEPT ![a] = t]
  BY DEF With
<1>4. /\ RequestFields \subseteq DOMAIN t /\ t.kind = Next1(a).kind /\ t.plan = Next1(a).plan
      /\ t.enabled = e /\ t.sched = s
  BY <1>2 DEF RequestFields
<1> HIDE DEF t
<1> QED BY <1>2, <1>3, <1>4

LEMMA GoesIs ==
  ASSUME JobInv, NEW a \in Actors, Goes(a)
  PROVE  \E t : /\ op' = [op EXCEPT ![a] = t] /\ RequestFields \subseteq DOMAIN t
                /\ Tail(op[a].plan) = <<>> => t = Idle
                /\ Tail(op[a].plan) # <<>> => /\ t.kind = op[a].kind /\ t.plan = Tail(op[a].plan)
                                              /\ t.enabled = op[a].enabled /\ t.sched = op[a].sched
<1> DEFINE t == [op[a] EXCEPT !.plan = Tail(op[a].plan)]
<1>1. RequestFields \subseteq DOMAIN op[a]
  BY DEF JobInv
<1>2. /\ RequestFields \subseteq DOMAIN t /\ t.kind = op[a].kind /\ t.plan = Tail(op[a].plan)
      /\ t.enabled = op[a].enabled /\ t.sched = op[a].sched
  BY <1>1 DEF RequestFields
<1>3. op' = [op EXCEPT ![a] = IF Tail(op[a].plan) = <<>> THEN Idle ELSE t]
  BY DEF Goes, Next1
<1> HIDE DEF t
<1> QED BY <1>2, <1>3, IdleStage

\* What a request that is about to take a step does now, what it has yet to do
\* after that, and what holds.
Left(t, step, rest) ==
  \/ /\ t.kind \in Harmless
     /\ \/ step \in {"setting", "stop"} /\ rest = <<>>
        \/ step = "running" /\ rest = <<"stop">>
  \/ /\ t.kind \notin Harmless /\ step = "job" /\ rest = <<>> /\ Copied(t)
  \/ /\ t.kind = "create" /\ step = "insert" /\ rest = <<"job">> /\ Agree
  \/ /\ t.kind \in {"filter", "schedule"}
     /\ \/ step = "read" /\ rest = <<"update", "reread", "job">> /\ Agree
        \/ step = "update" /\ rest = <<"reread", "job">> /\ Exists
        \/ step = "reread" /\ rest = <<"job">> /\ Exists
  \/ /\ t.kind = "enable"
     /\ \/ step = "read" /\ rest = <<"update", "job">> /\ Agree
        \/ step = "update" /\ rest = <<"job">> /\ Copied(t)
  \/ /\ t.kind = "disable"
     /\ \/ step = "read" /\ rest = <<"update", "unjob">> /\ Agree
        \/ step = "update" /\ rest = <<"unjob">> /\ Exists
        \/ step = "unjob" /\ rest = <<>> /\ ~Scheduled
  \/ /\ t.kind = "delete"
     /\ \/ step = "unjob" /\ rest = <<"drop", "logs">>
        \/ step = "drop" /\ rest = <<"logs">> /\ entry = FALSE
        \/ step = "logs" /\ rest = <<>> /\ entry = FALSE /\ ~Exists
  \/ /\ t.kind = "batchDelete"
     /\ \/ step = "drop" /\ rest = <<"logs", "unjob">>
        \/ step = "logs" /\ rest = <<"unjob">> /\ ~Exists
        \/ step = "unjob" /\ rest = <<>> /\ ~Exists
  \/ /\ t.kind = "reload"
     /\ \/ step = "unjob" /\ rest = <<"load", "job">>
        \/ step = "load" /\ rest = <<"job">> /\ entry = FALSE

\* A plan of at most four steps, taken apart.
LEMMA FirstOfOne == \A x : Head(<<x>>) = x /\ Tail(<<x>>) = <<>>
OBVIOUS
LEMMA FirstOfTwo == \A x, y : Head(<<x, y>>) = x /\ Tail(<<x, y>>) = <<y>>
OBVIOUS
LEMMA FirstOfThree == \A x, y, z : Head(<<x, y, z>>) = x /\ Tail(<<x, y, z>>) = <<y, z>>
OBVIOUS
LEMMA FirstOfFour ==
  \A x, y, z, w : Head(<<x, y, z, w>>) = x /\ Tail(<<x, y, z, w>>) = <<y, z, w>>
OBVIOUS

LEMMA StageAt ==
  ASSUME NEW t, Stage(t), t.plan # <<>>
  PROVE  Left(t, Head(t.plan), Tail(t.plan))
<1> DEFINE plan == t.plan
           at(step, rest) == Head(plan) = step /\ Tail(plan) = rest
<1>1. CASE Harmlessly(t)
  <2>1. CASE plan = <<"setting">>
    <3>1. at("setting", <<>>)
      BY <2>1, FirstOfOne, Zenon
    <3> QED BY <1>1, <2>1, <3>1 DEF Left, Harmlessly, Harmless
  <2>2. CASE plan = <<"running", "stop">>
    <3>1. at("running", <<"stop">>)
      BY <2>2, FirstOfTwo, Zenon
    <3> QED BY <1>1, <2>2, <3>1 DEF Left, Harmlessly, Harmless
  <2>3. CASE plan = <<"stop">>
    <3>1. at("stop", <<>>)
      BY <2>3, FirstOfOne, Zenon
    <3> QED BY <1>1, <2>3, <3>1 DEF Left, Harmlessly, Harmless
  <2> QED BY <1>1, <2>1, <2>2, <2>3 DEF Harmlessly
<1>2. CASE Creates(t)
  <2>1. CASE plan = <<"insert", "job">> /\ Agree
    <3>1. at("insert", <<"job">>)
      BY <2>1, FirstOfTwo, Zenon
    <3> QED BY <1>2, <2>1, <3>1 DEF Left, Creates, Harmless
  <2>2. CASE plan = <<"job">> /\ Copied(t)
    <3>1. at("job", <<>>)
      BY <2>2, FirstOfOne, Zenon
    <3> QED BY <1>2, <2>2, <3>1 DEF Left, Creates, Harmless
  <2> QED BY <1>2, <2>1, <2>2 DEF Creates
<1>3. CASE Updates(t)
  <2>1. CASE plan = <<"read", "update", "reread", "job">> /\ Agree
    <3>1. at("read", <<"update", "reread", "job">>)
      BY <2>1, FirstOfFour
    <3> QED BY <1>3, <2>1, <3>1 DEF Left, Updates, Harmless
  <2>2. CASE plan = <<"update", "reread", "job">> /\ Exists
    <3>1. at("update", <<"reread", "job">>)
      BY <2>2, FirstOfThree, Zenon
    <3> QED BY <1>3, <2>2, <3>1 DEF Left, Updates, Harmless
  <2>3. CASE plan = <<"reread", "job">> /\ Exists
    <3>1. at("reread", <<"job">>)
      BY <2>3, FirstOfTwo, Zenon
    <3> QED BY <1>3, <2>3, <3>1 DEF Left, Updates, Harmless
  <2>4. CASE plan = <<"job">> /\ Copied(t)
    <3>1. at("job", <<>>)
      BY <2>4, FirstOfOne, Zenon
    <3> QED BY <1>3, <2>4, <3>1 DEF Left, Updates, Harmless
  <2> QED BY <1>3, <2>1, <2>2, <2>3, <2>4 DEF Updates
<1>4. CASE Enables(t)
  <2>1. CASE plan = <<"read", "update", "job">> /\ Agree
    <3>1. at("read", <<"update", "job">>)
      BY <2>1, FirstOfThree, Zenon
    <3> QED BY <1>4, <2>1, <3>1 DEF Left, Enables, Harmless
  <2>2. CASE plan = <<"update", "job">> /\ Copied(t)
    <3>1. at("update", <<"job">>)
      BY <2>2, FirstOfTwo, Zenon
    <3> QED BY <1>4, <2>2, <3>1 DEF Left, Enables, Harmless
  <2>3. CASE plan = <<"job">> /\ Copied(t)
    <3>1. at("job", <<>>)
      BY <2>3, FirstOfOne, Zenon
    <3> QED BY <1>4, <2>3, <3>1 DEF Left, Enables, Harmless
  <2> QED BY <1>4, <2>1, <2>2, <2>3 DEF Enables
<1>5. CASE Disables(t)
  <2>1. CASE plan = <<"read", "update", "unjob">> /\ Agree
    <3>1. at("read", <<"update", "unjob">>)
      BY <2>1, FirstOfThree, Zenon
    <3> QED BY <1>5, <2>1, <3>1 DEF Left, Disables, Harmless
  <2>2. CASE plan = <<"update", "unjob">> /\ Exists
    <3>1. at("update", <<"unjob">>)
      BY <2>2, FirstOfTwo, Zenon
    <3> QED BY <1>5, <2>2, <3>1 DEF Left, Disables, Harmless
  <2>3. CASE plan = <<"unjob">> /\ ~Scheduled
    <3>1. at("unjob", <<>>)
      BY <2>3, FirstOfOne, Zenon
    <3> QED BY <1>5, <2>3, <3>1 DEF Left, Disables, Harmless
  <2> QED BY <1>5, <2>1, <2>2, <2>3 DEF Disables
<1>6. CASE Deletes(t)
  <2>1. CASE plan = <<"unjob", "drop", "logs">>
    <3>1. at("unjob", <<"drop", "logs">>)
      BY <2>1, FirstOfThree, Zenon
    <3> QED BY <1>6, <2>1, <3>1 DEF Left, Deletes, Harmless
  <2>2. CASE plan = <<"drop", "logs">> /\ entry = FALSE
    <3>1. at("drop", <<"logs">>)
      BY <2>2, FirstOfTwo, Zenon
    <3> QED BY <1>6, <2>2, <3>1 DEF Left, Deletes, Harmless
  <2>3. CASE plan = <<"logs">> /\ entry = FALSE /\ ~Exists
    <3>1. at("logs", <<>>)
      BY <2>3, FirstOfOne, Zenon
    <3> QED BY <1>6, <2>3, <3>1 DEF Left, Deletes, Harmless
  <2> QED BY <1>6, <2>1, <2>2, <2>3 DEF Deletes
<1>7. CASE BatchDeletes(t)
  <2>1. CASE plan = <<"drop", "logs", "unjob">>
    <3>1. at("drop", <<"logs", "unjob">>)
      BY <2>1, FirstOfThree, Zenon
    <3> QED BY <1>7, <2>1, <3>1 DEF Left, BatchDeletes, Harmless
  <2>2. CASE plan = <<"logs", "unjob">> /\ ~Exists
    <3>1. at("logs", <<"unjob">>)
      BY <2>2, FirstOfTwo, Zenon
    <3> QED BY <1>7, <2>2, <3>1 DEF Left, BatchDeletes, Harmless
  <2>3. CASE plan = <<"unjob">> /\ ~Exists
    <3>1. at("unjob", <<>>)
      BY <2>3, FirstOfOne, Zenon
    <3> QED BY <1>7, <2>3, <3>1 DEF Left, BatchDeletes, Harmless
  <2> QED BY <1>7, <2>1, <2>2, <2>3 DEF BatchDeletes
<1>8. CASE Reloads(t)
  <2>1. CASE plan = <<"unjob", "load", "job">>
    <3>1. at("unjob", <<"load", "job">>)
      BY <2>1, FirstOfThree, Zenon
    <3> QED BY <1>8, <2>1, <3>1 DEF Left, Reloads, Harmless
  <2>2. CASE plan = <<"load", "job">> /\ entry = FALSE
    <3>1. at("load", <<"job">>)
      BY <2>2, FirstOfTwo, Zenon
    <3> QED BY <1>8, <2>2, <3>1 DEF Left, Reloads, Harmless
  <2>3. CASE plan = <<"job">> /\ Copied(t)
    <3>1. at("job", <<>>)
      BY <2>3, FirstOfOne, Zenon
    <3> QED BY <1>8, <2>3, <3>1 DEF Left, Reloads, Harmless
  <2> QED BY <1>8, <2>1, <2>2, <2>3 DEF Reloads
<1> QED BY <1>1, <1>2, <1>3, <1>4, <1>5, <1>6, <1>7, <1>8 DEF Stage

LEMMA LeftAt ==
  ASSUME JobInv, NEW a \in Actors, NEW step, At(a, step), ~raced
  PROVE  Left(op[a], step, Tail(op[a].plan))
BY StageAt DEF At, JobInv

LEMMA AnswersIs ==
  ASSUME NEW a \in Actors, Answers(a)
  PROVE  op' = [op EXCEPT ![a] = Idle] /\ RequestFields \subseteq DOMAIN Idle /\ Harmlessly(Idle)
BY IdleStage DEF Answers

LEMMA NotEmpty == \A x, y, z : <<x>> # <<>> /\ <<x, y>> # <<>> /\ <<x, y, z>> # <<>>
OBVIOUS

LEMMA ReadRowKeeps ==
  ASSUME JobInv, NEW a \in Actors, ReadRow(a), raced' = raced
  PROVE  JobInv'
<1>1. UNCHANGED <<row, entry>> /\ RowFields \subseteq DOMAIN row' /\ At(a, "read")
  BY DEF ReadRow, JobInv
<1>2. ASSUME ~raced PROVE /\ Tail(op[a].plan) # <<>> /\ op[a].kind \notin Harmless /\ Agree
  <2>1. Left(op[a], "read", Tail(op[a].plan))
    BY <1>1, <1>2, LeftAt
  <2> QED BY <2>1, NotEmpty DEF Left, Harmless
<1>3. CASE Exists
  <2>1. PICK t : /\ op' = [op EXCEPT ![a] = t] /\ RequestFields \subseteq DOMAIN t
                 /\ Tail(op[a].plan) # <<>> => /\ t.kind = op[a].kind /\ t.plan = Tail(op[a].plan)
                                               /\ t.enabled = row.enabled /\ t.sched = row.sched
    BY <1>3, WithIs DEF ReadRow
  <2>2. ASSUME ~raced PROVE t.kind = op[a].kind /\ Stage(t)'
    <3>1. Left(op[a], "read", t.plan) /\ t.kind = op[a].kind /\ Exists' /\ Copied(t)'
      BY <1>1, <1>2, <1>3, <2>1, <2>2, LeftAt DEF Exists, Copied
    <3> QED BY <3>1 DEF Left, Stage, Updates, Enables, Disables, Harmless
  <2> QED BY <1>1, <1>2, <2>1, <2>2, RequestGoesOn DEF GoesOn
<1>4. CASE ~Exists
  <2>1. Answers(a)
    BY <1>4 DEF ReadRow
  <2>2. ASSUME ~raced PROVE GoesOn(a, Idle)
    BY <1>1, <1>2, <2>1, <2>2, AnswersIs DEF GoesOn, Harmlessly, Agree, Scheduled, Exists
  <2> QED BY <1>1, <2>1, <2>2, AnswersIs, RequestGoesOn
<1> QED BY <1>3, <1>4

LEMMA InsertRowKeeps ==
  ASSUME JobInv, NEW a \in Actors, InsertRow(a), raced' = raced
  PROVE  JobInv'
<1>1. PICK sched \in BOOLEAN, filtered \in BOOLEAN :
        /\ row' = IF row = NoRow THEN [state |-> "there", enabled |-> TRUE,
                                       sched |-> sched, filtered |-> filtered] ELSE row
        /\ IF row = NoRow THEN With(a, TRUE, sched) ELSE Answers(a)
  BY DEF InsertRow
<1>2. entry' = entry /\ At(a, "insert")
  BY DEF InsertRow
<1>3. ASSUME ~raced
      PROVE  Tail(op[a].plan) = <<"job">> /\ Tail(op[a].plan) # <<>> /\ op[a].kind = "create" /\ Agree
  <2>1. Left(op[a], "insert", Tail(op[a].plan))
    BY <1>2, <1>3, LeftAt
  <2> QED BY <2>1, NotEmpty DEF Left
<1>4. CASE row = NoRow
  <2>1. row' = [state |-> "there", enabled |-> TRUE, sched |-> sched, filtered |-> filtered]
    BY <1>1, <1>4
  <2>2. RowFields \subseteq DOMAIN row'
    BY <2>1 DEF RowFields
  <2>3. PICK t : /\ op' = [op EXCEPT ![a] = t] /\ RequestFields \subseteq DOMAIN t
                 /\ Tail(op[a].plan) # <<>> => /\ t.kind = op[a].kind /\ t.plan = Tail(op[a].plan)
                                               /\ t.enabled = TRUE /\ t.sched = sched
    <3>1. PICK e : e = TRUE /\ With(a, e, sched)
      BY <1>1, <1>4
    <3>2. With(a, e, sched)
      BY <3>1
    <3>3. PICK t : /\ op' = [op EXCEPT ![a] = t] /\ RequestFields \subseteq DOMAIN t
                   /\ Tail(op[a].plan) # <<>> => /\ t.kind = op[a].kind /\ t.plan = Tail(op[a].plan)
                                                 /\ t.enabled = e /\ t.sched = sched
      BY <3>2, WithIs
    <3> QED BY <3>1, <3>3
  <2>4. ASSUME ~raced PROVE GoesOn(a, t)
    <3>1. t.kind = "create" /\ t.plan = <<"job">> /\ Copied(t)'
      BY <1>3, <2>1, <2>3, <2>4 DEF Copied, Exists
    <3> QED BY <1>3, <2>4, <3>1 DEF GoesOn, Stage, Creates, Harmless
  <2> QED BY <2>2, <2>3, <2>4, RequestGoesOn
<1>5. CASE row # NoRow
  <2>1. Answers(a) /\ row' = row /\ RowFields \subseteq DOMAIN row'
    BY <1>1, <1>5 DEF JobInv
  <2>2. ASSUME ~raced PROVE GoesOn(a, Idle)
    BY <1>2, <1>3, <2>1, <2>2, AnswersIs DEF GoesOn, Harmless, Harmlessly, Agree, Scheduled, Exists
  <2> QED BY <2>1, <2>2, AnswersIs, RequestGoesOn
<1> QED BY <1>4, <1>5

LEMMA UpdateRowKeeps ==
  ASSUME JobInv, NEW a \in Actors, UpdateRow(a), raced' = raced
  PROVE  JobInv'
<1> DEFINE k == op[a].kind
           enabled == IF k = "enable" THEN TRUE ELSE op[a].enabled
           sched == IF k = "schedule" THEN ~op[a].sched ELSE op[a].sched
<1>1. entry' = entry /\ At(a, "update") /\ With(a, enabled, sched)
  BY DEF UpdateRow
<1>2. /\ Exists /\ k = "enable" => row' = [row EXCEPT !.enabled = TRUE]
      /\ Exists /\ k = "disable" => row' = [row EXCEPT !.enabled = FALSE]
      /\ row' = row \/ (\E v : row' = [row EXCEPT !.enabled = v]) \/ (\E v : row' = [row EXCEPT !.sched = v])
         \/ (\E v : row' = [row EXCEPT !.filtered = v])
  BY DEF UpdateRow
<1>3. RowFields \subseteq DOMAIN row' /\ row'.state = row.state
  BY <1>2 DEF JobInv, RowFields
<1>4. PICK t : /\ op' = [op EXCEPT ![a] = t] /\ RequestFields \subseteq DOMAIN t
               /\ Tail(op[a].plan) # <<>> => /\ t.kind = op[a].kind /\ t.plan = Tail(op[a].plan)
                                             /\ t.enabled = enabled /\ t.sched = sched
  <2> HIDE DEF enabled, sched
  <2> QED BY <1>1, WithIs
<1>5. ASSUME ~raced PROVE GoesOn(a, t)
  <2>1. Left(op[a], "update", Tail(op[a].plan))
    BY <1>1, <1>5, LeftAt
  <2>2. Tail(op[a].plan) # <<>> /\ k \notin Harmless /\ Exists
    BY <2>1, NotEmpty DEF Left, Harmless, Copied
  <2>3. t.kind = k /\ t.plan = Tail(op[a].plan) /\ t.enabled = enabled /\ t.sched = sched /\ Exists'
    BY <1>3, <1>4, <2>2 DEF Exists
  <2>4. CASE k \in {"filter", "schedule"}
    BY <2>1, <2>2, <2>3, <2>4 DEF Left, GoesOn, Stage, Updates
  <2>5. CASE k = "enable"
    <3>1. t.plan = <<"job">> /\ Copied(op[a])
      BY <2>1, <2>3, <2>5 DEF Left, Harmless
    <3>2. row' = [row EXCEPT !.enabled = TRUE] /\ row'.enabled = TRUE /\ row'.sched = row.sched
      BY <1>2, <2>2, <2>5 DEF JobInv, RowFields
    <3>3. Copied(t)'
      BY <2>3, <2>5, <3>1, <3>2 DEF Copied
    <3> QED BY <2>2, <2>3, <2>5, <3>1, <3>3 DEF GoesOn, Stage, Enables
  <2>6. CASE k = "disable"
    <3>1. t.plan = <<"unjob">>
      BY <2>1, <2>3, <2>6 DEF Left, Harmless
    <3>2. row' = [row EXCEPT !.enabled = FALSE] /\ row'.enabled = FALSE
      BY <1>2, <2>2, <2>6 DEF JobInv, RowFields
    <3> QED BY <2>2, <2>3, <2>6, <3>1, <3>2 DEF GoesOn, Stage, Disables, Scheduled
  <2> QED BY <2>1, <2>4, <2>5, <2>6 DEF Left, Harmless
<1> QED BY <1>1, <1>3, <1>4, <1>5, RequestGoesOn

LEMMA RereadRowKeeps ==
  ASSUME JobInv, NEW a \in Actors, RereadRow(a), raced' = raced
  PROVE  JobInv'
<1>1. UNCHANGED <<row, entry>> /\ RowFields \subseteq DOMAIN row' /\ At(a, "reread")
  BY DEF RereadRow, JobInv
<1>2. PICK e, c : IF Exists THEN With(a, e, c) /\ e = row.enabled /\ c = row.sched ELSE Goes(a)
  BY DEF RereadRow
<1>3. PICK t : /\ op' = [op EXCEPT ![a] = t] /\ RequestFields \subseteq DOMAIN t
               /\ Tail(op[a].plan) # <<>> /\ Exists =>
                    /\ t.kind = op[a].kind /\ t.plan = Tail(op[a].plan)
                    /\ t.enabled = row.enabled /\ t.sched = row.sched
  BY <1>2, WithIs, GoesIs
<1>4. ASSUME ~raced PROVE GoesOn(a, t)
  <2>1. Left(op[a], "reread", Tail(op[a].plan))
    BY <1>1, <1>4, LeftAt
  <2>2. Tail(op[a].plan) = <<"job">> /\ Exists /\ op[a].kind \in {"filter", "schedule"}
    BY <2>1 DEF Left
  <2>3. t.kind = op[a].kind /\ t.plan = <<"job">> /\ Copied(t)'
    BY <1>1, <1>3, <2>2, NotEmpty DEF Copied, Exists
  <2> QED BY <2>2, <2>3 DEF GoesOn, Stage, Updates, Harmless
<1> QED BY <1>1, <1>3, <1>4, RequestGoesOn

LEMMA DropRowKeeps ==
  ASSUME JobInv, NEW a \in Actors, DropRow(a), raced' = raced
  PROVE  JobInv'
<1>1. entry' = entry /\ At(a, "drop") /\ Goes(a)
  BY DEF DropRow
<1>2. RowFields \subseteq DOMAIN row' /\ ~Exists'
  BY DEF DropRow, JobInv, RowFields, NoRow, Exists
<1>3. PICK t : /\ op' = [op EXCEPT ![a] = t] /\ RequestFields \subseteq DOMAIN t
               /\ Tail(op[a].plan) # <<>> => t.kind = op[a].kind /\ t.plan = Tail(op[a].plan)
  BY <1>1, GoesIs
<1>4. ASSUME ~raced PROVE GoesOn(a, t)
  <2>1. Left(op[a], "drop", Tail(op[a].plan))
    BY <1>1, <1>4, LeftAt
  <2>2. t.kind = op[a].kind /\ t.plan = Tail(op[a].plan) /\ op[a].kind \notin Harmless
    BY <1>3, <2>1, NotEmpty DEF Left, Harmless
  <2> QED BY <1>1, <1>2, <2>1, <2>2 DEF Left, GoesOn, Stage, Deletes, BatchDeletes
<1> QED BY <1>2, <1>3, <1>4, RequestGoesOn

LEMMA DropLogsKeeps ==
  ASSUME JobInv, NEW a \in Actors, DropLogs(a), raced' = raced
  PROVE  JobInv'
<1>1. UNCHANGED <<row, entry>> /\ At(a, "logs") /\ Goes(a) /\ RowFields \subseteq DOMAIN row'
  BY DEF DropLogs, JobInv
<1>2. PICK t : /\ op' = [op EXCEPT ![a] = t] /\ RequestFields \subseteq DOMAIN t
               /\ Tail(op[a].plan) = <<>> => t = Idle
               /\ Tail(op[a].plan) # <<>> => t.kind = op[a].kind /\ t.plan = Tail(op[a].plan)
  BY <1>1, GoesIs
<1>3. ASSUME ~raced PROVE GoesOn(a, t)
  <2>1. Left(op[a], "logs", Tail(op[a].plan))
    BY <1>1, <1>3, LeftAt
  <2>2. ~Exists' /\ op[a].kind \notin Harmless
    BY <1>1, <2>1 DEF Left, Harmless, Exists
  <2>3. CASE Tail(op[a].plan) = <<>>
    BY <1>1, <1>2, <2>1, <2>2, <2>3, IdleStage, NotEmpty DEF Left, GoesOn, Agree, Scheduled
  <2>4. CASE Tail(op[a].plan) # <<>>
    BY <1>2, <2>1, <2>2, <2>4 DEF Left, GoesOn, Stage, BatchDeletes
  <2> QED BY <2>3, <2>4
<1> QED BY <1>1, <1>2, <1>3, RequestGoesOn

LEMMA AddOrUpdateJobKeeps ==
  ASSUME JobInv, NEW a \in Actors, AddOrUpdateJob(a), raced' = raced
  PROVE  JobInv'
<1>1. row' = row /\ At(a, "job") /\ Goes(a) /\ RowFields \subseteq DOMAIN row'
      /\ entry' = (op[a].enabled /\ op[a].sched)
  BY DEF AddOrUpdateJob, JobInv
<1>2. PICK t : /\ op' = [op EXCEPT ![a] = t] /\ RequestFields \subseteq DOMAIN t
               /\ Tail(op[a].plan) = <<>> => t = Idle
  BY <1>1, GoesIs
<1>3. ASSUME ~raced PROVE GoesOn(a, t)
  <2>1. Left(op[a], "job", Tail(op[a].plan))
    BY <1>1, <1>3, LeftAt
  <2>2. op[a].kind \notin Harmless /\ Copied(op[a]) /\ t = Idle
    BY <1>2, <2>1 DEF Left
  <2> QED BY <1>1, <2>2, IdleStage DEF GoesOn, Agree, Copied, Scheduled, Exists
<1> QED BY <1>1, <1>2, <1>3, RequestGoesOn

LEMMA RemoveJobKeeps ==
  ASSUME JobInv, NEW a \in Actors, RemoveJob(a), raced' = raced
  PROVE  JobInv'
<1>1. row' = row /\ At(a, "unjob") /\ Goes(a) /\ RowFields \subseteq DOMAIN row' /\ entry' = FALSE
  BY DEF RemoveJob, JobInv
<1>2. PICK t : /\ op' = [op EXCEPT ![a] = t] /\ RequestFields \subseteq DOMAIN t
               /\ Tail(op[a].plan) = <<>> => t = Idle
               /\ Tail(op[a].plan) # <<>> => t.kind = op[a].kind /\ t.plan = Tail(op[a].plan)
  BY <1>1, GoesIs
<1>3. ASSUME ~raced PROVE GoesOn(a, t)
  <2>1. Left(op[a], "unjob", Tail(op[a].plan))
    BY <1>1, <1>3, LeftAt
  <2>2. op[a].kind \notin Harmless
    BY <2>1 DEF Left, Harmless
  <2>3. CASE Tail(op[a].plan) = <<>>
    <3>1. ~Scheduled /\ t = Idle
      BY <1>2, <2>1, <2>3, NotEmpty DEF Left, Scheduled
    <3> QED BY <1>1, <2>2, <3>1, IdleStage DEF GoesOn, Agree, Scheduled, Exists
  <2>4. CASE Tail(op[a].plan) # <<>>
    BY <1>1, <1>2, <2>1, <2>2, <2>4 DEF Left, GoesOn, Stage, Deletes, Reloads
  <2> QED BY <2>3, <2>4
<1> QED BY <1>1, <1>2, <1>3, RequestGoesOn

LEMMA LoadJobsKeeps ==
  ASSUME JobInv, NEW a \in Actors, LoadJobs(a), raced' = raced
  PROVE  JobInv'
<1>1. UNCHANGED <<row, entry>> /\ At(a, "load") /\ RowFields \subseteq DOMAIN row'
  BY DEF LoadJobs, JobInv
<1>2. ASSUME ~raced
      PROVE  Tail(op[a].plan) = <<"job">> /\ op[a].kind = "reload" /\ entry = FALSE
  <2>1. Left(op[a], "load", Tail(op[a].plan))
    BY <1>1, <1>2, LeftAt
  <2> QED BY <2>1 DEF Left
<1>3. CASE Scheduled
  <2>1. PICK e : e = TRUE /\ With(a, e, e)
    BY <1>3 DEF LoadJobs
  <2>2. With(a, e, e)
    BY <2>1
  <2>3. PICK t : /\ op' = [op EXCEPT ![a] = t] /\ RequestFields \subseteq DOMAIN t
                 /\ Tail(op[a].plan) # <<>> => /\ t.kind = op[a].kind /\ t.plan = Tail(op[a].plan)
                                               /\ t.enabled = e /\ t.sched = e
    BY <2>2, WithIs
  <2>4. ASSUME ~raced PROVE GoesOn(a, t)
    <3>1. t.kind = "reload" /\ t.plan = <<"job">> /\ Copied(t)'
      BY <1>1, <1>2, <1>3, <2>1, <2>3, <2>4, NotEmpty DEF Copied, Scheduled, Exists
    <3> QED BY <1>2, <2>4, <3>1 DEF GoesOn, Stage, Reloads, Harmless
  <2> QED BY <1>1, <2>3, <2>4, RequestGoesOn
<1>4. CASE ~Scheduled
  <2>1. Answers(a)
    BY <1>4 DEF LoadJobs
  <2>2. ASSUME ~raced PROVE GoesOn(a, Idle)
    BY <1>1, <1>2, <1>4, <2>2, AnswersIs, <2>1 DEF GoesOn, Harmless, Agree, Scheduled, Exists
  <2> QED BY <1>1, <2>1, <2>2, AnswersIs, RequestGoesOn
<1> QED BY <1>3, <1>4

LEMMA HarmlessStepKeeps ==
  ASSUME JobInv, NEW a \in Actors, SetOverwrite(a) \/ CheckRunning(a) \/ StopPull(a), raced' = raced
  PROVE  JobInv'
<1>1. UNCHANGED <<row, entry>> /\ RowFields \subseteq DOMAIN row'
  BY DEF SetOverwrite, CheckRunning, StopPull, JobInv
<1>2. PICK step \in {"setting", "running", "stop"} : At(a, step)
  BY DEF SetOverwrite, CheckRunning, StopPull
<1>3. PICK t : /\ op' = [op EXCEPT ![a] = t] /\ RequestFields \subseteq DOMAIN t
               /\ t = Idle \/ (Tail(op[a].plan) # <<>> /\ t.kind = op[a].kind /\ t.plan = Tail(op[a].plan))
  <2>1. CASE Goes(a)
    BY <2>1, GoesIs
  <2>2. CASE Answers(a)
    BY <2>2, AnswersIs
  <2> QED BY <2>1, <2>2 DEF SetOverwrite, CheckRunning, StopPull
<1>4. ASSUME ~raced PROVE GoesOn(a, t)
  <2>1. Left(op[a], step, Tail(op[a].plan))
    BY <1>2, <1>4, LeftAt
  <2>2. op[a].kind \in Harmless /\ (Tail(op[a].plan) = <<>> \/ Tail(op[a].plan) = <<"stop">>)
    BY <2>1 DEF Left
  <2>3. Harmlessly(t) /\ t.kind \in Harmless
    BY <1>3, <2>2, IdleStage DEF Harmlessly
  <2> QED BY <1>1, <2>2, <2>3 DEF GoesOn
<1> QED BY <1>1, <1>3, <1>4, RequestGoesOn

LEMMA ServeKeeps ==
  ASSUME JobInv, NEW a \in Actors, Serve(a)
  PROVE  JobInv'
<1>1. raced' = raced
  BY DEF Serve, userVars
<1>2. \/ ReadRow(a) \/ InsertRow(a) \/ UpdateRow(a) \/ RereadRow(a) \/ DropRow(a) \/ DropLogs(a)
      \/ AddOrUpdateJob(a) \/ RemoveJob(a) \/ LoadJobs(a)
      \/ (SetOverwrite(a) \/ CheckRunning(a) \/ StopPull(a))
  BY DEF Serve
<1>3. CASE ReadRow(a)
  BY <1>1, <1>3, ReadRowKeeps
<1>4. CASE InsertRow(a)
  BY <1>1, <1>4, InsertRowKeeps
<1>5. CASE UpdateRow(a)
  BY <1>1, <1>5, UpdateRowKeeps
<1>6. CASE RereadRow(a)
  BY <1>1, <1>6, RereadRowKeeps
<1>7. CASE DropRow(a)
  BY <1>1, <1>7, DropRowKeeps
<1>8. CASE DropLogs(a)
  BY <1>1, <1>8, DropLogsKeeps
<1>9. CASE AddOrUpdateJob(a)
  BY <1>1, <1>9, AddOrUpdateJobKeeps
<1>10. CASE RemoveJob(a)
  BY <1>1, <1>10, RemoveJobKeeps
<1>11. CASE LoadJobs(a)
  BY <1>1, <1>11, LoadJobsKeeps
<1>12. CASE SetOverwrite(a) \/ CheckRunning(a) \/ StopPull(a)
  BY <1>1, <1>12, HarmlessStepKeeps
<1> QED BY <1>2, <1>3, <1>4, <1>5, <1>6, <1>7, <1>8, <1>9, <1>10, <1>11, <1>12

\* A request that comes while no other that changes row or cron is under way
\* finds the two in agreement.
LEMMA RequestKeeps ==
  ASSUME JobInv, NEW a \in Actors, NEW kind \in OpKinds, Request(a, kind)
  PROVE  JobInv'
<1> DEFINE t == [Idle EXCEPT !.kind = kind, !.plan = StepsOf(kind)]
<1>1. /\ op[a] = Idle /\ op' = [op EXCEPT ![a] = t] /\ UNCHANGED <<row, entry>>
      /\ raced' = (raced \/ (kind \notin Harmless /\ \E b \in Actors : op[b].kind \notin Harmless))
  BY DEF Request
<1>2. RequestFields \subseteq DOMAIN t /\ t.kind = kind /\ t.plan = StepsOf(kind)
  BY DEF Idle, RequestFields
<1> HIDE DEF t
<1>3. DOMAIN op' = Actors /\ op'[a] = t /\ \A b \in Actors \ {a} : op'[b] = op[b]
  BY <1>1 DEF JobInv
<1>4. \A b \in Actors : RequestFields \subseteq DOMAIN op'[b]
  BY <1>2, <1>3 DEF JobInv
<1>5. op[a].kind \in Harmless
  BY <1>1, IdleStage DEF Harmlessly
<1>6. CASE raced'
  BY <1>1, <1>3, <1>4, <1>6 DEF JobInv, JobMatchesRow
<1>7. CASE ~raced'
  <2>1. ~raced /\ (kind \notin Harmless => \A b \in Actors : op[b].kind \in Harmless)
    BY <1>1, <1>7
  <2>2. /\ \A b \in Actors : Stage(op[b])
        /\ \A b, c \in Actors : b # c => op[b].kind \in Harmless \/ op[c].kind \in Harmless
        /\ (\A b \in Actors : op[b].kind \in Harmless) => Agree
    BY <2>1 DEF JobInv, JobMatchesRow, Agree
  <2>3. Stage(t)
    <3>1. kind \notin Harmless => Agree
      BY <2>1, <2>2
    <3>2. CASE kind \in {"overwrite", "stop"}
      BY <1>2, <3>2 DEF StepsOf, Stage, Harmlessly, Harmless
    <3>3. CASE kind = "create"
      BY <1>2, <3>1, <3>3 DEF StepsOf, Stage, Creates, Harmless
    <3>4. CASE kind \in {"filter", "schedule"}
      BY <1>2, <3>1, <3>4 DEF StepsOf, Stage, Updates, Harmless
    <3>5. CASE kind = "enable"
      BY <1>2, <3>1, <3>5 DEF StepsOf, Stage, Enables, Harmless
    <3>6. CASE kind = "disable"
      BY <1>2, <3>1, <3>6 DEF StepsOf, Stage, Disables, Harmless
    <3>7. CASE kind = "delete"
      BY <1>2, <3>7 DEF StepsOf, Stage, Deletes
    <3>8. CASE kind = "batchDelete"
      BY <1>2, <3>8 DEF StepsOf, Stage, BatchDeletes
    <3>9. CASE kind = "reload"
      BY <1>2, <3>9 DEF StepsOf, Stage, Reloads
    <3> QED BY <3>2, <3>3, <3>4, <3>5, <3>6, <3>7, <3>8, <3>9 DEF OpKinds
  <2>4. ASSUME NEW b \in Actors PROVE Stage(op'[b])
    BY <1>3, <2>2, <2>3
  <2>5. ASSUME NEW b \in Actors PROVE Stage(op[b])'
    <3>1. PICK u : u = op'[b] /\ Stage(u)
      BY <2>4
    <3> QED BY <1>1, <3>1, StageLasts
  <2>6. ASSUME NEW b \in Actors, NEW c \in Actors, b # c
        PROVE  op'[b].kind \in Harmless \/ op'[c].kind \in Harmless
    BY <1>2, <1>3, <2>1, <2>2, <2>6
  <2>7. (\A b \in Actors : op'[b].kind \in Harmless) => Agree'
    <3> SUFFICES ASSUME \A b \in Actors : op'[b].kind \in Harmless PROVE Agree'
      OBVIOUS
    <3>1. \A b \in Actors : op[b].kind \in Harmless
      BY <1>3, <1>5
    <3> QED BY <1>1, <2>2, <3>1 DEF Agree, Scheduled, Exists
  <2> QED BY <1>1, <1>3, <1>4, <2>5, <2>6, <2>7 DEF JobInv, JobMatchesRow, Agree
<1> QED BY <1>6, <1>7

\* The cron is loaded from the row when the process starts.
LEMMA CrashKeepsJobs ==
  ASSUME JobInv, Crash
  PROVE  JobInv'
<1>1. op' = [a \in Actors |-> Idle] /\ entry' = Scheduled /\ raced' = FALSE /\ row' = row
  BY DEF Crash
<1>2. DOMAIN op' = Actors /\ \A a \in Actors : op'[a] = Idle
  BY <1>1
<1>3. Idle.kind \in Harmless
  BY DEF Idle, Harmless
<1>4. \A a \in Actors : Stage(op[a])'
  BY <1>2, IdleStage DEF Stage, Harmlessly
<1>5. entry' = Scheduled'
  BY <1>1 DEF Scheduled, Exists
<1> QED BY <1>1, <1>2, <1>3, <1>4, <1>5, IdleStage DEF JobInv, JobMatchesRow

\* Pulls, readers and the user change neither row nor cron, nor a request.
LEMMA OthersKeepJobs ==
  ASSUME JobInv, UNCHANGED <<op, row, entry, raced>>
  PROVE  JobInv'
<1>1. ASSUME NEW a \in Actors, Stage(op[a]) PROVE Stage(op[a])'
  BY <1>1, StageLasts
<1> QED BY <1>1 DEF JobInv, JobMatchesRow, Scheduled, Exists

LEMMA JobStep ==
  ASSUME JobInv, [Next]_pullVars
  PROVE  JobInv'
<1>1. CASE UNCHANGED pullVars
  BY <1>1, OthersKeepJobs DEF pullVars, subVars
<1>2. CASE Crash
  BY <1>2, CrashKeepsJobs
<1>3. CASE \E p \in Pulls : Start(p) \/ Command1(p)
  <2> PICK p \in Pulls : Start(p) \/ Command1(p)
    BY <1>3
  <2>1. UNCHANGED <<op, row, entry, raced>>
    BY DEF Start, PullCheck, CronFires, Command1, GitStep, GitFails, userVars
  <2> QED BY <2>1, OthersKeepJobs
<1>4. CASE \E p \in Pulls : Advance(p)
  <2> PICK p \in Pulls : Advance(p)
    BY <1>4
  <2>1. UNCHANGED <<op, row, entry, raced>>
    BY DEF Advance, PullStart, beginSubscriptionPull, buildGitAuthConfig, GitDone, Hook, HookDone,
           syncSubscriptionTasks, WriteLog, finishSubscriptionPull, Broadcast, Done,
           removeSubBroadcaster, userVars
  <2> QED BY <2>1, OthersKeepJobs
<1>5. CASE \E a \in Actors : Serve(a)
  BY <1>5, ServeKeeps
<1>6. CASE \E a \in Actors, kind \in OpKinds : Request(a, kind)
  BY <1>6, RequestKeeps
<1>7. CASE \E r \in Readers : PullStream(r) \/ subscribe(r) \/ unsubscribe(r)
  <2>1. UNCHANGED <<op, row, entry, raced>>
    BY <1>7 DEF PullStream, subscribe, unsubscribe, userVars
  <2> QED BY <2>1, OthersKeepJobs
<1>8. CASE (\E f \in Files : EditScript(f) \/ EditTask(f)) \/ Push
  <2>1. UNCHANGED <<op, row, entry, raced>>
    BY <1>8 DEF EditScript, EditTask, Push, subVars
  <2> QED BY <2>1, OthersKeepJobs
<1> QED BY <1>1, <1>2, <1>3, <1>4, <1>5, <1>6, <1>7, <1>8 DEF Next

LEMMA JobInit == SubInit => JobInv
<1> SUFFICES ASSUME SubInit PROVE JobInv
  OBVIOUS
<1>1. DOMAIN op = Actors /\ \A a \in Actors : op[a] = Idle
  BY DEF SubInit
<1>2. Idle.kind \in Harmless
  BY DEF Idle, Harmless
<1>3. RowFields \subseteq DOMAIN row
  BY DEF SubInit, NoRow, RowFields
<1>4. entry = Scheduled
  BY DEF SubInit
<1> QED BY <1>1, <1>2, <1>3, <1>4, IdleStage DEF JobInv, Stage, JobMatchesRow

\* As long as no two requests that change the row or the cron have overlapped
\* since the process started, whatever requests came one after the other, also
\* those that ended early: once none is under way, the cron has a job just if
\* the row is there, enabled and has a schedule.
THEOREM JobsMatchRows == PullSpec => []JobMatchesRow
<1>1. JobInv /\ [Next]_pullVars => JobInv'
  BY JobStep
<1>2. PullSpec => []JobInv
  BY <1>1, JobInit, PTL DEF PullSpec
<1>3. JobInv => JobMatchesRow
  BY DEF JobInv, JobMatchesRow
<1> QED BY <1>2, <1>3, PTL

-----------------------------------------------------------------------------
(***************************************************************************)
(* The save directory follows the remote, and keeps what it should.        *)
(*                                                                         *)
(* What is left of the plan of a pull says what its commands have brought  *)
(* about: before the reset the commit to reset to, which is at least the   *)
(* one that was there at the start; after it that the working tree has its *)
(* files.  A plan that keeps local changes comes to its reset only when no *)
(* file of the tree has any, because there were none or they are stashed.  *)
(* A file that git did not make, and that nobody else wrote, is not there. *)
(***************************************************************************)
KeepRemote == <<"remote", "fetch", "sparse", "status">>
KeepFetch == <<"fetch", "sparse", "status">>
KeepSparse == <<"sparse", "status">>
KeepStatus == <<"status">>
KeepStash == <<"stash", "reset", "pop">>
KeepReset == <<"reset", "pop">>
KeepPop == <<"pop">>
JustReset == <<"reset">>
OverRemote == <<"remote", "fetch", "sparse", "reset">>
OverFetch == <<"fetch", "sparse", "reset">>
OverSparse == <<"sparse", "reset">>
FillInit == <<"init", "remote", "fetch", "sparse", "reset", "clean">>
FillRemote == <<"remote", "fetch", "sparse", "reset", "clean">>
FillFetch == <<"fetch", "sparse", "reset", "clean">>
FillSparse == <<"sparse", "reset", "clean">>
FillReset == <<"reset", "clean">>
FillClean == <<"clean">>
CloneAll == <<"clone">>
CloneSome == <<"clone", "sparse", "checkout">>
SomeSparse == <<"sparse", "checkout">>
SomeCheckout == <<"checkout">>
Blocked == <<"occupied">>

NotOurs == Nat \ {Mine, Mixed}
StashEntries == [was : [Files -> NotOurs], has : [Files -> Nat], files : SUBSET Files]
GitTyped ==
  /\ remote \in Commits /\ fetched \in Commits \cup {0} /\ head \in Commits \cup {0}
  /\ index = IF head = 0 THEN Absent ELSE RemoteHas[head]
  /\ tree \in [Files -> Nat]
  /\ stash \in Seq(StashEntries)
  /\ dir # "dir" => tree = Absent
  /\ \A f \in Files \ touched : tree[f] \in {0, index[f]}

HasFetched(t) == fetched \in Commits /\ fetched >= t.goal
UpToDate(t) == head \in Commits /\ head >= t.goal
Follows(t) == \A f \in Files \ late :
  (t.filtered => f \in Kept) /\ RemoteHas[head][f] # 0 => tree[f] = RemoteHas[head][f]
NoneMine == \A f \in Files \ late : tree[f] \notin {Mine, Mixed}
Brought(t) == UpToDate(t) /\ (t.force => Follows(t))

Overwrites(t) == t.force /\
  \/ t.plan \in {OverRemote, OverFetch}
  \/ t.plan = OverSparse /\ HasFetched(t)
  \/ t.plan = JustReset /\ HasFetched(t) /\ sparse = t.filtered
Keeps(t) == ~t.force /\
  \/ t.plan \in {KeepRemote, KeepFetch}
  \/ t.plan \in {KeepSparse, KeepStatus, KeepStash} /\ HasFetched(t)
  \/ t.plan \in {KeepReset, JustReset} /\ HasFetched(t) /\ NoneMine
  \/ t.plan = KeepPop /\ UpToDate(t)
Fills(t) ==
  \/ t.plan \in {FillInit, FillRemote, FillFetch}
  \/ t.plan = FillSparse /\ HasFetched(t)
  \/ t.plan = FillReset /\ HasFetched(t) /\ sparse = t.filtered
  \/ t.plan = FillClean /\ UpToDate(t) /\ Follows(t)
Clones(t) == NoneMine /\
  \/ t.plan = CloneAll /\ ~t.filtered
  \/ t.plan = CloneSome
  \/ t.plan = SomeSparse /\ UpToDate(t) /\ dir = "dir"
  \/ t.plan = SomeCheckout /\ UpToDate(t) /\ dir = "dir" /\ sparse = t.filtered
GitStage(t) ==
  /\ t.goal \in Nat /\ t.goal <= remote
  /\ \/ t.plan = Blocked
     \/ dir = "dir" /\ (Overwrites(t) \/ Keeps(t) \/ Fills(t))
     \/ Clones(t)
     \/ t.plan = <<>> /\ Brought(t)

AimFields == {"goal", "force", "filtered"}
Success == {"hook", "hooked", "sync", "log"}
GitInv ==
  /\ GitTyped
  /\ running \in Pulls \cup {NoPull}
  /\ \A p \in Pulls : /\ AimFields \subseteq DOMAIN pull[p]
                      /\ pull[p].pc = "git" => GitStage(pull[p])
                      /\ pull[p].pc \in Success => Brought(pull[p])

\* The plans, taken apart.
LEMMA PlanSteps ==
  /\ Head(KeepRemote) = "remote" /\ Tail(KeepRemote) = KeepFetch
  /\ Head(KeepFetch) = "fetch" /\ Tail(KeepFetch) = KeepSparse
  /\ Head(KeepSparse) = "sparse" /\ Tail(KeepSparse) = KeepStatus
  /\ Head(KeepStatus) = "status"
  /\ Head(KeepStash) = "stash" /\ Tail(KeepStash) = KeepReset
  /\ Head(KeepReset) = "reset" /\ Tail(KeepReset) = KeepPop
  /\ Head(KeepPop) = "pop" /\ Tail(KeepPop) = <<>>
  /\ Head(JustReset) = "reset" /\ Tail(JustReset) = <<>>
  /\ Head(OverRemote) = "remote" /\ Tail(OverRemote) = OverFetch
  /\ Head(OverFetch) = "fetch" /\ Tail(OverFetch) = OverSparse
  /\ Head(OverSparse) = "sparse" /\ Tail(OverSparse) = JustReset
  /\ Head(FillInit) = "init" /\ Tail(FillInit) = FillRemote
  /\ Head(FillRemote) = "remote" /\ Tail(FillRemote) = FillFetch
  /\ Head(FillFetch) = "fetch" /\ Tail(FillFetch) = FillSparse
  /\ Head(FillSparse) = "sparse" /\ Tail(FillSparse) = FillReset
  /\ Head(FillReset) = "reset" /\ Tail(FillReset) = FillClean
  /\ Head(FillClean) = "clean" /\ Tail(FillClean) = <<>>
  /\ Head(CloneAll) = "clone" /\ Tail(CloneAll) = <<>>
  /\ Head(CloneSome) = "clone" /\ Tail(CloneSome) = SomeSparse
  /\ Head(SomeSparse) = "sparse" /\ Tail(SomeSparse) = SomeCheckout
  /\ Head(SomeCheckout) = "checkout" /\ Tail(SomeCheckout) = <<>>
  /\ Head(Blocked) = "occupied"
<1>1. /\ Head(KeepRemote) = "remote" /\ Tail(KeepRemote) = KeepFetch
      /\ Head(OverRemote) = "remote" /\ Tail(OverRemote) = OverFetch
      /\ Head(FillFetch) = "fetch" /\ Tail(FillFetch) = FillSparse
  BY FirstOfFour DEF KeepRemote, KeepFetch, OverRemote, OverFetch, FillFetch, FillSparse
<1>2. /\ Head(KeepFetch) = "fetch" /\ Tail(KeepFetch) = KeepSparse
      /\ Head(KeepStash) = "stash" /\ Tail(KeepStash) = KeepReset
      /\ Head(OverFetch) = "fetch" /\ Tail(OverFetch) = OverSparse
      /\ Head(FillSparse) = "sparse" /\ Tail(FillSparse) = FillReset
      /\ Head(CloneSome) = "clone" /\ Tail(CloneSome) = SomeSparse
  BY FirstOfThree DEF KeepFetch, KeepSparse, KeepStash, KeepReset, OverFetch, OverSparse, FillSparse,
     FillReset, CloneSome, SomeSparse
<1>3. /\ Head(KeepSparse) = "sparse" /\ Tail(KeepSparse) = KeepStatus
      /\ Head(KeepReset) = "reset" /\ Tail(KeepReset) = KeepPop
      /\ Head(OverSparse) = "sparse" /\ Tail(OverSparse) = JustReset
      /\ Head(FillReset) = "reset" /\ Tail(FillReset) = FillClean
      /\ Head(SomeSparse) = "sparse" /\ Tail(SomeSparse) = SomeCheckout
  BY FirstOfTwo DEF KeepSparse, KeepStatus, KeepReset, KeepPop, OverSparse, JustReset, FillReset,
     FillClean, SomeSparse, SomeCheckout
<1>4. /\ Head(KeepStatus) = "status" /\ Head(Blocked) = "occupied"
      /\ Head(KeepPop) = "pop" /\ Tail(KeepPop) = <<>>
      /\ Head(JustReset) = "reset" /\ Tail(JustReset) = <<>>
      /\ Head(FillClean) = "clean" /\ Tail(FillClean) = <<>>
      /\ Head(CloneAll) = "clone" /\ Tail(CloneAll) = <<>>
      /\ Head(SomeCheckout) = "checkout" /\ Tail(SomeCheckout) = <<>>
  BY FirstOfOne DEF KeepStatus, Blocked, KeepPop, JustReset, FillClean, CloneAll, SomeCheckout
<1>5. Head(FillInit) = "init" /\ Tail(FillInit) = FillRemote
  BY DEF FillInit, FillRemote
<1>6. Head(FillRemote) = "remote" /\ Tail(FillRemote) = FillFetch
  BY DEF FillRemote, FillFetch
<1> QED BY <1>1, <1>2, <1>3, <1>4, <1>5, <1>6

LEMMA PlansAreLong ==
  <<>> \notin {KeepRemote, KeepFetch, KeepSparse, KeepStatus, KeepStash, KeepReset, KeepPop, JustReset,
               OverRemote, OverFetch, OverSparse, FillInit, FillRemote, FillFetch, FillSparse, FillReset,
               FillClean, CloneAll, CloneSome, SomeSparse, SomeCheckout, Blocked}
BY DEF KeepRemote, KeepFetch, KeepSparse, KeepStatus, KeepStash, KeepReset, KeepPop, JustReset,
       OverRemote, OverFetch, OverSparse, FillInit, FillRemote, FillFetch, FillSparse, FillReset,
       FillClean, CloneAll, CloneSome, SomeSparse, SomeCheckout, Blocked

\* Only a plan that fills a directory has a "clean".
Filling == {FillInit, FillRemote, FillFetch, FillSparse, FillReset, FillClean}
LEMMA FillingCleans ==
  ASSUME NEW plan \in Filling
  PROVE  \E i \in DOMAIN plan : plan[i] = "clean"
<1>1. 6 \in DOMAIN FillInit /\ FillInit[6] = "clean"
  BY DEF FillInit
<1>2. 5 \in DOMAIN FillRemote /\ FillRemote[5] = "clean"
  BY DEF FillRemote
<1>3. 4 \in DOMAIN FillFetch /\ FillFetch[4] = "clean"
  BY DEF FillFetch
<1>4. 3 \in DOMAIN FillSparse /\ FillSparse[3] = "clean"
  BY DEF FillSparse
<1>5. 2 \in DOMAIN FillReset /\ FillReset[2] = "clean"
  BY DEF FillReset
<1>6. 1 \in DOMAIN FillClean /\ FillClean[1] = "clean"
  BY DEF FillClean
<1> QED BY <1>1, <1>2, <1>3, <1>4, <1>5, <1>6 DEF Filling

\* The step that a pull is about to take, what is left after it, and what holds.
OverwriteAhead(t, step, rest) == t.force /\
  \/ step = "remote" /\ rest = OverFetch
  \/ step = "fetch" /\ rest = OverSparse
  \/ step = "sparse" /\ rest = JustReset /\ HasFetched(t)
  \/ step = "reset" /\ rest = <<>> /\ HasFetched(t) /\ sparse = t.filtered
KeepAhead(t, step, rest) == ~t.force /\
  \/ step = "remote" /\ rest = KeepFetch
  \/ step = "fetch" /\ rest = KeepSparse
  \/ step = "sparse" /\ rest = KeepStatus /\ HasFetched(t)
  \/ step = "status" /\ HasFetched(t)
  \/ step = "stash" /\ rest = KeepReset /\ HasFetched(t)
  \/ step = "reset" /\ rest \in {KeepPop, <<>>} /\ HasFetched(t) /\ NoneMine
  \/ step = "pop" /\ rest = <<>> /\ UpToDate(t)
FillAhead(t, step, rest) == t.plan \in Filling /\
  \/ step = "init" /\ rest = FillRemote
  \/ step = "remote" /\ rest = FillFetch
  \/ step = "fetch" /\ rest = FillSparse
  \/ step = "sparse" /\ rest = FillReset /\ HasFetched(t)
  \/ step = "reset" /\ rest = FillClean /\ HasFetched(t) /\ sparse = t.filtered
  \/ step = "clean" /\ rest = <<>> /\ UpToDate(t) /\ Follows(t)
CloneAhead(t, step, rest) == NoneMine /\
  \/ step = "clone" /\ rest = <<>> /\ ~t.filtered
  \/ step = "clone" /\ rest = SomeSparse
  \/ step = "sparse" /\ rest = SomeCheckout /\ UpToDate(t) /\ dir = "dir"
  \/ step = "checkout" /\ rest = <<>> /\ UpToDate(t) /\ dir = "dir" /\ sparse = t.filtered
Ahead(t, step, rest) ==
  \/ step = "occupied"
  \/ dir = "dir" /\ \/ OverwriteAhead(t, step, rest)
                    \/ KeepAhead(t, step, rest)
                    \/ FillAhead(t, step, rest)
  \/ CloneAhead(t, step, rest)

LEMMA StageAhead ==
  ASSUME NEW t, GitStage(t), t.plan # <<>>
  PROVE  Ahead(t, Head(t.plan), Tail(t.plan))
<1> DEFINE ahead(plan, step, rest) == Head(plan) = step /\ Tail(plan) = rest
<1>1. CASE dir = "dir" /\ Overwrites(t)
  <2>1. /\ ahead(OverRemote, "remote", OverFetch) /\ ahead(OverFetch, "fetch", OverSparse)
        /\ ahead(OverSparse, "sparse", JustReset) /\ ahead(JustReset, "reset", <<>>)
    BY PlanSteps
  <2>2. CASE t.plan \in {OverRemote, OverFetch}
    BY <1>1, <2>1, <2>2 DEF Overwrites, OverwriteAhead, Ahead
  <2>3. CASE t.plan = OverSparse /\ HasFetched(t)
    BY <1>1, <2>1, <2>3 DEF Overwrites, OverwriteAhead, Ahead
  <2>4. CASE t.plan = JustReset /\ HasFetched(t) /\ sparse = t.filtered
    BY <1>1, <2>1, <2>4 DEF Overwrites, OverwriteAhead, Ahead
  <2> QED BY <1>1, <2>2, <2>3, <2>4 DEF Overwrites
<1>2. CASE dir = "dir" /\ Keeps(t)
  <2>1. /\ ahead(KeepRemote, "remote", KeepFetch) /\ ahead(KeepFetch, "fetch", KeepSparse)
        /\ ahead(KeepSparse, "sparse", KeepStatus) /\ Head(KeepStatus) = "status"
        /\ ahead(KeepStash, "stash", KeepReset) /\ ahead(KeepReset, "reset", KeepPop)
        /\ ahead(JustReset, "reset", <<>>) /\ ahead(KeepPop, "pop", <<>>)
    BY PlanSteps
  <2>2. CASE t.plan \in {KeepRemote, KeepFetch}
    BY <1>2, <2>1, <2>2 DEF Keeps, KeepAhead, Ahead
  <2>3. CASE t.plan \in {KeepSparse, KeepStatus} /\ HasFetched(t)
    BY <1>2, <2>1, <2>3 DEF Keeps, KeepAhead, Ahead
  <2>4. CASE t.plan = KeepStash /\ HasFetched(t)
    BY <1>2, <2>1, <2>4 DEF Keeps, KeepAhead, Ahead
  <2>5. CASE t.plan \in {KeepReset, JustReset} /\ HasFetched(t) /\ NoneMine
    BY <1>2, <2>1, <2>5 DEF Keeps, KeepAhead, Ahead
  <2>6. CASE t.plan = KeepPop /\ UpToDate(t)
    BY <1>2, <2>1, <2>6 DEF Keeps, KeepAhead, Ahead
  <2> QED BY <1>2, <2>2, <2>3, <2>4, <2>5, <2>6 DEF Keeps
<1>3. CASE dir = "dir" /\ Fills(t)
  <2>1. t.plan \in Filling
    BY <1>3 DEF Fills, Filling
  <2>2. /\ ahead(FillInit, "init", FillRemote) /\ ahead(FillRemote, "remote", FillFetch)
        /\ ahead(FillFetch, "fetch", FillSparse) /\ ahead(FillSparse, "sparse", FillReset)
        /\ ahead(FillReset, "reset", FillClean) /\ ahead(FillClean, "clean", <<>>)
    BY PlanSteps
  <2>3. CASE t.plan \in {FillInit, FillRemote, FillFetch}
    BY <1>3, <2>1, <2>2, <2>3 DEF FillAhead, Ahead
  <2>4. CASE t.plan = FillSparse /\ HasFetched(t)
    BY <1>3, <2>1, <2>2, <2>4 DEF FillAhead, Ahead
  <2>5. CASE t.plan = FillReset /\ HasFetched(t) /\ sparse = t.filtered
    BY <1>3, <2>1, <2>2, <2>5 DEF FillAhead, Ahead
  <2>6. CASE t.plan = FillClean /\ UpToDate(t) /\ Follows(t)
    BY <1>3, <2>1, <2>2, <2>6 DEF FillAhead, Ahead
  <2> QED BY <1>3, <2>3, <2>4, <2>5, <2>6 DEF Fills
<1>4. CASE Clones(t)
  <2>1. /\ ahead(CloneAll, "clone", <<>>) /\ ahead(CloneSome, "clone", SomeSparse)
        /\ ahead(SomeSparse, "sparse", SomeCheckout) /\ ahead(SomeCheckout, "checkout", <<>>)
    BY PlanSteps
  <2> QED BY <1>4, <2>1 DEF Clones, CloneAhead, Ahead
<1>5. CASE t.plan = Blocked
  BY <1>5, PlanSteps DEF Ahead
<1> QED BY <1>1, <1>2, <1>3, <1>4, <1>5 DEF GitStage

LEMMA Pushed ==
  ASSUME NEW S, NEW s \in Seq(S), NEW e \in S
  PROVE  /\ <<e>> \o s \in Seq(S)
         /\ 1 \in DOMAIN (<<e>> \o s) /\ (<<e>> \o s)[1] = e
         /\ \A i \in DOMAIN s : i + 1 \in DOMAIN (<<e>> \o s) /\ (<<e>> \o s)[i + 1] = s[i]
OBVIOUS

LEMMA Dropped ==
  ASSUME NEW S, NEW s \in Seq(S), s # <<>>
  PROVE  /\ Tail(s) \in Seq(S) /\ Head(s) \in S /\ Head(s) = s[1]
         /\ \A i \in DOMAIN s : i # 1 => i - 1 \in DOMAIN Tail(s) /\ Tail(s)[i - 1] = s[i]
OBVIOUS

\* What the index holds is git's.
LEMMA Gits ==
  /\ 0 \in NotOurs /\ NotOurs \subseteq Nat /\ Mine \in Nat /\ Mixed \in Nat
  /\ Mine # 0 /\ Mixed # 0 /\ 0 \notin Commits /\ Commits \subseteq Nat
  /\ \A k \in Commits : RemoteHas[k] \in [Files -> NotOurs]
  /\ Absent \in [Files -> NotOurs] /\ \A f \in Files : Absent[f] = 0
  /\ \A n \in NotOurs : n \notin {Mine, Mixed}
BY GitAssumption DEF NotOurs, Absent

LEMMA IndexIsGits == GitTyped => index \in [Files -> NotOurs]
BY Gits DEF GitTyped

\* The plan goes on to the next step.
GoesTo(t, u) == /\ u.plan = NextPlan(t.plan)
                /\ u.goal = t.goal /\ u.force = t.force /\ u.filtered = t.filtered
\* What the user wrote is still somewhere, if it is to be kept.
MineKept == \A f \in Files \ late : HasMine(f) => HasMine(f)'
Spares(t) == ~t.force /\ t.plan \notin Filling => MineKept

\* A step that looks, or writes only in the .git directory.
LEMMA QuietStep ==
  ASSUME GitTyped, UNCHANGED <<remote, touched, late, tree, index, head, stash>>,
         fetched' \in Commits \cup {0}, dir' # "dir" => dir # "dir"
  PROVE  GitTyped' /\ MineKept
BY DEF GitTyped, MineKept, HasMine

LEMMA SetUpGoes ==
  ASSUME GitTyped, NEW t, GitStage(t), t.plan # <<>>, UNCHANGED <<remote, touched, late>>,
         NEW u, GoesTo(t, u),
         \/ Head(t.plan) = "remote" /\ Remote
         \/ Head(t.plan) = "init" /\ GitInitialise
  PROVE  GitTyped' /\ GitStage(u)' /\ MineKept
<1>1. UNCHANGED <<dir, sparse, tree, index, head, fetched, stash>>
  BY DEF Remote, GitInitialise
<1>2. GitTyped' /\ MineKept
  BY <1>1, QuietStep DEF GitTyped
<1>3. u.plan = Tail(t.plan)
  BY DEF GoesTo, NextPlan
<1>4. dir = "dir" /\ \/ ~t.force /\ u.plan = KeepFetch
                     \/ t.force /\ u.plan = OverFetch
                     \/ u.plan \in {FillRemote, FillFetch}
  BY <1>3, StageAhead DEF Ahead, OverwriteAhead, KeepAhead, FillAhead, CloneAhead
<1>5. GitStage(u)'
  BY <1>1, <1>4 DEF GitStage, Overwrites, Keeps, Fills, GoesTo
<1> QED BY <1>2, <1>5

LEMMA FetchGoes ==
  ASSUME GitTyped, NEW t, GitStage(t), t.plan # <<>>, UNCHANGED <<remote, touched, late>>,
         NEW u, GoesTo(t, u), Head(t.plan) = "fetch", Fetch
  PROVE  GitTyped' /\ GitStage(u)' /\ MineKept
<1>1. UNCHANGED <<dir, sparse, tree, index, head, stash>> /\ fetched' = remote
  BY DEF Fetch
<1>2. GitTyped' /\ MineKept
  BY <1>1, QuietStep DEF GitTyped
<1>3. u.plan = Tail(t.plan)
  BY DEF GoesTo, NextPlan
<1>4. dir = "dir" /\ \/ ~t.force /\ u.plan = KeepSparse
                     \/ t.force /\ u.plan = OverSparse
                     \/ u.plan = FillSparse
  BY <1>3, StageAhead DEF Ahead, OverwriteAhead, KeepAhead, FillAhead, CloneAhead
<1>5. HasFetched(u)'
  BY <1>1, <1>2 DEF GitStage, GoesTo, HasFetched, GitTyped
<1>6. GitStage(u)'
  BY <1>1, <1>4, <1>5 DEF GitStage, Overwrites, Keeps, Fills, GoesTo
<1> QED BY <1>2, <1>6

LEMMA SparseGoes ==
  ASSUME GitTyped, NEW t, GitStage(t), t.plan # <<>>, UNCHANGED <<remote, touched, late>>,
         NEW u, GoesTo(t, u), Head(t.plan) = "sparse", applySparseCheckout(t.filtered)
  PROVE  GitTyped' /\ GitStage(u)' /\ MineKept
<1>1. UNCHANGED <<dir, fetched, index, head, stash>> /\ sparse' = t.filtered
      /\ tree' = SparseTree(t.filtered)
  BY DEF applySparseCheckout, refVars
<1>2. \A f \in Files : \/ tree'[f] = tree[f]
                       \/ tree[f] \in {0, index[f]} /\ tree'[f] \in {0, index[f]}
  BY <1>1 DEF SparseTree
<1>3. DOMAIN tree' = Files
  BY <1>1 DEF SparseTree
<1>4. index \in [Files -> NotOurs]
  BY IndexIsGits
<1>5. \A f \in Files : /\ tree'[f] \in Nat
                       /\ tree[f] \in {Mine, Mixed} => tree'[f] = tree[f]
                       /\ tree'[f] \in {Mine, Mixed} => tree[f] \in {Mine, Mixed}
                       /\ tree[f] \in {0, index[f]} => tree'[f] \in {0, index[f]}
  BY <1>2, <1>4, Gits DEF GitTyped
<1>6. dir = "dir"
  BY StageAhead DEF Ahead, OverwriteAhead, KeepAhead, FillAhead, CloneAhead
<1>7. tree' \in [Files -> Nat]
  <2>1. tree' = [f \in Files |-> tree'[f]]
    BY <1>1 DEF SparseTree
  <2> QED BY <2>1, <1>5
<1>8. GitTyped'
  BY <1>1, <1>5, <1>6, <1>7 DEF GitTyped
<1>9. MineKept
  BY <1>1, <1>5 DEF MineKept, HasMine
<1>10. u.plan = Tail(t.plan)
  BY DEF GoesTo, NextPlan
<1>11. \/ ~t.force /\ u.plan = KeepStatus /\ HasFetched(t)
       \/ t.force /\ u.plan = JustReset /\ HasFetched(t)
       \/ u.plan = FillReset /\ HasFetched(t)
       \/ u.plan = SomeCheckout /\ UpToDate(t) /\ NoneMine
  BY <1>10, StageAhead DEF Ahead, OverwriteAhead, KeepAhead, FillAhead, CloneAhead
<1>12. NoneMine => NoneMine'
  BY <1>5 DEF NoneMine
<1>13. (HasFetched(t) => HasFetched(u)') /\ (UpToDate(t) => UpToDate(u)')
  BY <1>1 DEF HasFetched, UpToDate, GoesTo
<1>14. sparse' = u.filtered /\ dir' = "dir" /\ u.goal \in Nat /\ u.goal <= remote' /\ u.force = t.force
  BY <1>1, <1>6 DEF GoesTo, GitStage
<1>15. GitStage(u)'
  BY <1>11, <1>12, <1>13, <1>14 DEF GitStage, Overwrites, Keeps, Fills, Clones
<1> QED BY <1>8, <1>9, <1>15

\* Tracked files get the content of the commit; of the others only what git
\* did not make stays.
LEMMA ResetGives ==
  ASSUME GitTyped, NEW k \in Commits, NEW new, new \in ResetTrees(RemoteHas[k])
  PROVE  /\ new \in [Files -> Nat]
         /\ \A f \in Files : ~Skipped(f) /\ RemoteHas[k][f] # 0 => new[f] = RemoteHas[k][f]
         /\ \A f \in Files : tree[f] \in {0, index[f]} => new[f] \in {0, RemoteHas[k][f]}
         /\ \A f \in Files : new[f] \in {0, tree[f], RemoteHas[k][f]}
<1>1. index \in [Files -> NotOurs] /\ RemoteHas[k] \in [Files -> NotOurs] /\ tree \in [Files -> Nat]
  BY IndexIsGits, Gits DEF GitTyped
<1>2. DOMAIN new = Files /\ new = [f \in Files |-> new[f]]
  BY DEF ResetTrees
<1>3. ASSUME NEW f \in Files
      PROVE  /\ Skipped(f) /\ Changed(f) => new[f] \in {tree[f], RemoteHas[k][f]}
             /\ Skipped(f) /\ ~Changed(f) => new[f] = 0
             /\ ~Skipped(f) /\ (RemoteHas[k][f] # 0 \/ index[f] # 0) => new[f] = RemoteHas[k][f]
             /\ ~Skipped(f) /\ ~(RemoteHas[k][f] # 0 \/ index[f] # 0) => new[f] = tree[f]
  <2>1. new[f] \in CASE Skipped(f) /\ Changed(f) -> {tree[f], RemoteHas[k][f]}
                      [] Skipped(f) /\ ~Changed(f) -> {0}
                      [] ~Skipped(f) /\ (RemoteHas[k][f] # 0 \/ index[f] # 0) -> {RemoteHas[k][f]}
                      [] OTHER -> {tree[f]}
    BY DEF ResetTrees
  <2>2. CASE Skipped(f) /\ Changed(f)
    BY <2>1, <2>2
  <2>3. CASE Skipped(f) /\ ~Changed(f)
    BY <2>1, <2>3
  <2>4. CASE ~Skipped(f) /\ (RemoteHas[k][f] # 0 \/ index[f] # 0)
    BY <2>1, <2>4
  <2>5. CASE ~Skipped(f) /\ ~(RemoteHas[k][f] # 0 \/ index[f] # 0)
    BY <2>1, <2>5
  <2> QED BY <2>2, <2>3, <2>4, <2>5
<1>4. \A f \in Files : new[f] \in {0, tree[f], RemoteHas[k][f]}
  BY <1>3
<1>5. \A f \in Files : new[f] \in Nat
  BY <1>1, <1>4, Gits
<1>6. new \in [Files -> Nat]
  BY <1>2, <1>5
<1>7. \A f \in Files : ~Skipped(f) /\ RemoteHas[k][f] # 0 => new[f] = RemoteHas[k][f]
  BY <1>3
<1>8. ASSUME NEW f \in Files, tree[f] \in {0, index[f]} PROVE new[f] \in {0, RemoteHas[k][f]}
  <2>1. Skipped(f) => ~Changed(f)
    BY <1>8 DEF Skipped, Changed
  <2> QED BY <1>3, <1>8, <2>1
<1> QED BY <1>4, <1>6, <1>7, <1>8

LEMMA ResetGoes ==
  ASSUME GitTyped, NEW t, GitStage(t), t.plan # <<>>, UNCHANGED <<remote, touched, late>>,
         NEW u, GoesTo(t, u), Head(t.plan) = "reset", Reset
  PROVE  GitTyped' /\ GitStage(u)' /\ Spares(t)
<1>1. UNCHANGED <<dir, sparse, fetched, stash>>
  BY DEF Reset
<1>2. fetched \in Commits /\ head' = fetched /\ index' = RemoteHas[fetched]
  BY DEF Reset, GitTyped
<1>3. /\ tree' \in [Files -> Nat]
      /\ \A f \in Files : ~Skipped(f) /\ index'[f] # 0 => tree'[f] = index'[f]
      /\ \A f \in Files : tree[f] \in {0, index[f]} => tree'[f] \in {0, index'[f]}
  BY <1>2, ResetGives DEF Reset
<1>4. dir = "dir"
  BY StageAhead DEF Ahead, OverwriteAhead, KeepAhead, FillAhead, CloneAhead
<1>5. GitTyped'
  BY <1>1, <1>2, <1>3, <1>4, Gits DEF GitTyped
<1>6. u.plan = Tail(t.plan)
  BY DEF GoesTo, NextPlan
<1>7. \/ t.force /\ u.plan = <<>> /\ HasFetched(t) /\ sparse = t.filtered
      \/ ~t.force /\ u.plan \in {KeepPop, <<>>} /\ HasFetched(t) /\ NoneMine
      \/ u.plan = FillClean /\ HasFetched(t) /\ sparse = t.filtered /\ t.plan \in Filling
  BY <1>6, StageAhead DEF Ahead, OverwriteAhead, KeepAhead, FillAhead, CloneAhead
<1>8. UpToDate(u)'
  BY <1>2, <1>7 DEF HasFetched, UpToDate, GoesTo
<1>9. sparse = t.filtered => Follows(u)'
  BY <1>1, <1>2, <1>3 DEF Follows, Skipped, GoesTo
<1>10. dir' = "dir" /\ u.goal \in Nat /\ u.goal <= remote' /\ u.force = t.force
  BY <1>1, <1>4 DEF GoesTo, GitStage
<1>11. GitStage(u)'
  BY <1>7, <1>8, <1>9, <1>10 DEF GitStage, Keeps, Fills, Brought
<1>12. Spares(t)
  BY <1>1, <1>7 DEF Spares, MineKept, HasMine, NoneMine
<1> QED BY <1>5, <1>11, <1>12

LEMMA StatusGoes ==
  ASSUME GitTyped, NEW t, GitStage(t), t.plan # <<>>, UNCHANGED <<remote, touched, late>>,
         NEW u, GoesTo(t, u), Head(t.plan) = "status",
         UNCHANGED <<refVars, sparse, tree, index, stash, unmerged>>
  PROVE  GitTyped' /\ GitStage(u)' /\ MineKept
<1>1. UNCHANGED <<dir, head, fetched>>
  BY DEF refVars
<1>2. GitTyped' /\ MineKept
  BY <1>1, QuietStep DEF GitTyped
<1>3. dir = "dir" /\ ~t.force /\ HasFetched(t)
  BY StageAhead DEF Ahead, OverwriteAhead, KeepAhead, FillAhead, CloneAhead
<1>4. u.plan = KeepStash \/ (u.plan = JustReset /\ ~gitHasWorkingTreeChanges)
  BY <1>3 DEF GoesTo, NextPlan, KeepStash, JustReset
<1>5. ~gitHasWorkingTreeChanges => NoneMine
  <2>1. \A f \in Files : ~Changed(f) => tree[f] \in {0, index[f]}
    BY DEF Changed
  <2> QED BY <2>1, IndexIsGits, Gits DEF gitHasWorkingTreeChanges, NoneMine
<1>6. GitStage(u)'
  BY <1>1, <1>3, <1>4, <1>5 DEF GitStage, Keeps, GoesTo, HasFetched, NoneMine
<1> QED BY <1>2, <1>6

LEMMA StashGoes ==
  ASSUME GitTyped, NEW t, GitStage(t), t.plan # <<>>, UNCHANGED <<remote, touched, late>>,
         NEW u, GoesTo(t, u), Head(t.plan) = "stash", StashPush
  PROVE  GitTyped' /\ GitStage(u)' /\ MineKept
<1> DEFINE e == [was |-> index, has |-> tree, files |-> {f \in Files : Changed(f)}]
<1>1. UNCHANGED <<dir, sparse, fetched, index, head>> /\ stash' = <<e>> \o stash
  BY DEF StashPush, refVars
<1>2. /\ DOMAIN tree' = Files
      /\ tree' = [f \in Files |-> tree'[f]]
      /\ \A f \in Files : Changed(f) => tree'[f] \in {0, index[f]}
      /\ \A f \in Files : ~Changed(f) => tree'[f] = tree[f]
  BY DEF StashPush
<1>3. index \in [Files -> NotOurs] /\ tree \in [Files -> Nat] /\ stash \in Seq(StashEntries)
  BY IndexIsGits DEF GitTyped
<1>4. e \in StashEntries
  BY <1>3 DEF StashEntries
<1>5. /\ e.has = tree
      /\ \A f \in Files : Changed(f) => f \in e.files
  OBVIOUS
<1> HIDE DEF e
<1>6. /\ stash' \in Seq(StashEntries)
      /\ 1 \in DOMAIN stash' /\ stash'[1] = e
      /\ \A i \in DOMAIN stash : i + 1 \in DOMAIN stash' /\ stash'[i + 1] = stash[i]
  BY <1>1, <1>3, <1>4, Pushed
<1>7. dir = "dir" /\ ~t.force /\ u.plan = KeepReset /\ HasFetched(t)
  BY StageAhead DEF Ahead, OverwriteAhead, KeepAhead, FillAhead, CloneAhead,
     GoesTo, NextPlan
<1>8. \A f \in Files : ~Changed(f) => tree[f] \in {0, index[f]}
  BY DEF Changed
<1>9. \A f \in Files : tree'[f] \in {0, index[f]}
  BY <1>2, <1>8
<1>10. GitTyped'
  <2>1. tree' \in [Files -> Nat]
    BY <1>2, <1>3, <1>9, Gits
  <2> QED BY <1>1, <1>6, <1>7, <1>9, <2>1 DEF GitTyped
<1>11. NoneMine'
  BY <1>3, <1>9, Gits DEF NoneMine
<1>12. GitStage(u)'
  BY <1>1, <1>7, <1>11 DEF GitStage, Keeps, GoesTo, HasFetched
<1>13. MineKept
  <2> SUFFICES ASSUME NEW f \in Files \ late, HasMine(f) PROVE HasMine(f)'
    BY DEF MineKept
  <2>1. CASE tree[f] \in {Mine, Mixed}
    <3>1. Changed(f)
      BY <1>3, <1>8, <2>1, Gits
    <3>2. 1 \in DOMAIN stash' /\ f \in stash'[1].files /\ stash'[1].has[f] \in {Mine, Mixed}
      BY <1>5, <1>6, <2>1, <3>1
    <3> QED BY <3>2 DEF HasMine
  <2>2. CASE tree[f] \notin {Mine, Mixed}
    <3>1. PICK i \in DOMAIN stash : f \in stash[i].files /\ stash[i].has[f] \in {Mine, Mixed}
      BY <2>2 DEF HasMine
    <3>2. i + 1 \in DOMAIN stash' /\ stash'[i + 1] = stash[i]
      BY <1>6
    <3> QED BY <3>1, <3>2 DEF HasMine
  <2> QED BY <2>1, <2>2
<1> QED BY <1>10, <1>12, <1>13

\* What a pop puts into a file: a conflict shows as a merge, and what the user
\* wrote is never what git had.
LEMMA PopGoes ==
  ASSUME GitTyped, NEW t, GitStage(t), t.plan # <<>>, UNCHANGED <<remote, late>>,
         touched' = touched \cup Strays,
         NEW u, GoesTo(t, u), Head(t.plan) = "pop", StashPop
  PROVE  GitTyped' /\ GitStage(u)' /\ MineKept
<1> DEFINE s == Head(stash)
<1>1. UNCHANGED <<dir, sparse, fetched, index, head>> /\ stash # <<>>
  BY DEF StashPop, refVars
<1>2. dir = "dir" /\ ~t.force /\ u.plan = <<>> /\ UpToDate(t)
  BY StageAhead DEF Ahead, OverwriteAhead, KeepAhead, FillAhead, CloneAhead,
     GoesTo, NextPlan
<1>3. tree \in [Files -> Nat] /\ stash \in Seq(StashEntries)
  BY DEF GitTyped
<1>4. /\ Tail(stash) \in Seq(StashEntries) /\ s \in StashEntries /\ s = stash[1]
      /\ \A i \in DOMAIN stash : i # 1 => i - 1 \in DOMAIN Tail(stash) /\ Tail(stash)[i - 1] = stash[i]
  BY <1>1, <1>3, Dropped
<1>5. /\ s.was \in [Files -> NotOurs] /\ s.has \in [Files -> Nat]
  BY <1>4 DEF StashEntries
<1> HIDE DEF s
<1>6. \/ tree' = tree /\ stash' = stash
      \/ tree' = Popped(s, Mixed) /\ stash' = stash
      \/ tree' = Popped(s, Mixed) /\ stash' = Tail(stash) /\ Conflicts(s) = {}
  BY DEF StashPop, s
<1>7. ASSUME NEW f \in Files
      PROVE  /\ Popped(s, Mixed)[f] \in {tree[f], Mixed, s.has[f]}
             /\ f \notin s.files => Popped(s, Mixed)[f] = tree[f]
             /\ f \in s.files /\ f \in Conflicts(s) => Popped(s, Mixed)[f] = Mixed
             /\ f \in s.files /\ f \notin Conflicts(s) => Popped(s, Mixed)[f] = s.has[f]
  BY DEF Popped
<1>8. Popped(s, Mixed) \in [Files -> Nat]
  <2>1. \A f \in Files : Popped(s, Mixed)[f] \in Nat
    BY <1>3, <1>5, <1>7, Gits
  <2>2. Popped(s, Mixed) = [f \in Files |-> Popped(s, Mixed)[f]]
    BY DEF Popped
  <2> QED BY <2>1, <2>2
<1>9. GitTyped'
  <2>1. \A f \in Files \ touched' : tree'[f] = tree[f]
    BY DEF Strays
  <2>2. tree' \in [Files -> Nat] /\ stash' \in Seq(StashEntries)
    BY <1>3, <1>4, <1>6, <1>8
  <2> QED BY <1>1, <1>2, <2>1, <2>2 DEF GitTyped
<1>10. GitStage(u)'
  BY <1>1, <1>2 DEF GitStage, Brought, UpToDate, GoesTo
<1>11. MineKept
  <2> SUFFICES ASSUME NEW f \in Files \ late, HasMine(f) PROVE HasMine(f)'
    BY DEF MineKept
  <2>1. CASE tree'[f] \in {Mine, Mixed}
    BY <2>1 DEF HasMine
  <2>2. CASE tree'[f] \notin {Mine, Mixed}
    <3>1. tree[f] \notin {Mine, Mixed}
      <4>1. SUFFICES ASSUME tree[f] \in {Mine, Mixed} PROVE tree'[f] \in {Mine, Mixed}
        BY <2>2
      <4>2. tree[f] # 0 /\ Present(f) = tree[f]
        BY <4>1, Gits DEF Present
      <4>3. f \in s.files /\ f \notin Conflicts(s) => s.has[f] = tree[f]
        BY <1>5, <4>1, <4>2, Gits DEF Conflicts
      <4> QED BY <1>6, <1>7, <4>1, <4>3
    <3>2. PICK i \in DOMAIN stash : f \in stash[i].files /\ stash[i].has[f] \in {Mine, Mixed}
      BY <3>1 DEF HasMine
    <3>3. CASE stash' = stash
      BY <3>2, <3>3 DEF HasMine
    <3>4. CASE tree' = Popped(s, Mixed) /\ stash' = Tail(stash) /\ Conflicts(s) = {}
      <4>1. i # 1
        BY <1>4, <1>7, <2>2, <3>2, <3>4
      <4>2. i - 1 \in DOMAIN stash' /\ stash'[i - 1] = stash[i]
        BY <1>4, <3>4, <4>1
      <4> QED BY <3>2, <4>2 DEF HasMine
    <3> QED BY <1>6, <3>3, <3>4
  <2> QED BY <2>1, <2>2
<1> QED BY <1>9, <1>10, <1>11

LEMMA CleanGoes ==
  ASSUME GitTyped, NEW t, GitStage(t), t.plan # <<>>, UNCHANGED <<remote, touched, late>>,
         NEW u, GoesTo(t, u), Head(t.plan) = "clean", Clean
  PROVE  GitTyped' /\ GitStage(u)' /\ Spares(t)
<1>1. UNCHANGED <<dir, sparse, fetched, index, head, stash>>
  BY DEF Clean, refVars
<1>2. /\ DOMAIN tree' = Files /\ tree' = [f \in Files |-> tree'[f]]
      /\ \A f \in Files : tree'[f] = IF index[f] = 0 THEN 0 ELSE tree[f]
  BY DEF Clean
<1>3. dir = "dir" /\ t.plan \in Filling /\ u.plan = <<>> /\ UpToDate(t) /\ Follows(t)
  BY StageAhead DEF Ahead, OverwriteAhead, KeepAhead, FillAhead, CloneAhead,
     GoesTo, NextPlan
<1>4. GitTyped'
  <2>1. tree' \in [Files -> Nat]
    BY <1>2 DEF GitTyped
  <2> QED BY <1>1, <1>2, <1>3, <2>1 DEF GitTyped
<1>5. Follows(u)'
  <2>1. head # 0 /\ index = RemoteHas[head]
    BY <1>3, Gits DEF UpToDate, GitTyped
  <2> QED BY <1>1, <1>2, <1>3, <2>1 DEF Follows, GoesTo
<1>6. GitStage(u)'
  BY <1>1, <1>3, <1>5 DEF GitStage, Brought, UpToDate, GoesTo
<1> QED BY <1>3, <1>4, <1>6 DEF Spares

\* Where nothing of the user's is in the tree, it can only be in the stash.
LEMMA OnlyStashed ==
  ASSUME NoneMine, UNCHANGED stash
  PROVE  MineKept
BY DEF NoneMine, MineKept, HasMine

LEMMA CloneGoes ==
  ASSUME GitTyped, NEW t, GitStage(t), t.plan # <<>>, UNCHANGED <<remote, touched, late>>,
         NEW u, GoesTo(t, u), Head(t.plan) = "clone", Clone(t.filtered)
  PROVE  GitTyped' /\ GitStage(u)' /\ MineKept
<1>1. /\ UNCHANGED <<sparse, fetched, stash>> /\ dir' = "dir"
      /\ head' = remote /\ index' = RemoteHas[remote]
      /\ tree' = IF t.filtered THEN Absent ELSE RemoteHas[remote]
  BY DEF Clone
<1>2. NoneMine /\ \/ ~t.filtered /\ u.plan = <<>>
                  \/ u.plan = SomeSparse
  BY StageAhead DEF Ahead, OverwriteAhead, KeepAhead, FillAhead, CloneAhead,
     GoesTo, NextPlan
<1>3. remote \in Commits /\ RemoteHas[remote] \in [Files -> NotOurs] /\ remote # 0
  BY Gits DEF GitTyped
<1>4. tree' \in [Files -> NotOurs] /\ \A f \in Files : tree'[f] \in {0, index'[f]}
  BY <1>1, <1>3, Gits
<1>5. GitTyped'
  <2>1. tree' \in [Files -> Nat]
    BY <1>4, Gits
  <2> QED BY <1>1, <1>3, <1>4, <2>1 DEF GitTyped
<1>6. MineKept
  BY <1>1, <1>2, OnlyStashed
<1>7. NoneMine'
  BY <1>4, Gits DEF NoneMine
<1>8. UpToDate(u)' /\ u.goal \in Nat /\ u.goal <= remote'
  BY <1>1, <1>3 DEF GitStage, UpToDate, GoesTo
<1>9. ~t.filtered => Follows(u)'
  BY <1>1, <1>3 DEF Follows
<1>10. GitStage(u)'
  BY <1>1, <1>2, <1>7, <1>8, <1>9 DEF GitStage, Clones, Brought
<1> QED BY <1>5, <1>6, <1>10

LEMMA CheckoutGoes ==
  ASSUME GitTyped, NEW t, GitStage(t), t.plan # <<>>, UNCHANGED <<remote, touched, late>>,
         NEW u, GoesTo(t, u), Head(t.plan) = "checkout", Checkout
  PROVE  GitTyped' /\ GitStage(u)' /\ MineKept
<1>1. UNCHANGED <<dir, sparse, fetched, index, head, stash>>
  BY DEF Checkout, refVars
<1>2. /\ DOMAIN tree' = Files /\ tree' = [f \in Files |-> tree'[f]]
      /\ \A f \in Files : tree'[f] = IF Skipped(f) THEN 0 ELSE index[f]
  BY DEF Checkout
<1>3. dir = "dir" /\ NoneMine /\ u.plan = <<>> /\ UpToDate(t) /\ sparse = t.filtered
  BY StageAhead DEF Ahead, OverwriteAhead, KeepAhead, FillAhead, CloneAhead,
     GoesTo, NextPlan
<1>4. GitTyped'
  <2>1. tree' \in [Files -> Nat]
    BY <1>2, IndexIsGits, Gits
  <2> QED BY <1>1, <1>2, <1>3, <2>1 DEF GitTyped
<1>5. Follows(u)'
  <2>1. head # 0 /\ index = RemoteHas[head]
    BY <1>3, Gits DEF UpToDate, GitTyped
  <2> QED BY <1>1, <1>2, <1>3, <2>1 DEF Follows, GoesTo, Skipped
<1>6. GitStage(u)'
  BY <1>1, <1>3, <1>5 DEF GitStage, Brought, UpToDate, GoesTo
<1> QED BY <1>1, <1>3, <1>4, <1>6, OnlyStashed

LEMMA CommandGoes ==
  ASSUME GitTyped, NEW t, GitStage(t), t.plan # <<>>, Command(Head(t.plan), t.filtered),
         UNCHANGED <<remote, late>>, NEW u, GoesTo(t, u),
         touched' = IF Head(t.plan) = "pop" THEN touched \cup Strays ELSE touched
  PROVE  GitTyped' /\ GitStage(u)' /\ Spares(t)
<1>1. MineKept => Spares(t)
  BY DEF Spares
<1>2. CASE \/ Head(t.plan) = "remote" /\ Remote
           \/ Head(t.plan) = "init" /\ GitInitialise
  BY <1>1, <1>2, SetUpGoes
<1>3. CASE Head(t.plan) = "fetch" /\ Fetch
  BY <1>1, <1>3, FetchGoes
<1>4. CASE Head(t.plan) = "sparse" /\ applySparseCheckout(t.filtered)
  BY <1>1, <1>4, SparseGoes
<1>5. CASE Head(t.plan) = "reset" /\ Reset
  BY <1>5, ResetGoes
<1>6. CASE Head(t.plan) = "status" /\ UNCHANGED <<refVars, sparse, tree, index, stash, unmerged>>
  BY <1>1, <1>6, StatusGoes
<1>7. CASE Head(t.plan) = "stash" /\ StashPush
  BY <1>1, <1>7, StashGoes
<1>8. CASE Head(t.plan) = "pop" /\ StashPop
  BY <1>1, <1>8, PopGoes
<1>9. CASE Head(t.plan) = "clean" /\ Clean
  BY <1>9, CleanGoes
<1>10. CASE Head(t.plan) = "clone" /\ Clone(t.filtered)
  BY <1>1, <1>10, CloneGoes
<1>11. CASE Head(t.plan) = "checkout" /\ Checkout
  BY <1>1, <1>11, CheckoutGoes
<1> QED BY <1>2, <1>3, <1>4, <1>5, <1>6, <1>7, <1>8, <1>9, <1>10, <1>11 DEF Command

\* A command that fails, or is killed, has not got further than its step; only
\* a reset that is killed has changed files, and then they count as touched.
LEMMA FailureStays ==
  ASSUME GitTyped, NEW t, GitStage(t), t.plan # <<>>, NEW killed \in BOOLEAN,
         Failure(Head(t.plan), killed), UNCHANGED <<remote, late>>, touched' = touched \cup Strays
  PROVE  /\ GitTyped' /\ Spares(t)
         /\ \A u : u.plan = <<>> /\ Head(t.plan) = "pop" /\ u.goal = t.goal /\ u.force = t.force
                     => GitStage(u)'
<1>1. UNCHANGED <<sparse, index, head, fetched, stash>>
  BY DEF Failure, refVars
<1>2. touched \subseteq touched' /\ \A f \in Files \ touched' : tree'[f] = tree[f]
  BY DEF Strays
<1>3. CASE Head(t.plan) # "reset" \/ UNCHANGED tree
  <2>1. UNCHANGED tree /\ (dir' = dir \/ dir' = "dir")
    BY <1>3 DEF Failure, refVars
  <2>2. GitTyped'
    BY <1>1, <1>2, <2>1 DEF GitTyped
  <2>3. Spares(t)
    BY <1>1, <2>1 DEF Spares, MineKept, HasMine
  <2>4. ASSUME NEW u, u.plan = <<>>, Head(t.plan) = "pop", u.goal = t.goal, u.force = t.force
        PROVE  GitStage(u)'
    <3>1. ~t.force /\ UpToDate(t)
      BY <2>4, StageAhead DEF Ahead, OverwriteAhead, KeepAhead, FillAhead, CloneAhead
    <3> QED BY <1>1, <2>4, <3>1 DEF GitStage, Brought, UpToDate
  <2> QED BY <2>2, <2>3, <2>4
<1>4. CASE Head(t.plan) = "reset" /\ tree' # tree
  <2>1. UNCHANGED dir /\ fetched # 0
    BY <1>4 DEF Failure, refVars
  <2>2. PICK new \in ResetTrees(RemoteHas[fetched]), done \in SUBSET Files :
          tree' = [f \in Files |-> IF f \in done THEN new[f] ELSE tree[f]]
    BY <1>4 DEF Failure
  <2>3. new \in [Files -> Nat] /\ tree \in [Files -> Nat]
    BY <2>1, ResetGives DEF GitTyped
  <2>4. tree' \in [Files -> Nat]
    BY <2>2, <2>3
  <2>5. dir = "dir" /\ (~t.force => NoneMine \/ t.plan \in Filling)
    BY <1>4, StageAhead DEF Ahead, OverwriteAhead, KeepAhead, FillAhead, CloneAhead
  <2>6. GitTyped'
    BY <1>1, <1>2, <2>1, <2>4, <2>5 DEF GitTyped
  <2>7. Spares(t)
    BY <1>1, <2>5, OnlyStashed DEF Spares
  <2> QED BY <1>4, <2>6, <2>7
<1> QED BY <1>3, <1>4

\* What a pull brings, and what is in its way, when the others, the user and
\* the remote take a step.
Settled ==
  /\ UNCHANGED <<dir, sparse, index, head, fetched, stash>>
  /\ remote' \in Commits /\ remote' >= remote
  /\ tree' \in [Files -> Nat] /\ (dir # "dir" => UNCHANGED tree)
  /\ \A f \in Files \ touched' : tree'[f] = tree[f]
  /\ touched \subseteq touched'
Undisturbed == late \subseteq late' /\ \A f \in Files \ late' : tree'[f] = tree[f]

LEMMA TypeSettles ==
  ASSUME GitTyped, Settled
  PROVE  GitTyped'
BY DEF GitTyped, Settled

SameAim(t, u) == u.goal = t.goal /\ u.force = t.force /\ u.filtered = t.filtered
LEMMA StageSettles ==
  ASSUME GitTyped, Settled, Undisturbed, NEW t, NEW u, SameAim(t, u)
  PROVE  /\ Brought(t) => Brought(u)'
         /\ GitStage(t) /\ u.plan = t.plan => GitStage(u)'
<1>1. /\ UpToDate(t) => UpToDate(u)'
      /\ HasFetched(t) => HasFetched(u)'
  BY DEF Settled, UpToDate, HasFetched, SameAim
<1>2. Follows(t) => Follows(u)'
  BY DEF Settled, Undisturbed, Follows, SameAim
<1>3. NoneMine => NoneMine'
  BY DEF Undisturbed, NoneMine
<1>4. Brought(t) => Brought(u)'
  BY <1>1, <1>2 DEF Brought, SameAim
<1>5. ASSUME u.plan = t.plan
      PROVE  /\ Overwrites(t) => Overwrites(u)'
             /\ Keeps(t) => Keeps(u)'
             /\ Fills(t) => Fills(u)'
             /\ Clones(t) => Clones(u)'
  <2>1. UNCHANGED <<dir, sparse>>
    BY DEF Settled
  <2>2. Overwrites(t) => Overwrites(u)'
    BY <1>1, <1>5, <2>1 DEF Overwrites, SameAim
  <2>3. Keeps(t) => Keeps(u)'
    BY <1>1, <1>3, <1>5, <2>1 DEF Keeps, SameAim
  <2>4. Fills(t) => Fills(u)'
    BY <1>1, <1>2, <1>5, <2>1 DEF Fills, SameAim
  <2>5. Clones(t) => Clones(u)'
    BY <1>1, <1>3, <1>5, <2>1 DEF Clones, SameAim
  <2> QED BY <2>2, <2>3, <2>4, <2>5
<1>6. ASSUME GitStage(t), u.plan = t.plan PROVE GitStage(u)'
  <2>1. u.goal \in Nat /\ u.goal <= remote'
    BY <1>6, Gits DEF GitStage, GitTyped, Settled, SameAim
  <2>2. UNCHANGED dir
    BY DEF Settled
  <2> QED BY <1>4, <1>5, <1>6, <2>1, <2>2 DEF GitStage
<1> QED BY <1>4, <1>6

\* A plan that has been done has brought what it should.
LEMMA DoneBrings ==
  ASSUME NEW t, GitStage(t), t.plan = <<>>
  PROVE  Brought(t)
BY PlansAreLong DEF GitStage, Overwrites, Keeps, Fills, Clones

\* The pull in the slot is the only one with a plan, or that has succeeded.
Working == {"git"} \cup Success
LEMMA OneWorks ==
  ASSUME PullInv, NEW p \in Pulls, pull[p].pc \in Holding, NEW q \in Pulls \ {p}
  PROVE  pull[q].pc \notin Working
BY InvIsOfPulls DEF PullOK, Working, Success, Holding

\* How a pull stands in the invariant.
Stands(t) == /\ AimFields \subseteq DOMAIN t
             /\ t.pc = "git" => GitStage(t)
             /\ t.pc \in Success => Brought(t)
LEMMA GitInvIs ==
  GitInv <=> /\ GitTyped /\ running \in Pulls \cup {NoPull}
             /\ \A p \in Pulls : Stands(pull[p])
BY DEF GitInv, Stands
LEMMA GitInvIsNext ==
  GitInv' <=> /\ GitTyped' /\ running' \in Pulls \cup {NoPull}
              /\ \A p \in Pulls : Stands(pull[p])'
BY DEF GitInv, Stands

\* The pull in the slot moves, with whatever it does to the directory.
LEMMA WorkerMoves ==
  ASSUME PullInv, GitInv, GitTyped', NEW p \in Pulls, pull[p].pc \in Holding,
         NEW u, pull' = [pull EXCEPT ![p] = u], AimFields \subseteq DOMAIN u,
         running' \in Pulls \cup {NoPull},
         u.pc = "git" => GitStage(u)', u.pc \in Success => Brought(u)'
  PROVE  GitInv'
<1>1. DOMAIN pull = Pulls
  BY InvIsOfPulls
<1>2. ASSUME NEW q \in Pulls PROVE Stands(pull[q])'
  <2>1. CASE q = p
    <3>1. pull'[q] = u
      BY <1>1, <2>1
    <3> QED BY <3>1 DEF Stands
  <2>2. CASE q # p
    <3>1. pull'[q] = pull[q] /\ pull[q].pc \notin Working
      BY <1>1, <2>2, OneWorks
    <3> QED BY <3>1, GitInvIs DEF Stands, Working
  <2> QED BY <2>1, <2>2
<1> QED BY <1>2, GitInvIsNext

\* Any other step: nobody gets to work, and what is at work stays as it is.
StaysBy(t, u) ==
  /\ AimFields \subseteq DOMAIN u
  /\ \/ u.pc \notin Working
     \/ u.pc = "git" /\ t.pc = "git" /\ u.plan = t.plan /\ SameAim(t, u)
     \/ u.pc \in Success /\ SameAim(t, u) /\ (t.pc \in Success \/ (t.pc = "git" /\ t.plan = <<>>))
LEMMA OthersSettle ==
  ASSUME GitInv, Settled, running' \in Pulls \cup {NoPull},
         (\E p \in Pulls : pull'[p].pc \in Working) => Undisturbed,
         \A p \in Pulls : StaysBy(pull[p], pull'[p])
  PROVE  GitInv'
<1>1. GitTyped /\ GitTyped' /\ \A p \in Pulls : Stands(pull[p])
  BY GitInvIs, TypeSettles
<1>2. ASSUME NEW p \in Pulls PROVE Stands(pull[p])'
  <2>1. CASE pull'[p].pc \notin Working
    BY <2>1 DEF Stands, Working, StaysBy
  <2>2. CASE pull'[p].pc \in Working
    <3>1. Undisturbed
      BY <2>2
    <3>2. SameAim(pull[p], pull'[p]) /\ StaysBy(pull[p], pull'[p])
      BY <2>2 DEF StaysBy
    <3>3. CASE pull'[p].pc = "git"
      <4>1. GitStage(pull[p]) /\ pull'[p].plan = pull[p].plan
        BY <1>1, <3>2, <3>3 DEF Stands, StaysBy, Working, Success
      <4>2. PICK u : u = pull'[p]
        OBVIOUS
      <4>3. GitStage(u)'
        BY <1>1, <3>1, <3>2, <4>1, <4>2, StageSettles
      <4> QED BY <3>2, <3>3, <4>2, <4>3 DEF Stands, StaysBy, Success
    <3>4. CASE pull'[p].pc \in Success
      <4>1. Brought(pull[p])
        BY <1>1, <3>2, <3>4, DoneBrings DEF Stands, StaysBy, Working, Success
      <4>2. PICK u : u = pull'[p]
        OBVIOUS
      <4>3. Brought(u)'
        BY <1>1, <3>1, <3>2, <4>1, <4>2, StageSettles
      <4> QED BY <3>2, <3>4, <4>2, <4>3 DEF Stands, StaysBy, Success
    <3> QED BY <2>2, <3>3, <3>4 DEF Working
  <2> QED BY <2>1, <2>2
<1> QED BY <1>1, <1>2, GitInvIsNext

\* A command of the pull in the slot.
LEMMA GitStepKeeps ==
  ASSUME PullInv, GitInv, NEW p \in Pulls, GitStep(p)
  PROVE  GitInv' /\ Spares(pull[p])
<1>1. pull[p].pc = "git" /\ pull[p].plan # <<>> /\ UNCHANGED <<remote, late, running>>
  BY DEF GitStep
<1>2. GitTyped /\ GitStage(pull[p]) /\ running \in Pulls \cup {NoPull}
      /\ AimFields \subseteq DOMAIN pull[p]
  BY <1>1, GitInvIs DEF Stands
<1>3. DOMAIN pull = Pulls /\ PullFields \subseteq DOMAIN pull[p]
  BY InvIsOfPulls DEF PullOK
<1>4. PICK pc \in {"git", "failed"} :
        pull' = [pull EXCEPT ![p].plan = NextPlan(pull[p].plan), ![p].pc = pc]
  BY <1>3 DEF GitStep
<1>5. PICK t : t = pull[p]
  OBVIOUS
<1>6. PICK u : pull' = [pull EXCEPT ![p] = u] /\ u = [t EXCEPT !.plan = NextPlan(t.plan), !.pc = pc]
  BY <1>3, <1>4, <1>5
<1>7. GoesTo(t, u) /\ u.pc = pc /\ AimFields \subseteq DOMAIN u
  BY <1>2, <1>3, <1>5, <1>6 DEF GoesTo, AimFields, PullFields
<1>8. GitTyped' /\ GitStage(u)' /\ Spares(t)
  <2>1. Command(Head(t.plan), t.filtered)
        /\ touched' = IF Head(t.plan) = "pop" THEN touched \cup Strays ELSE touched
    BY <1>5 DEF GitStep
  <2> QED BY <1>1, <1>2, <1>5, <1>7, <2>1, CommandGoes
<1>9. GitInv'
  <2>1. u.pc \notin Success /\ pull[p].pc \in Holding /\ running' \in Pulls \cup {NoPull}
    BY <1>1, <1>2, <1>7 DEF Success, Holding
  <2> QED BY <1>6, <1>7, <1>8, <2>1, WorkerMoves
<1> QED BY <1>5, <1>8, <1>9 DEF Spares

LEMMA GitFailsKeeps ==
  ASSUME PullInv, GitInv, NEW p \in Pulls, GitFails(p)
  PROVE  GitInv' /\ Spares(pull[p])
<1>1. pull[p].pc = "git" /\ pull[p].plan # <<>> /\ UNCHANGED <<remote, late, running>>
      /\ touched' = touched \cup Strays
  BY DEF GitFails
<1>2. GitTyped /\ GitStage(pull[p]) /\ running \in Pulls \cup {NoPull}
      /\ AimFields \subseteq DOMAIN pull[p]
  BY <1>1, GitInvIs DEF Stands
<1>3. DOMAIN pull = Pulls /\ PullFields \subseteq DOMAIN pull[p]
  BY InvIsOfPulls DEF PullOK
<1>4. PICK t : t = pull[p]
  OBVIOUS
<1>5. PICK killed \in BOOLEAN : Failure(Head(t.plan), killed)
  <2>1. Failure(Head(pull[p].plan), pull[p].stopped)
    BY DEF GitFails
  <2>2. Failure(Head(pull[p].plan), TRUE) \/ Failure(Head(pull[p].plan), FALSE)
    BY <2>1 DEF Failure
  <2> QED BY <1>4, <2>2
<1>6. /\ GitTyped' /\ Spares(t)
      /\ \A u : u.plan = <<>> /\ Head(t.plan) = "pop" /\ u.goal = t.goal /\ u.force = t.force
                  => GitStage(u)'
  BY <1>1, <1>2, <1>4, <1>5, FailureStays
<1> DEFINE popped == [t EXCEPT !.plan = <<>>]
           failed == [t EXCEPT !.pc = "failed", !.plan = <<>>]
<1>7. \/ Head(t.plan) = "pop" /\ pull' = [pull EXCEPT ![p] = popped]
      \/ pull' = [pull EXCEPT ![p] = failed]
  BY <1>3, <1>4 DEF GitFails
<1>8. /\ popped.plan = <<>> /\ popped.pc = "git" /\ AimFields \subseteq DOMAIN popped
      /\ popped.goal = t.goal /\ popped.force = t.force
      /\ failed.pc = "failed" /\ AimFields \subseteq DOMAIN failed
  BY <1>1, <1>2, <1>3, <1>4 DEF AimFields, PullFields
<1> HIDE DEF popped, failed
<1>9. pull[p].pc \in Holding /\ running' \in Pulls \cup {NoPull}
      /\ "git" \notin Success /\ "failed" \notin Success
  BY <1>1, <1>2 DEF Holding, Success
<1>10. GitInv'
  <2>1. CASE Head(t.plan) = "pop" /\ pull' = [pull EXCEPT ![p] = popped]
    <3>1. GitStage(popped)'
      BY <1>6, <1>8, <2>1
    <3> QED BY <1>6, <1>8, <1>9, <2>1, <3>1, WorkerMoves
  <2>2. CASE pull' = [pull EXCEPT ![p] = failed]
    BY <1>6, <1>8, <1>9, <2>2, WorkerMoves
  <2> QED BY <1>7, <2>1, <2>2
<1> QED BY <1>4, <1>6, <1>10 DEF Spares

\* The plan that a pull makes fits what is in the directory.
LEMMA PlanFits ==
  ASSUME GitTyped, UNCHANGED gitVars, NEW t, t.goal = remote, t.plan = PlanFor(t.filtered, t.force)
  PROVE  GitStage(t)'
<1>1. t.goal \in Nat /\ t.goal <= remote' /\ UNCHANGED <<dir, tree, remote>>
  BY Gits DEF GitTyped, gitVars
<1>2. CASE IsGitRepo
  <2>1. t.plan = IF t.force THEN OverRemote ELSE KeepRemote
    BY <1>2 DEF PlanFor, OverRemote, KeepRemote
  <2> QED BY <1>1, <1>2, <2>1 DEF GitStage, Overwrites, Keeps, IsGitRepo
<1>3. CASE ~IsGitRepo /\ dir = "file"
  <2>1. t.plan = Blocked
    BY <1>3 DEF PlanFor, Blocked
  <2> QED BY <1>1, <2>1 DEF GitStage
<1>4. CASE ~IsGitRepo /\ dir = "dir" /\ tree # Absent
  <2>1. t.plan = FillInit
    BY <1>4 DEF PlanFor, FillInit
  <2> QED BY <1>1, <1>4, <2>1 DEF GitStage, Fills
<1>5. CASE ~IsGitRepo /\ dir # "file" /\ ~(dir = "dir" /\ tree # Absent)
  <2>1. t.plan = IF t.filtered THEN CloneSome ELSE CloneAll
    BY <1>5 DEF PlanFor, CloneSome, CloneAll
  <2>2. NoneMine'
    BY <1>1, <1>5, Gits DEF NoneMine, GitTyped
  <2> QED BY <1>1, <2>1, <2>2 DEF GitStage, Clones
<1> QED BY <1>2, <1>3, <1>4, <1>5

LEMMA PlanKeeps ==
  ASSUME PullInv, GitInv, NEW p \in Pulls, buildGitAuthConfig(p)
  PROVE  GitInv' /\ MineKept
<1>1. pull[p].pc = "auth" /\ UNCHANGED <<gitVars, touched, running>>
  BY DEF buildGitAuthConfig
<1>2. GitTyped /\ running \in Pulls \cup {NoPull} /\ AimFields \subseteq DOMAIN pull[p]
  BY GitInvIs DEF Stands
<1>3. DOMAIN pull = Pulls /\ PullFields \subseteq DOMAIN pull[p]
  BY InvIsOfPulls DEF PullOK
<1>4. GitTyped' /\ MineKept
  BY <1>1, <1>2 DEF GitTyped, MineKept, HasMine, gitVars
<1>5. PICK t, goal, over, planned :
        t = pull[p] /\ goal = remote /\ over = force /\ planned = PlanFor(t.filtered, over)
  OBVIOUS
<1>6. PICK u : /\ pull' = [pull EXCEPT ![p] = u]
               /\ \/ u = [t EXCEPT !.pc = "finish"]
                  \/ u = [t EXCEPT !.pc = "git", !.goal = goal, !.force = over, !.plan = planned]
  <2>1. \/ pull' = [pull EXCEPT ![p].pc = "git", ![p].goal = goal, ![p].force = over, ![p].plan = planned]
        \/ pull' = [pull EXCEPT ![p].pc = "finish"]
    BY <1>5 DEF buildGitAuthConfig
  <2> DEFINE planning == [t EXCEPT !.pc = "git", !.goal = goal, !.force = over, !.plan = planned]
             failing == [t EXCEPT !.pc = "finish"]
  <2>2. pull' = [pull EXCEPT ![p] = planning] \/ pull' = [pull EXCEPT ![p] = failing]
    BY <1>3, <1>5, <2>1
  <2> SUFFICES \E u : pull' = [pull EXCEPT ![p] = u] /\ (u = failing \/ u = planning)
    OBVIOUS
  <2> HIDE DEF planning, failing
  <2> QED BY <2>2
<1>7. /\ AimFields \subseteq DOMAIN u
      /\ u.pc \in {"git", "finish"}
      /\ u.pc = "git" => /\ u.goal = goal /\ u.force = over /\ u.plan = planned
                         /\ u.filtered = t.filtered
  BY <1>2, <1>3, <1>5, <1>6 DEF AimFields, PullFields
<1>8. u.pc = "git" => GitStage(u)'
  BY <1>1, <1>2, <1>5, <1>7, PlanFits
<1>9. u.pc \notin Success /\ pull[p].pc \in Holding /\ running' \in Pulls \cup {NoPull}
  BY <1>1, <1>2, <1>7 DEF Success, Holding
<1>10. pull' = [pull EXCEPT ![p] = u]
  BY <1>6
<1>11. GitInv'
  BY <1>4, <1>7, <1>8, <1>9, <1>10, WorkerMoves
<1> QED BY <1>4, <1>11

\* Every other step leaves the directory, and what is said of it, alone.
Labelled == task \in [Files -> {"none", "user", "adopted", "created"}]
LeavesAlone ==
  /\ Settled /\ MineKept /\ running' \in Pulls \cup {NoPull}
  /\ \A p \in Pulls : StaysBy(pull[p], pull'[p]) /\ (pull'[p].pc = "log" => pull[p].pc = "log")
  /\ (\E p \in Pulls : pull'[p].pc \in Working) =>
       Undisturbed /\ (Labelled => \A f \in Files \ late' : task'[f] = task[f])
  /\ Labelled => Labelled'

LEMMA QuietSettles ==
  ASSUME GitTyped, UNCHANGED <<dir, sparse, tree, index, head, fetched, stash, remote, touched, late>>
  PROVE  Settled /\ MineKept /\ Undisturbed
BY Gits DEF GitTyped, Settled, Undisturbed, MineKept, HasMine

LEMMA SameStays ==
  ASSUME NEW t, AimFields \subseteq DOMAIN t
  PROVE  StaysBy(t, t)
BY DEF StaysBy, SameAim, Working

\* One pull goes on, outside of git.
LEMMA OneGoesOn ==
  ASSUME PullInv, GitInv, NEW p \in Pulls, NEW t, pull' = [pull EXCEPT ![p] = t],
         UNCHANGED <<gitVars, touched, late>>, running' \in Pulls \cup {NoPull},
         StaysBy(pull[p], t)
  PROVE  /\ GitInv' /\ MineKept
         /\ UNCHANGED task /\ (t.pc = "log" => pull[p].pc = "log") => LeavesAlone
<1>1. GitTyped /\ DOMAIN pull = Pulls /\ \A q \in Pulls : AimFields \subseteq DOMAIN pull[q]
  BY InvIsOfPulls, GitInvIs DEF Stands
<1>2. Settled /\ MineKept /\ Undisturbed
  BY <1>1, QuietSettles DEF gitVars
<1>3. \A q \in Pulls : pull'[q] = IF q = p THEN t ELSE pull[q]
  BY <1>1
<1>4. \A q \in Pulls : StaysBy(pull[q], pull'[q])
  BY <1>1, <1>3, SameStays
<1>5. GitInv'
  BY <1>2, <1>4, OthersSettle
<1>6. ASSUME UNCHANGED task, t.pc = "log" => pull[p].pc = "log" PROVE LeavesAlone
  <2>1. \A q \in Pulls : pull'[q].pc = "log" => pull[q].pc = "log"
    BY <1>3, <1>6
  <2> QED BY <1>2, <1>4, <1>6, <2>1 DEF LeavesAlone, Labelled
<1> QED BY <1>2, <1>5, <1>6

\* A step of none of the pulls.
LEMMA NoneGoesOn ==
  ASSUME PullInv, GitInv, UNCHANGED <<dir, sparse, tree, index, head, fetched, stash, touched, late>>,
         UNCHANGED <<remote, running, task>>,
         \A p \in Pulls : pull'[p] = pull[p]
  PROVE  LeavesAlone
<1>1. GitTyped /\ running \in Pulls \cup {NoPull} /\ \A q \in Pulls : AimFields \subseteq DOMAIN pull[q]
  BY GitInvIs DEF Stands
<1>2. Settled /\ MineKept /\ Undisturbed
  BY <1>1, QuietSettles
<1> QED BY <1>1, <1>2, SameStays DEF LeavesAlone, Labelled

LEMMA FreeStays == AimFields \subseteq DOMAIN FreePull /\ FreePull.pc \notin Working /\ FreePull.pc # "log"
BY DEF FreePull, AimFields, Working, Success

LEMMA MoveLeaves ==
  ASSUME PullInv, GitInv, NEW p \in Pulls, NEW pc, Moved(p, pc),
         UNCHANGED <<gitVars, touched, late, running>>,
         \/ pc \notin Working
         \/ pc \in Success /\ pull[p].pc \in Success
         \/ pc \in Success /\ pull[p].pc = "git" /\ pull[p].plan = <<>>
  PROVE  /\ GitInv' /\ MineKept
         /\ UNCHANGED task /\ pc # "log" => LeavesAlone
<1>1. PICK u : u = [pull[p] EXCEPT !.pc = pc] /\ pull' = [pull EXCEPT ![p] = u]
  BY DEF Moved
<1>2. PullFields \subseteq DOMAIN pull[p] /\ AimFields \subseteq DOMAIN pull[p] /\ running \in Pulls \cup {NoPull}
  BY InvIsOfPulls, GitInvIs DEF PullOK, Stands
<1>3. u.pc = pc /\ AimFields \subseteq DOMAIN u /\ SameAim(pull[p], u)
  BY <1>1, <1>2 DEF AimFields, PullFields, SameAim
<1>4. StaysBy(pull[p], u)
  BY <1>3 DEF StaysBy
<1> QED BY <1>1, <1>2, <1>3, <1>4, OneGoesOn

LEMMA StartLeaves ==
  ASSUME PullInv, GitInv, NEW p \in Pulls, Start(p)
  PROVE  LeavesAlone
<1>1. UNCHANGED <<gitVars, touched, late, running, task>>
  BY DEF Start, PullCheck, CronFires
<1>2. PICK pc \in {"checked", "started"}, by \in {"handler", "cron"} :
        pull' = [pull EXCEPT ![p] = [FreePull EXCEPT !.pc = pc, !.by = by, !.filtered = row.filtered]]
  BY DEF Start, PullCheck, CronFires
<1>3. PICK t : t = [FreePull EXCEPT !.pc = pc, !.by = by, !.filtered = row.filtered]
  OBVIOUS
<1>4. t.pc = pc /\ AimFields \subseteq DOMAIN t
  BY <1>3 DEF FreePull, AimFields
<1>5. StaysBy(pull[p], t) /\ t.pc # "log"
  BY <1>4 DEF StaysBy, Working, Success
<1>6. running' \in Pulls \cup {NoPull}
  BY <1>1, GitInvIs
<1> QED BY <1>1, <1>2, <1>3, <1>5, <1>6, OneGoesOn

LEMMA AdvanceLeaves ==
  ASSUME PullInv, GitInv, NEW p \in Pulls, Advance(p),
         ~buildGitAuthConfig(p), ~syncSubscriptionTasks(p)
  PROVE  LeavesAlone
<1>1. DOMAIN pull = Pulls /\ PullFields \subseteq DOMAIN pull[p] /\ AimFields \subseteq DOMAIN pull[p]
      /\ running \in Pulls \cup {NoPull}
  BY InvIsOfPulls, GitInvIs DEF PullOK, Stands
<1>2. ASSUME NEW u, pull' = [pull EXCEPT ![p] = u], UNCHANGED <<gitVars, touched, late, task>>,
             running' \in {running, p, NoPull}, AimFields \subseteq DOMAIN u,
             u.pc \notin Working
      PROVE  LeavesAlone
  <2>1. u.pc # "log" /\ StaysBy(pull[p], u)
    BY <1>2 DEF StaysBy, Working, Success
  <2>2. running' \in Pulls \cup {NoPull}
    BY <1>1, <1>2
  <2> QED BY <1>2, <2>1, <2>2, OneGoesOn
<1>3. PICK u : u = AfterPull(p)
  OBVIOUS
<1>4. AimFields \subseteq DOMAIN u /\ u.pc \notin Working
  BY <1>1, <1>3, FreeStays DEF AfterPull, AimFields, PullFields, Working, Success
<1>5. CASE PullStart(p)
  <2>1. PICK b : pull' = [pull EXCEPT ![p].pc = "started", ![p].bc = b]
    BY <1>5 DEF PullStart
  <2>2. PICK t : t = [pull[p] EXCEPT !.pc = "started", !.bc = b]
    OBVIOUS
  <2>3. pull' = [pull EXCEPT ![p] = t]
    BY <2>1, <2>2, <1>1
  <2>4. AimFields \subseteq DOMAIN t /\ t.pc \notin Working
    BY <2>2, <1>1 DEF AimFields, PullFields, Working, Success
  <2>5. UNCHANGED <<gitVars, touched, late, task, running>>
    BY <1>5 DEF PullStart, userVars
  <2> QED BY <1>2, <2>3, <2>4, <2>5
<1>6. CASE beginSubscriptionPull(p)
  <2>1. UNCHANGED <<gitVars, touched, late, task>>
    BY <1>6 DEF beginSubscriptionPull, userVars
  <2>2. PICK t : t = [pull[p] EXCEPT !.pc = "auth"]
    OBVIOUS
  <2>3. AimFields \subseteq DOMAIN t /\ t.pc \notin Working
    BY <2>2, <1>1 DEF AimFields, PullFields, Working, Success
  <2>4. \/ running' = p /\ pull' = [pull EXCEPT ![p] = t]
        \/ running' = running /\ pull' = [pull EXCEPT ![p] = u]
    BY <1>3, <1>6, <2>2 DEF beginSubscriptionPull
  <2> QED BY <1>2, <1>4, <2>1, <2>3, <2>4
<1>7. CASE finishSubscriptionPull(p)
  BY <1>2, <1>3, <1>4, <1>7 DEF finishSubscriptionPull, userVars
<1>8. CASE GitDone(p)
  <2>1. PICK pc \in {"failed", "hook"} : Moved(p, pc)
    BY <1>8 DEF GitDone
  <2>2. pull[p].pc = "git" /\ pull[p].plan = <<>> /\ UNCHANGED <<gitVars, touched, late, running, task>>
    BY <1>8 DEF GitDone, userVars
  <2> QED BY <2>1, <2>2, MoveLeaves DEF Working, Success
<1>9. CASE Hook(p) \/ HookDone(p)
  <2>1. PICK pc \in {"failed", "hooked", "sync"} : Moved(p, pc)
    BY <1>9 DEF Hook, HookDone
  <2>2. pull[p].pc \in {"hook", "hooked"} /\ UNCHANGED <<gitVars, touched, late, running, task>>
    BY <1>9 DEF Hook, HookDone, userVars
  <2> QED BY <2>1, <2>2, MoveLeaves DEF Working, Success
<1>10. CASE WriteLog(p) \/ Done(p)
  <2>1. PICK pc \in {"finish", "remove"} : Moved(p, pc)
    BY <1>10 DEF WriteLog, Done
  <2>2. UNCHANGED <<gitVars, touched, late, running, task>>
    BY <1>10 DEF WriteLog, Done, userVars
  <2> QED BY <2>1, <2>2, MoveLeaves DEF Working, Success
<1>11. CASE Broadcast(p)
  <2>1. UNCHANGED <<gitVars, touched, late, running, task, pull>>
    BY <1>11 DEF Broadcast, userVars
  <2> QED BY <2>1, NoneGoesOn DEF gitVars
<1>12. CASE removeSubBroadcaster(p)
  <2>1. UNCHANGED <<gitVars, touched, late, running, task>> /\ pull' = [pull EXCEPT ![p] = FreePull]
    BY <1>12 DEF removeSubBroadcaster, userVars
  <2> QED BY <1>2, <2>1, FreeStays
<1> QED BY <1>5, <1>6, <1>7, <1>8, <1>9, <1>10, <1>11, <1>12 DEF Advance

\* A stop changes what a pull is told, not what it does with the directory.
LEMMA ServeLeaves ==
  ASSUME PullInv, GitInv, NEW a \in Actors, Serve(a)
  PROVE  LeavesAlone
<1>1. /\ UNCHANGED <<dir, sparse, tree, index, head, fetched, stash, touched, late>>
      /\ UNCHANGED <<remote, running, task>>
  BY DEF Serve, SetOverwrite, userVars, gitVars, refVars
<1>2. UNCHANGED pull \/ pull' = Cancelled
  BY DEF Serve, SetOverwrite, ReadRow, InsertRow, UpdateRow, RereadRow, DropRow,
         DropLogs, AddOrUpdateJob, RemoveJob, LoadJobs, CheckRunning, StopPull
<1>3. CASE UNCHANGED pull
  BY <1>1, <1>3, NoneGoesOn
<1>4. CASE pull' = Cancelled
  <2>1. GitTyped /\ running \in Pulls \cup {NoPull}
    BY GitInvIs
  <2>2. ASSUME NEW p \in Pulls
        PROVE  StaysBy(pull[p], pull'[p]) /\ pull'[p].pc = pull[p].pc
    <3>1. PullFields \subseteq DOMAIN pull[p] /\ AimFields \subseteq DOMAIN pull[p]
      BY InvIsOfPulls, GitInvIs DEF PullOK, Stands
    <3>2. CASE p # running
      BY <1>4, <3>1, <3>2, SameStays DEF Cancelled
    <3>3. CASE p = running
      <4>1. PICK t, early : /\ t = [pull[p] EXCEPT !.stopped = TRUE, !.early = early]
                            /\ pull'[p] = t
        BY <1>4, <3>3 DEF Cancelled
      <4>2. /\ t.pc = pull[p].pc /\ t.plan = pull[p].plan /\ SameAim(pull[p], t)
            /\ AimFields \subseteq DOMAIN t
        BY <3>1, <4>1 DEF PullFields, AimFields, SameAim
      <4> QED BY <4>1, <4>2 DEF StaysBy, Working
    <3> QED BY <3>2, <3>3
  <2>3. Settled /\ MineKept /\ Undisturbed
    BY <1>1, <2>1, QuietSettles
  <2> QED BY <1>1, <2>1, <2>2, <2>3 DEF LeavesAlone, Labelled
<1> QED BY <1>2, <1>3, <1>4

\* What the user changes while a pull is at work is set apart.
LEMMA EditLeaves ==
  ASSUME PullInv, GitInv, NEW f \in Files, EditScript(f) \/ EditTask(f)
  PROVE  LeavesAlone
<1>1. /\ UNCHANGED <<dir, sparse, index, head, fetched, stash, remote, running, pull>>
      /\ late' = IF Active THEN late \cup {f} ELSE late
  BY DEF EditScript, EditTask, EditFile, Edited, gitVars, refVars
<1>2. GitTyped /\ running \in Pulls \cup {NoPull} /\ \A p \in Pulls : AimFields \subseteq DOMAIN pull[p]
  BY GitInvIs DEF Stands
<1>3. CASE EditScript(f)
  <2>1. dir = "dir" /\ tree' = [tree EXCEPT ![f] = Mine] /\ touched' = touched \cup {f} /\ UNCHANGED task
    BY <1>3 DEF EditScript, EditFile
  <2>2. Settled
    BY <1>1, <1>2, <2>1, Gits DEF Settled, GitTyped
  <2>3. MineKept
    BY <1>1, <1>2, <2>1 DEF MineKept, HasMine, GitTyped
  <2>4. Active => Undisturbed
    BY <1>1, <1>2, <2>1 DEF Undisturbed, GitTyped
  <2> QED BY <1>1, <1>2, <2>1, <2>2, <2>3, <2>4, SameStays DEF LeavesAlone, Labelled, Active, Working, Success
<1>4. CASE EditTask(f)
  <2>1. UNCHANGED <<tree, touched>>
    BY <1>4 DEF EditTask, gitVars
  <2>4. Labelled => Labelled' /\ \A g \in Files \ {f} : task'[g] = task[g]
    <3>1. task' = [task EXCEPT ![f] = IF task[f] = "none" THEN "user" ELSE "none"]
      BY <1>4 DEF EditTask
    <3> QED BY <3>1 DEF Labelled
  <2>2. Settled /\ MineKept
    BY <1>1, <1>2, <2>1, Gits DEF Settled, GitTyped, MineKept, HasMine
  <2>3. Undisturbed
    BY <1>1, <2>1 DEF Undisturbed
  <2>5. Active <=> \E p \in Pulls : pull'[p].pc \in Working
    BY <1>1 DEF Active, Working, Success
  <2>6. Active /\ Labelled => \A g \in Files \ late' : task'[g] = task[g]
    BY <1>1, <2>4
  <2> QED BY <1>1, <1>2, <2>2, <2>3, <2>4, <2>5, <2>6, SameStays DEF LeavesAlone
<1> QED BY <1>3, <1>4

LEMMA AsideLeaves ==
  ASSUME PullInv, GitInv,
         \/ \E a \in Actors, kind \in OpKinds : Request(a, kind)
         \/ \E r \in Readers : PullStream(r) \/ subscribe(r) \/ unsubscribe(r)
         \/ UNCHANGED pullVars
  PROVE  LeavesAlone
<1>1. UNCHANGED <<gitVars, touched, late, running, task, pull>>
  BY DEF Request, PullStream, subscribe, unsubscribe, pullVars, subVars, userVars
<1> QED BY <1>1, NoneGoesOn DEF gitVars

LEMMA PushLeaves ==
  ASSUME PullInv, GitInv, Push
  PROVE  LeavesAlone
<1>1. /\ UNCHANGED <<dir, sparse, tree, index, head, fetched, stash, touched, late>>
      /\ UNCHANGED <<running, task, pull>> /\ remote' = remote + 1 /\ remote' \in Commits
  BY DEF Push, PushCommit, refVars, subVars
<1>2. GitTyped /\ running \in Pulls \cup {NoPull} /\ \A p \in Pulls : AimFields \subseteq DOMAIN pull[p]
  BY GitInvIs DEF Stands
<1>3. Settled /\ MineKept /\ Undisturbed
  BY <1>1, <1>2, Gits DEF Settled, MineKept, HasMine, Undisturbed, GitTyped
<1> QED BY <1>1, <1>2, <1>3, SameStays DEF LeavesAlone, Labelled

LEMMA CrashLeaves ==
  ASSUME PullInv, GitInv, Crash
  PROVE  /\ GitInv'
         /\ \A p \in Pulls : pull'[p].pc \notin Working
         /\ \A p \in Pulls : pull[p].pc = "git" => MineKept \/ Spares(pull[p])
<1>1. /\ UNCHANGED <<task, late>> /\ touched' = touched \cup Strays /\ running' = NoPull
      /\ \A p \in Pulls : pull'[p] = FreePull
  BY DEF Crash
<1>2. GitTyped /\ running \in Pulls \cup {NoPull}
  BY GitInvIs
<1>3. \A p \in Pulls : pull[p].pc = "git" => running = p
  BY InvIsOfPulls DEF PullOK, Holding
<1>4. GitTyped' /\ \A p \in Pulls : pull[p].pc = "git" => MineKept \/ Spares(pull[p])
  <2>1. CASE running # NoPull /\ pull[running].pc = "git" /\ pull[running].plan # <<>>
    <3>1. Failure(Head(pull[running].plan), TRUE) /\ UNCHANGED remote /\ running \in Pulls
      BY <1>2, <2>1 DEF Crash
    <3>2. GitStage(pull[running])
      BY <2>1, <3>1, GitInvIs DEF Stands
    <3>3. PICK t : t = pull[running]
      OBVIOUS
    <3>4. GitTyped' /\ Spares(t)
      BY <1>1, <1>2, <2>1, <3>1, <3>2, <3>3, FailureStays
    <3> QED BY <1>3, <3>3, <3>4 DEF Spares
  <2>2. CASE ~(running # NoPull /\ pull[running].pc = "git" /\ pull[running].plan # <<>>)
    <3>1. UNCHANGED gitVars
      BY <2>2 DEF Crash
    <3> QED BY <1>1, <1>2, <3>1 DEF GitTyped, gitVars, MineKept, HasMine
  <2> QED BY <2>1, <2>2
<1>5. \A p \in Pulls : Stands(pull[p])'
  BY <1>1, FreeStays DEF Stands, Working
<1> QED BY <1>1, <1>4, <1>5, FreeStays, GitInvIsNext

\* The steps, sorted by what they do.
LEMMA StepsSorted ==
  ASSUME PullInv, GitInv, [Next]_pullVars
  PROVE  \/ LeavesAlone
         \/ Crash
         \/ \E p \in Pulls : Command1(p) \/ buildGitAuthConfig(p) \/ syncSubscriptionTasks(p)
<1>1. CASE UNCHANGED pullVars
  BY <1>1, AsideLeaves
<1>2. CASE \E p \in Pulls : Start(p)
  BY <1>2, StartLeaves
<1>3. CASE \E p \in Pulls : Advance(p)
  BY <1>3, AdvanceLeaves
<1>4. CASE \E a \in Actors : Serve(a) \/ \E kind \in OpKinds : Request(a, kind)
  BY <1>4, ServeLeaves, AsideLeaves
<1>5. CASE \E r \in Readers : PullStream(r) \/ subscribe(r) \/ unsubscribe(r)
  BY <1>5, AsideLeaves
<1>6. CASE \E f \in Files : EditScript(f) \/ EditTask(f)
  BY <1>6, EditLeaves
<1>7. CASE Push
  BY <1>7, PushLeaves
<1> QED BY <1>1, <1>2, <1>3, <1>4, <1>5, <1>6, <1>7 DEF Next

LEMMA SyncMoves ==
  ASSUME PullInv, GitInv, NEW p \in Pulls, syncSubscriptionTasks(p)
  PROVE  GitInv' /\ MineKept
<1>1. UNCHANGED <<gitVars, touched, late, running>> /\ Moved(p, "log") /\ pull[p].pc = "sync"
  BY DEF syncSubscriptionTasks, userVars
<1> QED BY <1>1, MoveLeaves DEF Working, Success

LEMMA GitStepInv ==
  ASSUME PullInv, GitInv, [Next]_pullVars
  PROVE  GitInv'
<1>1. CASE LeavesAlone
  BY <1>1, OthersSettle DEF LeavesAlone
<1>2. CASE Crash
  BY <1>2, CrashLeaves
<1>3. CASE \E p \in Pulls : Command1(p)
  BY <1>3, GitStepKeeps, GitFailsKeeps DEF Command1
<1>4. CASE \E p \in Pulls : buildGitAuthConfig(p)
  BY <1>4, PlanKeeps
<1>5. CASE \E p \in Pulls : syncSubscriptionTasks(p)
  BY <1>5, SyncMoves
<1> QED BY <1>1, <1>2, <1>3, <1>4, <1>5, StepsSorted

LEMMA GitStarts == SubInit => GitInv
<1> SUFFICES ASSUME SubInit PROVE GitInv
  OBVIOUS
<1>1. GitInit /\ running = NoPull /\ touched = {f \in Files : tree[f] # 0}
      /\ \A p \in Pulls : pull[p] = FreePull
  BY DEF SubInit
<1>2. tree \in [Files -> Nat]
  BY <1>1, Gits DEF GitInit, Absent
<1>3. stash \in Seq(StashEntries)
  BY <1>1 DEF GitInit
<1>4. GitTyped
  BY <1>1, <1>2, <1>3, GitAssumption DEF GitInit, GitTyped
<1> QED BY <1>1, <1>4, FreeStays, GitInvIs DEF Stands, Working

THEOREM GitInvariant == PullSpec => [](PullInv /\ GitInv)
<1>1. PullInv /\ GitInv /\ [Next]_pullVars => GitInv'
  BY GitStepInv
<1> QED BY <1>1, GitStarts, PullInvariant, PTL DEF PullSpec

\* Whatever earlier pulls left behind when they failed or were killed, a pull
\* that goes on to its hook has brought at least the commit that was there when
\* it started, and an overwriting one has made the selected files those of the
\* commit.
THEOREM SuccessBringsTheRemote == PullSpec => []SuccessIsUpToDate
<1>1. GitInv => SuccessIsUpToDate
  BY DEF GitInv, SuccessIsUpToDate, Succeeded, Success, Brought, UpToDate, Follows, Selected
<1> QED BY <1>1, GitInvariant, PTL

\* No step of anybody, a killed command among them, takes from the user what a
\* pull that keeps local changes found in the repository.
THEOREM LocalWorkIsKept == PullSpec => KeepsLocalWork
<1> DEFINE Keeping == \A p \in Pulls, f \in Files \ late :
             ~pull[p].force /\ pull[p].pc = "git" /\ ~InPlace(p) /\ HasMine(f) => HasMine(f)'
<1>1. PullInv /\ GitInv /\ [Next]_pullVars => Keeping
  <2> SUFFICES ASSUME PullInv, GitInv, [Next]_pullVars,
                      NEW p \in Pulls, pull[p].pc = "git", ~pull[p].force, ~InPlace(p)
               PROVE  MineKept
    BY DEF MineKept
  <2>1. pull[p].plan \notin Filling
    BY FillingCleans DEF InPlace
  <2>2. CASE LeavesAlone
    BY <2>2 DEF LeavesAlone
  <2>3. CASE Crash
    BY <2>1, <2>3, CrashLeaves DEF Spares
  <2>4. ASSUME NEW q \in Pulls, Command1(q) PROVE MineKept
    <3>1. pull[q].pc = "git" /\ Spares(pull[q])
      BY <2>4, GitStepKeeps, GitFailsKeeps DEF Command1, GitStep, GitFails
    <3>2. q = p
      BY <3>1, OneWorks DEF Working, Holding
    <3> QED BY <2>1, <3>1, <3>2 DEF Spares
  <2>5. CASE \E q \in Pulls : buildGitAuthConfig(q) \/ syncSubscriptionTasks(q)
    BY <2>5, PlanKeeps, SyncMoves
  <2> QED BY <2>2, <2>3, <2>4, <2>5, StepsSorted
<1> QED BY <1>1, GitInvariant, PTL DEF PullSpec, KeepsLocalWork

\* The tasks after the synchronisation of an overwriting pull.
LEMMA SyncFollows ==
  ASSUME PullInv, GitInv, Labelled, NEW p \in Pulls, syncSubscriptionTasks(p), AutoAdd, AutoDelete
  PROVE  /\ pull[p].force => \A f \in Files \ late :
              /\ RemoteHas[head][f] # 0 /\ Selected(p, f) /\ f \notin Helpers => task'[f] # "none"
              /\ RemoteHas[head][f] = 0 /\ f \notin touched => task'[f] \in {"none", "user"}
<1> SUFFICES ASSUME pull[p].force, NEW f \in Files \ late
             PROVE  /\ RemoteHas[head][f] # 0 /\ Selected(p, f) /\ f \notin Helpers => task'[f] # "none"
                    /\ RemoteHas[head][f] = 0 /\ f \notin touched => task'[f] \in {"none", "user"}
  OBVIOUS
<1>1. pull[p].pc = "sync" /\ task'[f] = Synced(Candidates(pull[p].filtered), f)
  BY DEF syncSubscriptionTasks
<1>2. Brought(pull[p]) /\ GitTyped
  BY <1>1, GitInvIs DEF Stands, Success
<1>3. head \in Commits /\ index = RemoteHas[head] /\ Follows(pull[p])
  BY <1>2, Gits DEF Brought, UpToDate, GitTyped
<1>4. PICK cands : cands = Candidates(pull[p].filtered)
  OBVIOUS
<1>5. task[f] \in {"none", "user", "adopted", "created"}
  BY DEF Labelled
<1>6. f \in cands => Synced(cands, f) # "none"
  BY <1>5 DEF Synced
<1>7. f \notin cands => Synced(cands, f) \in {"none", "user"}
  BY <1>5 DEF Synced
<1>8. ASSUME RemoteHas[head][f] # 0, Selected(p, f), f \notin Helpers PROVE f \in cands
  <2>1. tree[f] # 0
    BY <1>3, <1>8 DEF Follows, Selected
  <2>2. Managed(pull[p].filtered, f)
    BY <1>8 DEF Managed, Selected
  <2>3. CronOf(f) # "none"
    BY <1>8 DEF CronOf, DefaultCron
  <2> QED BY <1>4, <2>1, <2>2, <2>3 DEF Candidates
<1>9. ASSUME RemoteHas[head][f] = 0, f \notin touched PROVE f \notin cands
  BY <1>2, <1>3, <1>4, <1>9 DEF GitTyped, Candidates
<1> QED BY <1>1, <1>4, <1>6, <1>7, <1>8, <1>9

\* They stay so until the pull has written its log.
TasksInv == Labelled /\ TasksFollowRemote

LEMMA TasksStep ==
  ASSUME PullInv, GitInv, TasksInv, [Next]_pullVars
  PROVE  TasksInv'
<1>1. CASE LeavesAlone
  <2>1. Labelled'
    BY <1>1 DEF LeavesAlone, TasksInv
  <2>2. ASSUME NEW p \in Pulls, pull'[p].pc = "log"
        PROVE  /\ pull[p].pc = "log" /\ pull'[p].force = pull[p].force
               /\ pull'[p].filtered = pull[p].filtered
               /\ late \subseteq late' /\ touched \subseteq touched' /\ head' = head
               /\ \A f \in Files \ late' : task'[f] = task[f]
    <3>1. pull'[p].pc \in Working /\ pull'[p].pc # "git"
      BY <2>2 DEF Working, Success
    <3>2. StaysBy(pull[p], pull'[p]) /\ pull[p].pc = "log"
      BY <1>1, <2>2 DEF LeavesAlone
    <3>3. SameAim(pull[p], pull'[p])
      BY <3>1, <3>2 DEF StaysBy
    <3>4. Undisturbed /\ Settled /\ \A f \in Files \ late' : task'[f] = task[f]
      BY <1>1, <3>1 DEF LeavesAlone, TasksInv
    <3> QED BY <3>2, <3>3, <3>4 DEF SameAim, Undisturbed, Settled
  <2>3. TasksFollowRemote'
    BY <2>2 DEF TasksInv, TasksFollowRemote, Selected
  <2> QED BY <2>1, <2>3 DEF TasksInv
<1>2. CASE Crash
  <2>1. \A p \in Pulls : pull'[p].pc # "log"
    BY <1>2, CrashLeaves DEF Working, Success
  <2>2. UNCHANGED task
    BY <1>2 DEF Crash
  <2> QED BY <2>1, <2>2 DEF TasksInv, TasksFollowRemote, Labelled
<1>3. ASSUME NEW q \in Pulls, Command1(q) \/ buildGitAuthConfig(q) PROVE TasksInv'
  <2>1. pull[q].pc \in {"git", "auth"} /\ UNCHANGED task
    BY <1>3 DEF Command1, GitStep, GitFails, buildGitAuthConfig
  <2>2. DOMAIN pull = Pulls /\ PullFields \subseteq DOMAIN pull[q]
    BY InvIsOfPulls DEF PullOK
  <2>3. \A p \in Pulls \ {q} : pull'[p] = pull[p]
    BY <1>3, <2>2 DEF Command1, GitStep, GitFails, buildGitAuthConfig
  <2>4. pull'[q].pc # "log"
    <3>1. CASE GitStep(q)
      <4>1. PICK pc \in {"git", "failed"} :
              pull' = [pull EXCEPT ![q].plan = NextPlan(pull[q].plan), ![q].pc = pc]
        BY <2>2, <3>1 DEF GitStep
      <4> QED BY <2>2, <4>1 DEF PullFields
    <3>2. CASE GitFails(q)
      <4>1. \/ pull' = [pull EXCEPT ![q].pc = "failed", ![q].plan = <<>>]
            \/ pull' = [pull EXCEPT ![q].plan = <<>>]
        BY <3>2 DEF GitFails
      <4> QED BY <2>1, <2>2, <4>1 DEF PullFields
    <3>3. CASE buildGitAuthConfig(q)
      <4>1. PICK goal, over, planned :
              goal = remote /\ over = force /\ planned = PlanFor(pull[q].filtered, over)
        OBVIOUS
      <4>2. \/ pull' = [pull EXCEPT ![q].pc = "git", ![q].goal = goal, ![q].force = over, ![q].plan = planned]
            \/ pull' = [pull EXCEPT ![q].pc = "finish"]
        BY <3>3, <4>1 DEF buildGitAuthConfig
      <4> QED BY <2>2, <4>2 DEF PullFields
    <3> QED BY <1>3, <3>1, <3>2, <3>3 DEF Command1
  <2>5. \A p \in Pulls : pull'[p].pc # "log"
    BY <2>1, <2>3, <2>4, OneWorks DEF Working, Success, Holding
  <2> QED BY <2>1, <2>5 DEF TasksInv, TasksFollowRemote, Labelled
<1>4. ASSUME NEW q \in Pulls, syncSubscriptionTasks(q) PROVE TasksInv'
  <2>1. /\ pull[q].pc = "sync" /\ pull' = [pull EXCEPT ![q].pc = "log"]
        /\ UNCHANGED <<head, late, touched>>
    BY <1>4 DEF syncSubscriptionTasks, Moved, gitVars, userVars
  <2>2. DOMAIN pull = Pulls /\ PullFields \subseteq DOMAIN pull[q]
    BY InvIsOfPulls DEF PullOK
  <2>3. /\ \A p \in Pulls \ {q} : pull'[p] = pull[p]
        /\ pull'[q].force = pull[q].force /\ pull'[q].filtered = pull[q].filtered
    BY <2>1, <2>2 DEF PullFields
  <2>4. \A p \in Pulls \ {q} : pull'[p].pc # "log"
    BY <2>1, <2>3, OneWorks DEF Working, Success, Holding
  <2>5. Labelled'
    <3>1. task' = [f \in Files |-> Synced(Candidates(pull[q].filtered), f)]
      BY <1>4 DEF syncSubscriptionTasks
    <3>2. \A f \in Files : Synced(Candidates(pull[q].filtered), f) \in {"none", "user", "adopted", "created"}
      BY DEF Synced, TasksInv, Labelled
    <3> QED BY <3>1, <3>2 DEF Labelled
  <2>6. TasksFollowRemote'
    <3> SUFFICES ASSUME AutoAdd, AutoDelete, pull[q].force, NEW f \in Files \ late
                 PROVE  /\ RemoteHas[head][f] # 0 /\ Selected(q, f) /\ f \notin Helpers => task'[f] # "none"
                        /\ RemoteHas[head][f] = 0 /\ f \notin touched => task'[f] \in {"none", "user"}
      BY <2>1, <2>3, <2>4 DEF TasksFollowRemote, Selected
    <3> QED BY <1>4, SyncFollows DEF TasksInv
  <2> QED BY <2>5, <2>6 DEF TasksInv
<1> QED BY <1>1, <1>2, <1>3, <1>4, StepsSorted

\* When a pull that overwrites has succeeded, the tasks of the subscription are
\* those of the scripts that the remote now has: every selected one has a task,
\* and a script that the remote dropped keeps none of the subscription's.
THEOREM TasksFollowTheRemote == PullSpec => []TasksFollowRemote
<1>1. SubInit => TasksInv
  <2> SUFFICES ASSUME SubInit PROVE TasksInv
    OBVIOUS
  <2>1. task = [f \in Files |-> "none"] /\ \A p \in Pulls : pull[p] = FreePull
    BY DEF SubInit
  <2> QED BY <2>1, FreeStays DEF TasksInv, Labelled, TasksFollowRemote
<1>2. PullInv /\ GitInv /\ TasksInv /\ [Next]_pullVars => TasksInv'
  BY TasksStep
<1>3. TasksInv => TasksFollowRemote
  BY DEF TasksInv
<1> QED BY <1>1, <1>2, <1>3, GitInvariant, PTL DEF PullSpec
=============================================================================
