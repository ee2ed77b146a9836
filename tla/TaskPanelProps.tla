--------------------------- MODULE TaskPanelProps ---------------------------
(***************************************************************************)
(* What the task subsystem promises.                                       *)
(***************************************************************************)
EXTENDS TaskPanel

(***************************************************************************)
(* Who is responsible for what.                                            *)
(***************************************************************************)

\* The requests that will still settle the row and the log of their task.
AtWorker(r) == \E w \in Workers :
  wreq[w] = r /\ wpc[w] \in {"marked", "failing", "failrow"}
Settling(r) == rpc[r] \in UnderWay \ {"stored"}
Owners(t) == {r \in Reqs : rtask[r] = t /\ (AtWorker(r) \/ Settling(r))}

\* A task whose row says "running" while the panel is alive has a request
\* behind it that has yet to write the row: no interleaving of stops, edits,
\* deletions, overlapping runs and failed launches leaves a row running that
\* nobody will ever reset (OnTaskExecuting marks before it can still fail,
\* OnTaskFailed and runTask's settlement reset).
RunningHasOwner ==
  \A t \in Tasks : status[t] = "running" /\ panel # "down" => Owners(t) # {}

\* A log row that says "running" belongs to a run that will close it, unless
\* the panel was killed or a shutdown gave up waiting: stops that close the log
\* first, and runs that settle first, never reopen it.
RunningLogHasOwner ==
  lapses = {} => \A r \in Reqs : log[r] = "running" =>
                   rpc[r] \in UnderWay \ {"logged", "resolved", "stored"}

\* The retry loop of runTask starts at most 1 + max_retries processes, plus
\* one for every automatic dependency install: "continue" after an install
\* does not reset the count of retries, and a killed attempt counts as one.
AttemptsBounded ==
  \A r \in Reqs : attempt[r] <= 1 + MaxRetries + MaxDeps

(***************************************************************************)
(* Stopping.                                                               *)
(***************************************************************************)

\* A run whose live process a stop killed settles as aborted, and so does its
\* log, whichever step of the stop and of the settlement comes first (the mark
\* is placed before the kill; a retry that the kill caused does not undo it).
\* Runs that overlapped with another of the same task share one mark and are
\* left out.
KilledRunAborts ==
  \A r \in killed \ overlap :
    /\ rpc[r] \in {"consumed", "logged", "resolved", "stored"} =>
         outcome[r] = "aborted"
    /\ rpc[r] \in {"logged", "resolved", "stored"} => log[r] \in {"aborted", "none"}

\* A run ends as aborted only if a stop of this server marked its task while
\* the run was there and had yet to look for the mark: not because its process
\* was killed by a shutdown or from outside, not because an earlier run was
\* stopped (its mark is read and cleared in one operation), and not because of
\* a stop in an earlier life of the panel.  A mark that is placed when no run
\* can read it any more (the stop found the entry in runningProcesses, or a pid
\* in the row, of a run that has looked already) does wait for the next run of
\* the task: strays holds the task from that moment until a run reads the mark
\* or the panel ends, and such a run is left out here.
AbortedOnlyIfStopAsked ==
  [][\A r \in Reqs \ overlap :
       outcome'[r] = "aborted" /\ outcome[r] # "aborted" =>
         r \in stopSeen \/ rtask[r] \in strays]_vars

\* Once the log of such a run says aborted it is not rewritten: the stop closes
\* it ahead of the run, and the settlement that follows agrees.
KilledLogFinal ==
  [][\A r \in killed \ overlap :
       log[r] = "aborted" => log'[r] \in {"aborted", "none"}]_vars

(***************************************************************************)
(* Shutting down and starting.                                             *)
(***************************************************************************)

\* After a shutdown in which no wait timed out there is no queued or running
\* row, no running log and no script alive: SchedulerV2.Stop, the kill, Wait
\* and MarkActiveTasksInterrupted come in an order in which nothing escapes.
CleanShutdown ==
  panel = "leaving" /\ lapses = {} =>
    /\ \A t \in Tasks : status[t] \notin Active
    /\ \A r \in Reqs : log[r] # "running" /\ proc[r] # "alive"

\* A start-up task is launched at most once a day, however often the panel is
\* restarted in between, as long as it is not killed.
StartupRuns(t) ==
  {r \in Reqs : rtask[r] = t /\ rtrig[r] = "startup" /\ rpc[r] # "none"}
StartupOncePerDay ==
  "crash" \notin lapses => \A t \in Tasks : Cardinality(StartupRuns(t)) <= 1

\* Once Stop has seen its workers exit, no run is launched until a new start:
\* a request sent late, by a handler that outlived the shutdown, stays in the
\* channel.
NoLaunchAfterStop ==
  [][(panel \in {"waiting", "marking", "leaving"} /\ "workers" \notin lapses)
       => (\A r \in Reqs : rpc[r] = "none" => rpc'[r] = "none")]_vars

(***************************************************************************)
(* The abstract specification.                                             *)
(***************************************************************************)

\* Where a request is before its run: with the operation that built it, in the
\* channel, or with the worker that took it out.
Senders(r) == {a \in Everyone : op[a].pc = "enqueue" /\ op[a].req = r}
Slots(r) == {i \in DOMAIN queue : queue[i] = r}
Holders(r) == {w \in Workers : wreq[w] = r /\ wpc[w] # "leaving"}

Phase(r) ==
  CASE r > made -> "free"
    [] rpc[r] \in UnderWay -> "running"
    [] rpc[r] = "done" -> "closed"
    [] r <= made /\ rpc[r] = "none" ->
         CASE Senders(r) # {} -> "built"
           [] Slots(r) # {} -> "sent"
           [] Holders(r) # {} -> "taken"
           [] OTHER -> "closed"

Ledger == INSTANCE RunLedger WITH
  Requests <- Reqs,
  phase <- [r \in Reqs |-> Phase(r)],
  live <- {r \in Reqs : proc[r] = "alive"}

\* The scheduler and the executor keep the promise of RunLedger: at most one
\* run for each request, and no way back.
ImplementsRunLedger == Ledger!LedgerSpec

(***************************************************************************)
(* Liveness, under Fairness.                                               *)
(***************************************************************************)

\* A request that was sent is eventually run to its end, refused, or lost with
\* the panel: no worker waits on another, and the shutdown cannot hang.  Only
\* the script of a task without a timeout may keep its request running.
RequestsEnd ==
  \A r \in Reqs : Phase(r) = "sent" ~>
    \/ Phase(r) = "closed"
    \/ Phase(r) = "running" /\ rtask[r] \notin TimedTasks

\* The row of a task with a timeout that says running is eventually reset, by
\* the run or by the recovery of the next start, if there is one.
RunningRowIsReset ==
  \A t \in TimedTasks : status[t] = "running" ~> (status[t] # "running" \/ panel = "down")

\* A shutdown ends, whatever is in flight: cron.Stop is awaited without a
\* timeout, and its callbacks do not wait for anything that the shutdown stops.
\* (The run that checks it has no timeouts: the waits end because what they
\* wait for does.)
ShutdownEnds == panel = "draining" ~> panel = "down"
=============================================================================
