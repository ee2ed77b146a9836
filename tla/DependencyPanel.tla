------------------------- MODULE DependencyPanel -------------------------
(***************************************************************************)
(* The requests that start the operations of DependencyManager, the other  *)
(* sources of rows (automatic installs, a restored backup, the merge of    *)
(* duplicates) and the start-up of the panel, composed to a specification. *)
(***************************************************************************)
EXTENDS DependencyManager

----------------------------------------------------------------------------
(* Requests: what a handler has read is kept in user[u] until it writes. *)

RequestKinds == {"create", "delete", "force", "reinstall", "batchReinstall",
                 "batchDelete", "cancel"}

Accept(u, req, ids) ==
  /\ boot = "up"
  /\ user[u] = QuietUser
  /\ sent < MaxRequests
  /\ req \in Requests
  /\ sent' = sent + 1
  /\ user' = [user EXCEPT ![u] = [req |-> req, ids |-> ids, todo |-> ids]]
  /\ UNCHANGED <<rowVars, present, op, lockVars, opOf, stream, reader, boot,
                 restarts, panicked>>

\* Create looks for a python row with the same key first; npm and linux names
\* are not compared.
CreateCheck(u, d) ==
  /\ row[d] = "none"
  /\ TypeOf[d] = "python" =>
       \A e \in Deps : PkgOf[e] = PkgOf[d] /\ TypeOf[e] = "python" =>
         row[e] \notin {"installed", "installing", "queued"}
  /\ Accept(u, "create", {d})

\* Delete (with and without force) and Reinstall refuse a row in process.
CheckRow(u, req, d) ==
  /\ req \in {"delete", "force", "reinstall"}
  /\ row[d] \in Settled
  /\ Accept(u, req, {d})

\* The batches select the rows that are not in process, in the order given.
CheckRows(u, req, ids) ==
  /\ req \in {"batchReinstall", "batchDelete"}
  /\ ids # {}
  /\ \A d \in ids : row[d] \in Settled
  /\ Accept(u, req, ids)

CheckCancel(u, d) ==
  /\ row[d] \in Busy
  /\ Accept(u, "cancel", {d})

Answer(u) == user' = [user EXCEPT ![u] = QuietUser]

\* The one write of Create, Delete or Reinstall, and `go runner(...)`.
Submit(u, o) ==
  \E d \in user[u].todo :
  /\ FreeOp(o)
  /\ \/ /\ user[u].req = "create"
        /\ row[d] = "none"
        /\ row' = [row EXCEPT ![d] = "installing"]
        /\ marked' = marked
        /\ op' = Spawned(o, "install", d, {}, FALSE)
     \/ /\ user[u].req = "delete"
        /\ row' = Updated(d, "removing")
        /\ marked' = marked
        /\ op' = Spawned(o, "uninstall", d, {}, FALSE)
     \/ /\ user[u].req = "force"
        /\ row' = Removed(d)
        /\ marked' = marked
        /\ op' = Spawned(o, "force", d, {}, FALSE)
     \/ /\ user[u].req = "reinstall"
        /\ row' = Updated(d, "installing")
        /\ marked' = [marked EXCEPT ![d] = FALSE]
        /\ op' = Spawned(o, "install", d, {}, FALSE)
  /\ Answer(u)
  /\ Kept
  /\ UNCHANGED <<present, lockVars, opOf, stream, reader, lifeVars>>

\* BatchDelete: per row, DELETE and a goroutine.
BatchDeleteRow(u, o) ==
  \E d \in user[u].todo :
  /\ user[u].req = "batchDelete"
  /\ FreeOp(o)
  /\ row' = Removed(d)
  /\ op' = Spawned(o, "force", d, {}, FALSE)
  /\ user' = IF user[u].todo = {d} THEN [user EXCEPT ![u] = QuietUser]
             ELSE [user EXCEPT ![u].todo = @ \ {d}]
  /\ Kept
  /\ UNCHANGED <<marked, present, lockVars, opOf, stream, reader, lifeVars>>

\* BatchReinstall: every selected row is marked queued, one UPDATE each, then
\* one goroutine works through the list.
QueueRow(u) ==
  /\ user[u].req = "batchReinstall"
  /\ \E d \in user[u].todo :
       /\ row' = Updated(d, "queued")
       /\ user' = [user EXCEPT ![u].todo = @ \ {d}]
  /\ Kept
  /\ UNCHANGED <<marked, present, op, lockVars, opOf, stream, reader, lifeVars>>

StartBatch(u, o) ==
  /\ user[u].req = "batchReinstall"
  /\ user[u].todo = {}
  /\ FreeOp(o)
  /\ op' = SpawnedBatch(o, "install", user[u].ids, FALSE)
  /\ Answer(u)
  /\ UNCHANGED <<rowVars, present, lockVars, opOf, stream, reader, lifeVars>>

\* cancelDepOperation: the function that is registered now, if there is one.
Cancel(u) ==
  \E d \in user[u].ids :
  /\ user[u].req = "cancel"
  /\ op' = IF opOf[d] = NoOp THEN op ELSE [op EXCEPT ![opOf[d]].cancel = TRUE]
  /\ Answer(u)
  /\ UNCHANGED <<rowVars, present, lockVars, opOf, stream, reader, lifeVars>>

----------------------------------------------------------------------------
(* Other sources *)

\* A script failed for want of a package; its runner installs it.  d stands
\* for the package that is wanted.
AutoInstall(o, d) ==
  /\ boot = "up"
  /\ "auto" \in Requests
  /\ sent < MaxRequests
  /\ FreeOp(o)
  /\ TypeOf[d] # "linux"
  /\ PkgOf[d] \notin present
  /\ \E e \in Deps : (Exists(e) \/ row[e] = "none") /\ PkgOf[e] = PkgOf[d] /\ TypeOf[e] = TypeOf[d]
  /\ op' = Spawned(o, "auto", d, {}, FALSE)
  /\ sent' = sent + 1
  /\ UNCHANGED <<rowVars, present, lockVars, opOf, stream, user, reader, boot,
                 restarts, panicked>>

\* A backup is restored, one at a time.  One transaction replaces all rows (one
\* row per type and name); those of missing packages say installing when it
\* commits, and the goroutine that reinstalls them is started only at the end.
restoreDependencies(u, new) ==
  LET missing == {d \in new : PkgOf[d] \notin present} IN
  /\ boot = "up"
  /\ "restore" \in Requests
  /\ sent < MaxRequests
  /\ user[u] = QuietUser
  /\ \A v \in Users : user[v].req # "restore"
  /\ new # {}
  /\ \A d \in new : row[d] = "none"
  /\ \A d, e \in new : d # e => TypeOf[d] # TypeOf[e] \/ PkgOf[d] # PkgOf[e]
  /\ row' = [d \in Deps |-> IF d \in new
                            THEN IF d \in missing THEN "installing" ELSE "installed"
                            ELSE IF Exists(d) THEN "gone" ELSE row[d]]
  /\ marked' = [d \in Deps |-> d \in new]
  /\ user' = [user EXCEPT ![u] = [req |-> "restore", ids |-> missing, todo |-> missing]]
  /\ sent' = sent + 1
  /\ Kept
  /\ UNCHANGED <<present, op, lockVars, opOf, stream, reader, boot, restarts, panicked>>

\* After the commit the scripts, the logs and the mirrors are restored.  When
\* one of them fails, the restore returns and its rows are left as they are.
RestoreFails(u) ==
  /\ user[u].req = "restore"
  /\ stranded' = stranded \cup {d \in user[u].ids : row[d] = "installing"}
  /\ Answer(u)
  /\ UNCHANGED <<row, marked, present, op, lockVars, opOf, stream, reader, lifeVars>>

dependencyReinstallBatchFunc(u, o) ==
  /\ user[u].req = "restore"
  /\ FreeOp(o)
  /\ op' = IF user[u].ids = {} THEN op
           ELSE SpawnedBatch(o, "reinstall", user[u].ids, TRUE)
  /\ Answer(u)
  /\ UNCHANGED <<rowVars, present, lockVars, opOf, stream, reader, lifeVars>>

\* MergeDuplicatePythonDependencies, at the start of the server and of every
\* ddp command: of the rows with one key, the best status survives; the age
\* that breaks ties is left open.
mergePriority(s) == CASE s = "installed" -> 3
                      [] s \in {"installing", "queued"} -> 2
                      [] OTHER -> 1
Twins(d) == {e \in Deps : Exists(e) /\ TypeOf[e] = "python" /\ TypeOf[d] = "python"
                          /\ PkgOf[e] = PkgOf[d]}
mergePrefers(d, e) == mergePriority(row[d]) >= mergePriority(row[e])

\* Mutant: the best status survives, but the other rows stay.
MergeNothing == UNCHANGED rowVars

Merge ==
  \E winner \in [{d \in Deps : Exists(d) /\ TypeOf[d] = "python"} -> Deps] :
    /\ \A d \in DOMAIN winner :
         /\ winner[d] \in Twins(d)
         /\ \A e \in Twins(d) : mergePrefers(winner[d], e) /\ winner[e] = winner[d]
    /\ row' = [d \in Deps |-> IF d \in DOMAIN winner /\ winner[d] # d THEN "gone" ELSE row[d]]
    /\ Kept
    /\ UNCHANGED marked

CliMerge ==
  /\ boot = "up"
  /\ "cli" \in Requests
  /\ \E d \in Deps : Cardinality(Twins(d)) > 1
  /\ Merge
  /\ UNCHANGED <<present, op, lockVars, opOf, stream, user, reader, lifeVars>>
----------------------------------------------------------------------------
(* The process ends and starts again.  Rows and packages stay, except that a *)
(* container that is built anew loses packages.                             *)

Crash ==
  /\ boot # "down"
  /\ panicked \/ restarts < MaxRestarts
  /\ boot' = "down"
  /\ stranded' = {d \in Deps : row[d] = "queued"}
  /\ op' = [o \in Ops |-> Idle]
  /\ nodeLock' = NoOp /\ linuxLock' = NoOp
  /\ opOf' = [d \in Deps |-> NoOp]
  /\ stream' = [d \in Deps |-> NoOp]
  /\ user' = [u \in Users |-> QuietUser]
  /\ reader' = [r \in Readers |-> QuietReader]
  /\ panicked' = FALSE
  /\ UNCHANGED <<row, marked, present, sent, restarts>>

Start ==
  /\ boot = "down"
  /\ restarts < MaxRestarts
  /\ restarts' = restarts + 1
  /\ boot' = "merged"
  /\ Merge
  /\ present' \in SUBSET present
  /\ UNCHANGED <<op, lockVars, opOf, stream, user, reader, sent, panicked>>

\* The first half of ReconcileDependenciesAfterRestart: installed rows whose
\* package is missing are reinstalled by a goroutine that starts at once.
Lost == {d \in Deps : row[d] = "installed" /\ PkgOf[d] \notin present}

ReconcileInstalled(o) ==
  /\ boot = "merged"
  /\ FreeOp(o)
  /\ row' = [d \in Deps |-> IF d \in Lost THEN "installing" ELSE row[d]]
  /\ op' = IF Lost = {} THEN op
           ELSE SpawnedBatch(o, "reinstall", Lost, FALSE)
  /\ boot' = "reconciling"
  /\ Kept
  /\ UNCHANGED <<marked, present, lockVars, opOf, stream, user, reader, sent,
                 restarts, panicked>>

\* The second half: rows that were being installed or removed when the
\* process ended.  Those the first half has just scheduled are left alone.
Scheduled(d) == \E o \in Ops : op[o].kind = "reinstall" /\ (d = op[o].id \/ d \in op[o].rest)
shouldResumeRestoredDependency(d) == row[d] = "installing" /\ marked[d]
Stale == {d \in Deps : row[d] \in Busy /\ ~Scheduled(d)}

ReconcileStale(o) ==
  LET resume == {d \in Stale : PkgOf[d] \notin present /\ shouldResumeRestoredDependency(d)} IN
  /\ boot = "reconciling"
  /\ FreeOp(o)
  /\ row' = [d \in Deps |-> IF d \notin Stale THEN row[d]
                            ELSE IF PkgOf[d] \in present THEN "installed"
                            ELSE IF d \in resume THEN "installing" ELSE "failed"]
  /\ op' = IF resume = {} THEN op
           ELSE SpawnedBatch(o, "reinstall", resume, TRUE)
  /\ boot' = "reconciled"
  /\ Kept
  /\ UNCHANGED <<marked, present, lockVars, opOf, stream, user, reader, sent,
                 restarts, panicked>>

Serve ==
  /\ boot = "reconciled"
  /\ boot' = "up"
  /\ UNCHANGED <<rowVars, present, op, lockVars, opOf, stream, user, reader,
                 sent, restarts, panicked>>
----------------------------------------------------------------------------
(* Specification *)

Check(u) ==
  \/ \E d \in Deps : CreateCheck(u, d) \/ CheckCancel(u, d)
  \/ \E d \in Deps, req \in RequestKinds : CheckRow(u, req, d)
  \/ \E ids \in SUBSET Deps, req \in RequestKinds : CheckRows(u, req, ids)
Respond(u) ==
  \/ \E o \in Ops : \/ Submit(u, o) \/ BatchDeleteRow(u, o) \/ StartBatch(u, o)
                     \/ dependencyReinstallBatchFunc(u, o)
  \/ RestoreFails(u)
  \/ QueueRow(u)
  \/ Cancel(u)

\* Steps of an operation, apart from the end of its command.
Operate(o) ==
  \/ Prepare(o) \/ PrepareFails(o) \/ Launch(o) \/ Settle(o)
  \/ Broadcast(o) \/ Done(o) \/ Close(o) \/ BatchNext(o)

Boot == Start \/ Serve \/ \E o \in Ops : ReconcileInstalled(o) \/ ReconcileStale(o)

Next ==
  \/ Crash
  \/ /\ ~panicked
     /\ \/ \E u \in Users : Check(u) \/ Respond(u)
        \/ \E o \in Ops : Operate(o) \/ Exit(o)
        \/ \E o \in Ops, d \in Deps : AutoInstall(o, d)
        \/ \E u \in Users, new \in SUBSET Deps : restoreDependencies(u, new)
        \/ \E r \in Readers, d \in Deps : LogStream(r, d)
        \/ \E r \in Readers : subscribe(r) \/ unsubscribe(r)
        \/ CliMerge
        \/ Boot

DepSpec == DepInit /\ [][Next]_depVars

\* Goroutines are scheduled, main's among them.  A streamed command has a timeout of 20 minutes,
\* so it ends; no other command has one.
TimedExit(o) == op[o].kind \in Streamed /\ Exit(o)
DepFairness ==
  /\ WF_depVars(~panicked /\ Boot)
  /\ \A u \in Users : WF_depVars(~panicked /\ Respond(u))
  /\ \A o \in Ops : WF_depVars(~panicked /\ (Operate(o) \/ TimedExit(o)))
DepFairSpec == DepSpec /\ DepFairness
=============================================================================
