------------------------ MODULE DependencyManager ------------------------
(***************************************************************************)
(* The dependencies page of the panel: handler/deps.go, the automatic      *)
(* install after a failed script (service/dependency_auto_install.go), the *)
(* reinstalls after a restore (service/backup_runtime.go) and the          *)
(* reconciliation at start-up (service/dependency_reconcile.go).           *)
(*                                                                         *)
(* A row of the table `dependencies` has a status that several goroutines  *)
(* write without a transaction: the handlers, one goroutine per operation, *)
(* one per batch, and the script runner.  What is really installed is kept *)
(* apart (`present`): the two agree only as far as the code makes them.    *)
(***************************************************************************)
EXTENDS Naturals, FiniteSets

CONSTANTS
  Deps,          \* ids of rows; AUTOINCREMENT never hands one out twice
  TypeOf,        \* [Deps -> {"nodejs", "python", "linux"}]
  PkgOf,         \* [Deps -> package]: equal for names with one PEP 503 key
  Ops,           \* goroutines that may be under way at one time
  Users,         \* goroutines that serve requests of the page
  Readers,       \* clients of LogStream
  Sandbox,       \* TRUE in the Android sandbox runtime
  Requests,      \* the requests users may send
  MaxRequests, MaxRestarts,
  NoOp

DepTypes == {"nodejs", "python", "linux"}

ASSUME DependencyAssumption ==
  /\ TypeOf \in [Deps -> DepTypes]
  /\ Sandbox \in BOOLEAN
  /\ NoOp \notin Ops \cup Deps
  /\ MaxRequests \in Nat
  /\ MaxRestarts \in Nat

VARIABLES
  row,        \* status column; "none" before the row exists, "gone" after
  marked,     \* the log of the row contains the text of a restore
  present,    \* packages that are really installed
  op,         \* per operation: what it is, on what, where it stands
  nodeLock,   \* holder of nodePackageOperationMu
  linuxLock,  \* holder of linuxPackageOperationMu
  opOf,       \* depOperations: whose cancel function is registered
  stream,     \* depLogStreams: the broadcaster of a row
  user,       \* requests under way
  reader,     \* clients of LogStream
  boot,       \* where start-up stands
  sent, restarts,
  panicked,   \* a send on a closed channel took the process down
  stranded    \* rows that were queued when the process died, or that a restore left
              \* installing when it failed, until they are written again

depVars == <<row, marked, present, op, nodeLock, linuxLock, opOf, stream,
             user, reader, boot, sent, restarts, panicked, stranded>>
rowVars == <<row, marked, stranded>>
lockVars == <<nodeLock, linuxLock>>
lifeVars == <<boot, sent, restarts, panicked>>

Busy == {"installing", "removing"}
InProcess == Busy \cup {"queued"}
Settled == {"installed", "failed", "cancelled"}
Exists(d) == row[d] \notin {"none", "gone"}

\* Kinds of operation.  install and uninstall report to a broadcaster, can be
\* cancelled and end after 20 minutes; the others only run their command.
Streamed == {"install", "uninstall"}
Kinds == Streamed \cup {"force", "auto", "reinstall"}
Idle == [kind |-> "none", id |-> NoOp, pc |-> "free", rest |-> {},
         result |-> "none", cancel |-> FALSE, restore |-> FALSE, bc |-> NoOp]
QuietUser == [req |-> "none", ids |-> {}, todo |-> {}]
QuietReader == [pc |-> "idle", id |-> NoOp, bc |-> NoOp, closed |-> FALSE]

DepInit ==
  /\ row \in [Deps -> {"none", "installed", "failed"}]
  /\ marked = [d \in Deps |-> FALSE]
  /\ present = {PkgOf[d] : d \in {e \in Deps : row[e] = "installed"}}
  /\ op = [o \in Ops |-> Idle]
  /\ nodeLock = NoOp
  /\ linuxLock = NoOp
  /\ opOf = [d \in Deps |-> NoOp]
  /\ stream = [d \in Deps |-> NoOp]
  /\ user = [u \in Users |-> QuietUser]
  /\ reader = [r \in Readers |-> QuietReader]
  /\ boot = "up"
  /\ sent = 0
  /\ restarts = 0
  /\ panicked = FALSE
  /\ stranded = {}

----------------------------------------------------------------------------
(* Operations *)

\* UPDATE dependencies SET status = s WHERE id = d: nothing without the row.
Updated(d, s) == IF Exists(d) THEN [row EXCEPT ![d] = s] ELSE row
Removed(d) == IF Exists(d) THEN [row EXCEPT ![d] = "gone"] ELSE row
\* History: a row is stranded until something writes it.
Kept == stranded' = {d \in stranded : row'[d] = row[d]}

\* `go runner(...)`: a free goroutine gets the operation.
Spawned(o, kind, d, rest, restore) ==
  [op EXCEPT ![o] = [Idle EXCEPT !.kind = kind, !.id = d, !.pc = "start",
                                 !.rest = rest, !.restore = restore]]
\* One goroutine for a list of rows.
SpawnedBatch(o, kind, ids, restore) ==
  [op EXCEPT ![o] = [Idle EXCEPT !.kind = kind, !.pc = "next", !.rest = ids,
                                 !.restore = restore]]
\* A goroutine whose broadcaster somebody still refers to is not used again.
FreeOp(o) == op[o].pc = "free"
             /\ \A d \in Deps : /\ \A p \in Ops : op[p].bc # <<o, d>>
                              /\ \A r \in Readers : reader[r].bc # <<o, d>>
Moved(o, pc) == [op EXCEPT ![o].pc = pc]

\* The next row of a batch, or the end of the goroutine.  A batch is a set:
\* its order is the order of the request, or of the rows, and may be any.
Finished(o) ==
  IF op[o].rest = {} THEN [op EXCEPT ![o] = Idle]
  ELSE [op EXCEPT ![o].pc = "next", ![o].bc = NoOp, ![o].cancel = FALSE,
                  ![o].result = "none"]

\* Which mutex an operation takes before it builds its command.  In the
\* sandbox the automatic install of a node package takes none; neither does
\* the reinstall of a linux package.
Mutex(o) ==
  CASE TypeOf[op[o].id] = "nodejs" /\ ~(op[o].kind = "auto" /\ Sandbox) -> "node"
    [] TypeOf[op[o].id] = "linux" /\ op[o].kind \in Streamed \cup {"force"} -> "linux"
    [] OTHER -> "none"

\* The mutex is taken and the command is built.  A linux operation replaces
\* the log of its row; reinstallDependency has written its own line before.

\* Mutant: the mutex is taken without waiting for it.
TakeMutexAnyway(o) ==
  /\ nodeLock' = IF Mutex(o) = "node" THEN o ELSE nodeLock
  /\ linuxLock' = IF Mutex(o) = "linux" THEN o ELSE linuxLock

TakeMutex(o) ==
  CASE Mutex(o) = "node" -> nodeLock = NoOp /\ nodeLock' = o /\ UNCHANGED linuxLock
    [] Mutex(o) = "linux" -> linuxLock = NoOp /\ linuxLock' = o /\ UNCHANGED nodeLock
    [] OTHER -> UNCHANGED lockVars

Prepare(o) ==
  LET d == op[o].id IN
  /\ op[o].pc = "start"
  /\ TakeMutex(o)
  /\ op' = Moved(o, IF op[o].kind \in Streamed THEN "launch" ELSE "run")
  /\ marked' = CASE op[o].kind = "install" /\ TypeOf[d] \in {"linux", "nodejs"} ->
                      [marked EXCEPT ![d] = FALSE]
                 [] op[o].kind = "reinstall" /\ Exists(d) ->
                      [marked EXCEPT ![d] = op[o].restore]
                 [] OTHER -> marked
  /\ UNCHANGED <<row, stranded, present, opOf, stream, user, reader, lifeVars>>

\* No command could be built; the mutex was free and is free again.  A linux
\* uninstall without a package manager deletes the row all the same.
PrepareFails(o) ==
  LET d == op[o].id IN
  /\ op[o].pc = "start"
  /\ Mutex(o) = "node" => nodeLock = NoOp
  /\ Mutex(o) = "linux" => linuxLock = NoOp
  /\ row' = CASE op[o].kind \in {"force", "auto"} -> row
              [] op[o].kind = "uninstall" /\ TypeOf[d] = "linux" -> Removed(d)
              [] OTHER -> Updated(d, "failed")
  /\ marked' = CASE op[o].kind \in Streamed -> [marked EXCEPT ![d] = FALSE]
                 [] op[o].kind = "reinstall" /\ Exists(d) ->
                      [marked EXCEPT ![d] = op[o].restore]
                 [] OTHER -> marked
  /\ op' = Finished(o)
  /\ Kept
  /\ UNCHANGED <<present, lockVars, opOf, stream, user, reader, lifeVars>>

\* Mutant: the deferred Unlock is missing.
KeepLocked(o) == UNCHANGED lockVars

Unlocked(o) ==
  /\ nodeLock' = IF nodeLock = o THEN NoOp ELSE nodeLock
  /\ linuxLock' = IF linuxLock = o THEN NoOp ELSE linuxLock

\* runCmdWithSSE: share the broadcaster of the row, register the cancel
\* function (over whatever was there), start the process.
Broadcaster(o) == IF stream[op[o].id] = NoOp THEN <<o, op[o].id>> ELSE stream[op[o].id]

Launch(o) ==
  LET d == op[o].id IN
  /\ op[o].pc = "launch"
  /\ stream' = [stream EXCEPT ![d] = Broadcaster(o)]
  /\ opOf' = [opOf EXCEPT ![d] = o]
  /\ \/ /\ op' = [op EXCEPT ![o].bc = Broadcaster(o), ![o].pc = "run"]
        /\ UNCHANGED rowVars
     \/ /\ op' = [op EXCEPT ![o].bc = Broadcaster(o), ![o].pc = "done"]
        /\ row' = Updated(d, "failed")
        /\ marked' = [marked EXCEPT ![d] = FALSE]
        /\ Kept
  /\ UNCHANGED <<present, lockVars, user, reader, lifeVars>>

\* The command ended: of itself, at its timeout, or because it was cancelled
\* (which the select may prefer to an end that came at the same time).  Unless
\* it succeeded, it may have done its work or not.
Effect(o, result) ==
  LET p == PkgOf[op[o].id]
      after == IF op[o].kind \in {"uninstall", "force"} THEN present \ {p}
               ELSE present \cup {p} IN
  IF result = "ok" THEN {after} ELSE {present, after}

Exit(o) ==
  /\ op[o].pc = "run"
  /\ \E result \in {"ok", "failed"} \cup IF op[o].cancel THEN {"cancelled"} ELSE {} :
       /\ op' = [op EXCEPT ![o].result = result, ![o].pc = "settle"]
       /\ present' \in Effect(o, result)
  /\ UNCHANGED <<rowVars, lockVars, opOf, stream, user, reader, lifeVars>>

\* The rows RecordAutoInstalledDepForPythonVersion may find for a package.
SamePackage(d, e) == Exists(e) /\ TypeOf[e] = TypeOf[d] /\ PkgOf[e] = PkgOf[d]

\* Mutant: a cancelled operation leaves its row as it is.
SettledStatusUnlessCancelled(result) ==
  CASE result = "ok" -> "installed" [] result = "failed" -> "failed" [] OTHER -> "installing"

SettledStatus(result) == IF result = "ok" THEN "installed" ELSE result

Settle(o) ==
  LET d == op[o].id
      result == op[o].result IN
  /\ op[o].pc = "settle"
  /\ \/ /\ op[o].kind \in Streamed
        /\ row' = IF op[o].kind = "uninstall" /\ result = "ok" THEN Removed(d)
                  ELSE Updated(d, SettledStatus(result))
        /\ op' = Moved(o, "done")
        /\ Kept
        /\ UNCHANGED <<marked, lockVars>>
     \/ /\ op[o].kind = "reinstall"
        /\ row' = Updated(d, SettledStatus(result))
        /\ op' = Finished(o)
        /\ Unlocked(o)
        /\ Kept
        /\ UNCHANGED marked
     \/ /\ op[o].kind = "force"
        /\ op' = Finished(o)
        /\ Unlocked(o)
        /\ UNCHANGED rowVars
     \/ /\ op[o].kind = "auto"
        /\ op' = Finished(o)
        /\ Unlocked(o)
        /\ IF result # "ok" THEN UNCHANGED rowVars
           ELSE \E e \in Deps :
                  /\ IF \E f \in Deps : SamePackage(d, f) THEN SamePackage(d, e)
                     ELSE row[e] = "none" /\ TypeOf[e] = TypeOf[d] /\ PkgOf[e] = PkgOf[d]
                  /\ row' = [row EXCEPT ![e] = "installed"]
                  /\ marked' = [marked EXCEPT ![e] = FALSE]
                  /\ Kept
  /\ UNCHANGED <<present, opOf, stream, user, reader, lifeVars>>

\* The deferred calls: whatever cancel function the row has is unregistered,
\* and the channels of whatever broadcaster it has now are closed, though
\* their subscribers stay in it until they leave of themselves.
Close(o) ==
  LET d == op[o].id IN
  /\ op[o].pc = "close"
  /\ opOf' = [opOf EXCEPT ![d] = NoOp]
  /\ reader' = [r \in Readers |->
                  IF stream[d] # NoOp /\ reader[r].bc = stream[d]
                     /\ reader[r].pc \in {"reading", "told"}
                  THEN [reader[r] EXCEPT !.closed = TRUE] ELSE reader[r]]
  /\ stream' = [stream EXCEPT ![d] = NoOp]
  /\ op' = Finished(o)
  /\ Unlocked(o)
  /\ UNCHANGED <<rowVars, present, user, lifeVars>>

\* The goroutine of BatchReinstall takes its next row: it skips one that was
\* deleted and marks any other, whatever its status is by now.  The batches
\* of a restore or a restart just go on.
BatchNext(o) ==
  /\ op[o].pc = "next"
  /\ \E d \in op[o].rest :
       LET left == op[o].rest \ {d}
           skip == op[o].kind = "install" /\ ~Exists(d) IN
       /\ row' = IF op[o].kind = "install" THEN Updated(d, "installing") ELSE row
       /\ op' = [op EXCEPT ![o] =
                  CASE ~skip -> [@ EXCEPT !.id = d, !.rest = left, !.pc = "start"]
                    [] skip /\ left = {} -> Idle
                    [] skip /\ left # {} -> [@ EXCEPT !.rest = left]]
  /\ Kept
  /\ UNCHANGED <<marked, present, lockVars, opOf, stream, user, reader, lifeVars>>
----------------------------------------------------------------------------
(* Log streams *)

Subscribed(b) == {r \in Readers : reader[r].bc = b /\ reader[r].pc \in {"reading", "told"}}
SendPanics(b) == \E r \in Subscribed(b) : reader[r].closed

\* A line of output, or a line of the panel, sent to a closed channel.
Broadcast(o) ==
  /\ op[o].pc = "run"
  /\ op[o].kind \in Streamed
  /\ SendPanics(op[o].bc)
  /\ panicked' = TRUE
  /\ UNCHANGED <<rowVars, present, op, lockVars, opOf, stream, user, reader,
                 boot, sent, restarts>>

Done(o) ==
  /\ op[o].pc = "done"
  /\ panicked' = (panicked \/ SendPanics(op[o].bc))
  /\ reader' = [r \in Readers |-> IF r \in Subscribed(op[o].bc) /\ ~reader[r].closed
                                  THEN [reader[r] EXCEPT !.pc = "told"] ELSE reader[r]]
  /\ op' = Moved(o, "close")
  /\ UNCHANGED <<rowVars, present, lockVars, opOf, stream, user,
                 boot, sent, restarts>>

LogStream(r, d) ==
  /\ boot = "up"
  /\ reader[r].pc = "idle"
  /\ row[d] \in Busy
  /\ stream[d] # NoOp
  /\ reader' = [reader EXCEPT ![r] = [QuietReader EXCEPT
                  !.pc = "found", !.id = d, !.bc = stream[d]]]
  /\ UNCHANGED <<rowVars, present, op, lockVars, opOf, stream, user, lifeVars>>

subscribe(r) ==
  /\ reader[r].pc = "found"
  /\ reader' = [reader EXCEPT ![r].pc = "reading"]
  /\ UNCHANGED <<rowVars, present, op, lockVars, opOf, stream, user, lifeVars>>

\* Told, closed, disconnected or timed out: the handler returns.
unsubscribe(r) ==
  /\ reader[r].pc \in {"reading", "told"}
  /\ reader' = [reader EXCEPT ![r] = [QuietReader EXCEPT !.pc = "over"]]
  /\ UNCHANGED <<rowVars, present, op, lockVars, opOf, stream, user, lifeVars>>
=============================================================================
