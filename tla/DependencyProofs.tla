---------------------------- MODULE DependencyProofs ----------------------------
(***************************************************************************)
(* Three results for every number of rows, operations, requests, scripts   *)
(* and restarts.                                                           *)
(*                                                                         *)
(* ToolsAreSerialised: no two operations of one package tool are under way *)
(* at once.  The mutexes are the argument: an operation past the start of  *)
(* its command holds the mutex of its tool until it is finished, and its   *)
(* kind and row, on which the mutex depends, change only when it is not    *)
(* under way.                                                              *)
(*                                                                         *)
(* BusyRowsHaveOwners: the goroutine that has yet to settle a row in       *)
(* process is followed from the request that starts it to its last write.  *)
(*                                                                         *)
(* ReconciledRowsTellTheTruth: what the start-up knows at each of its      *)
(* steps of the rows, the packages and the goroutines it has started.      *)
(***************************************************************************)
EXTENDS DependencyProps, FiniteSetTheorems, TLAPS

OpFields == {"kind", "id", "pc", "rest", "result", "cancel", "restore", "bc"}
WorkingPcs == {"launch", "run", "settle", "done", "close"}
OpShape == DOMAIN op = Ops /\ \A o \in Ops : OpFields \subseteq DOMAIN op[o]

\* Who is working holds the mutex of its tool.
WorkersHoldMutex ==
  \A o \in Ops : Working(o) => /\ Mutex(o) = "node" => nodeLock = o
                               /\ Mutex(o) = "linux" => linuxLock = o

DepInv == OpShape /\ WorkersHoldMutex

\* The parts of the invariant that speak of one operation.
NeedsNode(t) == TypeOf[t.id] = "nodejs" /\ ~(t.kind = "auto" /\ Sandbox)
NeedsLinux(t) == TypeOf[t.id] = "linux" /\ t.kind \in Streamed \cup {"force"}
OpOK(t, hasNode, hasLinux) ==
  /\ OpFields \subseteq DOMAIN t
  /\ t.pc \in WorkingPcs => /\ NeedsNode(t) => hasNode
                            /\ NeedsLinux(t) => hasLinux

\* The types are apart, so the branches of Mutex are.
LEMMA MutexOf ==
  ASSUME NEW o \in Ops
  PROVE  /\ Mutex(o) = "node" <=> NeedsNode(op[o])
         /\ Mutex(o) = "linux" <=> NeedsLinux(op[o])
         /\ Mutex(o) \in {"node", "linux", "none"}
BY DEF Mutex, NeedsNode, NeedsLinux

LEMMA MutexOfNext ==
  ASSUME NEW o \in Ops
  PROVE  /\ Mutex(o)' = "node" <=> NeedsNode(op'[o])
         /\ Mutex(o)' = "linux" <=> NeedsLinux(op'[o])
BY DEF Mutex, NeedsNode, NeedsLinux

LEMMA InvIsOfOps ==
  DepInv <=> DOMAIN op = Ops /\ \A o \in Ops : OpOK(op[o], nodeLock = o, linuxLock = o)
BY MutexOf DEF DepInv, OpShape, WorkersHoldMutex, Working, OpOK, WorkingPcs

LEMMA InvIsOfOpsNext ==
  DepInv' <=> DOMAIN op' = Ops /\ \A o \in Ops : OpOK(op'[o], nodeLock' = o, linuxLock' = o)
BY MutexOfNext DEF DepInv, OpShape, WorkersHoldMutex, Working, OpOK, WorkingPcs

\* A step that changes one operation and takes no mutex from another.
LEMMA OneOp ==
  ASSUME DepInv, NEW o \in Ops, NEW t, op' = [op EXCEPT ![o] = t],
         OpOK(t, nodeLock' = o, linuxLock' = o),
         \A q \in Ops \ {o} : /\ nodeLock = q => nodeLock' = q
                              /\ linuxLock = q => linuxLock' = q
  PROVE  DepInv'
BY InvIsOfOps, InvIsOfOpsNext DEF OpOK

LEMMA NothingMoves ==
  ASSUME DepInv, UNCHANGED op, UNCHANGED lockVars
  PROVE  DepInv'
BY InvIsOfOps, InvIsOfOpsNext DEF lockVars

\* An operation that is not working, or works on what it worked on, needs no
\* mutex that it does not have.
LEMMA RestingOp ==
  ASSUME DepInv, NEW o \in Ops, NEW t, op' = [op EXCEPT ![o] = t],
         OpFields \subseteq DOMAIN t, t.pc \notin WorkingPcs,
         UNCHANGED lockVars \/ Unlocked(o)
  PROVE  DepInv'
<1>1. OpOK(t, nodeLock' = o, linuxLock' = o)
  BY DEF OpOK
<1> QED BY <1>1, OneOp DEF lockVars, Unlocked

LEMMA SameWork ==
  ASSUME DepInv, NEW o \in Ops, NEW t, op' = [op EXCEPT ![o] = t],
         OpFields \subseteq DOMAIN t, t.id = op[o].id, t.kind = op[o].kind,
         op[o].pc \in WorkingPcs, UNCHANGED lockVars
  PROVE  DepInv'
<1>1. OpOK(t, nodeLock' = o, linuxLock' = o)
  BY InvIsOfOps DEF OpOK, NeedsNode, NeedsLinux, lockVars
<1> QED BY <1>1, OneOp DEF lockVars

LEMMA SpawnKeeps ==
  ASSUME DepInv, NEW o \in Ops, UNCHANGED lockVars,
         \/ \E kind, d, rest, restore : op' = Spawned(o, kind, d, rest, restore)
         \/ \E kind, ids, restore : op' = SpawnedBatch(o, kind, ids, restore)
  PROVE  DepInv'
<1>1. ASSUME NEW kind, NEW d, NEW rest, NEW restore, op' = Spawned(o, kind, d, rest, restore)
      PROVE  DepInv'
  <2> DEFINE t == [Idle EXCEPT !.kind = kind, !.id = d, !.pc = "start", !.rest = rest, !.restore = restore]
  <2>1. op' = [op EXCEPT ![o] = t] /\ OpFields \subseteq DOMAIN t /\ t.pc \notin WorkingPcs
    BY <1>1 DEF Spawned, Idle, OpFields, WorkingPcs
  <2> HIDE DEF t
  <2> QED BY <2>1, RestingOp
<1>2. ASSUME NEW kind, NEW ids, NEW restore, op' = SpawnedBatch(o, kind, ids, restore)
      PROVE  DepInv'
  <2> DEFINE t == [Idle EXCEPT !.kind = kind, !.pc = "next", !.rest = ids, !.restore = restore]
  <2>1. op' = [op EXCEPT ![o] = t] /\ OpFields \subseteq DOMAIN t /\ t.pc \notin WorkingPcs
    BY <1>2 DEF SpawnedBatch, Idle, OpFields, WorkingPcs
  <2> HIDE DEF t
  <2> QED BY <2>1, RestingOp
<1> QED BY <1>1, <1>2

LEMMA FinishKeeps ==
  ASSUME DepInv, NEW o \in Ops, op' = Finished(o), UNCHANGED lockVars \/ Unlocked(o)
  PROVE  DepInv'
<1> DEFINE t == [op[o] EXCEPT !.pc = "next", !.bc = NoOp, !.cancel = FALSE, !.result = "none"]
<1>1. DOMAIN op = Ops /\ OpFields \subseteq DOMAIN op[o]
  BY InvIsOfOps DEF OpOK
<1>2. OpFields \subseteq DOMAIN t /\ t.pc \notin WorkingPcs
  BY <1>1 DEF OpFields, WorkingPcs
<1>3. OpFields \subseteq DOMAIN Idle /\ Idle.pc \notin WorkingPcs
  BY DEF Idle, OpFields, WorkingPcs
<1>4. op' = [op EXCEPT ![o] = Idle] \/ op' = [op EXCEPT ![o] = t]
  BY <1>1 DEF Finished
<1> HIDE DEF t
<1> QED BY <1>2, <1>3, <1>4, RestingOp

\* The mutex was free: whoever worked with it would have been its holder.
LEMMA PrepareKeeps ==
  ASSUME DepInv, NEW o \in Ops, Prepare(o)
  PROVE  DepInv'
<1>1. PICK pc \in {"launch", "run"} : op' = [op EXCEPT ![o].pc = pc]
  BY DEF Prepare, Moved
<1> DEFINE t == [op[o] EXCEPT !.pc = pc]
<1>2. OpFields \subseteq DOMAIN op[o] /\ NoOp \notin Ops
  BY InvIsOfOps, DependencyAssumption DEF OpOK
<1>3. OpFields \subseteq DOMAIN t /\ (NeedsNode(t) <=> NeedsNode(op[o]))
                                  /\ (NeedsLinux(t) <=> NeedsLinux(op[o]))
  BY <1>2 DEF OpFields, NeedsNode, NeedsLinux
<1>4. op' = [op EXCEPT ![o] = t]
  BY <1>1
<1>5. \/ Mutex(o) = "node" /\ nodeLock = NoOp /\ nodeLock' = o /\ linuxLock' = linuxLock
      \/ Mutex(o) = "linux" /\ linuxLock = NoOp /\ linuxLock' = o /\ nodeLock' = nodeLock
      \/ Mutex(o) = "none" /\ nodeLock' = nodeLock /\ linuxLock' = linuxLock
  BY MutexOf DEF Prepare, TakeMutex, lockVars
<1>6. OpOK(t, nodeLock' = o, linuxLock' = o)
  BY <1>3, <1>5, MutexOf DEF OpOK
<1>7. \A q \in Ops \ {o} : (nodeLock = q => nodeLock' = q) /\ (linuxLock = q => linuxLock' = q)
  BY <1>2, <1>5
<1> HIDE DEF t
<1> QED BY <1>4, <1>6, <1>7, OneOp

LEMMA WorkKeeps ==
  ASSUME DepInv, NEW o \in Ops, Launch(o) \/ Exit(o) \/ Settle(o) \/ Done(o) \/ Close(o)
  PROVE  DepInv'
<1>1. DOMAIN op = Ops /\ OpFields \subseteq DOMAIN op[o]
  BY InvIsOfOps DEF OpOK
<1>2. op[o].pc \in WorkingPcs
  BY DEF Launch, Exit, Settle, Done, Close, WorkingPcs
<1>3. CASE Launch(o)
  <2> DEFINE t(pc) == [op[o] EXCEPT !.bc = Broadcaster(o), !.pc = pc]
  <2>1. PICK pc \in {"run", "done"} : op' = [op EXCEPT ![o].bc = Broadcaster(o), ![o].pc = pc]
    BY <1>3 DEF Launch
  <2>2. op' = [op EXCEPT ![o] = t(pc)]
    BY <2>1, <1>1
  <2>3. OpFields \subseteq DOMAIN t(pc) /\ t(pc).id = op[o].id /\ t(pc).kind = op[o].kind
    BY <1>1 DEF OpFields
  <2>4. UNCHANGED lockVars
    BY <1>3 DEF Launch
  <2> HIDE DEF t
  <2> QED BY <2>2, <2>3, <2>4, <1>2, SameWork
<1>4. CASE Exit(o)
  <2> DEFINE t(result) == [op[o] EXCEPT !.result = result, !.pc = "settle"]
  <2>1. PICK result : op' = [op EXCEPT ![o].result = result, ![o].pc = "settle"]
    BY <1>4 DEF Exit
  <2>2. op' = [op EXCEPT ![o] = t(result)]
    BY <2>1, <1>1
  <2>3. OpFields \subseteq DOMAIN t(result) /\ t(result).id = op[o].id /\ t(result).kind = op[o].kind
    BY <1>1 DEF OpFields
  <2>4. UNCHANGED lockVars
    BY <1>4 DEF Exit
  <2> HIDE DEF t
  <2> QED BY <2>2, <2>3, <2>4, <1>2, SameWork
<1>5. ASSUME NEW pc, op' = Moved(o, pc), UNCHANGED lockVars
      PROVE  DepInv'
  <2> DEFINE t == [op[o] EXCEPT !.pc = pc]
  <2>1. op' = [op EXCEPT ![o] = t] /\ OpFields \subseteq DOMAIN t
        /\ t.id = op[o].id /\ t.kind = op[o].kind
    BY <1>1, <1>5 DEF OpFields, Moved
  <2> HIDE DEF t
  <2> QED BY <2>1, <1>2, <1>5, SameWork
<1>6. CASE Settle(o)
  <2>1. \/ op' = Moved(o, "done") /\ UNCHANGED lockVars
        \/ op' = Finished(o) /\ Unlocked(o)
    BY <1>6 DEF Settle
  <2> QED BY <2>1, <1>5, FinishKeeps
<1>7. CASE Done(o)
  BY <1>7, <1>5 DEF Done
<1>8. CASE Close(o)
  BY <1>8, FinishKeeps DEF Close
<1> QED BY <1>3, <1>4, <1>6, <1>7, <1>8

LEMMA BatchNextKeeps ==
  ASSUME DepInv, NEW o \in Ops, BatchNext(o)
  PROVE  DepInv'
<1> DEFINE taken(d) == [op[o] EXCEPT !.id = d, !.rest = op[o].rest \ {d}, !.pc = "start"]
           passed(d) == [op[o] EXCEPT !.rest = op[o].rest \ {d}]
<1>1. PICK d \in op[o].rest : \/ op' = [op EXCEPT ![o] = taken(d)]
                              \/ op' = [op EXCEPT ![o] = Idle]
                              \/ op' = [op EXCEPT ![o] = passed(d)]
  BY DEF BatchNext
<1>2. OpFields \subseteq DOMAIN op[o] /\ op[o].pc = "next"
  BY InvIsOfOps DEF OpOK, BatchNext
<1>3. OpFields \subseteq DOMAIN taken(d) /\ taken(d).pc \notin WorkingPcs
  BY <1>2 DEF OpFields, WorkingPcs
<1>4. OpFields \subseteq DOMAIN passed(d) /\ passed(d).pc \notin WorkingPcs
  BY <1>2 DEF OpFields, WorkingPcs
<1>5. OpFields \subseteq DOMAIN Idle /\ Idle.pc \notin WorkingPcs
  BY DEF Idle, OpFields, WorkingPcs
<1>6. UNCHANGED lockVars
  BY DEF BatchNext
<1> HIDE DEF taken, passed
<1> QED BY <1>1, <1>3, <1>4, <1>5, <1>6, RestingOp

LEMMA OperateKeeps ==
  ASSUME DepInv, NEW o \in Ops, Operate(o) \/ Exit(o)
  PROVE  DepInv'
<1>1. CASE PrepareFails(o)
  BY <1>1, FinishKeeps DEF PrepareFails
<1>2. CASE Broadcast(o)
  BY <1>2, NothingMoves DEF Broadcast
<1> QED BY <1>1, <1>2, PrepareKeeps, WorkKeeps, BatchNextKeeps DEF Operate

LEMMA CancelKeeps ==
  ASSUME DepInv, NEW u \in Users, Cancel(u)
  PROVE  DepInv'
<1>1. PICK d : op' = IF opOf[d] = NoOp THEN op ELSE [op EXCEPT ![opOf[d]].cancel = TRUE]
  BY DEF Cancel
<1>2. UNCHANGED lockVars
  BY DEF Cancel
<1>3. DOMAIN op' = Ops
  BY <1>1, InvIsOfOps
<1>4. ASSUME NEW q \in Ops PROVE OpOK(op'[q], nodeLock' = q, linuxLock' = q)
  <2>1. OpOK(op[q], nodeLock = q, linuxLock = q)
    BY InvIsOfOps
  <2>2. op'[q] = op[q] \/ op'[q] = [op[q] EXCEPT !.cancel = TRUE]
    BY <1>1, InvIsOfOps
  <2> QED BY <2>1, <2>2, <1>2 DEF OpOK, OpFields, NeedsNode, NeedsLinux, lockVars
<1> QED BY <1>3, <1>4, InvIsOfOpsNext

LEMMA RespondKeeps ==
  ASSUME DepInv, NEW u \in Users, Respond(u)
  PROVE  DepInv'
<1>1. ASSUME NEW o \in Ops, Submit(u, o) \/ BatchDeleteRow(u, o) \/ StartBatch(u, o)
      PROVE  DepInv'
  <2>1. UNCHANGED lockVars
    BY <1>1 DEF Submit, BatchDeleteRow, StartBatch
  <2>2. \/ \E kind, d : op' = Spawned(o, kind, d, {}, FALSE)
        \/ op' = SpawnedBatch(o, "install", user[u].ids, FALSE)
    <3>1. CASE Submit(u, o)
      <4>1. PICK d : \/ op' = Spawned(o, "install", d, {}, FALSE)
                     \/ op' = Spawned(o, "uninstall", d, {}, FALSE)
                     \/ op' = Spawned(o, "force", d, {}, FALSE)
        BY <3>1, Zenon DEF Submit
      <4> QED BY <4>1, Zenon
    <3>2. CASE BatchDeleteRow(u, o)
      BY <3>2, Zenon DEF BatchDeleteRow
    <3>3. CASE StartBatch(u, o)
      BY <3>3 DEF StartBatch
    <3> QED BY <1>1, <3>1, <3>2, <3>3
  <2> QED BY <2>1, <2>2, SpawnKeeps
<1>2. CASE QueueRow(u) \/ RestoreFails(u)
  BY <1>2, NothingMoves DEF QueueRow, RestoreFails
<1>3. ASSUME NEW o \in Ops, dependencyReinstallBatchFunc(u, o) PROVE DepInv'
  <2>1. UNCHANGED lockVars /\ (op' = op \/ op' = SpawnedBatch(o, "reinstall", user[u].ids, TRUE))
    BY <1>3 DEF dependencyReinstallBatchFunc
  <2> QED BY <2>1, SpawnKeeps, NothingMoves
<1> QED BY <1>1, <1>2, <1>3, CancelKeeps DEF Respond

LEMMA SourcesKeep ==
  ASSUME DepInv, NEW o \in Ops,
         \/ \E d \in Deps : AutoInstall(o, d)
         \/ ReconcileInstalled(o) \/ ReconcileStale(o)
  PROVE  DepInv'
<1>1. UNCHANGED lockVars
  BY DEF AutoInstall, ReconcileInstalled, ReconcileStale
<1>2. \/ \E kind, d, rest, restore : op' = Spawned(o, kind, d, rest, restore)
      \/ \E kind, ids, restore : op' = SpawnedBatch(o, kind, ids, restore)
      \/ op' = op
  <2>1. CASE \E d \in Deps : AutoInstall(o, d)
    <3>1. PICK d \in Deps : AutoInstall(o, d)
      BY <2>1
    <3>2. op' = Spawned(o, "auto", d, {}, FALSE)
      BY <3>1, Zenon DEF AutoInstall
    <3> QED BY <3>2
  <2>2. CASE ReconcileInstalled(o) \/ ReconcileStale(o)
    BY <2>2 DEF ReconcileInstalled, ReconcileStale
  <2> QED BY <2>1, <2>2
<1> QED BY <1>1, <1>2, SpawnKeeps, NothingMoves

LEMMA CrashKeeps ==
  ASSUME Crash
  PROVE  DepInv'
<1>1. OpFields \subseteq DOMAIN Idle /\ Idle.pc \notin WorkingPcs
  BY DEF Idle, OpFields, WorkingPcs
<1> QED BY <1>1, InvIsOfOpsNext DEF Crash, OpOK

LEMMA OthersKeep ==
  ASSUME DepInv,
         \/ \E u \in Users : Check(u)
         \/ \E u \in Users, new \in SUBSET Deps : restoreDependencies(u, new)
         \/ \E r \in Readers, d \in Deps : LogStream(r, d)
         \/ \E r \in Readers : subscribe(r) \/ unsubscribe(r)
         \/ CliMerge \/ Start \/ Serve
  PROVE  DepInv'
<1>1. UNCHANGED op /\ UNCHANGED lockVars
  BY DEF Check, CreateCheck, CheckCancel, CheckRow, CheckRows, Accept, restoreDependencies,
         LogStream, subscribe, unsubscribe, CliMerge, Start, Serve
<1> QED BY <1>1, NothingMoves

\* However requests, batches, scripts, restores, cancellations and restarts
\* overlap: between taking the mutex of a package tool and giving it back an
\* operation is alone with it.
THEOREM ToolsAreSerialised == DepSpec => []PackageToolsSerialised
<1>1. DepInit => DepInv
  <2>1. OpFields \subseteq DOMAIN Idle /\ Idle.pc \notin WorkingPcs
    BY DEF Idle, OpFields, WorkingPcs
  <2> QED BY <2>1, InvIsOfOps DEF DepInit, OpOK
<1>2. DepInv /\ [Next]_depVars => DepInv'
  <2> SUFFICES ASSUME DepInv, [Next]_depVars PROVE DepInv'
    OBVIOUS
  <2>1. CASE UNCHANGED depVars
    BY <2>1, NothingMoves DEF depVars, lockVars
  <2> QED BY <2>1, CrashKeeps, RespondKeeps, OperateKeeps, SourcesKeep, OthersKeep DEF Next, Boot
<1>3. DepInv => PackageToolsSerialised
  BY MutexOf DEF DepInv, WorkersHoldMutex, PackageToolsSerialised
<1> QED BY <1>1, <1>2, <1>3, PTL DEF DepSpec

-----------------------------------------------------------------------------
(***************************************************************************)
(* A busy row has an owner, and the start-up leaves no wrong row.          *)
(*                                                                         *)
(* An owner in the sense of the property may be a goroutine that has       *)
(* settled the row already and only has to close its log; it will not      *)
(* write a row that a second request has made busy since.  The invariant   *)
(* asks for a goroutine that has yet to settle.                            *)
(***************************************************************************)

ActivePcs == {"start", "launch", "run", "settle"}
Outcomes == {"ok", "failed", "cancelled"}

\* A goroutine with record t has yet to settle d.
Has(t, d) ==
  \/ d \in t.rest
  \/ t.id = d /\ t.pc \in ActivePcs /\ t.kind \in Streamed \cup {"reinstall"}
\* It was started to reinstall d.
Reinstalls(t, d) == t.kind = "reinstall" /\ (d = t.id \/ d \in t.rest)

Fits(t) ==
  /\ OpFields \subseteq DOMAIN t
  /\ t.rest \subseteq Deps
  /\ t.pc = "free" => t.kind = "none" /\ t.rest = {}
  /\ t.pc = "next" \/ t.rest # {} => t.kind \in {"install", "reinstall"}
  /\ t.pc \notin {"free", "next"} => t.id \in Deps
  /\ t.pc = "settle" => t.result \in Outcomes
FitsUser(u) ==
  /\ {"req", "ids", "todo"} \subseteq DOMAIN u
  /\ u.todo \subseteq u.ids /\ u.ids \subseteq Deps

Shape ==
  /\ DOMAIN op = Ops /\ \A o \in Ops : Fits(op[o])
  /\ DOMAIN user = Users /\ \A u \in Users : FitsUser(user[u])
  /\ DOMAIN row = Deps

\* While the start-up is under way only the rows it has scheduled have owners.
Watched(d) == boot \in {"reconciled", "up"} \/ (boot = "reconciling" /\ Scheduled(d))
\* The request of u will see to d as long as the row says s.
Claims(u, d, s) == \/ s = "queued" /\ Queueing(u, d)
                   \/ s = "installing" /\ Restoring(u, d)
Hosts(d) == \/ d \in stranded
            \/ \E o \in Ops : Has(op[o], d)
            \/ \E u \in Users : Claims(u, d, row[d])
OwnedInv == \A d \in Deps :
  row[d] \in InProcess /\ (row[d] = "queued" \/ Watched(d)) => Hosts(d)

\* What one goroutine does: the row it writes is settled or stays its own.
MovesTo(o, t) ==
  /\ op'[o] = t /\ Fits(t)
  /\ DOMAIN op' = Ops /\ \A q \in Ops \ {o} : op'[q] = op[q]
  /\ DOMAIN row' = Deps
  /\ \A d \in Deps : row'[d] \in InProcess =>
       Has(t, d) \/ (row'[d] = row[d] /\ ~Has(op[o], d))
  /\ \A d \in Deps : Reinstalls(t, d) => Reinstalls(op[o], d)
  /\ t.kind \in {op[o].kind, "none"}
  /\ Kept /\ UNCHANGED <<boot, user>>
Moves(o) == MovesTo(o, op'[o])

LEMMA KeptSame ==
  ASSUME UNCHANGED <<row, stranded>>
  PROVE  Kept
BY DEF Kept

LEMMA IdleFits == Fits(Idle)
BY DEF Fits, Idle, OpFields

LEMMA FinishMoves ==
  ASSUME Shape, NEW o \in Ops, op' = Finished(o), DOMAIN row' = Deps,
         Kept, UNCHANGED <<boot, user>>,
         \A d \in Deps : row'[d] \in InProcess =>
           row'[d] = row[d] /\ (Has(op[o], d) => d \in op[o].rest)
  PROVE  Moves(o)
<1> DEFINE t == [op[o] EXCEPT !.pc = "next", !.bc = NoOp, !.cancel = FALSE, !.result = "none"]
<1>1. DOMAIN op = Ops /\ Fits(op[o])
  BY DEF Shape
<1>2. CASE op[o].rest = {}
  <2>1. op' = [op EXCEPT ![o] = Idle]
    BY <1>2 DEF Finished
  <2>2. \A d : ~Reinstalls(Idle, d) /\ Idle.kind = "none"
    BY DEF Reinstalls, Idle
  <2> QED BY <1>1, <1>2, <2>1, <2>2, IdleFits DEF Moves, MovesTo
<1>3. CASE op[o].rest # {}
  <2>1. op' = [op EXCEPT ![o] = t]
    BY <1>1, <1>3 DEF Finished
  <2>2. /\ OpFields \subseteq DOMAIN t /\ t.pc = "next" /\ t.rest = op[o].rest
        /\ t.id = op[o].id /\ t.kind = op[o].kind
    BY <1>1 DEF Fits, OpFields
  <2> HIDE DEF t
  <2>3. Fits(t)
    BY <1>1, <1>3, <2>2 DEF Fits
  <2>4. \A d : (Reinstalls(t, d) <=> Reinstalls(op[o], d)) /\ (d \in op[o].rest => Has(t, d))
    BY <2>2 DEF Reinstalls, Has
  <2> QED BY <1>1, <2>1, <2>2, <2>3, <2>4 DEF Moves, MovesTo
<1> QED BY <1>2, <1>3

\* A goroutine that goes on with its row, which it writes when it settles.
LEMMA AdvanceMoves ==
  ASSUME Shape, NEW o \in Ops, NEW t, op' = [op EXCEPT ![o] = t],
         OpFields \subseteq DOMAIN t, t.id = op[o].id, t.kind = op[o].kind,
         t.rest = op[o].rest, op[o].pc \notin {"free", "next"},
         t.pc \notin {"free", "next"}, t.pc = "settle" => t.result \in Outcomes,
         DOMAIN row' = Deps, Kept, UNCHANGED <<boot, user>>,
         \A d \in Deps : row'[d] # row[d] => row'[d] \notin InProcess,
         t.pc \in ActivePcs \/ op[o].pc \notin ActivePcs
           \/ t.kind \notin Streamed \cup {"reinstall"} \/ row'[t.id] \notin InProcess
  PROVE  Moves(o)
<1>1. Fits(op[o])
  BY DEF Shape
<1>2. Fits(t)
  BY <1>1 DEF Fits
<1>3. ASSUME NEW d \in Deps, row'[d] \in InProcess
      PROVE  Has(t, d) \/ (row'[d] = row[d] /\ ~Has(op[o], d))
  BY <1>3 DEF Has
<1>4. \A d \in Deps : Reinstalls(t, d) => Reinstalls(op[o], d)
  BY DEF Reinstalls
<1>5. op'[o] = t /\ DOMAIN op' = Ops /\ \A q \in Ops \ {o} : op'[q] = op[q]
  BY DEF Shape
<1> QED BY <1>2, <1>3, <1>4, <1>5 DEF Moves, MovesTo

LEMMA UpdatedIs ==
  ASSUME DOMAIN row = Deps, NEW d, NEW s, row' = Updated(d, s) \/ row' = Removed(d),
         s \in {"installed", "failed", "cancelled", "gone"}
  PROVE  /\ DOMAIN row' = Deps
         /\ \A e \in Deps : row'[e] # row[e] => row'[e] \notin InProcess
         /\ d \in Deps => row'[d] \notin InProcess
         /\ \A e \in Deps : e # d => row'[e] = row[e]
BY DEF Updated, Removed, InProcess, Busy, Exists

LEMMA OperateMoves ==
  ASSUME Shape, NEW o \in Ops, Operate(o) \/ Exit(o)
  PROVE  Moves(o)
<1> USE DEF Shape
<1>1. Fits(op[o]) /\ OpFields \subseteq DOMAIN op[o] /\ DOMAIN op = Ops /\ DOMAIN row = Deps
  BY DEF Fits
<1>2. ASSUME NEW pc \in ActivePcs \cup {"close"}, op' = Moved(o, pc), UNCHANGED <<row, boot, stranded, user>>,
             op[o].pc \notin {"free", "next"}, pc # "settle",
             pc = "close" => op[o].pc = "done"
      PROVE  Moves(o)
  <2> DEFINE t == [op[o] EXCEPT !.pc = pc]
  <2>1. /\ op' = [op EXCEPT ![o] = t] /\ OpFields \subseteq DOMAIN t /\ t.pc = pc
        /\ t.id = op[o].id /\ t.kind = op[o].kind /\ t.rest = op[o].rest
    BY <1>1, <1>2 DEF OpFields, Moved
  <2> HIDE DEF t
  <2> QED BY <1>1, <1>2, <2>1, KeptSame, AdvanceMoves DEF ActivePcs
<1>3. CASE Prepare(o)
  <2>1. PICK pc \in {"launch", "run"} : op' = Moved(o, pc)
    BY <1>3 DEF Prepare
  <2>2. UNCHANGED <<row, boot, stranded, user>> /\ op[o].pc = "start"
    BY <1>3 DEF Prepare, lifeVars
  <2> QED BY <1>2, <2>1, <2>2 DEF ActivePcs
<1>4. CASE PrepareFails(o)
  <2>1. /\ op' = Finished(o) /\ Kept /\ UNCHANGED <<boot, user>> /\ op[o].pc = "start"
        /\ \/ op[o].kind \in {"force", "auto"} /\ row' = row
           \/ row' = Removed(op[o].id) \/ row' = Updated(op[o].id, "failed")
    BY <1>4 DEF PrepareFails, lifeVars
  <2>2. op[o].id \in Deps
    BY <1>1, <2>1 DEF Fits
  <2>3. CASE op[o].kind \in {"force", "auto"} /\ row' = row
    BY <1>1, <2>1, <2>3, FinishMoves DEF Has, Streamed
  <2>4. CASE row' = Removed(op[o].id) \/ row' = Updated(op[o].id, "failed")
    BY <1>1, <2>1, <2>2, <2>4, UpdatedIs, FinishMoves DEF Has
  <2> QED BY <2>1, <2>3, <2>4
<1>5. CASE Launch(o)
  <2> DEFINE t(pc) == [op[o] EXCEPT !.bc = Broadcaster(o), !.pc = pc]
  <2>1. PICK pc \in {"run", "done"} :
          /\ op' = [op EXCEPT ![o].bc = Broadcaster(o), ![o].pc = pc]
          /\ row' = IF pc = "run" THEN row ELSE Updated(op[o].id, "failed")
    BY <1>5 DEF Launch, rowVars
  <2>2. /\ op' = [op EXCEPT ![o] = t(pc)] /\ Kept /\ UNCHANGED <<boot, user>>
        /\ op[o].pc = "launch"
    BY <1>1, <1>5, <2>1, KeptSame DEF Launch, lifeVars, rowVars
  <2>3. /\ OpFields \subseteq DOMAIN t(pc) /\ t(pc).id = op[o].id /\ t(pc).kind = op[o].kind
        /\ t(pc).rest = op[o].rest /\ t(pc).pc = pc
    BY <1>1 DEF OpFields
  <2>4. op[o].id \in Deps
    BY <1>1, <2>2 DEF Fits
  <2> HIDE DEF t
  <2>5. CASE pc = "run"
    BY <1>1, <2>1, <2>2, <2>3, <2>5, AdvanceMoves DEF ActivePcs
  <2>6. CASE pc = "done"
    BY <1>1, <2>1, <2>2, <2>3, <2>4, <2>6, UpdatedIs, AdvanceMoves DEF ActivePcs
  <2> QED BY <2>5, <2>6
<1>6. CASE Exit(o)
  <2> DEFINE t(result) == [op[o] EXCEPT !.result = result, !.pc = "settle"]
  <2>1. PICK result \in Outcomes : op' = [op EXCEPT ![o].result = result, ![o].pc = "settle"]
    BY <1>6 DEF Exit, Outcomes
  <2>2. /\ op' = [op EXCEPT ![o] = t(result)]
        /\ UNCHANGED <<row, boot, stranded, user>> /\ op[o].pc = "run"
    BY <1>1, <1>6, <2>1 DEF Exit, lifeVars, rowVars
  <2>3. /\ OpFields \subseteq DOMAIN t(result) /\ t(result).id = op[o].id
        /\ t(result).kind = op[o].kind /\ t(result).rest = op[o].rest
        /\ t(result).pc = "settle" /\ t(result).result = result
    BY <1>1 DEF OpFields
  <2> HIDE DEF t
  <2> QED BY <1>1, <2>1, <2>2, <2>3, KeptSame, AdvanceMoves DEF ActivePcs
<1>7. CASE Settle(o)
  <2>1. /\ Kept /\ UNCHANGED <<boot, user>> /\ op[o].pc = "settle"
        /\ op[o].id \in Deps /\ op[o].result \in Outcomes
    BY <1>1, <1>7, KeptSame DEF Settle, lifeVars, rowVars, Fits
  <2>2. SettledStatus(op[o].result) \in {"installed", "failed", "cancelled"}
    BY <2>1 DEF SettledStatus, Outcomes
  <2>3. CASE op[o].kind \in Streamed
    <3> DEFINE t == [op[o] EXCEPT !.pc = "done"]
    <3>1. /\ op' = [op EXCEPT ![o] = t]
          /\ row' = Removed(op[o].id) \/ row' = Updated(op[o].id, SettledStatus(op[o].result))
      BY <1>7, <2>3 DEF Settle, Moved, Streamed
    <3>2. /\ OpFields \subseteq DOMAIN t /\ t.pc = "done"
          /\ t.id = op[o].id /\ t.kind = op[o].kind /\ t.rest = op[o].rest
      BY <1>1 DEF OpFields
    <3> HIDE DEF t
    <3> QED BY <1>1, <2>1, <2>2, <3>1, <3>2, UpdatedIs, AdvanceMoves
  <2>4. CASE op[o].kind = "reinstall"
    <3>1. op' = Finished(o) /\ row' = Updated(op[o].id, SettledStatus(op[o].result))
      BY <1>7, <2>4 DEF Settle, Streamed
    <3> QED BY <1>1, <2>1, <2>2, <3>1, UpdatedIs, FinishMoves DEF Has
  <2>5. CASE op[o].kind \in {"force", "auto"}
    <3>1. /\ op' = Finished(o)
          /\ row' = row \/ \E e \in Deps : row' = [row EXCEPT ![e] = "installed"]
      BY <1>7, <2>5 DEF Settle, Streamed, rowVars
    <3>2. /\ DOMAIN row' = Deps
          /\ \A d \in Deps : row'[d] # row[d] => row'[d] \notin InProcess
      BY <1>1, <3>1 DEF InProcess, Busy
    <3>3. \A d \in Deps : Has(op[o], d) => d \in op[o].rest
      BY <2>5 DEF Has, Streamed
    <3> QED BY <1>1, <2>1, <3>1, <3>2, <3>3, FinishMoves
  <2> QED BY <1>7, <2>3, <2>4, <2>5 DEF Settle
<1>8. CASE Broadcast(o)
  <2>1. UNCHANGED <<op, row, boot, stranded, user>>
    BY <1>8 DEF Broadcast, rowVars
  <2> QED BY <1>1, <2>1, KeptSame DEF Moves, MovesTo
<1>9. CASE Done(o)
  BY <1>2, <1>9 DEF Done, rowVars
<1>10. CASE Close(o)
  <2>1. op' = Finished(o) /\ UNCHANGED <<row, boot, stranded, user>> /\ op[o].pc = "close"
    BY <1>10 DEF Close, rowVars, lifeVars
  <2> QED BY <1>1, <2>1, KeptSame, FinishMoves DEF Has, ActivePcs
<1>11. CASE BatchNext(o)
  <2> DEFINE taken(d) == [op[o] EXCEPT !.id = d, !.rest = op[o].rest \ {d}, !.pc = "start"]
             passed(d) == [op[o] EXCEPT !.rest = op[o].rest \ {d}]
             skip(d) == op[o].kind = "install" /\ ~Exists(d)
  <2>1. PICK d \in op[o].rest :
          /\ row' = IF op[o].kind = "install" THEN Updated(d, "installing") ELSE row
          /\ op' = [op EXCEPT ![o] =
                      CASE ~skip(d) -> taken(d)
                        [] skip(d) /\ op[o].rest \ {d} = {} -> Idle
                        [] skip(d) /\ op[o].rest \ {d} # {} -> passed(d)]
    BY <1>11 DEF BatchNext
  <2>2. /\ Kept /\ UNCHANGED <<boot, user>> /\ op[o].pc = "next" /\ d \in Deps
        /\ op[o].kind \in {"install", "reinstall"}
    BY <1>1, <1>11 DEF BatchNext, lifeVars, Fits
  <2>3. /\ OpFields \subseteq DOMAIN taken(d) /\ taken(d).id = d /\ taken(d).kind = op[o].kind
        /\ taken(d).pc = "start" /\ taken(d).rest = op[o].rest \ {d}
    BY <1>1 DEF OpFields
  <2>4. /\ OpFields \subseteq DOMAIN passed(d) /\ passed(d).id = op[o].id
        /\ passed(d).kind = op[o].kind
        /\ passed(d).pc = "next" /\ passed(d).rest = op[o].rest \ {d}
    BY <1>1, <2>2 DEF OpFields
  <2> HIDE DEF taken, passed
  <2>5. DOMAIN row' = Deps /\ \A e \in Deps \ {d} : row'[e] = row[e]
    BY <1>1, <2>1 DEF Updated
  <2>6. CASE op[o].kind = "install" /\ ~Exists(d)
    <3>1. row' = row /\ row[d] \notin InProcess
      BY <2>1, <2>6 DEF Updated, Exists, InProcess, Busy
    <3>2. CASE op' = [op EXCEPT ![o] = Idle] /\ op[o].rest \ {d} = {}
      <4>1. \A e : ~Reinstalls(Idle, e) /\ Idle.kind = "none"
        BY DEF Reinstalls, Idle
      <4>2. \A e \in Deps : e # d => ~Has(op[o], e)
        BY <2>2, <3>2 DEF Has, ActivePcs
      <4> QED BY <1>1, <2>2, <3>1, <3>2, <4>1, <4>2, IdleFits DEF Moves, MovesTo
    <3>3. CASE op' = [op EXCEPT ![o] = passed(d)] /\ op[o].rest \ {d} # {}
      <4>1. Fits(passed(d))
        BY <1>1, <2>2, <2>4 DEF Fits
      <4>2. \A e \in Deps : e # d => (Has(op[o], e) <=> Has(passed(d), e))
        BY <2>2, <2>4 DEF Has, ActivePcs
      <4>3. \A e \in Deps : ~Reinstalls(passed(d), e)
        BY <2>4, <2>6 DEF Reinstalls
      <4> QED BY <1>1, <2>2, <2>4, <3>1, <3>3, <4>1, <4>2, <4>3 DEF Moves, MovesTo
    <3> QED BY <1>1, <2>1, <2>6, <3>2, <3>3
  <2>7. CASE ~(op[o].kind = "install" /\ ~Exists(d))
    <3>1. op' = [op EXCEPT ![o] = taken(d)]
      BY <2>1, <2>7
    <3>2. Fits(taken(d))
      BY <1>1, <2>2, <2>3 DEF Fits
    <3>3. Has(taken(d), d)
      BY <2>2, <2>3 DEF Has, ActivePcs, Streamed
    <3>4. \A e \in Deps : e # d => (Has(op[o], e) => Has(taken(d), e))
      BY <2>2, <2>3 DEF Has, ActivePcs
    <3>5. \A e \in Deps : Reinstalls(taken(d), e) => Reinstalls(op[o], e)
      BY <2>1, <2>3 DEF Reinstalls
    <3> QED BY <1>1, <2>2, <2>3, <2>5, <3>1, <3>2, <3>3, <3>4, <3>5 DEF Moves, MovesTo
  <2> QED BY <2>6, <2>7
<1> QED BY <1>3, <1>4, <1>5, <1>6, <1>7, <1>8, <1>9, <1>10, <1>11 DEF Operate

\* A start-up serves no request, and begins without goroutines; until it is
\* over the only goroutines are those that it started itself.
QuietBoot ==
  /\ boot # "up" => \A u \in Users : user[u] = QuietUser
  /\ boot \in {"down", "merged"} => \A o \in Ops : op[o].pc = "free"
  /\ boot # "up" => \A o \in Ops : op[o].kind \in {"none", "reinstall"}
  /\ boot # "up" => \A d \in stranded : row[d] = "queued"

OwnerInv == Shape /\ QuietBoot /\ OwnedInv

LEMMA ScheduledIs ==
  ASSUME NEW d
  PROVE  /\ Scheduled(d) <=> \E o \in Ops : Reinstalls(op[o], d)
         /\ Scheduled(d)' <=> \E o \in Ops : Reinstalls(op'[o], d)
BY DEF Scheduled, Reinstalls

LEMMA MovesKeep ==
  ASSUME OwnerInv, NEW o \in Ops, Moves(o), op[o].pc # "free"
  PROVE  OwnerInv'
<1> DEFINE t == op'[o]
<1>1. /\ Fits(t) /\ DOMAIN op' = Ops /\ \A q \in Ops \ {o} : op'[q] = op[q]
      /\ DOMAIN row' = Deps
      /\ \A d \in Deps : row'[d] \in InProcess =>
           Has(t, d) \/ (row'[d] = row[d] /\ ~Has(op[o], d))
      /\ \A d \in Deps : Reinstalls(t, d) => Reinstalls(op[o], d)
      /\ t.kind \in {op[o].kind, "none"}
      /\ Kept /\ UNCHANGED <<boot, user>>
  BY DEF Moves, MovesTo
<1>2. Shape'
  BY <1>1 DEF OwnerInv, Shape
<1>3. QuietBoot'
  BY <1>1 DEF OwnerInv, QuietBoot, Kept
<1>4. ASSUME NEW d \in Deps, Watched(d)' PROVE Watched(d)
  <2>1. Scheduled(d)' => Scheduled(d)
    BY <1>1, ScheduledIs
  <2> QED BY <1>1, <1>4, <2>1 DEF Watched
<1>5. ASSUME NEW d \in Deps, row'[d] \in InProcess, row'[d] = "queued" \/ Watched(d)'
      PROVE  Hosts(d)'
  <2>1. CASE Has(t, d)
    BY <2>1 DEF Hosts
  <2>2. CASE row'[d] = row[d] /\ ~Has(op[o], d)
    <3>1. Hosts(d)
      BY <1>4, <1>5, <2>2 DEF OwnerInv, OwnedInv
    <3> QED BY <1>1, <2>2, <3>1 DEF Hosts, Kept, Claims, Queueing, Restoring
  <2> QED BY <1>1, <1>5, <2>1, <2>2
<1> QED BY <1>2, <1>3, <1>5 DEF OwnerInv, OwnedInv

\* A step while the server serves: a row in process gets an owner, or keeps
\* the one it has.
LEMMA ServingKeeps ==
  ASSUME OwnerInv, boot = "up", UNCHANGED boot, Shape',
         \A o \in Ops, d \in Deps : Has(op[o], d) => Has(op'[o], d),
         \A d \in Deps : row'[d] \in InProcess =>
            \/ Hosts(d)'
            \/ /\ row'[d] = row[d]
               /\ d \in stranded => d \in stranded'
               /\ \A u \in Users : Claims(u, d, row[d]) => Hosts(d)'
  PROVE  OwnerInv'
<1>1. QuietBoot'
  BY DEF QuietBoot
<1>2. ASSUME NEW d \in Deps, row'[d] \in InProcess PROVE Hosts(d)'
  <2>1. CASE row'[d] = row[d]
    <3>1. Hosts(d)
      BY <1>2, <2>1 DEF OwnerInv, OwnedInv, Watched
    <3> QED BY <1>2, <2>1, <3>1 DEF Hosts
  <2>2. CASE row'[d] # row[d]
    BY <1>2, <2>2
  <2> QED BY <2>1, <2>2
<1> QED BY <1>1, <1>2 DEF OwnerInv, OwnedInv

\* A goroutine that was free has nothing to settle.
LEMMA FreshOp ==
  ASSUME Shape, NEW o \in Ops, FreeOp(o), NEW t, op' = [op EXCEPT ![o] = t], Fits(t)
  PROVE  /\ DOMAIN op' = Ops /\ op'[o] = t /\ \A q \in Ops \ {o} : op'[q] = op[q]
         /\ \A q \in Ops : Fits(op'[q])
         /\ \A d : ~Has(op[o], d)
         /\ \A q \in Ops, d \in Deps : Has(op[q], d) => Has(op'[q], d)
BY DEF Shape, FreeOp, Fits, Has, ActivePcs

LEMMA SpawnedIs ==
  ASSUME NEW o \in Ops, NEW kind \in Kinds, NEW d \in Deps, NEW restore \in BOOLEAN,
         op' = Spawned(o, kind, d, {}, restore)
  PROVE  \E t : /\ op' = [op EXCEPT ![o] = t]
                /\ Fits(t) /\ t.kind = kind /\ t.id = d /\ t.pc = "start" /\ t.rest = {}
                /\ kind \in Streamed \cup {"reinstall"} => Has(t, d)
<1> DEFINE s == [Idle EXCEPT !.kind = kind, !.id = d, !.pc = "start", !.rest = {}, !.restore = restore]
<1>1. /\ OpFields \subseteq DOMAIN s /\ s.kind = kind /\ s.id = d /\ s.pc = "start" /\ s.rest = {}
      /\ Spawned(o, kind, d, {}, restore) = [op EXCEPT ![o] = s]
  BY DEF Idle, OpFields, Spawned
<1> HIDE DEF s
<1>2. Fits(s) /\ (kind \in Streamed \cup {"reinstall"} => Has(s, d))
  BY <1>1 DEF Fits, Has, ActivePcs
<1> QED BY <1>1, <1>2

BatchOp(kind, ids, restore) ==
  [Idle EXCEPT !.kind = kind, !.pc = "next", !.rest = ids, !.restore = restore]
LEMMA BatchIs ==
  ASSUME NEW o, NEW kind, kind \in {"install", "reinstall"}, NEW ids, ids \subseteq Deps, NEW restore
  PROVE  LET t == BatchOp(kind, ids, restore) IN
         /\ SpawnedBatch(o, kind, ids, restore) = [op EXCEPT ![o] = t]
         /\ Fits(t) /\ t.kind = kind /\ t.id = NoOp /\ t.rest = ids /\ t.pc = "next"
<1> DEFINE b == BatchOp(kind, ids, restore)
<1>1. /\ OpFields \subseteq DOMAIN b /\ b.kind = kind /\ b.id = NoOp /\ b.pc = "next" /\ b.rest = ids
      /\ SpawnedBatch(o, kind, ids, restore) = [op EXCEPT ![o] = b]
  BY DEF Idle, OpFields, SpawnedBatch, BatchOp
<1> HIDE DEF b
<1>2. Fits(b)
  BY <1>1 DEF Fits
<1> QED BY <1>1, <1>2 DEF b

\* A batch of reinstalls, or none when there is nothing to reinstall.
LEMMA SourceOp ==
  ASSUME Shape, NEW o \in Ops, FreeOp(o), NEW ids \in SUBSET Deps, NEW restore \in BOOLEAN,
         op' = IF ids = {} THEN op ELSE SpawnedBatch(o, "reinstall", ids, restore)
  PROVE  /\ DOMAIN op' = Ops /\ \A q \in Ops : Fits(op'[q])
         /\ \A q \in Ops, d \in Deps : Has(op[q], d) => Has(op'[q], d)
         /\ \A d \in ids : Has(op'[o], d)
         /\ \A q \in Ops \ {o} : op'[q] = op[q]
         /\ op'[o].kind \in {"none", "reinstall"}
         /\ \A d \in Deps : Reinstalls(op'[o], d) => d \in ids
<1>1. DOMAIN op = Ops /\ \A q \in Ops : Fits(op[q])
  BY DEF Shape
<1>2. CASE ids = {}
  BY <1>1, <1>2 DEF FreeOp, Fits, Reinstalls
<1>3. CASE ids # {}
  <2>1. PICK kind \in {"install", "reinstall"} :
          kind = "reinstall" /\ op' = SpawnedBatch(o, kind, ids, restore)
    BY <1>3
  <2>2. PICK t : op' = [op EXCEPT ![o] = t] /\ Fits(t) /\ t.kind = kind /\ t.id = NoOp
                 /\ t.rest = ids
    <3>1. op' = SpawnedBatch(o, kind, ids, restore)
      BY <2>1
    <3>2. PICK t : t = BatchOp(kind, ids, restore)
      OBVIOUS
    <3>3. /\ SpawnedBatch(o, kind, ids, restore) = [op EXCEPT ![o] = t]
          /\ Fits(t) /\ t.kind = kind /\ t.id = NoOp /\ t.rest = ids
      BY <3>1, <3>2, BatchIs
    <3> QED BY <3>1, <3>3
  <2>3. /\ \A d \in ids : Has(t, d)
        /\ \A d \in Deps : Reinstalls(t, d) => d \in ids
    BY <2>2, DependencyAssumption DEF Has, Reinstalls
  <2> QED BY <2>1, <2>2, <2>3, FreshOp
<1> QED BY <1>2, <1>3

LEMMA RespondOwned ==
  ASSUME OwnerInv, NEW u \in Users, Respond(u)
  PROVE  OwnerInv'
<1> DEFINE me == user[u]
<1>1. /\ {"req", "ids", "todo"} \subseteq DOMAIN me /\ me.todo \subseteq me.ids /\ me.ids \subseteq Deps
      /\ DOMAIN user = Users /\ DOMAIN row = Deps /\ DOMAIN op = Ops /\ Shape
      /\ \A v \in Users : FitsUser(user[v])
  BY DEF OwnerInv, Shape, FitsUser
<1>2. FitsUser(QuietUser) /\ QuietUser.req = "none"
  BY DEF FitsUser, QuietUser
<1>3. me.req # "none" => boot = "up"
  BY <1>2 DEF OwnerInv, QuietBoot
<1>4. ASSUME Answer(u)
      PROVE  /\ DOMAIN user' = Users /\ \A v \in Users : FitsUser(user'[v])
             /\ \A d \in Deps, v \in Users : \A s :
                  Claims(v, d, s)
                  /\ (v = u => me.req \notin {"batchReinstall", "restore"} \/ d \notin me.ids)
                  => Claims(v, d, s)'
  <2>1. DOMAIN user' = Users /\ user'[u] = QuietUser /\ \A v \in Users \ {u} : user'[v] = user[v]
    BY <1>1, <1>4 DEF Answer
  <2>2. ASSUME NEW d \in Deps, NEW v \in Users, NEW s, Claims(v, d, s),
               v = u => me.req \notin {"batchReinstall", "restore"} \/ d \notin me.ids
        PROVE  Claims(v, d, s)'
    BY <2>1, <2>2 DEF Claims, Queueing, Restoring
  <2> QED BY <1>1, <1>2, <2>1, <2>2
<1>5. ASSUME NEW o \in Ops, Submit(u, o) PROVE OwnerInv'
  <2>1. PICK d \in me.todo :
          \/ /\ me.req \in {"create", "delete", "reinstall"}
             /\ \E kind \in Streamed : op' = Spawned(o, kind, d, {}, FALSE)
             /\ \E s : row' = [row EXCEPT ![d] = s] \/ row' = row
          \/ /\ me.req = "force"
             /\ op' = Spawned(o, "force", d, {}, FALSE)
             /\ row' = Removed(d)
    BY <1>5 DEF Submit, Streamed, Updated
  <2>2. /\ FreeOp(o) /\ Answer(u) /\ UNCHANGED boot /\ Kept /\ d \in Deps
    BY <1>1, <1>5 DEF Submit, lifeVars
  <2>3. PICK t : /\ op' = [op EXCEPT ![o] = t] /\ Fits(t)
                 /\ me.req # "force" => Has(t, d)
    <3>1. PICK kind \in Kinds : op' = Spawned(o, kind, d, {}, FALSE)
                                /\ (me.req # "force" => kind \in Streamed)
      BY <2>1 DEF Kinds
    <3> QED BY <2>2, <3>1, SpawnedIs
  <2>4. /\ DOMAIN op' = Ops /\ op'[o] = t /\ \A q \in Ops : Fits(op'[q])
        /\ \A q \in Ops, e \in Deps : Has(op[q], e) => Has(op'[q], e)
    BY <1>1, <2>2, <2>3, FreshOp
  <2>5. DOMAIN row' = Deps /\ \A e \in Deps : row'[e] = row[e] \/ Has(t, e) \/ row'[e] \notin InProcess
    BY <1>1, <2>1, <2>3, UpdatedIs
  <2>6. Shape'
    BY <1>4, <2>2, <2>4, <2>5 DEF Shape
  <2>7. \A e \in Deps, v \in Users : \A s : Claims(v, e, s) => Claims(v, e, s)'
    BY <1>4, <2>1, <2>2
  <2>8. ASSUME NEW e \in Deps, row'[e] \in InProcess
        PROVE  \/ Hosts(e)'
               \/ /\ row'[e] = row[e]
                  /\ e \in stranded => e \in stranded'
                  /\ \A v \in Users : Claims(v, e, row[e]) => Hosts(e)'
    BY <2>2, <2>4, <2>5, <2>7, <2>8 DEF Hosts, Kept
  <2> QED BY <1>3, <2>1, <2>2, <2>4, <2>6, <2>8, ServingKeeps
<1>6. ASSUME NEW o \in Ops, BatchDeleteRow(u, o) PROVE OwnerInv'
  <2>1. PICK d \in me.todo :
          /\ me.req = "batchDelete" /\ FreeOp(o) /\ UNCHANGED boot /\ Kept
          /\ op' = Spawned(o, "force", d, {}, FALSE)
          /\ row' = Removed(d)
          /\ user' = [user EXCEPT ![u] = QuietUser]
             \/ user' = [user EXCEPT ![u].todo = me.todo \ {d}]
    BY <1>6 DEF BatchDeleteRow, lifeVars
  <2>2. PICK t : op' = [op EXCEPT ![o] = t] /\ Fits(t)
    BY <1>1, <2>1, SpawnedIs DEF Kinds
  <2>3. /\ DOMAIN op' = Ops /\ \A q \in Ops : Fits(op'[q])
        /\ \A q \in Ops, e \in Deps : Has(op[q], e) => Has(op'[q], e)
    BY <1>1, <2>1, <2>2, FreshOp
  <2>4. DOMAIN row' = Deps /\ \A e \in Deps : row'[e] = row[e] \/ row'[e] \notin InProcess
    BY <1>1, <2>1, UpdatedIs
  <2>5. DOMAIN user' = Users /\ \A v \in Users : FitsUser(user'[v])
    BY <1>1, <1>2, <2>1 DEF FitsUser
  <2>6. \A e \in Deps, v \in Users : \A s : Claims(v, e, s) => Claims(v, e, s)'
    BY <1>1, <2>1 DEF Claims, Queueing, Restoring
  <2>7. Shape'
    BY <2>3, <2>4, <2>5 DEF Shape
  <2>8. ASSUME NEW e \in Deps, row'[e] \in InProcess
        PROVE  \/ Hosts(e)'
               \/ /\ row'[e] = row[e]
                  /\ e \in stranded => e \in stranded'
                  /\ \A v \in Users : Claims(v, e, row[e]) => Hosts(e)'
    BY <2>1, <2>4, <2>6, <2>8 DEF Hosts, Kept
  <2> QED BY <1>3, <2>1, <2>3, <2>7, <2>8, ServingKeeps
<1>7. ASSUME NEW o \in Ops, StartBatch(u, o) PROVE OwnerInv'
  <2>1. /\ me.req = "batchReinstall" /\ FreeOp(o) /\ UNCHANGED <<row, boot, stranded>> /\ Answer(u)
        /\ op' = SpawnedBatch(o, "install", me.ids, FALSE)
    BY <1>7 DEF StartBatch, rowVars, lifeVars
  <2>2. PICK t : op' = [op EXCEPT ![o] = t] /\ Fits(t) /\ t.rest = me.ids
    <3>1. PICK kind \in {"install", "reinstall"}, ids \in SUBSET Deps, restore \in BOOLEAN :
            ids = me.ids /\ op' = SpawnedBatch(o, kind, ids, restore)
      BY <1>1, <2>1
    <3>2. PICK t : t = BatchOp(kind, ids, restore)
      OBVIOUS
    <3>3. /\ SpawnedBatch(o, kind, ids, restore) = [op EXCEPT ![o] = t]
          /\ Fits(t) /\ t.kind = kind /\ t.id = NoOp /\ t.rest = ids
      BY <3>1, <3>2, BatchIs
    <3> QED BY <3>1, <3>3
  <2>3. /\ DOMAIN op' = Ops /\ op'[o] = t /\ \A q \in Ops : Fits(op'[q])
        /\ \A q \in Ops, e \in Deps : Has(op[q], e) => Has(op'[q], e)
    BY <1>1, <2>1, <2>2, FreshOp
  <2>4. Shape'
    BY <1>1, <1>4, <2>1, <2>3 DEF Shape
  <2>5. ASSUME NEW e \in Deps, NEW v \in Users, Claims(v, e, row[e]) PROVE Hosts(e)'
    <3>1. CASE e \in me.ids
      <4>1. Has(op'[o], e)
        BY <2>2, <2>3, <3>1 DEF Has
      <4> QED BY <4>1 DEF Hosts
    <3>2. CASE e \notin me.ids
      BY <1>4, <2>1, <2>5, <3>2 DEF Hosts
    <3> QED BY <3>1, <3>2
  <2> QED BY <1>3, <2>1, <2>3, <2>4, <2>5, ServingKeeps
<1>8. CASE QueueRow(u)
  <2>1. PICK d \in me.todo :
          /\ me.req = "batchReinstall" /\ UNCHANGED <<op, boot>> /\ Kept
          /\ row' = Updated(d, "queued")
          /\ user' = [user EXCEPT ![u].todo = me.todo \ {d}]
    BY <1>8 DEF QueueRow, lifeVars
  <2>2. DOMAIN user' = Users /\ \A v \in Users : FitsUser(user'[v])
    BY <1>1, <2>1 DEF FitsUser
  <2>3. \A e \in Deps, v \in Users : \A s : Claims(v, e, s) => Claims(v, e, s)'
    BY <1>1, <2>1 DEF Claims, Queueing, Restoring
  <2>4. DOMAIN row' = Deps /\ \A e \in Deps \ {d} : row'[e] = row[e]
    BY <1>1, <2>1 DEF Updated
  <2>5. d \in Deps /\ (row'[d] \in InProcess => Claims(u, d, row[d])')
    BY <1>1, <2>1 DEF Claims, Queueing, Updated, Exists, InProcess, Busy
  <2>6. Shape'
    BY <1>1, <2>1, <2>2, <2>4 DEF Shape
  <2>7. ASSUME NEW e \in Deps, row'[e] \in InProcess
        PROVE  \/ Hosts(e)'
               \/ /\ row'[e] = row[e]
                  /\ e \in stranded => e \in stranded'
                  /\ \A v \in Users : Claims(v, e, row[e]) => Hosts(e)'
    BY <2>1, <2>3, <2>4, <2>5, <2>7 DEF Hosts, Kept
  <2> QED BY <1>3, <2>1, <2>6, <2>7, ServingKeeps
<1>9. CASE Cancel(u)
  <2>1. PICK d : /\ op' = IF opOf[d] = NoOp THEN op ELSE [op EXCEPT ![opOf[d]].cancel = TRUE]
                 /\ me.req = "cancel" /\ Answer(u) /\ UNCHANGED <<row, boot, stranded>>
    BY <1>9 DEF Cancel, rowVars, lifeVars
  <2>2. DOMAIN op' = Ops
    BY <1>1, <2>1
  <2>3. ASSUME NEW q \in Ops
        PROVE  /\ Fits(op'[q]) /\ \A e \in Deps : Has(op[q], e) => Has(op'[q], e)
    <3>1. op'[q] = op[q] \/ op'[q] = [op[q] EXCEPT !.cancel = TRUE]
      BY <1>1, <2>1
    <3>2. Fits(op[q])
      BY <1>1 DEF Shape
    <3> QED BY <3>1, <3>2 DEF Fits, Has, OpFields
  <2>4. Shape'
    BY <1>1, <1>4, <2>1, <2>2, <2>3 DEF Shape
  <2> QED BY <1>3, <1>4, <2>1, <2>3, <2>4, ServingKeeps DEF Hosts
<1>10. CASE RestoreFails(u)
  <2>1. /\ me.req = "restore" /\ Answer(u) /\ UNCHANGED <<op, row, boot>>
        /\ stranded' = stranded \cup {d \in me.ids : row[d] = "installing"}
    BY <1>10 DEF RestoreFails, lifeVars
  <2>2. Shape'
    BY <1>1, <1>4, <2>1 DEF Shape
  <2>3. ASSUME NEW e \in Deps, row[e] \in InProcess, NEW v \in Users, Claims(v, e, row[e])
        PROVE  Hosts(e)'
    <3>1. CASE v = u
      BY <2>1, <2>3, <3>1 DEF Hosts, Claims, Queueing, Restoring
    <3>2. CASE v # u
      BY <1>4, <2>1, <2>3, <3>2 DEF Hosts
    <3> QED BY <3>1, <3>2
  <2> QED BY <1>3, <2>1, <2>2, <2>3, ServingKeeps
<1>11. ASSUME NEW o \in Ops, dependencyReinstallBatchFunc(u, o) PROVE OwnerInv'
  <2>1. /\ me.req = "restore" /\ FreeOp(o) /\ UNCHANGED <<row, boot, stranded>> /\ Answer(u)
        /\ op' = IF me.ids = {} THEN op ELSE SpawnedBatch(o, "reinstall", me.ids, TRUE)
    BY <1>11 DEF dependencyReinstallBatchFunc, rowVars, lifeVars
  <2>2. me.ids \in SUBSET Deps
    BY <1>1
  <2>3. /\ DOMAIN op' = Ops /\ \A q \in Ops : Fits(op'[q])
        /\ \A q \in Ops, d \in Deps : Has(op[q], d) => Has(op'[q], d)
        /\ \A d \in me.ids : Has(op'[o], d)
    BY <1>1, <2>1, <2>2, SourceOp
  <2>4. Shape'
    BY <1>1, <1>4, <2>1, <2>3 DEF Shape
  <2>5. ASSUME NEW e \in Deps, NEW v \in Users, Claims(v, e, row[e]) PROVE Hosts(e)'
    <3>1. CASE e \in me.ids
      BY <2>3, <3>1 DEF Hosts
    <3>2. CASE e \notin me.ids
      BY <1>4, <2>1, <2>5, <3>2 DEF Hosts
    <3> QED BY <3>1, <3>2
  <2> QED BY <1>3, <2>1, <2>3, <2>4, <2>5, ServingKeeps
<1> QED BY <1>5, <1>6, <1>7, <1>8, <1>9, <1>10, <1>11 DEF Respond

LEMMA SourcesOwned ==
  ASSUME OwnerInv,
         \/ \E o \in Ops, d \in Deps : AutoInstall(o, d)
         \/ \E u \in Users, new \in SUBSET Deps : restoreDependencies(u, new)
  PROVE  OwnerInv'
<1>1. Shape /\ DOMAIN row = Deps /\ DOMAIN op = Ops /\ DOMAIN user = Users
  BY DEF OwnerInv, Shape
<1>2. ASSUME NEW o \in Ops, NEW d \in Deps, AutoInstall(o, d) PROVE OwnerInv'
  <2>1. /\ FreeOp(o) /\ boot = "up" /\ UNCHANGED <<row, boot, stranded, user>>
        /\ \E kind \in Kinds, restore \in BOOLEAN : op' = Spawned(o, kind, d, {}, restore)
    BY <1>2 DEF AutoInstall, rowVars, Kinds
  <2>2. PICK t : op' = [op EXCEPT ![o] = t] /\ Fits(t)
    BY <2>1, SpawnedIs
  <2>3. /\ DOMAIN op' = Ops /\ \A q \in Ops : Fits(op'[q])
        /\ \A q \in Ops, e \in Deps : Has(op[q], e) => Has(op'[q], e)
    BY <1>1, <2>1, <2>2, FreshOp
  <2>4. Shape'
    BY <1>1, <2>1, <2>3 DEF Shape
  <2>5. \A e \in Deps, v \in Users : \A s : Claims(v, e, s) => Claims(v, e, s)'
    BY <2>1 DEF Claims, Queueing, Restoring
  <2> QED BY <2>1, <2>3, <2>4, <2>5, ServingKeeps DEF Hosts
<1>3. ASSUME NEW u \in Users, NEW new \in SUBSET Deps, restoreDependencies(u, new) PROVE OwnerInv'
  <2> DEFINE missing == {d \in new : PkgOf[d] \notin present}
             t == [req |-> "restore", ids |-> missing, todo |-> missing]
  <2>1. /\ boot = "up" /\ UNCHANGED <<boot, op>> /\ user' = [user EXCEPT ![u] = t]
        /\ row' = [d \in Deps |-> IF d \in new
                                  THEN IF d \in missing THEN "installing" ELSE "installed"
                                  ELSE IF Exists(d) THEN "gone" ELSE row[d]]
    BY <1>3 DEF restoreDependencies
  <2>2. missing \in SUBSET Deps
    OBVIOUS
  <2>3. /\ DOMAIN row' = Deps
        /\ \A d \in Deps : row'[d] \in InProcess => row'[d] = "installing" /\ d \in missing
    BY <2>1 DEF Exists, InProcess, Busy
  <2>4. t.req = "restore" /\ t.ids = missing /\ FitsUser(t)
    BY <2>2 DEF FitsUser
  <2> HIDE DEF missing, t
  <2>5. user'[u] = t /\ Shape'
    BY <1>1, <2>1, <2>3, <2>4 DEF Shape
  <2>6. ASSUME NEW d \in Deps, row'[d] \in InProcess PROVE Hosts(d)'
    BY <2>3, <2>4, <2>5, <2>6 DEF Hosts, Claims, Restoring
  <2> QED BY <2>1, <2>5, <2>6, ServingKeeps
<1> QED BY <1>2, <1>3

\* The first half of the reconciliation finds no goroutine and leaves only its
\* own; what it schedules is what it marks.
LEMMA ReconcileInstalledOwned ==
  ASSUME OwnerInv, NEW o \in Ops, ReconcileInstalled(o)
  PROVE  OwnerInv'
<1>1. /\ FreeOp(o) /\ boot = "merged" /\ boot' = "reconciling" /\ UNCHANGED user /\ Kept
      /\ op' = IF Lost = {} THEN op ELSE SpawnedBatch(o, "reinstall", Lost, FALSE)
      /\ row' = [d \in Deps |-> IF d \in Lost THEN "installing" ELSE row[d]]
  BY DEF ReconcileInstalled
<1>2. Shape /\ DOMAIN row = Deps /\ Lost \in SUBSET Deps
  BY DEF OwnerInv, Shape, Lost
<1>3. /\ DOMAIN op' = Ops /\ \A q \in Ops : Fits(op'[q])
      /\ \A q \in Ops, d \in Deps : Has(op[q], d) => Has(op'[q], d)
      /\ \A d \in Lost : Has(op'[o], d)
      /\ \A q \in Ops \ {o} : op'[q] = op[q]
      /\ op'[o].kind \in {"none", "reinstall"}
      /\ \A d \in Deps : Reinstalls(op'[o], d) => d \in Lost
  BY <1>1, <1>2, SourceOp
<1>4. Shape'
  BY <1>1, <1>2, <1>3 DEF Shape
<1>5. QuietBoot'
  BY <1>1, <1>3 DEF OwnerInv, QuietBoot, Kept
<1>6. \A q \in Ops, d \in Deps : ~Reinstalls(op[q], d)
  BY <1>1 DEF OwnerInv, Shape, QuietBoot, Fits, Reinstalls
<1>7. ASSUME NEW d \in Deps, Watched(d)' PROVE \E q \in Ops : Has(op'[q], d)
  <2>1. Scheduled(d)'
    BY <1>1, <1>7 DEF Watched
  <2> QED BY <1>3, <1>6, <2>1, ScheduledIs
<1>8. ASSUME NEW d \in Deps, row'[d] = "queued" PROVE Hosts(d)'
  <2>1. row[d] = "queued" /\ Hosts(d)
    BY <1>1, <1>8 DEF OwnerInv, OwnedInv, InProcess
  <2> QED BY <1>1, <1>3, <1>8, <2>1 DEF Hosts, Kept, Claims, Queueing, Restoring
<1> QED BY <1>4, <1>5, <1>7, <1>8 DEF OwnerInv, OwnedInv, Hosts

\* The second half passes over the rows whose goroutine the first half has
\* started, and starts one for every other row that it leaves installing.
LEMMA ReconcileStaleOwned ==
  ASSUME OwnerInv, NEW o \in Ops, ReconcileStale(o)
  PROVE  OwnerInv'
<1> DEFINE resume == {d \in Stale : PkgOf[d] \notin present /\ shouldResumeRestoredDependency(d)}
<1>1. /\ FreeOp(o) /\ boot = "reconciling" /\ boot' = "reconciled" /\ UNCHANGED user /\ Kept
      /\ op' = IF resume = {} THEN op ELSE SpawnedBatch(o, "reinstall", resume, TRUE)
      /\ row' = [d \in Deps |-> IF d \notin Stale THEN row[d]
                                ELSE IF PkgOf[d] \in present THEN "installed"
                                ELSE IF d \in resume THEN "installing" ELSE "failed"]
  BY DEF ReconcileStale
<1>2. Shape /\ DOMAIN row = Deps /\ resume \in SUBSET Deps
  BY DEF OwnerInv, Shape, Stale
<1> HIDE DEF resume
<1>3. /\ DOMAIN op' = Ops /\ \A q \in Ops : Fits(op'[q])
      /\ \A q \in Ops, d \in Deps : Has(op[q], d) => Has(op'[q], d)
      /\ \A d \in resume : Has(op'[o], d)
      /\ \A q \in Ops \ {o} : op'[q] = op[q]
      /\ op'[o].kind \in {"none", "reinstall"}
  BY <1>1, <1>2, SourceOp
<1>4. Shape'
  BY <1>1, <1>2, <1>3 DEF Shape
<1>5. QuietBoot'
  BY <1>1, <1>3 DEF OwnerInv, QuietBoot, Kept
<1>6. ASSUME NEW d \in Deps, row'[d] \in Busy PROVE \E q \in Ops : Has(op'[q], d)
  <2>1. CASE d \in Stale
    BY <1>1, <1>3, <1>6, <2>1 DEF Busy
  <2>2. CASE d \notin Stale
    <3>1. row[d] \in Busy /\ Scheduled(d)
      BY <1>1, <1>6, <2>2 DEF Stale
    <3>2. \E q \in Ops : Has(op[q], d)
      BY <1>1, <3>1 DEF OwnerInv, OwnedInv, Watched, Hosts, QuietBoot, QuietUser, InProcess, Busy,
                        Claims, Queueing, Restoring
    <3> QED BY <1>3, <3>2
  <2> QED BY <2>1, <2>2
<1>7. ASSUME NEW d \in Deps, row'[d] = "queued" PROVE Hosts(d)'
  <2>1. row[d] = "queued" /\ Hosts(d)
    BY <1>1, <1>7 DEF OwnerInv, OwnedInv, InProcess
  <2> QED BY <1>1, <1>3, <1>7, <2>1 DEF Hosts, Kept, Claims, Queueing, Restoring
<1> QED BY <1>4, <1>5, <1>6, <1>7 DEF OwnerInv, OwnedInv, InProcess, Hosts

LEMMA RestOwned ==
  ASSUME OwnerInv,
         \/ \E u \in Users : Check(u)
         \/ \E r \in Readers, d \in Deps : LogStream(r, d)
         \/ \E r \in Readers : subscribe(r) \/ unsubscribe(r)
         \/ CliMerge \/ Start \/ Serve \/ Crash \/ UNCHANGED depVars
  PROVE  OwnerInv'
<1>1. Shape /\ DOMAIN row = Deps /\ DOMAIN op = Ops /\ DOMAIN user = Users
  BY DEF OwnerInv, Shape
<1>2. ASSUME UNCHANGED <<op, row, boot, stranded>>, NEW v, user' = v,
             \/ v = user
             \/ boot = "up" /\ \E t : \E u \in Users : /\ v = [user EXCEPT ![u] = t] /\ FitsUser(t)
                                                       /\ user[u] = QuietUser
      PROVE  OwnerInv'
  <2>1. Shape'
    BY <1>1, <1>2 DEF Shape
  <2>2. \A d \in Deps, u \in Users : \A s : Claims(u, d, s) => Claims(u, d, s)'
    BY <1>1, <1>2 DEF Claims, Queueing, Restoring, QuietUser
  <2>3. QuietBoot'
    BY <1>1, <1>2 DEF OwnerInv, QuietBoot
  <2>4. \A d \in Deps : Watched(d)' <=> Watched(d)
    BY <1>2 DEF Watched, Scheduled
  <2> QED BY <1>2, <2>1, <2>2, <2>3, <2>4 DEF OwnerInv, OwnedInv, Hosts
<1>3. ASSUME NEW u \in Users, Check(u) PROVE OwnerInv'
  <2>1. PICK req, ids : ids \subseteq Deps /\ Accept(u, req, ids)
    BY <1>3 DEF Check, CreateCheck, CheckCancel, CheckRow, CheckRows
  <2> DEFINE t == [req |-> req, ids |-> ids, todo |-> ids]
  <2>2. FitsUser(t)
    BY <2>1 DEF FitsUser
  <2>3. /\ user' = [user EXCEPT ![u] = t] /\ boot = "up" /\ user[u] = QuietUser
        /\ UNCHANGED <<op, row, boot, stranded>>
    BY <2>1 DEF Accept, rowVars
  <2> HIDE DEF t
  <2> QED BY <1>2, <2>2, <2>3
<1>4. ASSUME \/ \E r \in Readers, d \in Deps : LogStream(r, d)
             \/ \E r \in Readers : subscribe(r) \/ unsubscribe(r)
             \/ UNCHANGED depVars
      PROVE  OwnerInv'
  BY <1>2, <1>4 DEF LogStream, subscribe, unsubscribe, rowVars, lifeVars, depVars
<1>5. ASSUME Merge PROVE DOMAIN row' = Deps /\ \A d \in Deps : row'[d] # row[d] => row'[d] = "gone"
  BY <1>1, <1>5 DEF Merge
<1>6. CASE CliMerge
  <2>1. UNCHANGED <<op, boot, user>> /\ boot = "up" /\ Merge /\ Kept
    BY <1>6 DEF CliMerge, Merge, lifeVars
  <2>2. Shape'
    BY <1>1, <1>5, <2>1 DEF Shape
  <2>3. \A d \in Deps, u \in Users : \A s : Claims(u, d, s) => Claims(u, d, s)'
    BY <2>1 DEF Claims, Queueing, Restoring
  <2> QED BY <1>5, <2>1, <2>2, <2>3, ServingKeeps DEF Hosts, InProcess, Busy, Kept
<1>7. CASE Start
  <2>1. /\ UNCHANGED <<op, user>> /\ boot = "down" /\ boot' = "merged" /\ Merge /\ Kept
    BY <1>7 DEF Start, Merge
  <2>2. Shape' /\ QuietBoot'
    BY <1>1, <1>5, <2>1 DEF OwnerInv, Shape, QuietBoot, Kept
  <2>3. \A d \in Deps : ~Watched(d)'
    BY <2>1 DEF Watched
  <2>4. ASSUME NEW d \in Deps, row'[d] = "queued" PROVE Hosts(d)'
    <3>1. row[d] = "queued" /\ Hosts(d)
      BY <1>5, <2>1, <2>4 DEF OwnerInv, OwnedInv, InProcess
    <3> QED BY <2>1, <2>4, <3>1 DEF Hosts, Kept, Claims, Queueing, Restoring
  <2> QED BY <2>2, <2>3, <2>4 DEF OwnerInv, OwnedInv
<1>8. CASE Serve
  <2>1. UNCHANGED <<op, row, stranded, user>> /\ boot = "reconciled" /\ boot' = "up"
    BY <1>8 DEF Serve, rowVars
  <2>2. Shape' /\ QuietBoot'
    BY <1>1, <2>1 DEF OwnerInv, Shape, QuietBoot
  <2>3. \A d \in Deps : Hosts(d) => Hosts(d)'
    BY <2>1 DEF Hosts, Claims, Queueing, Restoring
  <2> QED BY <2>1, <2>2, <2>3 DEF OwnerInv, OwnedInv, Watched
<1>9. CASE Crash
  <2>1. /\ op' = [o \in Ops |-> Idle] /\ user' = [u \in Users |-> QuietUser]
        /\ boot' = "down" /\ stranded' = {d \in Deps : row[d] = "queued"} /\ row' = row
    BY <1>9 DEF Crash
  <2>2. FitsUser(QuietUser)
    BY DEF FitsUser, QuietUser
  <2>3. Shape' /\ QuietBoot'
    BY <1>1, <2>1, <2>2, IdleFits DEF Shape, QuietBoot, Idle
  <2> QED BY <2>1, <2>3 DEF OwnerInv, OwnedInv, Watched, Hosts
<1> QED BY <1>3, <1>4, <1>6, <1>7, <1>8, <1>9

LEMMA OwnerInvKept == OwnerInv /\ [Next]_depVars => OwnerInv'
<1> SUFFICES ASSUME OwnerInv, [Next]_depVars PROVE OwnerInv'
  OBVIOUS
<1>1. ASSUME NEW o \in Ops, Operate(o) \/ Exit(o) PROVE OwnerInv'
  <2>1. Moves(o)
    BY <1>1, OperateMoves DEF OwnerInv
  <2>2. op[o].pc # "free"
    BY <1>1 DEF Operate, Prepare, PrepareFails, Launch, Settle, Broadcast, Done, Close, BatchNext, Exit
  <2> QED BY <2>1, <2>2, MovesKeep
<1> QED BY <1>1, RespondOwned, SourcesOwned, ReconcileInstalledOwned, ReconcileStaleOwned, RestOwned
        DEF Next, Boot

LEMMA OwnerInvInit == DepInit => OwnerInv
<1> SUFFICES ASSUME DepInit PROVE OwnerInv
  OBVIOUS
<1>1. FitsUser(QuietUser)
  BY DEF FitsUser, QuietUser
<1>2. Shape
  BY <1>1, IdleFits DEF DepInit, Shape
<1>3. \A d \in Deps : row[d] \notin InProcess
  BY DEF DepInit, InProcess, Busy
<1> QED BY <1>2, <1>3 DEF OwnerInv, QuietBoot, OwnedInv, DepInit, InProcess

\* However the handlers, the goroutines, the scripts, the restores and the
\* start-up overlap: once the reconciliation is over, a row that says
\* installing, removing or queued has somebody who will write it, but for the
\* rows that were queued when a process died and those of a restore that failed
\* after it had committed them.
THEOREM BusyRowsHaveOwners == DepSpec => []BusyRowHasOwner
<1>1. OwnerInv => BusyRowHasOwner
  <2>1. ASSUME Shape, NEW o \in Ops, NEW d \in Deps, Has(op[o], d) PROVE Pending(o, d)
    BY <2>1 DEF Shape, Fits, Has, Pending, ActivePcs
  <2>2. ASSUME OwnerInv, boot \in {"reconciled", "up"}, NEW d \in Deps, row[d] \in InProcess
        PROVE  Hosts(d)
    BY <2>2 DEF OwnerInv, OwnedInv, Watched
  <2> QED BY <2>1, <2>2 DEF OwnerInv, BusyRowHasOwner, Hosts, Claims
<1> QED BY <1>1, OwnerInvKept, OwnerInvInit, PTL DEF DepSpec

-----------------------------------------------------------------------------
\* While the server starts up, an installed row has its package, a reinstall
\* that succeeded has, and what is left of removals waits for the second half
\* of the reconciliation.
TruthInv == boot \in {"reconciling", "reconciled"} =>
  /\ \A d \in Deps : row[d] = "installed" => PkgOf[d] \in present
  /\ \A o \in Ops : op[o].pc = "settle" /\ op[o].result = "ok" => PkgOf[op[o].id] \in present
  /\ \A d \in Deps : row[d] = "removing" => boot = "reconciling" /\ ~Scheduled(d)
TwinInv == boot \in {"merged", "reconciling", "reconciled"} =>
  \A d, e \in Deps : d \in Twins(e) /\ e \in Twins(e) => d = e

\* What a goroutine may do before the server serves: packages are only added,
\* a row becomes installed after its package is there, and none appears.
LEMMA StartupOperates ==
  ASSUME OwnerInv, boot # "up", TruthInv, boot \in {"reconciling", "reconciled"},
         NEW o \in Ops, Operate(o) \/ Exit(o)
  PROVE  /\ \A p \in present : p \in present'
         /\ \A d \in Deps : \/ row'[d] = row[d]
                            \/ row'[d] \in {"failed", "cancelled"} /\ Exists(d)
                            \/ row'[d] = "gone"
                            \/ row'[d] = "installed" /\ PkgOf[d] \in present /\ Exists(d)
         /\ op'[o].pc = "settle" /\ op'[o].result = "ok" => PkgOf[op'[o].id] \in present'
<1>1. /\ DOMAIN row = Deps /\ DOMAIN op = Ops /\ Fits(op[o]) /\ OpFields \subseteq DOMAIN op[o]
      /\ op[o].kind \in {"none", "reinstall"}
  BY DEF OwnerInv, Shape, QuietBoot, Fits
<1>2. op' = Finished(o) => op'[o].pc # "settle"
  BY <1>1 DEF Finished, Idle, OpFields
<1>3. \A pc : op' = Moved(o, pc) => op'[o].pc = pc
  BY <1>1 DEF Moved, OpFields
<1>4. ASSUME NEW d, NEW s, row' = Updated(d, s) \/ row' = Removed(d)
      PROVE  \A e \in Deps : row'[e] = row[e] \/ (e = d /\ Exists(e) /\ row'[e] \in {s, "gone"})
  BY <1>1, <1>4 DEF Updated, Removed
<1>5. CASE Prepare(o)
  BY <1>3, <1>5 DEF Prepare
<1>6. CASE PrepareFails(o)
  <2>1. /\ op' = Finished(o) /\ present' = present
        /\ row' = row \/ row' = Updated(op[o].id, "failed")
    BY <1>1, <1>6 DEF PrepareFails
  <2> QED BY <1>2, <1>4, <2>1
<1>7. CASE Launch(o)
  <2>1. present' = present /\ (row' = row \/ row' = Updated(op[o].id, "failed"))
    BY <1>7 DEF Launch, rowVars
  <2>2. op'[o].pc # "settle"
    BY <1>1, <1>7 DEF Launch, OpFields
  <2> QED BY <1>4, <2>1, <2>2
<1>8. CASE Exit(o)
  <2>1. PICK result \in Outcomes : /\ op' = [op EXCEPT ![o].result = result, ![o].pc = "settle"]
                                   /\ present' \in Effect(o, result) /\ row' = row
    BY <1>8 DEF Exit, rowVars, Outcomes
  <2>2. op'[o].result = result /\ op'[o].id = op[o].id
    BY <1>1, <2>1 DEF OpFields
  <2>3. CASE result = "ok"
    <3>1. present' = present \cup {PkgOf[op[o].id]}
      BY <1>1, <2>1, <2>3 DEF Effect
    <3> QED BY <2>1, <2>2, <3>1
  <2>4. CASE result # "ok"
    <3>1. present' = present \cup {PkgOf[op[o].id]} \/ present' = present
      BY <1>1, <2>1, <2>4 DEF Effect
    <3> QED BY <2>1, <2>2, <2>4, <3>1
  <2> QED BY <2>3, <2>4
<1>9. CASE Settle(o)
  <2>1. /\ op[o].pc = "settle" /\ op' = Finished(o) /\ present' = present
        /\ row' = Updated(op[o].id, SettledStatus(op[o].result)) /\ op[o].result \in Outcomes
    BY <1>1, <1>9 DEF Settle, Streamed, Fits
  <2>2. op[o].result = "ok" => PkgOf[op[o].id] \in present
    BY <2>1 DEF TruthInv
  <2>3. SettledStatus(op[o].result) \in {"failed", "cancelled"}
        \/ (SettledStatus(op[o].result) = "installed" /\ op[o].result = "ok")
    BY <2>1 DEF SettledStatus, Outcomes
  <2> QED BY <1>2, <1>4, <2>1, <2>2, <2>3
<1>10. CASE Broadcast(o)
  BY <1>10 DEF Broadcast, rowVars, TruthInv
<1>11. CASE Done(o)
  BY <1>3, <1>11 DEF Done, rowVars
<1>12. CASE Close(o)
  BY <1>2, <1>12 DEF Close, rowVars
<1>13. CASE BatchNext(o)
  <2> DEFINE taken(d) == [op[o] EXCEPT !.id = d, !.rest = op[o].rest \ {d}, !.pc = "start"]
  <2>1. PICK d \in op[o].rest : op' = [op EXCEPT ![o] = taken(d)] /\ row' = row /\ present' = present
    BY <1>1, <1>13 DEF BatchNext
  <2> QED BY <1>1, <2>1 DEF OpFields
<1> QED BY <1>5, <1>6, <1>7, <1>8, <1>9, <1>10, <1>11, <1>12, <1>13 DEF Operate

TrueRowsInv == OwnerInv /\ TruthInv /\ TwinInv

\* What happens only while the server serves.
LEMMA ServingSteps ==
  ASSUME OwnerInv,
         \/ \E u \in Users : Check(u) \/ Respond(u)
         \/ \E o \in Ops, d \in Deps : AutoInstall(o, d)
         \/ \E u \in Users, new \in SUBSET Deps : restoreDependencies(u, new)
         \/ CliMerge
  PROVE  boot = "up" /\ boot' = "up"
<1>1. ASSUME NEW u \in Users, Respond(u) PROVE boot = "up" /\ boot' = "up"
  <2>1. user[u].req # "none" /\ UNCHANGED boot
    BY <1>1 DEF Respond, Submit, BatchDeleteRow, StartBatch, QueueRow, Cancel, RestoreFails,
              dependencyReinstallBatchFunc, lifeVars
  <2> QED BY <2>1 DEF OwnerInv, QuietBoot, QuietUser
<1>2. ASSUME NEW u \in Users, Check(u) PROVE boot = "up" /\ boot' = "up"
  BY <1>2 DEF Check, CreateCheck, CheckCancel, CheckRow, CheckRows, Accept
<1> QED BY <1>1, <1>2 DEF AutoInstall, restoreDependencies, CliMerge, lifeVars

LEMMA NothingNew ==
  ASSUME TruthInv, TwinInv, UNCHANGED <<row, op, present, boot>>
  PROVE  TruthInv' /\ TwinInv'
BY DEF TruthInv, TwinInv, Scheduled, Twins, Exists

\* After the merge a python package has one row; rows only go after it.
LEMMA MergeLeavesOne ==
  ASSUME OwnerInv, Merge
  PROVE  \A d, e \in Deps : (d \in Twins(e) /\ e \in Twins(e))' => d = e
<1> DEFINE Python == {d \in Deps : Exists(d) /\ TypeOf[d] = "python"}
<1>1. PICK winner \in [Python -> Deps] :
        /\ \A d \in Python : /\ winner[d] \in Twins(d)
                             /\ \A e \in Twins(d) : winner[e] = winner[d]
        /\ row' = [d \in Deps |-> IF d \in Python /\ winner[d] # d THEN "gone" ELSE row[d]]
  BY DEF Merge
<1> SUFFICES ASSUME NEW d \in Deps, NEW e \in Deps, (d \in Twins(e) /\ e \in Twins(e))' PROVE d = e
  OBVIOUS
<1>2. /\ row'[d] \notin {"none", "gone"} /\ row'[e] \notin {"none", "gone"}
      /\ TypeOf[d] = "python" /\ TypeOf[e] = "python"
      /\ PkgOf[d] = PkgOf[e]
  BY DEF Twins, Exists
<1>3. d \in Python /\ winner[d] = d /\ e \in Python /\ winner[e] = e
  BY <1>1, <1>2 DEF Exists
<1> QED BY <1>1, <1>2, <1>3 DEF Twins

LEMMA FewerTwins ==
  ASSUME TwinInv, boot \in {"merged", "reconciling", "reconciled"},
         \A d \in Deps : Exists(d)' => Exists(d)
  PROVE  TwinInv'
BY DEF TwinInv, Twins

LEMMA TrueRowsKept == TrueRowsInv /\ [Next]_depVars => TrueRowsInv'
<1> SUFFICES ASSUME TrueRowsInv, [Next]_depVars PROVE TruthInv' /\ TwinInv'
  BY OwnerInvKept DEF TrueRowsInv
<1>1. Shape /\ DOMAIN row = Deps /\ OwnerInv' /\ OwnerInv /\ TruthInv /\ TwinInv
  BY OwnerInvKept DEF TrueRowsInv, OwnerInv, Shape
<1>2. ASSUME boot' \in {"up", "down"} PROVE TruthInv' /\ TwinInv'
  BY <1>2 DEF TruthInv, TwinInv
<1>3. ASSUME NEW o \in Ops, Operate(o) \/ Exit(o) PROVE TruthInv' /\ TwinInv'
  <2>1. Moves(o) /\ op[o].pc # "free"
    BY <1>1, <1>3, OperateMoves DEF Operate, Prepare, PrepareFails, Launch, Settle, Broadcast,
                                    Done, Close, BatchNext, Exit
  <2>2. /\ boot' = boot /\ DOMAIN op' = Ops /\ \A q \in Ops \ {o} : op'[q] = op[q]
        /\ \A d \in Deps : Reinstalls(op'[o], d) => Reinstalls(op[o], d)
    BY <2>1 DEF Moves, MovesTo
  <2>3. CASE boot \in {"up", "down", "merged"}
    BY <1>1, <1>2, <2>1, <2>2, <2>3 DEF OwnerInv, QuietBoot
  <2>4. CASE boot \in {"reconciling", "reconciled"}
    <3>1. /\ \A p \in present : p \in present'
          /\ \A d \in Deps : \/ row'[d] = row[d]
                             \/ row'[d] \in {"failed", "cancelled"} /\ Exists(d)
                             \/ row'[d] = "gone"
                             \/ row'[d] = "installed" /\ PkgOf[d] \in present /\ Exists(d)
          /\ op'[o].pc = "settle" /\ op'[o].result = "ok" => PkgOf[op'[o].id] \in present'
      BY <1>1, <1>3, <2>4, StartupOperates
    <3>2. \A d \in Deps : Scheduled(d)' => Scheduled(d)
      BY <2>2, ScheduledIs
    <3>3. \A d \in Deps : Exists(d)' => Exists(d)
      BY <3>1 DEF Exists
    <3>4. TwinInv'
      BY <1>1, <2>4, <3>3, FewerTwins
    <3> QED BY <1>1, <2>2, <2>4, <3>1, <3>2, <3>4 DEF TruthInv
  <2>5. CASE boot \notin {"up", "down", "merged", "reconciling", "reconciled"}
    BY <2>2, <2>5 DEF TruthInv, TwinInv
  <2> QED BY <2>3, <2>4, <2>5
<1>4. ASSUME NEW o \in Ops, ReconcileInstalled(o) PROVE TruthInv' /\ TwinInv'
  <2>1. /\ FreeOp(o) /\ boot = "merged" /\ boot' = "reconciling" /\ present' = present
        /\ op' = IF Lost = {} THEN op ELSE SpawnedBatch(o, "reinstall", Lost, FALSE)
        /\ row' = [d \in Deps |-> IF d \in Lost THEN "installing" ELSE row[d]]
    BY <1>4 DEF ReconcileInstalled
  <2>2. Lost \in SUBSET Deps
    BY DEF Lost
  <2>3. /\ \A q \in Ops \ {o} : op'[q] = op[q]
        /\ \A d \in Deps : Reinstalls(op'[o], d) => d \in Lost
        /\ op'[o].pc \in {"free", "next"}
    <3>1. CASE Lost = {}
      BY <1>1, <2>1, <2>2, <3>1, SourceOp DEF FreeOp
    <3>2. CASE Lost # {}
      <4>1. op'[o].pc = "next"
        BY <1>1, <2>1, <3>2 DEF SpawnedBatch, Idle, Shape
      <4> QED BY <1>1, <2>1, <2>2, <4>1, SourceOp
    <3> QED BY <3>1, <3>2
  <2>4. \A q \in Ops : op[q].pc = "free" /\ \A d \in Deps : ~Reinstalls(op[q], d)
    BY <1>1, <2>1 DEF OwnerInv, Shape, QuietBoot, Fits, Reinstalls
  <2>5. \A d \in Deps : Scheduled(d)' => d \in Lost
    BY <2>3, <2>4, ScheduledIs
  <2>6. \A d \in Deps : Exists(d)' => Exists(d)
    BY <2>1 DEF Exists, Lost
  <2>7. TwinInv'
    BY <1>1, <2>1, <2>6, FewerTwins
  <2>8. TruthInv'
    <3>1. \A d \in Deps : row'[d] = "installed" => PkgOf[d] \in present'
      BY <2>1 DEF Lost
    <3>2. \A q \in Ops : op'[q].pc # "settle"
      BY <2>3, <2>4
    <3>3. \A d \in Deps : row'[d] = "removing" => boot' = "reconciling" /\ ~Scheduled(d)'
      BY <2>1, <2>5
    <3> QED BY <3>1, <3>2, <3>3 DEF TruthInv
  <2> QED BY <2>7, <2>8
<1>5. ASSUME NEW o \in Ops, ReconcileStale(o) PROVE TruthInv' /\ TwinInv'
  <2> DEFINE resume == {d \in Stale : PkgOf[d] \notin present /\ shouldResumeRestoredDependency(d)}
  <2>1. /\ FreeOp(o) /\ boot = "reconciling" /\ boot' = "reconciled" /\ present' = present
        /\ op' = IF resume = {} THEN op ELSE SpawnedBatch(o, "reinstall", resume, TRUE)
        /\ row' = [d \in Deps |-> IF d \notin Stale THEN row[d]
                                  ELSE IF PkgOf[d] \in present THEN "installed"
                                  ELSE IF d \in resume THEN "installing" ELSE "failed"]
    BY <1>5 DEF ReconcileStale
  <2>2. resume \in SUBSET Deps
    BY DEF Stale
  <2> HIDE DEF resume
  <2>3. /\ \A q \in Ops \ {o} : op'[q] = op[q]
        /\ op'[o].pc \in {"free", "next"}
    <3>1. CASE resume = {}
      BY <2>1, <3>1 DEF FreeOp
    <3>2. CASE resume # {}
      BY <1>1, <2>1, <3>2 DEF SpawnedBatch, Idle, Shape
    <3> QED BY <3>1, <3>2
  <2>4. \A d \in Deps : row'[d] = "installed" => PkgOf[d] \in present'
    BY <1>1, <2>1 DEF TruthInv
  <2>5. \A q \in Ops : op'[q].pc = "settle" /\ op'[q].result = "ok" => PkgOf[op'[q].id] \in present'
    BY <1>1, <2>1, <2>3 DEF TruthInv
  <2>6. \A d \in Deps : row'[d] # "removing"
    BY <1>1, <2>1 DEF TruthInv, Stale, Busy
  <2>7. \A d \in Deps : Exists(d)' => Exists(d)
    BY <2>1 DEF Exists, Stale, Busy
  <2>8. TwinInv'
    BY <1>1, <2>1, <2>7, FewerTwins
  <2> QED BY <2>1, <2>4, <2>5, <2>6, <2>8 DEF TruthInv
<1>6. CASE Start
  BY <1>1, <1>6, MergeLeavesOne DEF Start, TruthInv, TwinInv
<1>7. CASE Serve \/ Crash
  BY <1>2, <1>7 DEF Serve, Crash
<1>8. CASE \/ \E r \in Readers, d \in Deps : LogStream(r, d)
           \/ \E r \in Readers : subscribe(r) \/ unsubscribe(r)
           \/ UNCHANGED depVars
  <2>1. UNCHANGED <<row, op, present, boot>>
    BY <1>8 DEF LogStream, subscribe, unsubscribe, rowVars, lifeVars, depVars
  <2> QED BY <1>1, <2>1, NothingNew
<1>9. CASE \/ \E u \in Users : Check(u) \/ Respond(u)
           \/ \E o \in Ops, d \in Deps : AutoInstall(o, d)
           \/ \E u \in Users, new \in SUBSET Deps : restoreDependencies(u, new)
           \/ CliMerge
  BY <1>1, <1>2, <1>9, ServingSteps
<1> QED BY <1>3, <1>4, <1>5, <1>6, <1>7, <1>8, <1>9 DEF Next, Boot

\* Whatever the process was doing when it died: when the server starts to
\* serve, what says installed is installed, what says installing is with a
\* goroutine, nothing is being removed and a python package has one row.
THEOREM ReconciledRowsTellTheTruth == DepSpec => []ReconciledRowsAreTrue
<1>1. DepInit => TrueRowsInv
  BY OwnerInvInit DEF TrueRowsInv, TruthInv, TwinInv, DepInit
<1>2. TrueRowsInv => ReconciledRowsAreTrue
  <2> SUFFICES ASSUME TrueRowsInv, boot = "reconciled", NEW d \in Deps
               PROVE  /\ row[d] = "installed" => PkgOf[d] \in present
                      /\ row[d] = "installing" => \E o \in Ops : Pending(o, d)
                      /\ row[d] # "removing"
                      /\ Cardinality(Twins(d)) <= 1
    BY DEF ReconciledRowsAreTrue
  <2>1. OwnerInv /\ TruthInv /\ TwinInv /\ Shape
    BY DEF TrueRowsInv, OwnerInv
  <2>2. row[d] = "installing" => \E o \in Ops : Pending(o, d)
    <3>1. ASSUME NEW o \in Ops, Has(op[o], d) PROVE Pending(o, d)
      BY <2>1, <3>1 DEF Shape, Fits, Has, Pending, ActivePcs
    <3> QED BY <2>1, <3>1 DEF OwnerInv, OwnedInv, Watched, Busy, InProcess, Hosts, QuietBoot, QuietUser,
                              Claims, Queueing, Restoring
  <2>3. Cardinality(Twins(d)) <= 1
    <3>1. CASE Twins(d) = {}
      BY <3>1, FS_EmptySet
    <3>2. CASE Twins(d) # {}
      <4>1. PICK e : e \in Twins(d)
        BY <3>2
      <4>2. Twins(d) = {e}
        BY <2>1, <4>1 DEF TwinInv, Twins
      <4> QED BY <4>2, FS_Singleton
    <3> QED BY <3>1, <3>2
  <2> QED BY <2>1, <2>2, <2>3 DEF TruthInv
<1> QED BY <1>1, <1>2, TrueRowsKept, PTL DEF DepSpec
=============================================================================
