--------------------------- MODULE TaskRunProofs ---------------------------
(***************************************************************************)
(* A request is run at most once, for any tasks, workers and bounds:       *)
(* TaskPanel implements RunLedger, and a run starts a bounded number of    *)
(* processes.                                                              *)
(*                                                                         *)
(* Both rest on PlaceInv: a request that is built is in one place, with    *)
(* the operation that sends it, in the channel, with a worker, or          *)
(* launched.  Nothing in the code says so; it follows from the order in    *)
(* which a request is handed from one to the next.                         *)
(***************************************************************************)
EXTENDS TaskPanelProofs

Sends(a, r) == op[a].pc = "enqueue" /\ op[a].req = r
Waits(r) == \E i \in DOMAIN queue : queue[i] = r
Holds(w, r) == wreq[w] = r /\ wpc[w] # "leaving"

\* One sender, one slot, one holder.
OneSender == \A r \in Reqs : \A a, b \in Everyone :
  Sends(a, r) /\ Sends(b, r) => a = b
OneSlot == \A i, j \in DOMAIN queue : queue[i] = queue[j] => i = j
OneHolder == \A r \in Reqs : \A v, w \in Workers :
  Holds(v, r) /\ Holds(w, r) => v = w

\* What is in one place has not reached a later one.
Held(r) == \E w \in Workers : Holds(w, r)
SentIsApart == \A r \in Reqs : \A a \in Everyone : Sends(a, r) =>
  ~Waits(r) /\ ~Held(r) /\ rpc[r] = "none"
QueuedIsApart == \A r \in Reqs : Waits(r) => ~Held(r) /\ rpc[r] = "none"
HeldIsApart == \A r \in Reqs : Held(r) => rpc[r] = "none"

\* A worker that is idle or gone has let go, and only those who run a task
\* send.
Released == \A w \in Workers : wpc[w] \in {"idle", "exited"} => wreq[w] = NoReq
SendersRun == \A a \in Everyone :
  op[a].pc = "enqueue" => op[a].kind \in {"run", "tick", "startup"}

PlaceInv ==
  /\ OneSender /\ OneSlot /\ OneHolder
  /\ SentIsApart /\ QueuedIsApart /\ HeldIsApart
  /\ Released /\ SendersRun

\* Where a request is does not change when nobody hands one over.
LEMMA QuietPlace ==
  ASSUME PlaceInv, Quiet, UNCHANGED <<queue, wpc, wreq>>,
         \A r \in Reqs : rpc[r] = "none" => rpc'[r] = "none"
  PROVE  PlaceInv'
<1>1. \A a \in Everyone : \A r : Sends(a, r)' => Sends(a, r)
  BY DEF Quiet, Sends
<1>2. \A r : (Waits(r)' <=> Waits(r)) /\ (Held(r)' <=> Held(r))
  BY DEF Waits, Held, Holds
<1>3. OneSender' /\ OneSlot' /\ OneHolder'
  BY <1>1 DEF PlaceInv, OneSender, OneSlot, OneHolder, Holds
<1>4. SentIsApart' /\ QueuedIsApart' /\ HeldIsApart'
  BY <1>1, <1>2 DEF PlaceInv, SentIsApart, QueuedIsApart, HeldIsApart
<1>5. Released' /\ SendersRun'
  BY DEF PlaceInv, Released, SendersRun, Quiet
<1> QED
  BY <1>3, <1>4, <1>5 DEF PlaceInv

\* Before the panel is first started.
LEMMA InitPlace == Init => PlaceInv
<1> SUFFICES ASSUME Init PROVE PlaceInv
  OBVIOUS
<1>1. \A a \in Everyone : op[a].pc = "idle"
  BY NoOpType DEF Init, ControlInit
<1>2. queue = <<>> /\ DOMAIN queue = {}
  BY DEF Init, SchedInit
<1>3. \A w \in Workers : wreq[w] = NoReq
  BY DEF Init, SchedInit
<1> QED
  BY <1>1, <1>2, <1>3
  DEF PlaceInv, OneSender, OneSlot, OneHolder, SentIsApart, QueuedIsApart,
      HeldIsApart, Released, SendersRun, Sends, Waits, Held, Holds, Reqs, NoReq

\* Sending a request that is not in the channel, and taking out its first.
LEMMA AppendPlace ==
  ASSUME NEW S, queue \in Seq(S), NEW e \in S, queue' = Append(queue, e),
         OneSlot, ~Waits(e)
  PROVE  OneSlot' /\ \A r : Waits(r)' <=> Waits(r) \/ r = e
<1>1. /\ Len(queue) \in Nat /\ DOMAIN queue = 1 .. Len(queue)
      /\ DOMAIN queue' = 1 .. Len(queue) + 1
      /\ queue'[Len(queue) + 1] = e
      /\ \A i \in 1 .. Len(queue) : queue'[i] = queue[i]
  OBVIOUS
<1> QED
  BY ONLY <1>1, OneSlot, ~Waits(e) DEF OneSlot, Waits

LEMMA TailPlace ==
  ASSUME NEW S, queue \in Seq(S), queue # <<>>, queue' = Tail(queue), OneSlot
  PROVE  /\ OneSlot' /\ Waits(Head(queue)) /\ Head(queue) \in S
         /\ \A r : Waits(r)' <=> Waits(r) /\ r # Head(queue)
<1>1. /\ Len(queue) \in Nat \ {0} /\ DOMAIN queue = 1 .. Len(queue)
      /\ DOMAIN queue' = 1 .. Len(queue) - 1
      /\ Head(queue) = queue[1] /\ Head(queue) \in S
      /\ \A i \in 1 .. Len(queue) - 1 : queue'[i] = queue[i + 1]
  OBVIOUS
<1>2. OneSlot'
  BY ONLY <1>1, OneSlot DEF OneSlot
<1>3. Waits(Head(queue))
  BY ONLY <1>1 DEF Waits
<1>4. ASSUME NEW r PROVE Waits(r)' <=> Waits(r) /\ r # Head(queue)
  <2>1. Waits(r)' => Waits(r) /\ r # Head(queue)
    BY ONLY <1>1, OneSlot DEF OneSlot, Waits
  <2>2. ASSUME NEW i \in DOMAIN queue, queue[i] = r, r # Head(queue)
        PROVE  Waits(r)'
    <3>1. i - 1 \in DOMAIN queue' /\ queue'[i - 1] = r
      BY ONLY <1>1, <2>2
    <3> QED
      BY ONLY <3>1 DEF Waits
  <2> QED
    BY <2>1, <2>2 DEF Waits
<1> QED
  BY <1>1, <1>2, <1>3, <1>4

-----------------------------------------------------------------------------
(* A request is in one place.                                              *)

\* Workers keep or give up what they hold, and launch only what they give up.
LEMMA GiveUpPlace ==
  ASSUME PlaceInv, Released', UNCHANGED <<op, queue>>,
         \A r \in Reqs : \A v \in Workers : Holds(v, r)' => Holds(v, r),
         \A r \in Reqs : rpc[r] = "none" =>
           rpc'[r] = "none" \/ (Held(r) /\ ~Held(r)')
  PROVE  PlaceInv'
<1>1. \A r \in Reqs : Held(r)' => Held(r)
  BY DEF Held
<1>2. OneSender' /\ OneSlot' /\ OneHolder'
  BY DEF PlaceInv, OneSender, OneSlot, OneHolder, Sends
<1>3. SentIsApart' /\ QueuedIsApart' /\ HeldIsApart'
  BY <1>1 DEF PlaceInv, SentIsApart, QueuedIsApart, HeldIsApart, Sends, Waits
<1>4. SendersRun'
  BY DEF PlaceInv, SendersRun
<1> QED
  BY <1>2, <1>3, <1>4 DEF PlaceInv

LEMMA WorkerPlace ==
  ASSUME TypeInv, PlaceInv, NEW w \in Workers, Worker(w)
  PROVE  PlaceInv'
<1>1. /\ wpc \in [Workers -> WorkerPcs] /\ wreq \in [Workers -> Reqs \cup {NoReq}]
      /\ rpc \in [Reqs -> RunPcs] /\ queue \in Seq(Reqs) /\ NoReq \notin Reqs
  BY TypeParts, StoreAssumption DEF SchedTypeOK, ExecTypeOK, NoReq, Reqs
<1>2. UNCHANGED op
  BY DEF Worker, ctlVars
<1>3. Released
  BY DEF PlaceInv
<1>4. CASE Dequeue(w) /\ UNCHANGED execVars
  <2> DEFINE e == Head(queue)
  <2>1. OneSlot' /\ Waits(e) /\ e \in Reqs /\ \A r : Waits(r)' <=> Waits(r) /\ r # e
    BY <1>1, <1>4, TailPlace DEF Dequeue, PlaceInv
  <2>2. UNCHANGED rpc
    BY <1>4 DEF execVars
  <2>3. \A r \in Reqs : \A v \in Workers :
          Holds(v, r)' <=> Holds(v, r) \/ (v = w /\ r = e)
    BY <1>1, <1>3, <1>4 DEF Dequeue, Goto, Holds, Released
  <2>4. ~Held(e) /\ rpc[e] = "none" /\ \A a \in Everyone : ~Sends(a, e)
    BY <2>1 DEF PlaceInv, QueuedIsApart, SentIsApart
  <2>5. \A r \in Reqs : Held(r)' <=> Held(r) \/ r = e
    BY <2>3 DEF Held
  <2>6. OneHolder'
    BY <2>3, <2>4 DEF PlaceInv, OneHolder, Held
  <2>7. SentIsApart' /\ QueuedIsApart' /\ HeldIsApart'
    BY <1>2, <2>1, <2>2, <2>4, <2>5
    DEF PlaceInv, SentIsApart, QueuedIsApart, HeldIsApart, Sends
  <2>8. Released'
    BY <1>1, <1>3, <1>4 DEF Dequeue, Goto, Released
  <2>9. OneSender' /\ SendersRun'
    BY <1>2 DEF PlaceInv, OneSender, SendersRun, Sends
  <2> QED
    BY <2>1, <2>6, <2>7, <2>8, <2>9 DEF PlaceInv
<1>5. CASE SchedulerStep(w) /\ UNCHANGED execVars /\ ~Dequeue(w)
  <2>1. UNCHANGED <<queue, rpc>>
    BY <1>5
    DEF SchedulerStep, Admit, Quit, CheckConcurrency, AddRunningTask,
        RemoveRunningTask, execVars
  <2>2. \A r \in Reqs : \A v \in Workers : Holds(v, r)' => Holds(v, r)
    BY <1>1, <1>5
    DEF SchedulerStep, Admit, Quit, CheckConcurrency, AddRunningTask,
        RemoveRunningTask, Goto, Release, Holds
  <2>3. Released'
    BY <1>1, <1>3, <1>5
    DEF SchedulerStep, Admit, Quit, CheckConcurrency, AddRunningTask,
        RemoveRunningTask, Goto, Release, Released
  <2> QED
    BY <1>2, <2>1, <2>2, <2>3, GiveUpPlace
<1>6. CASE ExecutorStep(w)
  <2>1. UNCHANGED <<queue, wreq>>
    BY <1>6
    DEF ExecutorStep, OnTaskExecuting, MarkRunning, Launch, LaunchFails, FailLog,
        FailRow
  <2>2. \E pc \in WorkerPcs \ {"idle", "exited"} : Goto(w, pc) /\ wpc[w] # "leaving"
    BY <1>6
    DEF ExecutorStep, OnTaskExecuting, MarkRunning, Launch, LaunchFails, FailLog,
        FailRow, WorkerPcs
  <2>3. \A r \in Reqs : \A v \in Workers : Holds(v, r)' => Holds(v, r)
    BY <1>1, <2>1, <2>2 DEF Goto, Holds
  <2>4. Released'
    BY <1>1, <1>3, <2>1, <2>2 DEF Goto, Released
  <2>5. CASE Launch(w)
    <3>1. \A r \in Reqs : r # wreq[w] => rpc'[r] = rpc[r]
      BY <1>1, <2>5 DEF Launch
    <3>2. wpc[w] = "marked" /\ wpc' = [wpc EXCEPT ![w] = "leaving"]
      BY <2>5 DEF Launch, Goto
    <3>3. \A r \in Reqs : r = wreq[w] => Held(r) /\ ~Held(r)'
      BY <1>1, <2>1, <3>2 DEF PlaceInv, OneHolder, Held, Holds
    <3> QED
      BY <1>2, <2>1, <2>3, <2>4, <3>1, <3>3, GiveUpPlace
  <2>6. CASE ~Launch(w)
    <3>1. UNCHANGED rpc
      BY <1>6, <2>6
      DEF ExecutorStep, OnTaskExecuting, MarkRunning, LaunchFails, FailLog,
          FailRow, execVars
    <3> QED
      BY <1>2, <2>1, <2>3, <2>4, <3>1, GiveUpPlace
  <2> QED
    BY <2>5, <2>6
<1> QED
  BY <1>4, <1>5, <1>6 DEF Worker

\* Nobody has a request before it is built.
LEMMA FreshRequest ==
  ASSUME BuiltInv, PlaceInv, NEW r \in Reqs, r \notin Built
  PROVE  ~Waits(r) /\ ~Held(r) /\ rpc[r] = "none" /\ \A b \in Everyone : ~Sends(b, r)
<1>1. \A i \in DOMAIN queue : queue[i] \in Built
  BY DEF BuiltInv
<1>2. ~Held(r)
  BY StoreAssumption DEF BuiltInv, Held, Holds, PlaceInv, Released, Reqs, NoReq
<1> QED
  BY <1>1, <1>2 DEF BuiltInv, Waits, Sends

\* A request is built.
LEMMA BuildPlace ==
  ASSUME TypeInv, BuiltInv, PlaceInv, NEW a \in Everyone, NEW o,
         o.pc = "enqueue" /\ o.req = made + 1,
         o.kind \in {"run", "tick", "startup"}, Become(a, o), made < MaxReqs,
         UNCHANGED <<queue, wpc, wreq, rpc>>
  PROVE  PlaceInv'
<1> DEFINE e == made + 1
<1>1. /\ e \in Reqs /\ e \notin Built /\ Built \subseteq Reqs
      /\ op \in [Everyone -> Ops] /\ queue \in Seq(Built)
  BY TypeParts, StoreAssumption DEF SchedTypeOK, OpsTyped, Built, Reqs, BuiltInv
<1>2. ~Waits(e) /\ ~Held(e) /\ rpc[e] = "none" /\ \A b \in Everyone : ~Sends(b, e)
  BY <1>1, FreshRequest
<1>3. \A b \in Everyone : \A r \in Reqs :
        Sends(b, r)' => Sends(b, r) \/ (b = a /\ r = e)
  BY <1>1 DEF Become, Sends
<1>4. \A r : (Waits(r)' <=> Waits(r)) /\ (Held(r)' <=> Held(r))
  BY DEF Waits, Held, Holds
<1> HIDE DEF e
<1>5. OneSender' /\ OneSlot' /\ OneHolder'
  BY <1>2, <1>3 DEF PlaceInv, OneSender, OneSlot, OneHolder, Holds
<1>6. SentIsApart' /\ QueuedIsApart' /\ HeldIsApart'
  BY <1>2, <1>3, <1>4 DEF PlaceInv, SentIsApart, QueuedIsApart, HeldIsApart
<1>7. Released' /\ SendersRun'
  BY <1>1 DEF PlaceInv, Released, SendersRun, Become
<1> QED
  BY <1>5, <1>6, <1>7 DEF PlaceInv

\* A request is sent, or refused.
LEMMA EnqueuePlace ==
  ASSUME TypeInv, PlaceInv, NEW a \in Everyone, EnqueueRequest(a)
  PROVE  PlaceInv'
<1> DEFINE e == op[a].req
<1>1. op \in [Everyone -> Ops] /\ queue \in Seq(Reqs) /\ e \in Reqs
  BY TypeParts DEF SchedTypeOK, OpsTyped, SendersHoldRequest, EnqueueRequest, At
<1>2. UNCHANGED <<wpc, wreq, rpc>> /\ Sends(a, e)
  BY DEF EnqueueRequest, execVars, At, Sends
<1>3. ~Waits(e) /\ ~Held(e) /\ rpc[e] = "none" /\ \A b \in Everyone : Sends(b, e) => b = a
  BY <1>1, <1>2 DEF PlaceInv, SentIsApart, OneSender
<1>4. Quiet /\ op'[a].pc # "enqueue"
  <2>1. Quiet
    BY QuietMoves DEF EnqueueRequest
  <2>2. op'[a].pc \in {"queued", "idle"}
    BY <1>1, NoOpType DEF EnqueueRequest, Proceed, Done, Become, Ops
  <2> QED
    BY <2>1, <2>2
<1>5. CASE UNCHANGED queue
  BY <1>2, <1>4, <1>5, QuietPlace
<1>6. CASE queue' = Append(queue, e)
  <2>1. OneSlot' /\ \A r : Waits(r)' <=> Waits(r) \/ r = e
    BY <1>1, <1>3, <1>6, AppendPlace DEF PlaceInv
  <2>2. \A b \in Everyone : \A r : Sends(b, r)' => Sends(b, r) /\ r # e
    BY <1>3, <1>4 DEF Quiet, Sends
  <2>3. \A r : Held(r)' <=> Held(r)
    BY <1>2 DEF Held, Holds
  <2> HIDE DEF e
  <2>4. OneSender' /\ OneHolder'
    BY <1>2, <2>2 DEF PlaceInv, OneSender, OneHolder, Holds
  <2>5. SentIsApart' /\ QueuedIsApart' /\ HeldIsApart'
    BY <1>2, <1>3, <2>1, <2>2, <2>3 DEF PlaceInv, SentIsApart, QueuedIsApart, HeldIsApart
  <2>6. Released' /\ SendersRun'
    BY <1>2, <1>4 DEF PlaceInv, Released, SendersRun, Quiet
  <2> QED
    BY <2>1, <2>4, <2>5, <2>6 DEF PlaceInv
<1> QED
  BY <1>5, <1>6 DEF EnqueueRequest, Enqueue, EnqueueFails

\* A step of main: a start and an end of the process empty the channel and the
\* hands of the workers.
LEMMA LifePlace ==
  ASSUME TypeInv, PlaceInv, Start \/ LifeStep \/ Terminate \/ Crash
  PROVE  PlaceInv'
<1>1. ASSUME Quiet, queue' = <<>>, \A w \in Workers : wreq'[w] = NoReq,
             \A r \in Reqs : rpc[r] = "none" => rpc'[r] = "none"
      PROVE  PlaceInv'
  <2>1. \A r : ~Waits(r)'
    BY <1>1 DEF Waits
  <2>2. \A r \in Reqs : \A w \in Workers : ~Holds(w, r)'
    BY <1>1, StoreAssumption DEF Holds, Reqs, NoReq
  <2>3. OneSlot'
    BY <1>1 DEF OneSlot
  <2>4. \A a \in Everyone : \A r : Sends(a, r)' => Sends(a, r)
    BY <1>1 DEF Quiet, Sends
  <2> QED
    BY <1>1, <2>1, <2>2, <2>3, <2>4
    DEF PlaceInv, OneSender, OneHolder, SentIsApart, QueuedIsApart, HeldIsApart,
        Held, Released, SendersRun, Quiet
<1>2. CASE Start
  <2>1. UNCHANGED <<op, rpc>> /\ queue' = <<>> /\ wreq' = [w \in Workers |-> NoReq]
    BY <1>2 DEF Start, StartScheduler, execVars
  <2> QED
    BY <1>1, <2>1 DEF Quiet
<1>3. CASE Exit \/ Crash
  <2>1. /\ queue' = <<>> /\ wreq' = [w \in Workers |-> NoReq]
        /\ \A r \in Reqs : rpc[r] = "none" => rpc'[r] = "none"
        /\ \A a \in Everyone : op'[a] \in {op[a], NoOp}
    BY <1>3 DEF Exit, Crash, Vanish, DropScheduler, DropExecutor
  <2> QED
    BY <1>1, <2>1, NoOpType DEF Quiet
<1>4. CASE Serve \/ StopScheduler \/ CronStopped \/ StopAllRunningTasks \/ Wait
             \/ MarkInterrupted \/ Terminate
  <2>1. UNCHANGED <<op, queue, wpc, wreq, rpc>>
    BY <1>4
    DEF Serve, StopScheduler, CronStopped, StopAllRunningTasks, Wait,
        MarkInterrupted, Terminate, schedVars, execVars, ctlVars
  <2> QED
    BY <2>1, QuietPlace DEF Quiet
<1> QED
  BY <1>2, <1>3, <1>4 DEF LifeStep

\* Every step keeps it.
LEMMA NextPlace ==
  ASSUME TypeInv, BuiltInv, PlaceInv, [Next]_vars
  PROVE  PlaceInv'
<1>1. ASSUME Quiet, Aside PROVE PlaceInv'
  BY <1>1, QuietPlace DEF Aside
<1>2. ASSUME NEW a \in Everyone, Operation(a) PROVE PlaceInv'
  <2>1. CASE LoadTask(a)
    <3>1. CASE Done(a) /\ UNCHANGED <<rtask, requestVars>>
      <4>1. Quiet
        BY <3>1, QuietMoves
      <4> QED
        BY <1>1, <2>1, <3>1, <4>1 DEF Aside, LoadTask, requestVars, execVars
    <3>2. ASSUME Become(a, [op[a] EXCEPT !.pc = "enqueue", !.req = made + 1]),
                 made < MaxReqs
          PROVE  PlaceInv'
      <4> DEFINE o == [op[a] EXCEPT !.pc = "enqueue", !.req = made + 1]
      <4>1. o.pc = "enqueue" /\ o.req = made + 1 /\ o.kind = op[a].kind
        BY TypeParts DEF OpsTyped, Ops
      <4>2. op[a].kind \in {"run", "tick"} /\ UNCHANGED <<queue, wpc, wreq, rpc>>
        BY <2>1 DEF LoadTask, At, execVars
      <4> HIDE DEF o
      <4> QED
        BY <3>2, <4>1, <4>2, BuildPlace DEF o
    <3> QED
      BY <2>1, <3>1, <3>2 DEF LoadTask, BuildRequest
  <2> QED
    BY <1>1, <1>2, <2>1, EnqueuePlace, QueuedQuiet, EditQuiet, StopQuiet
    DEF Operation, ContinueStep, RequestStep
<1>3. CASE BootLoop
  <2>1. PICK t \in Tasks : StartupBegin(t)
    BY <1>3 DEF BootLoop
  <2> DEFINE o == [Blank("startup", t, "enqueue") EXCEPT !.req = made + 1]
  <2>2. Blank("startup", t, "enqueue") \in Ops
    BY BlankTypes DEF AllKinds, Pcs
  <2>3. o.pc = "enqueue" /\ o.req = made + 1 /\ o.kind = "startup"
    BY <2>2, NoOpType DEF Ops, Blank
  <2>4. UNCHANGED <<queue, wpc, wreq, rpc>> /\ made < MaxReqs /\ Become(Boot, o)
    BY <2>1 DEF StartupBegin, BuildRequest, execVars
  <2> HIDE DEF o
  <2> QED
    BY <2>3, <2>4, BuildPlace DEF Everyone
<1>4. ASSUME NEW r \in Reqs, Runner(r) \/ Process(r) PROVE PlaceInv'
  <2>1. rpc \in [Reqs -> RunPcs]
    BY TypeParts DEF ExecTypeOK
  <2>2. \A q \in Reqs : rpc[q] = "none" => rpc'[q] = "none"
    BY <1>4, <2>1, RunMoves
  <2> QED
    BY <1>4, <2>2, RunMoves, QuietPlace DEF Quiet
<1>5. CASE UNCHANGED vars
  BY <1>1, <1>5 DEF vars, Quiet, Aside, schedVars, requestVars, execVars, ctlVars
<1> QED
  BY <1>1, <1>2, <1>3, <1>4, <1>5, WorkerPlace, BeginQuiet, LifePlace DEF Next

-----------------------------------------------------------------------------
(* What a run has started.                                                 *)

\* The processes a run has started, by where it is: every retry and every
\* install accounts for one.
LoopInv == \A r \in Reqs :
  /\ rpc[r] = "none" => attempt[r] = 0 /\ retries[r] = 0 /\ deps[r] = 0
  /\ rpc[r] = "prepare" =>
       retries[r] <= MaxRetries /\ attempt[r] <= retries[r] + deps[r]
  /\ rpc[r] \in {"spawned", "registered", "waiting"} =>
       retries[r] <= MaxRetries /\ attempt[r] <= retries[r] + deps[r] + 1
  /\ attempt[r] <= 1 + MaxRetries + MaxDeps

\* A live process is one that its run waits for.
AliveInv == \A r \in Reqs :
  proc[r] = "alive" => rpc[r] \in {"spawned", "registered", "waiting"}

RunInv == LoopInv /\ AliveInv

LEMMA InitRun == Init => RunInv
<1> SUFFICES ASSUME Init PROVE RunInv
  OBVIOUS
<1>1. MaxRetries \in Nat /\ MaxDeps \in Nat
  BY StoreAssumption
<1> QED
  BY <1>1 DEF Init, ExecInit, RunInv, LoopInv, AliveInv

\* Only launches and the steps of runs matter.
LEMMA StillRun ==
  ASSUME RunInv, UNCHANGED <<rpc, retries, deps, attempt>>,
         \A r \in Reqs : proc'[r] = "alive" => proc[r] = "alive"
  PROVE  RunInv'
BY DEF RunInv, LoopInv, AliveInv

\* A launch starts the loop from nothing: the request was not launched before.
LEMMA LaunchRun ==
  ASSUME TypeInv, PlaceInv, RunInv, NEW w \in Workers, Launch(w)
  PROVE  RunInv'
<1>1. /\ rpc \in [Reqs -> RunPcs] /\ MaxRetries \in Nat /\ MaxDeps \in Nat
      /\ wreq[w] \in Reqs
  BY TypeParts, StoreAssumption DEF ExecTypeOK, WorkersHoldRequest, Launch
<1>2. Held(wreq[w])
  BY DEF Launch, Held, Holds
<1>3. rpc[wreq[w]] = "none"
  BY <1>1, <1>2 DEF PlaceInv, HeldIsApart
<1>4. /\ rpc' = [rpc EXCEPT ![wreq[w]] = "prepare"]
      /\ UNCHANGED <<retries, deps, attempt, proc>>
  BY DEF Launch, loopVars
<1>5. LoopInv'
  BY <1>1, <1>3, <1>4 DEF RunInv, LoopInv
<1>6. AliveInv'
  BY <1>1, <1>3, <1>4 DEF RunInv, AliveInv
<1> QED
  BY <1>5, <1>6 DEF RunInv

\* A step of a run, or the end of its process.
LEMMA RunnerRun ==
  ASSUME TypeInv, RunInv, NEW r \in Reqs, Runner(r) \/ Process(r)
  PROVE  RunInv'
<1>1. /\ rpc \in [Reqs -> RunPcs] /\ retries \in [Reqs -> Nat]
      /\ deps \in [Reqs -> 0 .. MaxDeps] /\ attempt \in [Reqs -> Nat]
      /\ proc \in [Reqs -> {"none", "alive", "ok", "bad"}]
      /\ MaxRetries \in Nat /\ MaxDeps \in Nat
  BY TypeParts, StoreAssumption DEF ExecTypeOK
<1> USE DEF RunInv, LoopInv, AliveInv, RunGoto, loopVars
<1>2. CASE StartProcess(r)
  BY <1>1, <1>2 DEF StartProcess
<1>3. CASE StartFails(r)
  BY <1>1, <1>3 DEF StartFails, Retry
<1>4. CASE AttemptFails(r)
  BY <1>1, <1>4 DEF AttemptFails, Retry
<1>5. CASE InstallDeps(r)
  BY <1>1, <1>5 DEF InstallDeps
<1>6. CASE RegisterRunningProcess(r) \/ WritePid(r)
  BY <1>1, <1>6 DEF RegisterRunningProcess, WritePid
<1>7. CASE Succeed(r) \/ ApplyManualStopOverride(r) \/ SettleLog(r)
             \/ ResolveStatus(r) \/ SettleRow(r) \/ Finish(r)
  BY <1>1, <1>7
  DEF Succeed, ApplyManualStopOverride, SettleLog, ResolveStatus, SettleRow,
      Finish
<1>8. CASE ProcessExits(r)
  BY <1>1, <1>8 DEF ProcessExits
<1> QED
  BY <1>2, <1>3, <1>4, <1>5, <1>6, <1>7, <1>8
  DEF Runner, Process, RunStep, Settlement

\* What a worker leaves alone as long as it launches nothing.
LEMMA WorkerFrame ==
  ASSUME NEW w \in Workers, Worker(w), ~Launch(w)
  PROVE  UNCHANGED <<rpc, outcome, loopVars, procs, marks, histVars>>
BY DEF Worker, SchedulerStep, ExecutorStep, OnTaskExecuting, MarkRunning,
   LaunchFails, FailLog, FailRow, execVars

\* Those who control tasks have no hand in runs and workers; they kill.
ControlStep ==
  \/ BootLoop
  \/ \E a \in Actors : Request(a)
  \/ \E a \in Everyone : Operation(a)

LEMMA KillFrame ==
  ASSUME NEW victims, KillProcesses(victims)
  PROVE  \A r \in Reqs : proc'[r] = "alive" => proc[r] = "alive"
BY DEF KillProcesses

LEMMA ControlFrame ==
  ASSUME ControlStep
  PROVE  /\ UNCHANGED <<rpc, outcome, retries, deps, attempt, overlap>>
         /\ UNCHANGED <<wpc, wreq, stopped, serving, ticking, panelVars>>
         /\ \A r \in Reqs : proc'[r] = "alive" => proc[r] = "alive"
<1> DEFINE G == /\ UNCHANGED <<rpc, outcome, retries, deps, attempt, overlap>>
                /\ UNCHANGED <<wpc, wreq, stopped, serving, ticking, panelVars>>
                /\ \A r \in Reqs : proc'[r] = "alive" => proc[r] = "alive"
<1>1. ASSUME NEW a \in Everyone, StopStep(a), UNCHANGED panelVars PROVE G
  <2>1. /\ UNCHANGED <<rpc, outcome, retries, deps, attempt, overlap>>
        /\ UNCHANGED <<wpc, wreq, stopped, serving, ticking, panelVars>>
    BY <1>1
    DEF StopStep, StopTask, KillVictims, LoadStopRow, MarkByPid, KillByPid,
        ResolveStop, WriteStopRow, FindRunningLog, AbortLog, WriteLastRun,
        schedVars, execVars, loopVars, histVars, gateVars
  <2>2. UNCHANGED proc \/ \E victims : KillProcesses(victims)
    BY <1>1
    DEF StopStep, StopTask, KillVictims, LoadStopRow, MarkByPid, KillByPid,
        ResolveStop, WriteStopRow, FindRunningLog, AbortLog, WriteLastRun,
        execVars, loopVars
  <2> QED
    BY <2>1, <2>2, KillFrame
<1>2. CASE \E a \in Everyone : EditStep(a) /\ UNCHANGED panelVars
  BY <1>2
  DEF EditStep, SaveRow, RereadRow, RegisterJob, UnregisterJob, DeleteLogs,
      DeleteRow, schedVars, execVars, loopVars, histVars, gateVars
<1>3. CASE \E a \in Everyone : RequestStep(a) /\ UNCHANGED panelVars
  BY <1>3
  DEF RequestStep, LoadTask, EnqueueRequest, MarkQueued, schedVars, execVars,
      loopVars, histVars, gateVars
<1>4. CASE \E a \in Actors : Request(a)
  BY <1>4
  DEF Request, BeginStep, RunBegin, TickBegin, EnableBegin, DisableBegin,
      UpdateBegin, DeleteBegin, StopBegin, BatchStopBegin, SchedStopBegin,
      CliStopBegin, Begin, schedVars, execVars, loopVars, histVars
<1>5. CASE BootLoop
  BY <1>5 DEF BootLoop, StartupBegin, execVars, loopVars, histVars
<1> QED
  BY <1>1, <1>2, <1>3, <1>4, <1>5 DEF ControlStep, Operation, ContinueStep

\* Every step keeps it.
LEMMA NextRun ==
  ASSUME TypeInv, PlaceInv, RunInv, [Next]_vars
  PROVE  RunInv'
<1>1. ASSUME NEW w \in Workers, Worker(w) PROVE RunInv'
  BY <1>1, LaunchRun, WorkerFrame, StillRun DEF loopVars
<1>2. CASE ControlStep
  BY <1>2, ControlFrame, StillRun
<1>3. CASE Start \/ LifeStep \/ Terminate \/ Crash
  <2>1. CASE StopAllRunningTasks
    <3>1. UNCHANGED <<rpc, retries, deps, attempt>>
      BY <2>1 DEF StopAllRunningTasks
    <3>2. \A r \in Reqs : proc'[r] = "alive" => proc[r] = "alive"
      BY <2>1, KillFrame DEF StopAllRunningTasks
    <3> QED
      BY <3>1, <3>2, StillRun
  <2>2. CASE Exit \/ Crash
    <3>1. /\ UNCHANGED <<retries, deps, attempt>>
          /\ rpc' = [r \in Reqs |-> IF rpc[r] = "none" THEN "none" ELSE "done"]
          /\ proc' = [r \in Reqs |-> "none"]
      BY <2>2 DEF Exit, Crash, Vanish, DropExecutor
    <3> QED
      BY <3>1 DEF RunInv, LoopInv, AliveInv
  <2>3. CASE Start \/ Serve \/ StopScheduler \/ CronStopped \/ Wait
               \/ MarkInterrupted \/ Terminate
    BY <2>3, StillRun
    DEF Start, Serve, StopScheduler, CronStopped, Wait, MarkInterrupted,
        Terminate, execVars, loopVars
  <2> QED
    BY <1>3, <2>1, <2>2, <2>3 DEF LifeStep
<1>4. CASE UNCHANGED vars
  BY <1>4, StillRun DEF vars, execVars, loopVars
<1> QED
  BY <1>1, <1>2, <1>3, <1>4, RunnerRun DEF Next, ControlStep

-----------------------------------------------------------------------------
(* How an operation goes on.                                               *)

\* It ends, or stays what it is; what it knows of processes it knew before,
\* has read from the row of its task, or has taken out of runningProcesses.
MovesOn(a, o) ==
  \/ o = NoOp
  \/ /\ o.pc # "idle" /\ o.kind = op[a].kind /\ o.task = op[a].task
     /\ o.pid \in {op[a].pid, pid[op[a].task]}
     /\ o.victims \in {op[a].victims, {}, procs[op[a].task]}

LEMMA PlainMoves ==
  ASSUME TypeInv, NEW a \in Everyone
  PROVE  /\ Done(a) => MovesOn(a, op'[a])
         /\ \A pc : DoneOr(a, pc) \/ (pc # "idle" /\ Proceed(a, pc)) =>
                     MovesOn(a, op'[a])
<1>1. op \in [Everyone -> Ops]
  BY TypeParts DEF OpsTyped
<1>2. Done(a) => MovesOn(a, op'[a])
  BY <1>1 DEF Done, Become, MovesOn
<1>3. ASSUME NEW pc, pc # "idle", Proceed(a, pc) PROVE MovesOn(a, op'[a])
  BY <1>1, <1>3 DEF Proceed, Become, MovesOn, Ops
<1> QED
  BY <1>2, <1>3 DEF DoneOr

LEMMA OperationMoves ==
  ASSUME TypeInv, NEW a \in Everyone, ContinueStep(a)
  PROVE  /\ op[a].pc # "idle"
         /\ \A b \in Everyone \ {a} : op'[b] = op[b]
         /\ MovesOn(a, op'[a])
<1> DEFINE o == op[a]
<1>1. op \in [Everyone -> Ops] /\ o \in Ops
  BY TypeParts DEF OpsTyped
<1>2. op[a].pc # "idle"
  BY DEF ContinueStep, RequestStep, LoadTask, EnqueueRequest, MarkQueued,
     EditStep, SaveRow, RereadRow, RegisterJob, UnregisterJob, DeleteLogs,
     DeleteRow, StopStep, StopTask, KillVictims, LoadStopRow, MarkByPid,
     KillByPid, ResolveStop, WriteStopRow, FindRunningLog, AbortLog,
     WriteLastRun, At
<1>3. \E p : Become(a, p)
  BY DEF ContinueStep, RequestStep, LoadTask, EnqueueRequest, MarkQueued,
     EditStep, SaveRow, RereadRow, RegisterJob, UnregisterJob, DeleteLogs,
     DeleteRow, StopStep, StopTask, KillVictims, LoadStopRow, MarkByPid,
     KillByPid, ResolveStop, WriteStopRow, FindRunningLog, AbortLog,
     WriteLastRun, Done, Proceed, DoneOr
<1>4. \A b \in Everyone \ {a} : op'[b] = op[b]
  BY <1>1, <1>3 DEF Become
<1>5. ASSUME NEW p, Become(a, p), MovesOn(a, p) PROVE MovesOn(a, op'[a])
  BY <1>1, <1>5 DEF Become
<1> HIDE DEF o
<1> SUFFICES MovesOn(a, op'[a])
  BY <1>2, <1>4
<1>6. CASE LoadTask(a)
  <2>1. MovesOn(a, [op[a] EXCEPT !.pc = "enqueue", !.req = made + 1])
    BY <1>1 DEF MovesOn, Ops, o
  <2> QED
    BY <1>5, <1>6, <2>1, PlainMoves DEF LoadTask
<1>7. CASE EnqueueRequest(a) \/ MarkQueued(a) \/ RegisterJob(a) \/ UnregisterJob(a)
             \/ DeleteLogs(a) \/ DeleteRow(a) \/ MarkByPid(a) \/ KillByPid(a)
             \/ WriteStopRow(a) \/ AbortLog(a) \/ WriteLastRun(a)
  <2>1. Done(a) \/ \E pc : DoneOr(a, pc) \/ (pc # "idle" /\ Proceed(a, pc))
    BY <1>7
    DEF EnqueueRequest, MarkQueued, RegisterJob, UnregisterJob, DeleteLogs,
        DeleteRow, MarkByPid, KillByPid, WriteStopRow, AbortLog, WriteLastRun
  <2> QED
    BY <2>1, PlainMoves
<1>8. CASE SaveRow(a)
  <2>1. MovesOn(a, [op[a] EXCEPT !.pc = "addjob", !.st = "enabled"])
    BY <1>1 DEF MovesOn, Ops, o
  <2> QED
    BY <1>5, <1>8, <2>1, PlainMoves DEF SaveRow
<1>9. CASE RereadRow(a)
  <2>1. MovesOn(a, [ReadRow(op[a], op[a].task) EXCEPT !.pc = "addjob"])
    BY <1>1 DEF MovesOn, Ops, o, ReadRow
  <2>2. MovesOn(a, [op[a] EXCEPT !.pc = "addjob"])
    BY <1>1 DEF MovesOn, Ops, o
  <2> QED
    BY <1>5, <1>9, <2>1, <2>2 DEF RereadRow
<1>10. CASE StopTask(a)
  <2>1. MovesOn(a, [op[a] EXCEPT !.pc = "kill", !.victims = procs[op[a].task]])
    BY <1>1 DEF MovesOn, Ops, o
  <2> QED
    BY <1>5, <1>10, <2>1, PlainMoves DEF StopTask
<1>11. CASE KillVictims(a)
  <2>1. \A pc : pc # "idle" => MovesOn(a, [op[a] EXCEPT !.pc = pc, !.victims = {}])
    BY <1>1 DEF MovesOn, Ops, o
  <2> QED
    BY <1>5, <1>11, <2>1 DEF KillVictims
<1>12. CASE LoadStopRow(a)
  <2>1. MovesOn(a, [ReadRow(op[a], op[a].task) EXCEPT !.pc = "pidmark"])
    BY <1>1 DEF MovesOn, Ops, o, ReadRow
  <2> QED
    BY <1>5, <1>12, <2>1, PlainMoves DEF LoadStopRow
<1>13. CASE ResolveStop(a)
  <2>1. \A st : MovesOn(a, [op[a] EXCEPT !.pc = "row", !.target = st])
    BY <1>1 DEF MovesOn, Ops, o
  <2> QED
    BY <1>5, <1>13, <2>1 DEF ResolveStop
<1>14. CASE FindRunningLog(a)
  <2>1. \A r : MovesOn(a, [op[a] EXCEPT !.pc = "log", !.req = r])
    BY <1>1 DEF MovesOn, Ops, o
  <2> QED
    BY <1>5, <1>14, <2>1, PlainMoves DEF FindRunningLog
<1> QED
  BY <1>6, <1>7, <1>8, <1>9, <1>10, <1>11, <1>12, <1>13, <1>14
  DEF ContinueStep, RequestStep, EditStep, StopStep

\* It begins with what it has read from the row, and with no victims.
LEMMA BeginMoves ==
  ASSUME NEW a \in Actors, Request(a)
  PROVE  \E o : /\ Begin(a, o)
                /\ o.kind \in HttpKinds \cup CronKinds \cup {"cliStop"}
                /\ o.pid \in {NoPid, pid[o.task]} /\ o.victims = {}
                /\ o.pc \notin {"idle", "enqueue", "queued", "kill"}
                /\ o.pc = "pidkill" => o.kind = "cliStop"
<1>1. PICK t \in Tasks : BeginStep(a, t)
  BY DEF Request
<1> DEFINE Good(o) == /\ o.kind \in HttpKinds \cup CronKinds \cup {"cliStop"}
                      /\ o.pid \in {NoPid, pid[o.task]} /\ o.victims = {}
                      /\ o.pc \notin {"idle", "enqueue", "queued", "kill"}
                      /\ o.pc = "pidkill" => o.kind = "cliStop"
<1>2. ASSUME NEW kind \in HttpKinds \cup CronKinds \cup {"cliStop"},
             NEW pc \in {"load", "save", "removejob", "reread", "exec", "pidkill"},
             pc = "pidkill" => kind = "cliStop"
      PROVE  Good(Blank(kind, t, pc)) /\ Good(ReadRow(Blank(kind, t, pc), t))
  <2> DEFINE b == Blank(kind, t, pc)
  <2>1. /\ b.kind = kind /\ b.pc = pc /\ b.task = t /\ b.pid = NoPid
        /\ b.victims = {} /\ b \in [kind : {kind}, pc : {pc}, task : {t},
             st : {"deleted"}, pid : {NoPid}, last : {"none"}, req : {NoReq},
             victims : {{}}, target : {"disabled"}]
    BY DEF Blank, NoOp
  <2>2. /\ ReadRow(b, t).kind = kind /\ ReadRow(b, t).pc = pc
        /\ ReadRow(b, t).task = t /\ ReadRow(b, t).pid = pid[t]
        /\ ReadRow(b, t).victims = {}
    BY <2>1 DEF ReadRow
  <2> HIDE DEF b
  <2> QED
    BY <1>2, <2>1, <2>2 DEF b
<1> HIDE DEF Good
<1>3. \E o : Begin(a, o) /\ Good(o)
  <2>1. CASE RunBegin(a, t) \/ TickBegin(a, t)
    BY <1>2, <2>1 DEF RunBegin, TickBegin, HttpKinds, CronKinds
  <2>2. CASE EnableBegin(a, t) \/ DisableBegin(a, t) \/ UpdateBegin(a, t)
    BY <1>2, <2>2 DEF EnableBegin, DisableBegin, UpdateBegin, HttpKinds
  <2>3. CASE DeleteBegin(a, t) \/ StopBegin(a, t) \/ BatchStopBegin(a, t)
    BY <1>2, <2>3 DEF DeleteBegin, StopBegin, BatchStopBegin, HttpKinds
  <2>4. CASE SchedStopBegin(a, t) \/ CliStopBegin(a, t)
    BY <1>2, <2>4 DEF SchedStopBegin, CliStopBegin, CronKinds
  <2> QED
    BY <1>1, <2>1, <2>2, <2>3, <2>4 DEF BeginStep
<1> QED
  BY <1>3 DEF Good

-----------------------------------------------------------------------------
(* A panel that is down is empty.                                          *)

DownInv == panel = "down" =>
  /\ ~serving /\ ~ticking /\ bootTodo = {} /\ queue = <<>>
  /\ \A a \in Everyone : op[a].pc = "idle" \/ op[a].kind = "cliStop"
  /\ \A w \in Workers : wpc[w] = "exited"
  /\ \A r \in Reqs : rpc[r] \notin UnderWay

LEMMA InitDown == Init => DownInv
<1> SUFFICES ASSUME Init PROVE DownInv
  OBVIOUS
<1>1. \A a \in Everyone : op[a].pc = "idle"
  BY NoOpType DEF Init, ControlInit
<1> QED
  BY <1>1 DEF DownInv, Init, SchedInit, ExecInit, ControlInit, UnderWay

\* Only "ddp task stop" goes on while the panel is down.
LEMMA NextDown ==
  ASSUME TypeInv, DownInv, [Next]_vars
  PROVE  DownInv'
<1> SUFFICES ASSUME panel' = "down" PROVE DownInv'
  BY DEF DownInv
<1>1. CASE Exit \/ Crash
  <2>1. /\ serving' = FALSE /\ ticking' = FALSE /\ bootTodo' = {} /\ queue' = <<>>
        /\ \A w \in Workers : wpc'[w] = "exited"
        /\ \A r \in Reqs : rpc'[r] \in {"none", "done"}
    BY <1>1 DEF Exit, Crash, Vanish, DropScheduler, DropExecutor
  <2>2. op' = [a \in Everyone |-> IF op[a].kind = "cliStop" THEN op[a] ELSE NoOp]
    BY <1>1 DEF Exit, Crash, Vanish
  <2>3. \A a \in Everyone : op'[a].pc = "idle" \/ op'[a].kind = "cliStop"
    BY <2>2, NoOpType
  <2> QED
    BY <2>1, <2>3 DEF DownInv, UnderWay
<1>2. CASE ~(Exit \/ Crash)
  <2>1. panel = "down"
    BY <1>2, ControlFrame
    DEF Next, vars, Worker, Runner, Process, ControlStep, Start, LifeStep, Serve,
        StopScheduler, CronStopped, StopAllRunningTasks, Wait, MarkInterrupted,
        Step, Terminate, panelVars
  <2>2. /\ ~serving /\ ~ticking /\ bootTodo = {} /\ queue = <<>>
        /\ \A a \in Everyone : op[a].pc = "idle" \/ op[a].kind = "cliStop"
        /\ \A w \in Workers : wpc[w] = "exited"
        /\ \A r \in Reqs : rpc[r] \notin UnderWay
    BY <2>1 DEF DownInv
  <2>3. ~(\E w \in Workers : Worker(w))
    BY <2>2
    DEF Worker, SchedulerStep, ExecutorStep, Dequeue, Admit, Quit,
        CheckConcurrency, AddRunningTask, RemoveRunningTask, OnTaskExecuting,
        MarkRunning, Launch, LaunchFails, FailLog, FailRow
  <2>4. ASSUME NEW r \in Reqs, Runner(r) PROVE FALSE
    BY <2>2, <2>4
    DEF Runner, RunStep, Settlement, StartProcess, StartFails,
        RegisterRunningProcess, WritePid, Succeed, InstallDeps, AttemptFails,
        ApplyManualStopOverride, SettleLog, ResolveStatus, SettleRow, Finish,
        UnderWay, RunPcs
  <2>5. ~BootLoop
    BY <2>2 DEF BootLoop, StartupBegin
  <2>6. ~(Start \/ LifeStep \/ Terminate \/ Crash)
    BY <1>2, <2>1
    DEF Start, LifeStep, Serve, StopScheduler, CronStopped, StopAllRunningTasks,
        Wait, MarkInterrupted, Step, Terminate
  <2>7. ASSUME NEW r \in Reqs, Process(r) PROVE DownInv'
    BY <2>2, <2>7
    DEF Process, ProcessExits, DownInv, schedVars, ctlVars, gateVars
  <2>8. ASSUME NEW a \in Actors, Request(a) PROVE DownInv'
    <3>1. PICK o : Begin(a, o) /\ o.kind \in HttpKinds \cup CronKinds \cup {"cliStop"}
      BY <2>8, BeginMoves
    <3>2. o.kind = "cliStop" /\ Become(a, o)
      BY <2>2, <3>1 DEF Begin
    <3>3. \A b \in Everyone : op'[b].pc = "idle" \/ op'[b].kind = "cliStop"
      BY <2>2, <3>2, TypeParts DEF Become, OpsTyped
    <3>4. UNCHANGED <<serving, ticking, bootTodo, queue, wpc, rpc>>
      BY <3>1 DEF Begin, schedVars, execVars
    <3> QED
      BY <2>2, <3>3, <3>4 DEF DownInv
  <2>9. ASSUME NEW a \in Everyone, Operation(a) PROVE DownInv'
    <3>1. /\ op[a].pc # "idle" /\ MovesOn(a, op'[a])
          /\ \A b \in Everyone \ {a} : op'[b] = op[b]
      BY <2>9, OperationMoves DEF Operation
    <3>2. op[a].kind = "cliStop"
      BY <2>2, <3>1
    <3>3. \A b \in Everyone : op'[b].pc = "idle" \/ op'[b].kind = "cliStop"
      BY <2>2, <3>1, <3>2, NoOpType DEF MovesOn
    <3>4. StopStep(a)
      BY <2>9, <3>2
      DEF Operation, ContinueStep, RequestStep, EditStep, LoadTask,
          EnqueueRequest, MarkQueued, SaveRow, RereadRow, RegisterJob,
          UnregisterJob, DeleteLogs, DeleteRow, At
    <3>5. UNCHANGED <<serving, ticking, bootTodo>> /\ Aside
      BY <3>4, StopQuiet
      DEF StopStep, StopTask, KillVictims, LoadStopRow, MarkByPid, KillByPid,
          ResolveStop, WriteStopRow, FindRunningLog, AbortLog, WriteLastRun,
          gateVars
    <3> QED
      BY <2>2, <3>3, <3>5 DEF DownInv, Aside
  <2>10. CASE UNCHANGED vars
    BY <2>2, <2>10
    DEF vars, DownInv, schedVars, execVars, ctlVars, gateVars
  <2> QED
    BY <2>3, <2>4, <2>5, <2>6, <2>7, <2>8, <2>9, <2>10 DEF Next
<1> QED
  BY <1>1, <1>2

-----------------------------------------------------------------------------
(* The invariant, and the bound on processes.                              *)

RequestInv == PanelInv /\ PlaceInv /\ RunInv /\ DownInv

LEMMA NextRequest == RequestInv /\ [Next]_vars => RequestInv'
<1> SUFFICES ASSUME RequestInv, [Next]_vars PROVE RequestInv'
  OBVIOUS
<1>1. PanelInv' /\ TypeInv /\ BuiltInv
  BY NextInv DEF RequestInv, PanelInv
<1> QED
  BY <1>1, NextPlace, NextRun, NextDown DEF RequestInv

LEMMA RequestInvariance == Spec => []RequestInv
<1>1. Init => RequestInv
  BY InitInv, InitPlace, InitRun, InitDown DEF RequestInv
<1> QED
  BY <1>1, NextRequest, PTL DEF Spec

\* For every number of retries and of installs that are allowed, no run starts
\* more processes than the retries and the installs account for, and one.
THEOREM AttemptsAreBounded == Spec => []AttemptsBounded
<1>1. RequestInv => AttemptsBounded
  BY DEF RequestInv, RunInv, LoopInv, AttemptsBounded
<1> QED
  BY <1>1, RequestInvariance, PTL

-----------------------------------------------------------------------------
(* The refinement: what the phase of a request is.                         *)

PhaseFacts == \A r \in Reqs :
  /\ r \notin Built => Phase(r) = "free"
  /\ rpc[r] \in UnderWay => Phase(r) = "running"
  /\ rpc[r] = "done" => Phase(r) = "closed"
  /\ (\E a \in Everyone : Sends(a, r)) => Phase(r) = "built"
  /\ Waits(r) => Phase(r) = "sent"
  /\ Held(r) => Phase(r) = "taken"
  /\ r \in Built /\ rpc[r] = "none" /\ ~Waits(r) /\ ~Held(r)
        /\ (\A a \in Everyone : ~Sends(a, r)) => Phase(r) = "closed"

LEMMA PhaseOf == TypeInv /\ BuiltInv /\ PlaceInv => PhaseFacts
<1> SUFFICES ASSUME TypeInv, BuiltInv, PlaceInv, NEW r \in Reqs
             PROVE  PhaseFacts!(r)
  BY DEF PhaseFacts
<1>1. made \in Nat /\ r \in Nat /\ (r \in Built <=> r <= made) /\ rpc[r] \in RunPcs
  BY TypeParts, StoreAssumption DEF SchedTypeOK, ExecTypeOK, Built, Reqs
<1>2. /\ Senders(r) # {} <=> \E a \in Everyone : Sends(a, r)
      /\ Slots(r) # {} <=> Waits(r)
      /\ Holders(r) # {} <=> Held(r)
  BY DEF Senders, Slots, Holders, Sends, Waits, Held, Holds
<1>3. /\ (\E a \in Everyone : Sends(a, r)) => r \in Built /\ rpc[r] = "none"
      /\ Waits(r) => r \in Built /\ rpc[r] = "none"
                       /\ \A a \in Everyone : ~Sends(a, r)
      /\ Held(r) => r \in Built /\ rpc[r] = "none" /\ ~Waits(r)
                       /\ \A a \in Everyone : ~Sends(a, r)
  <2>1. Waits(r) => r \in Built
    BY DEF BuiltInv, Waits
  <2>2. Held(r) => r \in Built
    BY StoreAssumption DEF BuiltInv, PlaceInv, Released, Held, Holds, Reqs, NoReq
  <2> QED
    BY <2>1, <2>2
    DEF BuiltInv, PlaceInv, SentIsApart, QueuedIsApart, HeldIsApart, Sends
<1>4. rpc[r] # "none" => r \in Built
  BY DEF BuiltInv
<1> QED
  BY <1>1, <1>2, <1>3, <1>4 DEF Phase, UnderWay, RunPcs

LEMMA PhaseOfNext == TypeInv' /\ BuiltInv' /\ PlaceInv' => PhaseFacts'
BY PhaseOf, PTL

-----------------------------------------------------------------------------
(* The refinement: steps of the ledger.                                    *)

Live == {r \in Reqs : proc[r] = "alive"}
Phases == [r \in Reqs |-> Phase(r)]
LedgerStep == [Ledger!LedgerNext]_(Ledger!ledgerVars)

\* Nothing changes for the ledger but that scripts end.
LEMMA PhasesKept ==
  ASSUME \A r \in Reqs : Phase(r)' = Phase(r),
         \A r \in Reqs : proc'[r] = "alive" => proc[r] = "alive"
  PROVE  LedgerStep
<1>1. PICK gone : gone = Live \ Live'
  OBVIOUS
<1>2. Phases' = Phases /\ Live' = Live \ gone /\ gone \in SUBSET Live
  BY <1>1 DEF Phases, Live
<1>3. Ledger!Reap(gone)
  BY <1>2 DEF Ledger!Reap, Phases, Live
<1>4. \E lost \in SUBSET {r \in Reqs : proc[r] = "alive"} : Ledger!Reap(lost)
  BY <1>2, <1>3 DEF Live
<1> QED
  BY <1>4, Zenon DEF LedgerStep, Ledger!LedgerNext

\* One request moves on.
LEMMA OneMoves ==
  ASSUME NEW r \in Reqs, UNCHANGED proc,
         \A q \in Reqs : q # r => Phase(q)' = Phase(q),
         \/ Phase(r) = "free" /\ Phase(r)' = "built"
         \/ Phase(r) = "built" /\ Phase(r)' = "sent"
         \/ Phase(r) = "sent" /\ Phase(r)' = "taken"
         \/ Phase(r) = "taken" /\ Phase(r)' = "running"
         \/ /\ Phase(r) \in {"built", "sent", "taken", "running"}
            /\ Phase(r)' = "closed" /\ proc[r] # "alive"
  PROVE  LedgerStep
<1>1. Phases' = [Phases EXCEPT ![r] = Phase(r)'] /\ Phases[r] = Phase(r)
  BY DEF Phases
<1>2. UNCHANGED Live
  BY DEF Live
<1>3. \/ Ledger!Build(r) \/ Ledger!Send(r) \/ Ledger!Take(r) \/ Ledger!Run(r)
      \/ Ledger!Close(r)
  BY <1>1, <1>2
  DEF Phases, Live, Ledger!Build, Ledger!Send, Ledger!Take, Ledger!Run,
      Ledger!Close, Ledger!Move, Ledger!Open
<1> QED
  BY <1>3 DEF LedgerStep, Ledger!LedgerNext

\* A script starts.
LEMMA OneForks ==
  ASSUME NEW r \in Reqs, \A q \in Reqs : Phase(q)' = Phase(q),
         Phase(r) = "running", proc[r] # "alive",
         proc \in [Reqs -> {"none", "alive", "ok", "bad"}],
         proc' = [proc EXCEPT ![r] = "alive"]
  PROVE  LedgerStep
<1>1. Phases' = Phases /\ Phases[r] = "running"
  BY DEF Phases
<1>2. Live' = Live \cup {r} /\ r \notin Live
  BY DEF Live
<1>3. Ledger!Fork(r)
  BY <1>1, <1>2 DEF Ledger!Fork, Phases, Live
<1> QED
  BY <1>3 DEF LedgerStep, Ledger!LedgerNext

\* The process ends.
LEMMA AllPerish ==
  ASSUME \A r \in Reqs :
           Phase(r)' = IF Phase(r) = "free" THEN "free" ELSE "closed",
         \A r \in Reqs : Phase(r) \in {"free", "closed"} \cup Ledger!Open,
         \A r \in Reqs : proc'[r] # "alive"
  PROVE  LedgerStep
<1>1. Ledger!Perish
  BY DEF Ledger!Perish, Ledger!Open
<1> QED
  BY <1>1 DEF LedgerStep, Ledger!LedgerNext

\* What determines a phase determines its change.
LEMMA PhaseKept ==
  ASSUME PhaseFacts, PhaseFacts', NEW q \in Reqs,
         rpc[q] \in RunPcs, (q \in Built)' <=> q \in Built,
         rpc'[q] = rpc[q] \/ {rpc[q], rpc'[q]} \subseteq UnderWay,
         (\E a \in Everyone : Sends(a, q)') <=> (\E a \in Everyone : Sends(a, q)),
         Waits(q)' <=> Waits(q), Held(q)' <=> Held(q)
  PROVE  Phase(q)' = Phase(q)
BY DEF PhaseFacts, UnderWay

\* A step that touches neither channel, workers nor runs, and no operation that
\* is about to send.
LEMMA AsidePhases ==
  ASSUME TypeInv, PhaseFacts, PhaseFacts', Quiet, Aside,
         \A b \in Everyone : op[b].pc = "enqueue" => op'[b] = op[b],
         \A r \in Reqs : proc'[r] = "alive" => proc[r] = "alive"
  PROVE  LedgerStep
<1>1. rpc \in [Reqs -> RunPcs]
  BY TypeParts DEF ExecTypeOK
<1>2. \A b \in Everyone, q \in Reqs : Sends(b, q)' <=> Sends(b, q)
  BY DEF Quiet, Sends
<1>3. \A q \in Reqs : /\ (q \in Built)' <=> q \in Built
                      /\ rpc'[q] = rpc[q]
                      /\ Waits(q)' <=> Waits(q)
                      /\ Held(q)' <=> Held(q)
  BY DEF Aside, Built, Waits, Held, Holds
<1>4. \A q \in Reqs : Phase(q)' = Phase(q)
  BY <1>1, <1>2, <1>3, PhaseKept
<1> QED
  BY <1>4, PhasesKept

\* What a worker does with the requests that are in hand.
LEMMA WorkerHolds ==
  ASSUME TypeInv, PlaceInv, NEW w \in Workers, Worker(w), ~Dequeue(w)
  PROVE  /\ UNCHANGED <<op, queue, made, proc>>
         /\ \A r \in Reqs : Held(r)' => Held(r)
         /\ \A r \in Reqs : r # wreq[w] => (Held(r)' <=> Held(r))
<1>1. /\ wpc \in [Workers -> WorkerPcs] /\ wreq \in [Workers -> Reqs \cup {NoReq}]
      /\ NoReq \notin Reqs
  BY TypeParts, StoreAssumption DEF SchedTypeOK, NoReq, Reqs
<1>2. UNCHANGED <<op, queue, made, proc>>
  BY DEF Worker, SchedulerStep, Admit, Quit, CheckConcurrency, AddRunningTask,
     RemoveRunningTask, ExecutorStep, OnTaskExecuting, MarkRunning, Launch,
     LaunchFails, FailLog, FailRow, ctlVars, execVars, requestVars, loopVars
<1>3. \A v \in Workers \ {w} : wpc'[v] = wpc[v] /\ wreq'[v] = wreq[v]
  BY <1>1
  DEF Worker, SchedulerStep, Admit, Quit, CheckConcurrency, AddRunningTask,
      RemoveRunningTask, ExecutorStep, OnTaskExecuting, MarkRunning, Launch,
      LaunchFails, FailLog, FailRow, Goto, Release
<1>4. \A r \in Reqs : Holds(w, r)' => Holds(w, r)
  BY <1>1
  DEF Worker, SchedulerStep, Admit, Quit, CheckConcurrency, AddRunningTask,
      RemoveRunningTask, ExecutorStep, OnTaskExecuting, MarkRunning, Launch,
      LaunchFails, FailLog, FailRow, Goto, Release, Holds
<1>5. \A r \in Reqs, v \in Workers \ {w} : Holds(v, r)' <=> Holds(v, r)
  BY <1>3 DEF Holds
<1>6. \A r \in Reqs : r # wreq[w] => ~Holds(w, r)
  BY DEF Holds
<1> QED
  BY <1>2, <1>4, <1>5, <1>6 DEF Held

\* Worker: a request is taken, closed or run, or none of this.
LEMMA WorkerPhases ==
  ASSUME TypeInv, PlaceInv, AliveInv, PhaseFacts, PhaseFacts',
         NEW w \in Workers, Worker(w)
  PROVE  LedgerStep
<1>1. /\ rpc \in [Reqs -> RunPcs] /\ wpc \in [Workers -> WorkerPcs]
      /\ wreq \in [Workers -> Reqs \cup {NoReq}] /\ queue \in Seq(Reqs)
      /\ NoReq \notin Reqs
  BY TypeParts, StoreAssumption DEF ExecTypeOK, SchedTypeOK, NoReq, Reqs
<1>2. CASE Dequeue(w)
  <2>0. PICK e : e = Head(queue)
    OBVIOUS
  <2>1. Waits(e) /\ e \in Reqs /\ \A r : Waits(r)' <=> Waits(r) /\ r # e
    BY <1>1, <1>2, <2>0, TailPlace DEF Dequeue, PlaceInv
  <2>2. UNCHANGED <<op, made, rpc, proc>>
    BY <1>2
    DEF Dequeue, Worker, SchedulerStep, ExecutorStep, OnTaskExecuting,
        MarkRunning, Launch, LaunchFails, FailLog, FailRow, ctlVars, execVars,
        requestVars, loopVars
  <2>3. \A r \in Reqs, v \in Workers :
          Holds(v, r)' <=> Holds(v, r) \/ (v = w /\ r = e)
    BY <1>1, <1>2, <2>0 DEF Dequeue, Goto, Holds, PlaceInv, Released
  <2>4. \A r \in Reqs : Held(r)' <=> Held(r) \/ r = e
    BY <2>3 DEF Held
  <2>5. \A q \in Reqs : q # e => Phase(q)' = Phase(q)
    BY <1>1, <2>1, <2>2, <2>4, PhaseKept DEF Sends, Built
  <2>6. Phase(e) = "sent" /\ Phase(e)' = "taken"
    BY <2>1, <2>4 DEF PhaseFacts
  <2> QED
    BY <2>1, <2>2, <2>5, <2>6, OneMoves
<1>3. CASE ~Dequeue(w)
  <2>0. PICK r : r = wreq[w]
    OBVIOUS
  <2>1. /\ UNCHANGED <<op, queue, made, proc>>
        /\ \A q \in Reqs : Held(q)' => Held(q)
        /\ \A q \in Reqs : q # r => (Held(q)' <=> Held(q))
    BY <1>3, <2>0, WorkerHolds
  <2>2. \A q \in Reqs : q # r => rpc'[q] = rpc[q]
    BY <1>1, <2>0, WorkerFrame DEF Launch
  <2>3. \A q \in Reqs : q # r => Phase(q)' = Phase(q)
    BY <1>1, <2>1, <2>2, PhaseKept DEF Sends, Waits, Built
  <2>4. CASE r \in Reqs /\ Held(r) /\ ~Held(r)'
    <3>1. /\ Phase(r) = "taken" /\ rpc[r] = "none" /\ proc[r] # "alive"
          /\ ~Waits(r) /\ (\A a \in Everyone : ~Sends(a, r)) /\ r \in Built
      BY <2>4 DEF PhaseFacts, PlaceInv, HeldIsApart, QueuedIsApart, SentIsApart, AliveInv
    <3>2. CASE Launch(w)
      <4>1. rpc'[r] = "prepare"
        BY <1>1, <2>0, <2>4, <3>2 DEF Launch
      <4>2. Phase(r)' = "running"
        BY <2>4, <4>1 DEF PhaseFacts, UnderWay, RunPcs
      <4> QED
        BY <2>1, <2>3, <2>4, <3>1, <4>2, OneMoves
    <3>3. CASE ~Launch(w)
      <4>1. rpc' = rpc
        BY <3>3, WorkerFrame
      <4>2. /\ r \in Built' /\ ~Waits(r)' /\ rpc'[r] = "none"
            /\ \A a \in Everyone : ~Sends(a, r)'
        BY <2>1, <3>1, <4>1 DEF Built, Waits, Sends
      <4>3. Phase(r)' = "closed"
        BY <2>4, <4>2 DEF PhaseFacts
      <4> QED
        BY <2>1, <2>3, <2>4, <3>1, <4>3, OneMoves
    <3> QED
      BY <3>2, <3>3
  <2>5. CASE ~(r \in Reqs /\ Held(r) /\ ~Held(r)')
    <3>1. ~Launch(w)
      <4> SUFFICES ASSUME Launch(w) PROVE FALSE
        OBVIOUS
      <4>1. r \in Reqs /\ Holds(w, r)
        BY <2>0, TypeParts DEF Launch, TypeInv, WorkersHoldRequest, Holds
      <4>2. wreq' = wreq /\ wpc' = [wpc EXCEPT ![w] = "leaving"]
        BY DEF Launch, Goto
      <4>3. \A v \in Workers : ~Holds(v, r)'
        BY <1>1, <4>1, <4>2 DEF PlaceInv, OneHolder, Holds
      <4> QED
        BY <2>5, <4>1, <4>3 DEF Held
    <3>2. rpc' = rpc
      BY <3>1, WorkerFrame
    <3>3. \A q \in Reqs : Held(q)' <=> Held(q)
      BY <2>1, <2>5
    <3>4. \A q \in Reqs : Phase(q)' = Phase(q)
      BY <1>1, <2>1, <3>2, <3>3, PhaseKept DEF Sends, Waits, Built
    <3> QED
      BY <2>1, <3>4, PhasesKept
  <2> QED
    BY <2>4, <2>5
<1> QED
  BY <1>2, <1>3

\* Runner and its process: a script starts or ends, or the run is over.
LEMMA RunnerPhases ==
  ASSUME TypeInv, AliveInv, PhaseFacts, PhaseFacts',
         NEW r \in Reqs, Runner(r) \/ Process(r)
  PROVE  LedgerStep
<1>1. /\ rpc \in [Reqs -> RunPcs]
      /\ proc \in [Reqs -> {"none", "alive", "ok", "bad"}]
  BY TypeParts DEF ExecTypeOK
<1>2. UNCHANGED <<made, op, queue, wpc, wreq>>
  BY RunMoves
<1>3. \A q \in Reqs :
        rpc'[q] = rpc[q] \/ {rpc[q], rpc'[q]} \subseteq UnderWay =>
          Phase(q)' = Phase(q)
  BY <1>1, <1>2, PhaseKept DEF Sends, Waits, Held, Holds, Built
<1>4. CASE StartProcess(r)
  <2>1. \A q \in Reqs : Phase(q)' = Phase(q)
    BY <1>1, <1>3, <1>4 DEF StartProcess, RunGoto, UnderWay, RunPcs
  <2>2. Phase(r) = "running" /\ proc[r] # "alive"
    BY <1>4 DEF StartProcess, PhaseFacts, AliveInv, UnderWay, RunPcs
  <2> QED
    BY <1>1, <1>4, <2>1, <2>2, OneForks DEF StartProcess
<1>5. CASE Finish(r)
  <2>1. \A q \in Reqs : q # r => Phase(q)' = Phase(q)
    BY <1>1, <1>3, <1>5 DEF Finish, RunGoto
  <2>2. Phase(r) = "running" /\ Phase(r)' = "closed" /\ proc[r] # "alive"
    BY <1>1, <1>5 DEF Finish, RunGoto, PhaseFacts, AliveInv, UnderWay, RunPcs
  <2> QED
    BY <1>5, <2>1, <2>2, OneMoves DEF Finish, loopVars
<1>6. CASE ~StartProcess(r) /\ ~Finish(r)
  <2>1. \A q \in Reqs : rpc'[q] = rpc[q] \/ {rpc[q], rpc'[q]} \subseteq UnderWay
    BY <1>1, <1>6
    DEF Runner, Process, RunStep, Settlement, ProcessExits, StartFails, Retry,
        RegisterRunningProcess, WritePid, Succeed, InstallDeps, AttemptFails,
        ApplyManualStopOverride, SettleLog, ResolveStatus, SettleRow, RunGoto,
        UnderWay, RunPcs
  <2>2. \A q \in Reqs : proc'[q] = "alive" => proc[q] = "alive"
    BY <1>1, <1>6
    DEF Runner, Process, RunStep, Settlement, ProcessExits, StartFails,
        RegisterRunningProcess, WritePid, Succeed, InstallDeps, AttemptFails,
        ApplyManualStopOverride, SettleLog, ResolveStatus, SettleRow, loopVars
  <2> QED
    BY <1>3, <2>1, <2>2, PhasesKept
<1> QED
  BY <1>4, <1>5, <1>6

\* A request is built.
LEMMA BuildPhases ==
  ASSUME TypeInv, BuiltInv, AliveInv, PhaseFacts, PhaseFacts',
         NEW a \in Everyone, NEW o, o.pc = "enqueue" /\ o.req = made + 1,
         Become(a, o), op[a].pc # "enqueue", made < MaxReqs, made' = made + 1,
         UNCHANGED <<queue, wpc, wreq, rpc, proc>>
  PROVE  LedgerStep
<1>1. /\ made \in Nat /\ made + 1 \in Reqs /\ rpc \in [Reqs -> RunPcs]
      /\ op \in [Everyone -> Ops] /\ Reqs \subseteq Nat
  BY TypeParts, StoreAssumption DEF SchedTypeOK, ExecTypeOK, OpsTyped, Reqs
<1>2. PICK r \in Reqs : r = made + 1
  BY <1>1
<1>3. /\ r \notin Built /\ r \in Built'
      /\ \A q \in Reqs : q # r => ((q \in Built)' <=> q \in Built)
  BY <1>1, <1>2 DEF Built
<1>4. Sends(a, r)'
  BY <1>1, <1>2 DEF Sends, Become
<1>5. \A q \in Reqs, b \in Everyone : q # r => (Sends(b, q)' <=> Sends(b, q))
  BY <1>1, <1>2 DEF Sends, Become
<1>6. \A q \in Reqs : q # r => Phase(q)' = Phase(q)
  BY <1>1, <1>3, <1>5, PhaseKept DEF Waits, Held, Holds
<1>7. Phase(r) = "free" /\ Phase(r)' = "built"
  BY <1>3, <1>4 DEF PhaseFacts
<1> QED
  BY <1>6, <1>7, OneMoves

\* A request is sent, or refused.
LEMMA EnqueuePhases ==
  ASSUME TypeInv, BuiltInv, PlaceInv, AliveInv, PhaseFacts, PhaseFacts',
         NEW a \in Everyone, EnqueueRequest(a)
  PROVE  LedgerStep
<1>1. /\ op \in [Everyone -> Ops] /\ queue \in Seq(Reqs) /\ rpc \in [Reqs -> RunPcs]
      /\ op[a].req \in Reqs
  BY TypeParts
  DEF SchedTypeOK, ExecTypeOK, OpsTyped, TypeInv, SendersHoldRequest,
      EnqueueRequest, At
<1>2. PICK r \in Reqs : r = op[a].req
  BY <1>1
<1>3. UNCHANGED <<made, wpc, wreq, rpc, proc>> /\ Sends(a, r) /\ r \in Built
  BY <1>2 DEF EnqueueRequest, execVars, loopVars, requestVars, At, Sends, BuiltInv
<1>4. /\ ~Waits(r) /\ ~Held(r) /\ rpc[r] = "none" /\ proc[r] # "alive"
      /\ \A b \in Everyone : Sends(b, r) => b = a
  BY <1>3 DEF PlaceInv, SentIsApart, OneSender, AliveInv
<1>5. op'[a].pc # "enqueue" /\ \A b \in Everyone \ {a} : op'[b] = op[b]
  <2>1. op'[a].pc \in {"queued", "idle"}
    BY <1>1, NoOpType DEF EnqueueRequest, Proceed, Done, Become, Ops
  <2>2. \A b \in Everyone \ {a} : op'[b] = op[b]
    BY <1>1 DEF EnqueueRequest, Proceed, Done, Become
  <2> QED
    BY <2>1, <2>2
<1>6. \A q \in Reqs, b \in Everyone :
        Sends(b, q)' <=> Sends(b, q) /\ b # a
  BY <1>5 DEF Sends
<1>7. \A q \in Reqs : /\ (q \in Built)' <=> q \in Built
                      /\ Held(q)' <=> Held(q)
  BY <1>3 DEF Built, Held, Holds
<1>8. \A q \in Reqs : q # r =>
        ((\E b \in Everyone : Sends(b, q)') <=> (\E b \in Everyone : Sends(b, q)))
  BY <1>2, <1>6 DEF Sends
<1>9. Phase(r) = "built"
  BY <1>3 DEF PhaseFacts
<1>10. CASE UNCHANGED queue
  <2>1. \A q \in Reqs : Waits(q)' <=> Waits(q)
    BY <1>10 DEF Waits
  <2>2. \A q \in Reqs : q # r => Phase(q)' = Phase(q)
    BY <1>1, <1>3, <1>7, <1>8, <2>1, PhaseKept
  <2>3. Phase(r)' = "closed"
    BY <1>3, <1>4, <1>6, <1>7, <2>1 DEF PhaseFacts
  <2> QED
    BY <1>3, <1>4, <1>9, <2>2, <2>3, OneMoves
<1>11. CASE queue' = Append(queue, r)
  <2>1. \A q : Waits(q)' <=> Waits(q) \/ q = r
    BY <1>1, <1>4, <1>11, AppendPlace DEF PlaceInv
  <2>2. \A q \in Reqs : q # r => Phase(q)' = Phase(q)
    BY <1>1, <1>3, <1>7, <1>8, <2>1, PhaseKept
  <2>3. Phase(r)' = "sent"
    BY <2>1 DEF PhaseFacts
  <2> QED
    BY <1>3, <1>9, <2>2, <2>3, OneMoves
<1> QED
  BY <1>2, <1>10, <1>11 DEF EnqueueRequest, Enqueue, EnqueueFails

\* Those who control tasks.
LEMMA ControlPhases ==
  ASSUME TypeInv, BuiltInv, PlaceInv, AliveInv, PhaseFacts, PhaseFacts', ControlStep
  PROVE  LedgerStep
<1>1. op \in [Everyone -> Ops] /\ \A r \in Reqs : proc'[r] = "alive" => proc[r] = "alive"
  BY TypeParts, ControlFrame DEF OpsTyped
<1>2. ASSUME NEW a \in Actors, Request(a) PROVE LedgerStep
  <2>1. Quiet /\ Aside
    BY <1>2, BeginQuiet
  <2>2. \A b \in Everyone : op[b].pc = "enqueue" => op'[b] = op[b]
    BY <1>1, <1>2, BeginMoves DEF Begin, Become
  <2> QED
    BY <1>1, <2>1, <2>2, AsidePhases
<1>3. ASSUME NEW a \in Everyone, ContinueStep(a), op[a].pc # "enqueue", Quiet, Aside
      PROVE  LedgerStep
  <2>1. \A b \in Everyone : op[b].pc = "enqueue" => op'[b] = op[b]
    BY <1>3, OperationMoves
  <2> QED
    BY <1>1, <1>3, <2>1, AsidePhases
<1>4. ASSUME NEW a \in Everyone, LoadTask(a) PROVE LedgerStep
  <2>1. op[a].pc # "enqueue" /\ UNCHANGED <<queue, wpc, wreq, rpc, proc>>
    BY <1>4 DEF LoadTask, At, execVars, loopVars
  <2>2. CASE Done(a) /\ UNCHANGED <<rtask, requestVars>>
    <3>1. Quiet /\ Aside
      BY <2>1, <2>2, QuietMoves DEF Aside, requestVars
    <3> QED
      BY <1>3, <1>4, <2>1, <3>1 DEF ContinueStep, RequestStep
  <2>3. ASSUME Become(a, [op[a] EXCEPT !.pc = "enqueue", !.req = made + 1]),
               made < MaxReqs, made' = made + 1
        PROVE  LedgerStep
    <3> DEFINE o == [op[a] EXCEPT !.pc = "enqueue", !.req = made + 1]
    <3>1. o.pc = "enqueue" /\ o.req = made + 1
      BY <1>1 DEF Ops
    <3> HIDE DEF o
    <3> QED
      BY <2>1, <2>3, <3>1, BuildPhases DEF o
  <2> QED
    BY <1>4, <2>2, <2>3 DEF LoadTask, BuildRequest
<1>5. CASE BootLoop
  <2>1. PICK t \in Tasks : StartupBegin(t)
    BY <1>5 DEF BootLoop
  <2> DEFINE o == [Blank("startup", t, "enqueue") EXCEPT !.req = made + 1]
  <2>2. Blank("startup", t, "enqueue") \in Ops
    BY BlankTypes DEF AllKinds, Pcs
  <2>3. o.pc = "enqueue" /\ o.req = made + 1
    BY <2>2, NoOpType DEF Ops, Blank
  <2>4. /\ UNCHANGED <<queue, wpc, wreq, rpc, proc>> /\ op[Boot].pc # "enqueue"
        /\ made < MaxReqs /\ made' = made + 1 /\ Become(Boot, o) /\ Boot \in Everyone
    BY <2>1 DEF StartupBegin, BuildRequest, execVars, loopVars, Everyone
  <2> HIDE DEF o
  <2> QED
    BY <2>3, <2>4, BuildPhases
<1>6. ASSUME NEW a \in Everyone, MarkQueued(a) PROVE LedgerStep
  BY <1>3, <1>6, QueuedQuiet DEF MarkQueued, At, ContinueStep, RequestStep
<1>7. ASSUME NEW a \in Everyone, EditStep(a) PROVE LedgerStep
  <2>1. op[a].pc # "enqueue"
    BY <1>7
    DEF EditStep, SaveRow, RereadRow, RegisterJob, UnregisterJob, DeleteLogs,
        DeleteRow, At
  <2> QED
    BY <1>3, <1>7, <2>1, EditQuiet DEF ContinueStep
<1>8. ASSUME NEW a \in Everyone, StopStep(a) PROVE LedgerStep
  <2>1. op[a].pc # "enqueue"
    BY <1>8
    DEF StopStep, StopTask, KillVictims, LoadStopRow, MarkByPid, KillByPid,
        ResolveStop, WriteStopRow, FindRunningLog, AbortLog, WriteLastRun, At
  <2> QED
    BY <1>3, <1>8, <2>1, StopQuiet DEF ContinueStep
<1>9. ASSUME NEW a \in Everyone, Operation(a) PROVE LedgerStep
  BY <1>4, <1>6, <1>7, <1>8, <1>9, EnqueuePhases
  DEF Operation, ContinueStep, RequestStep
<1> QED
  BY <1>2, <1>5, <1>9 DEF ControlStep

\* Nobody holds a request with empty hands.
LEMMA EmptyHands ==
  /\ (\A w \in Workers : wreq[w] = NoReq) => \A r \in Reqs : ~Held(r)
  /\ queue = <<>> => \A r : ~Waits(r)
BY StoreAssumption DEF Held, Holds, Waits, Reqs, NoReq

LEMMA EmptyHandsNext ==
  /\ (\A w \in Workers : wreq'[w] = NoReq) => \A r \in Reqs : ~Held(r)'
  /\ queue' = <<>> => \A r : ~Waits(r)'
BY StoreAssumption DEF Held, Holds, Waits, Reqs, NoReq

\* main: the requests of a process end with it, and a start finds none.
LEMMA LifePhases ==
  ASSUME TypeInv, BuiltInv, PlaceInv, DownInv, PhaseFacts, PhaseFacts',
         Start \/ LifeStep \/ Terminate \/ Crash
  PROVE  LedgerStep
<1>1. rpc \in [Reqs -> RunPcs]
  BY TypeParts DEF ExecTypeOK
<1>2. CASE Start
  <2>1. /\ queue = <<>> /\ \A w \in Workers : wpc[w] = "exited"
        /\ UNCHANGED <<op, made, rpc, proc>>
        /\ queue' = <<>> /\ wreq' = [w \in Workers |-> NoReq]
    BY <1>2
    DEF Start, DownInv, StartScheduler, execVars, requestVars, loopVars
  <2>2. \A r \in Reqs : ~Held(r) /\ ~Held(r)' /\ ~Waits(r) /\ ~Waits(r)'
    BY <2>1, EmptyHands, EmptyHandsNext DEF PlaceInv, Released
  <2>3. \A r \in Reqs : Phase(r)' = Phase(r)
    BY <1>1, <2>1, <2>2, PhaseKept DEF Sends, Built
  <2> QED
    BY <2>1, <2>3, PhasesKept
<1>3. CASE Serve \/ StopScheduler \/ CronStopped \/ StopAllRunningTasks \/ Wait
             \/ MarkInterrupted \/ Terminate
  <2>1. UNCHANGED <<op, made, queue, wpc, wreq, rpc>>
    BY <1>3
    DEF Serve, StopScheduler, CronStopped, StopAllRunningTasks, Wait,
        MarkInterrupted, Terminate, schedVars, requestVars, execVars, ctlVars
  <2>2. UNCHANGED proc \/ \E victims : KillProcesses(victims)
    BY <1>3
    DEF Serve, StopScheduler, CronStopped, StopAllRunningTasks, Wait,
        MarkInterrupted, Terminate, execVars, loopVars
  <2> QED
    BY <2>1, <2>2, KillFrame, AsidePhases DEF Quiet, Aside
<1>4. CASE Exit \/ Crash
  <2>1. /\ UNCHANGED made /\ queue' = <<>> /\ wreq' = [w \in Workers |-> NoReq]
        /\ rpc' = [r \in Reqs |-> IF rpc[r] = "none" THEN "none" ELSE "done"]
        /\ proc' = [r \in Reqs |-> "none"]
        /\ op' = [a \in Everyone |-> IF op[a].kind = "cliStop" THEN op[a] ELSE NoOp]
    BY <1>4 DEF Exit, Crash, Vanish, DropScheduler, DropExecutor, requestVars
  <2>2. \A a \in Everyone : op'[a].pc # "enqueue"
    BY <2>1, NoOpType DEF PlaceInv, SendersRun
  <2>3. \A r \in Reqs : /\ ~Held(r)' /\ ~Waits(r)' /\ \A a \in Everyone : ~Sends(a, r)'
                        /\ (r \in Built)' <=> r \in Built
    BY <2>1, <2>2, EmptyHandsNext DEF Sends, Built
  <2>4. \A r \in Reqs : r \in Built => Phase(r)' = "closed"
    BY <2>1, <2>3 DEF PhaseFacts
  <2>5. \A r \in Reqs : r \notin Built => Phase(r) = "free" /\ Phase(r)' = "free"
    BY <2>3 DEF PhaseFacts
  <2>6. \A r \in Reqs : r \in Built => Phase(r) \in {"closed"} \cup Ledger!Open
    BY <1>1 DEF PhaseFacts, Ledger!Open, UnderWay, RunPcs
  <2> QED
    BY <2>1, <2>4, <2>5, <2>6, AllPerish DEF Ledger!Open
<1> QED
  BY <1>2, <1>3, <1>4 DEF LifeStep

\* Every step of the panel is one of the ledger, or none.
LEMMA NextPhases == RequestInv /\ RequestInv' /\ [Next]_vars => LedgerStep
<1> SUFFICES ASSUME RequestInv, RequestInv', [Next]_vars PROVE LedgerStep
  OBVIOUS
<1>1. TypeInv /\ BuiltInv /\ PlaceInv /\ AliveInv /\ DownInv
  BY DEF RequestInv, PanelInv, RunInv
<1>2. TypeInv' /\ BuiltInv' /\ PlaceInv'
  BY DEF RequestInv, PanelInv
<1>3. PhaseFacts /\ PhaseFacts'
  BY <1>1, <1>2, PhaseOf, PhaseOfNext
<1>4. CASE UNCHANGED vars
  <2>1. UNCHANGED <<op, made, queue, wpc, wreq, rpc, proc>>
    BY <1>4 DEF vars, schedVars, requestVars, execVars, loopVars, ctlVars
  <2> QED
    BY <1>1, <1>3, <2>1, AsidePhases DEF Quiet, Aside
<1> QED
  BY <1>1, <1>3, <1>4, WorkerPhases, RunnerPhases, ControlPhases, LifePhases
  DEF Next, ControlStep

LEMMA InitPhases == Init => Ledger!LedgerInit
<1> SUFFICES ASSUME Init PROVE Ledger!LedgerInit
  OBVIOUS
<1>1. \A r \in Reqs : Phase(r) = "free"
  <2>1. PhaseFacts
    BY InitInv, InitPlace, PhaseOf DEF PanelInv
  <2>2. \A r \in Reqs : r \notin Built
    BY DEF Init, SchedInit, Built, Reqs
  <2> QED
    BY <2>1, <2>2 DEF PhaseFacts
<1>2. \A r \in Reqs : proc[r] # "alive"
  BY DEF Init, ExecInit
<1> QED
  BY <1>1, <1>2 DEF Ledger!LedgerInit

\* For any tasks, workers, queue and bounds: a request that was built is sent,
\* taken by one worker and run, at most once each, whatever requests, edits,
\* stops, shutdowns and crashes come between; it has a live script only while
\* it runs, and what was closed does not come back.
THEOREM RequestsRunAtMostOnce == Spec => ImplementsRunLedger
BY InitPhases, NextPhases, RequestInvariance, PTL
DEF Spec, ImplementsRunLedger, LedgerStep, Ledger!LedgerSpec
=============================================================================
