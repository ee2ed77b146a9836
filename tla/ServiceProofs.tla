---------------------------- MODULE ServiceProofs ----------------------------
(***************************************************************************)
(* What holds of the smaller parts of the panel for every value of their   *)
(* constants: the runtimes of Android, the debug runs of scripts, the      *)
(* managed commands and the live logs.  They share no variable; a section  *)
(* each.                                                                   *)
(***************************************************************************)
EXTENDS AndroidProps, DebugProps, CommandProps, LogProps, FiniteSetTheorems, SequenceTheorems, TLAPS


-----------------------------------------------------------------------------
(***************************************************************************)
(* The files of an Android runtime come from one release, whatever the     *)
(* names, the archives, their entries and the requests are.                *)
(*                                                                         *)
(* The property alone is not inductive: an installation that unpacks adds  *)
(* an entry of its own release to whatever is there.  What is there is of  *)
(* that release too, because the installation removed the old files first  *)
(* and holds androidInstallMu since, so that nobody else has added any.    *)
(***************************************************************************)

Progress == {"idle", "clean", "download", "unpack", "ok", "unusable", "failed", "busy"}

Installing(q) == install[q].pc \in {"clean", "download", "unpack"}

\* The shape of the state.
AndroidTypes ==
  /\ DOMAIN files = Names
  /\ DOMAIN install = Requests
  /\ \A q \in Requests :
       /\ install[q] \in [pc : Progress, name : Names \cup {"none"},
                          release : Releases \cup {"none"}, next : Nat]
       /\ Installing(q) => install[q].name \in Names

\* An installation under way holds the mutex.
HoldsMutex == \A q \in Requests : Installing(q) => androidInstallMu = q

\* Once it has removed the old files, only files of its own release are there.
OwnFiles ==
  \A q \in Requests :
    /\ install[q].pc = "download" => DOMAIN files[install[q].name] = {}
    /\ install[q].pc = "unpack" =>
         \A f \in DOMAIN files[install[q].name] :
           files[install[q].name][f] = install[q].release

AndroidInv == AndroidTypes /\ HoldsMutex /\ OwnFiles /\ OneReleasePerRuntime

LEMMA AndroidInitially == AndroidInit => AndroidInv
  BY AndroidAssumption
  DEF AndroidInit, AndroidInv, AndroidTypes, HoldsMutex, OwnFiles, OneReleasePerRuntime,
      Installing, Progress, Empty, NotAsked

\* A request is accepted only while nobody holds the mutex, hence while no
\* installation is under way.
LEMMA AskKeeps ==
  ASSUME AndroidInv, NEW q \in Requests, InstallGuarded(q)
  PROVE  AndroidInv'
<1>1. CASE androidInstallMu = Unlocked /\ Ask(q, q)
  <2>1. \A p \in Requests : ~Installing(p)
    BY <1>1, AndroidAssumption DEF AndroidInv, HoldsMutex
  <2>2. PICK n \in Names, r \in Releases :
          install' = [install EXCEPT ![q] = [pc |-> "clean", name |-> n,
                                             release |-> r, next |-> 1]]
    BY <1>1 DEF Ask
  <2>3. androidInstallMu' = q /\ UNCHANGED files
    BY <1>1 DEF Ask
  <2>4. \A p \in Requests : p # q => install'[p] = install[p] /\ ~Installing(p)'
    BY <2>1, <2>2 DEF AndroidInv, AndroidTypes, Installing
  <2>5. AndroidTypes'
    BY <2>2, <2>3, <2>4 DEF AndroidInv, AndroidTypes, Installing, Progress
  <2>6. HoldsMutex' /\ OwnFiles'
    BY <2>2, <2>3, <2>4 DEF AndroidInv, AndroidTypes, HoldsMutex, OwnFiles, Installing
  <2> QED BY <2>3, <2>5, <2>6 DEF AndroidInv, OneReleasePerRuntime
<1>2. CASE /\ install[q].pc \in {"idle", "ok", "unusable", "failed"}
           /\ To(q, "busy") /\ UNCHANGED <<files, androidInstallMu>>
  <2>1. \A p \in Requests : Installing(p)' <=> Installing(p)
    BY <1>2 DEF AndroidInv, AndroidTypes, Installing, To
  <2> QED
    BY <1>2, <2>1
    DEF AndroidInv, AndroidTypes, HoldsMutex, OwnFiles, OneReleasePerRuntime, Installing,
        Progress, To
<1> QED BY <1>1, <1>2 DEF InstallGuarded

\* An installation that ends gives its mutex back.  Nobody else installs.
LEMMA ReplyKeeps ==
  ASSUME AndroidInv, NEW q \in Requests, NEW pc \in {"ok", "unusable", "failed"},
         Installing(q), Reply(q, pc), UNCHANGED files
  PROVE  AndroidInv'
<1>1. \A p \in Requests : Installing(p)' => Installing(p) /\ p # q
  BY DEF AndroidInv, AndroidTypes, Installing, Reply, To
<1>2. \A p \in Requests : ~Installing(p)'
  BY <1>1 DEF AndroidInv, HoldsMutex
<1>3. AndroidTypes'
  BY <1>2 DEF AndroidInv, AndroidTypes, Installing, Progress, Reply, To
<1>4. HoldsMutex' /\ OwnFiles'
  BY <1>2 DEF HoldsMutex, OwnFiles, Installing
<1> QED BY <1>3, <1>4 DEF AndroidInv, OneReleasePerRuntime

\* The steps of the one installation that is under way.
LEMMA InstallKeeps ==
  ASSUME AndroidInv, NEW q \in Requests,
         RemoveOld(q) \/ Download(q) \/ Unpack(q) \/ Verify(q) \/ InstallFails(q)
  PROVE  AndroidInv'
<1> DEFINE n == install[q].name
<1>1. Installing(q) /\ n \in Names /\ \A p \in Requests : Installing(p) => p = q
  BY DEF AndroidInv, AndroidTypes, HoldsMutex, Installing, RemoveOld, Download, Unpack, Verify,
         InstallFails
<1>2. CASE RemoveOld(q)
  <2>1. install' = [install EXCEPT ![q].pc = "download"] /\ UNCHANGED androidInstallMu
    BY <1>2 DEF RemoveOld, To
  <2>2. files' = [files EXCEPT ![n] = Empty]
    BY <1>2 DEF RemoveOld
  <2>3. AndroidTypes' /\ HoldsMutex'
    BY <1>1, <2>1, <2>2 DEF AndroidInv, AndroidTypes, HoldsMutex, Installing, Progress
  <2>4. OwnFiles'
    BY <1>1, <2>1, <2>2 DEF AndroidInv, AndroidTypes, OwnFiles, Installing, Empty
  <2>5. OneReleasePerRuntime'
    BY <2>2 DEF AndroidInv, AndroidTypes, OneReleasePerRuntime, Empty
  <2> QED BY <2>3, <2>4, <2>5 DEF AndroidInv
<1>3. CASE Download(q)
  <2>1. install' = [install EXCEPT ![q].pc = "unpack"] /\ UNCHANGED <<files, androidInstallMu>>
    BY <1>3 DEF Download, To
  <2>2. AndroidTypes' /\ HoldsMutex'
    BY <1>1, <2>1 DEF AndroidInv, AndroidTypes, HoldsMutex, Installing, Progress
  <2>3. OwnFiles'
    BY <1>1, <1>3, <2>1 DEF AndroidInv, AndroidTypes, OwnFiles, Installing, Download
  <2> QED BY <2>1, <2>2, <2>3 DEF AndroidInv, OneReleasePerRuntime
<1>4. CASE Unpack(q)
  <2> DEFINE f == Entries[install[q].next]
             r == install[q].release
  <2>1. install' = [install EXCEPT ![q].next = @ + 1] /\ UNCHANGED androidInstallMu
    BY <1>4 DEF Unpack
  <2>2. files' = [files EXCEPT ![n] = [g \in DOMAIN files[n] \cup {f} |->
                                         IF g = f THEN r ELSE files[n][g]]]
    BY <1>1, <1>4 DEF Unpack
  <2>3. AndroidTypes' /\ HoldsMutex'
    BY <1>1, <2>1, <2>2 DEF AndroidInv, AndroidTypes, HoldsMutex, Installing, Progress
  <2>4. \A g \in DOMAIN files'[n] : files'[n][g] = r
    BY <1>1, <1>4, <2>2 DEF AndroidInv, AndroidTypes, OwnFiles, Unpack
  <2>5. \A m \in Names : m # n => files'[m] = files[m]
    BY <2>2 DEF AndroidInv, AndroidTypes
  <2>6. OwnFiles'
    BY <1>1, <1>4, <2>1, <2>4 DEF AndroidInv, AndroidTypes, OwnFiles, Installing, Unpack
  <2>7. OneReleasePerRuntime'
    BY <2>4, <2>5 DEF AndroidInv, OneReleasePerRuntime
  <2> QED BY <2>3, <2>6, <2>7 DEF AndroidInv
<1>5. CASE Verify(q)
  BY <1>1, <1>5, ReplyKeeps DEF Verify
<1>6. CASE InstallFails(q)
  BY <1>1, <1>6, ReplyKeeps DEF InstallFails
<1> QED BY <1>2, <1>3, <1>4, <1>5, <1>6

\* Uninstall holds no lock, but it only takes files away.
LEMMA UninstallKeeps ==
  ASSUME AndroidInv, NEW n \in Names, Uninstall(n)
  PROVE  AndroidInv'
<1>1. files' = [files EXCEPT ![n] = Empty] /\ UNCHANGED <<install, androidInstallMu>>
  BY DEF Uninstall
<1>2. AndroidTypes' /\ HoldsMutex'
  BY <1>1 DEF AndroidInv, AndroidTypes, HoldsMutex, Installing
<1>3. \A m \in Names : DOMAIN files'[m] = {} \/ files'[m] = files[m]
  BY <1>1 DEF AndroidInv, AndroidTypes, Empty
<1>4. OwnFiles'
  BY <1>1, <1>3 DEF AndroidInv, AndroidTypes, OwnFiles, Installing
<1>5. OneReleasePerRuntime'
  BY <1>3 DEF AndroidInv, OneReleasePerRuntime
<1> QED BY <1>2, <1>4, <1>5 DEF AndroidInv

\* Whatever installations and removals are asked for at once, however many
\* runtimes, releases and entries there are, and whatever fails: the files of
\* a runtime are of one release.
THEOREM FilesOfOneRelease == AndroidSpec => []OneReleasePerRuntime
<1>1. AndroidInv /\ [AndroidNext]_androidVars => AndroidInv'
  <2> SUFFICES ASSUME AndroidInv, [AndroidNext]_androidVars PROVE AndroidInv'
    OBVIOUS
  <2>1. CASE UNCHANGED androidVars
    BY <2>1 DEF androidVars, AndroidInv, AndroidTypes, HoldsMutex, OwnFiles, Installing,
                OneReleasePerRuntime
  <2>2. CASE \E q \in Requests : InstallGuarded(q)
    BY <2>2, AskKeeps
  <2>3. CASE \E q \in Requests : RemoveOld(q) \/ Download(q) \/ Unpack(q) \/ Verify(q) \/ InstallFails(q)
    BY <2>3, InstallKeeps
  <2>4. CASE \E n \in Names : Uninstall(n)
    BY <2>4, UninstallKeeps
  <2> QED BY <2>1, <2>2, <2>3, <2>4 DEF AndroidNext
<1>2. AndroidInv => OneReleasePerRuntime
  BY DEF AndroidInv
<1> QED BY <1>1, <1>2, AndroidInitially, PTL DEF AndroidSpec

-----------------------------------------------------------------------------
(***************************************************************************)
(* A debug run that is shown as done has no process, for every number of   *)
(* runs and of installs.                                                   *)
(*                                                                         *)
(* A stop kills the process there is and marks the run; what remains to be *)
(* shown is that no process is started after it.  Only Retry starts one,   *)
(* and its goroutine gets there past a look at the mark: a run at "retry"  *)
(* that is done was marked after that look.                                *)
(***************************************************************************)

TrialPcs == {"free", "wait", "detect", "install", "retry", "finish", "end"}

DebugTypes ==
  /\ DOMAIN trial = Trials
  /\ \A r \in Trials :
       trial[r] \in [pc : TrialPcs, kind : TrialKinds \cup {"file"}, id : Nat,
                     status : {"running", "stopped", "success", "failed"},
                     done : BOOLEAN, alive : BOOLEAN, exit : {0, 1},
                     installs : Nat, late : BOOLEAN]
  /\ \A i \in DOMAIN debugRuns : debugRuns[i] \in Trials \cup {NoTrial}
  /\ DOMAIN debugRuns \subseteq Nat

\* A process belongs to a goroutine that waits for it.
AliveIsAwaited == \A r \in Trials : trial[r].alive => Stands(r, "wait")

\* What is done was stopped, or its goroutine has ended.
DoneIsOver == \A r \in Trials : trial[r].done => isStopped(r) \/ Stands(r, "end")

\* Who is past the last look at the status when the run is done was late.
RetryIsLate == \A r \in Trials : Stands(r, "retry") /\ trial[r].done => trial[r].late

DebugInv == DebugTypes /\ AliveIsAwaited /\ DoneIsOver /\ RetryIsLate /\ DoneRunIsDead

\* The parts of the invariant that speak of one run.
TrialOK(t) ==
  /\ t \in [pc : TrialPcs, kind : TrialKinds \cup {"file"}, id : Nat,
            status : {"running", "stopped", "success", "failed"},
            done : BOOLEAN, alive : BOOLEAN, exit : {0, 1}, installs : Nat, late : BOOLEAN]
  /\ t.alive => t.pc = "wait"
  /\ t.done => t.status = "stopped" \/ t.pc = "end"
  /\ t.pc = "retry" /\ t.done => t.late
  /\ t.done /\ t.alive => t.late

TableOK ==
  /\ \A i \in DOMAIN debugRuns : debugRuns[i] \in Trials \cup {NoTrial}
  /\ DOMAIN debugRuns \subseteq Nat

LEMMA InvIsOfTrials ==
  DebugInv <=> DOMAIN trial = Trials /\ (\A r \in Trials : TrialOK(trial[r])) /\ TableOK
BY DEF DebugInv, DebugTypes, AliveIsAwaited, DoneIsOver, RetryIsLate, DoneRunIsDead, TrialOK,
       TableOK, Stands, isStopped

LEMMA InvIsOfTrialsNext ==
  DebugInv' <=> DOMAIN trial' = Trials /\ (\A r \in Trials : TrialOK(trial'[r])) /\ TableOK'
BY DEF DebugInv, DebugTypes, AliveIsAwaited, DoneIsOver, RetryIsLate, DoneRunIsDead, TrialOK,
       TableOK, Stands, isStopped

\* A step that changes one run keeps the invariant if the run is in order after it.
LEMMA OneTrial ==
  ASSUME DebugInv, NEW r \in Trials, NEW t, Trial(r, t), TrialOK(t), TableOK'
  PROVE  DebugInv'
BY InvIsOfTrials, InvIsOfTrialsNext DEF Trial

LEMMA TrialStartKeeps ==
  ASSUME DebugInv, NEW r \in Trials, NEW kind \in TrialKinds, NEW stamp, StartTrial(r, kind, stamp)
  PROVE  DebugInv'
<1> DEFINE t == [NewTrial EXCEPT !.pc = "wait", !.kind = kind, !.id = stamp, !.alive = TRUE]
<1>1. stamp \in DOMAIN debugRuns /\ debugRuns' = [debugRuns EXCEPT ![stamp] = r] /\ Trial(r, t)
  BY DEF StartTrial
<1>2. TableOK'
  BY <1>1, InvIsOfTrials DEF TableOK
<1>3. stamp \in Nat
  BY <1>1, InvIsOfTrials DEF TableOK
<1>4. TrialOK(t)
  BY <1>3 DEF TrialOK, NewTrial, TrialPcs
<1> QED BY <1>1, <1>2, <1>4, OneTrial

LEMMA ExitKeeps ==
  ASSUME DebugInv, NEW r \in Trials, NEW code \in {0, 1}, ProcessExits(r, code)
  PROVE  DebugInv'
<1>1. Trial(r, [trial[r] EXCEPT !.alive = FALSE, !.exit = code]) /\ UNCHANGED debugRuns
  BY DEF ProcessExits
<1>2. TrialOK([trial[r] EXCEPT !.alive = FALSE, !.exit = code])
  BY InvIsOfTrials DEF TrialOK
<1>3. TableOK'
  BY <1>1, InvIsOfTrials DEF TableOK
<1> QED BY <1>1, <1>2, <1>3, OneTrial

\* The goroutine starts no process but at "retry", and comes there only past
\* a look that found the run not stopped, hence not done.
LEMMA GoroutineKeeps ==
  ASSUME DebugInv, NEW r \in Trials, TrialStep(r)
  PROVE  DebugInv'
<1>1. TrialOK(trial[r]) /\ TableOK
  BY InvIsOfTrials
<1>2. UNCHANGED debugRuns
  BY DEF TrialStep, Waited, detectAutoInstallCandidate, installDepForDebug, Retry, finish
<1>3. TableOK'
  BY <1>1, <1>2 DEF TableOK
<1>4. \A pc \in TrialPcs \ {"retry"} : ~trial[r].alive /\ trial[r].pc # "end"
         => TrialOK([trial[r] EXCEPT !.pc = pc])
  BY <1>1 DEF TrialOK, TrialPcs
<1>5. CASE Waited(r)
  <2>1. PICK pc \in {"end", "finish", "detect"} : Trial(r, [trial[r] EXCEPT !.pc = pc])
    BY <1>5 DEF Waited
  <2> QED BY <2>1, <1>3, <1>4, <1>5, OneTrial DEF Waited, Stands, TrialPcs
<1>6. CASE detectAutoInstallCandidate(r)
  <2>1. ~trial[r].alive /\ trial[r].pc = "detect"
    BY <1>1, <1>6 DEF detectAutoInstallCandidate, Stands, TrialOK
  <2>2. PICK pc \in {"end", "finish", "install"} : Trial(r, [trial[r] EXCEPT !.pc = pc])
    BY <1>6 DEF detectAutoInstallCandidate, Ends
  <2> QED BY <2>1, <2>2, <1>3, <1>4, OneTrial DEF TrialPcs
<1>7. CASE installDepForDebug(r)
  <2>1. ~trial[r].alive /\ trial[r].pc = "install"
    BY <1>1, <1>7 DEF installDepForDebug, Stands, TrialOK
  <2>2. CASE isStopped(r)
    BY <1>7, <2>1, <2>2, <1>3, <1>4, OneTrial DEF installDepForDebug, Ends, TrialPcs
  <2>3. CASE ~isStopped(r)
    <3>1. ~trial[r].done
      BY <1>1, <2>1, <2>3 DEF TrialOK, isStopped
    <3>2. TrialOK([trial[r] EXCEPT !.pc = "retry", !.installs = @ + 1])
      <4>1. trial[r].installs + 1 \in Nat
        BY <1>1 DEF TrialOK
      <4>2. ASSUME NEW k \in Nat PROVE TrialOK([trial[r] EXCEPT !.pc = "retry", !.installs = k])
        BY <1>1, <2>1, <3>1 DEF TrialOK, TrialPcs
      <4> QED BY <4>1, <4>2
    <3>3. TrialOK([trial[r] EXCEPT !.pc = "finish"])
      BY <2>1, <1>4 DEF TrialPcs
    <3> QED BY <1>7, <2>3, <3>2, <3>3, <1>3, OneTrial DEF installDepForDebug
  <2> QED BY <2>2, <2>3
<1>8. CASE Retry(r)
  <2>1. ~trial[r].alive /\ trial[r].pc = "retry"
    BY <1>1, <1>8 DEF Retry, Stands, TrialOK
  <2>2. TrialOK([trial[r] EXCEPT !.pc = "wait", !.alive = TRUE])
    BY <1>1, <2>1 DEF TrialOK, TrialPcs
  <2>3. TrialOK([trial[r] EXCEPT !.pc = "finish"])
    BY <2>1, <1>4 DEF TrialPcs
  <2> QED BY <1>8, <2>2, <2>3, <1>3, OneTrial DEF Retry
<1>9. CASE finish(r)
  <2>1. ~trial[r].alive /\ trial[r].pc = "finish"
    BY <1>1, <1>9 DEF finish, Stands, TrialOK
  <2>2. TrialOK([trial[r] EXCEPT !.pc = "end"])
    BY <2>1, <1>4 DEF TrialPcs
  <2>3. \A s \in {"success", "failed"} :
           TrialOK([trial[r] EXCEPT !.pc = "end", !.done = TRUE, !.status = s])
    BY <1>1, <2>1 DEF TrialOK, TrialPcs
  <2>4. \/ Trial(r, [trial[r] EXCEPT !.pc = "end"])
        \/ \E s \in {"success", "failed"} :
             Trial(r, [trial[r] EXCEPT !.pc = "end", !.done = TRUE, !.status = s])
    BY <1>9 DEF finish
  <2> QED BY <2>2, <2>3, <2>4, <1>3, OneTrial
<1> QED BY <1>5, <1>6, <1>7, <1>8, <1>9 DEF TrialStep

\* A stop that comes at "retry" is late; at any other time it leaves a mark
\* that the goroutine will see.
LEMMA StopKeeps ==
  ASSUME DebugInv, NEW i \in DOMAIN debugRuns, DebugStop(i)
  PROVE  DebugInv'
<1> DEFINE r == debugRuns[i]
           t == [Killed(trial[r]) EXCEPT !.status = "stopped", !.done = TRUE,
                                         !.late = Stands(r, "retry")]
<1>1. r \in Trials /\ TrialOK(trial[r]) /\ TableOK
  BY InvIsOfTrials DEF DebugStop, TableOK
<1>2. Trial(r, t) /\ UNCHANGED debugRuns
  BY DEF DebugStop
<1>3. TrialOK(t)
  BY <1>1 DEF TrialOK, Killed, Stands
<1>4. TableOK'
  BY <1>1, <1>2 DEF TableOK
<1> HIDE DEF r, t
<1> QED BY <1>1, <1>2, <1>3, <1>4, OneTrial

LEMMA ClearKeeps ==
  ASSUME DebugInv, NEW i \in DOMAIN debugRuns, DebugClear(i)
  PROVE  DebugInv'
<1> DEFINE r == debugRuns[i]
<1>1. r \in Trials /\ TrialOK(trial[r]) /\ TableOK
  BY InvIsOfTrials DEF DebugClear, TableOK
<1>2. debugRuns' = [debugRuns EXCEPT ![i] = NoTrial]
  BY DEF DebugClear
<1>3. TableOK'
  BY <1>1, <1>2 DEF TableOK
<1>4. TrialOK(Killed(trial[r]))
  BY <1>1 DEF TrialOK, Killed
<1>5. trial' = trial \/ Trial(r, Killed(trial[r]))
  BY DEF DebugClear, Trial
<1> HIDE DEF r
<1>6. CASE trial' = trial
  BY <1>3, <1>6, InvIsOfTrials, InvIsOfTrialsNext
<1> QED BY <1>1, <1>3, <1>4, <1>5, <1>6, OneTrial

\* However many runs there are and however stops, clears, installs and exits
\* interleave, a run that is shown as done has no process, unless the stop came
\* between the last look at the status and the start of the retry.
THEOREM DoneRunsAreDead == DebugSpec => []DoneRunIsDead
<1>1. DebugInit => DebugInv
  <2>1. Cardinality(Trials) \in Nat
    BY DebugAssumption, FS_CardinalityType
  <2>2. TrialOK(NewTrial)
    BY DEF NewTrial, TrialOK, TrialPcs
  <2> QED BY <2>1, <2>2, InvIsOfTrials DEF DebugInit, TableOK
<1>2. DebugInv /\ [DebugNext]_debugVars => DebugInv'
  <2> SUFFICES ASSUME DebugInv, [DebugNext]_debugVars PROVE DebugInv'
    OBVIOUS
  <2>1. CASE UNCHANGED debugVars
    BY <2>1, InvIsOfTrials, InvIsOfTrialsNext DEF debugVars, TableOK
  <2>2. ASSUME NEW r \in Trials, \E kind \in TrialKinds, stamp \in {now, now + 1} : StartTrial(r, kind, stamp)
        PROVE  DebugInv'
    BY <2>2, TrialStartKeeps
  <2>3. ASSUME NEW r \in Trials, \E code \in {0, 1} : ProcessExits(r, code) PROVE DebugInv'
    BY <2>3, ExitKeeps
  <2>4. ASSUME NEW r \in Trials, TrialStep(r) PROVE DebugInv'
    BY <2>4, GoroutineKeeps
  <2>5. ASSUME NEW i \in DOMAIN debugRuns, DebugStop(i) \/ DebugClear(i) PROVE DebugInv'
    BY <2>5, StopKeeps, ClearKeeps
  <2> QED BY <2>1, <2>2, <2>3, <2>4, <2>5 DEF DebugNext
<1>3. DebugInv => DoneRunIsDead
  BY DEF DebugInv
<1> QED BY <1>1, <1>2, <1>3, PTL DEF DebugSpec

-----------------------------------------------------------------------------
(***************************************************************************)
(* A command leaves no files behind but a wrapper or an inline script that *)
(* could not be written to its end, for every number of commands and of    *)
(* directories, whatever forms of commands occur and whatever step fails.  *)
(*                                                                         *)
(* The invariant says what a command holds while it is prepared: only      *)
(* files that its steps so far have made.  For each form and step, the     *)
(* early return of that step takes all of them back (Covered), though not  *)
(* always its own; after the last step cleanup() does.                     *)
(***************************************************************************)

Leftovers == {"env", "link", "wrapper", "script"}
Torn == {"wrapper", "script"}
Steps == Leftovers \cup {"support", "binary", "preload", "normalise", "pipe", "start", "none"}

\* The files that the steps before the k-th make.
Made(form, k) == {f \in Leftovers : \E i \in 1..(k - 1) : f = Step(form, i)}

\* A command on its own.
CommandTyped(t) ==
  t \in [form : AllForms, dir : WorkDirs, pc : {"idle", "prepare", "running", "done"},
         at : Nat \ {0}, holds : SUBSET Leftovers, failed : Steps, writers : SUBSET {"script", "background"},
         piped : Nat, reader : {"idle", "reads", "closed", "ended"},
         waiter : {"idle", "waits", "cleans", "sent"}]

Outlives(t) == t.form \in {"inline", "hook"}

CommandOK(t) ==
  /\ CommandTyped(t)
  /\ t.pc = "idle" => t.holds = {}
  /\ t.pc = "done" => t.holds \subseteq {t.failed} \cap Torn
  /\ t.pc = "prepare" => t.holds \subseteq Made(t.form, t.at) /\ t.waiter = "idle"
  /\ t.pc = "running" => t.holds \subseteq cleanup(t.form)
  /\ t.pc = "running" /\ t.waiter = "sent" /\ ~Outlives(t) => t.holds = {}
  /\ t.waiter \in {"waits", "cleans"} => t.pc = "running"

\* A link of the panel's is held by a command of its directory.
LinkHeld ==
  \A d \in WorkDirs : link[d] = "managed" =>
    \E r \in Runs : run[r].dir = d /\ "link" \in run[r].holds

CmdInv ==
  /\ DOMAIN run = Runs /\ DOMAIN link = WorkDirs
  /\ \A r \in Runs : CommandOK(run[r])
  /\ LinkHeld

-----------------------------------------------------------------------------
\* A step that may fail takes back all that the steps before it have made;
\* only the link may not fail.
LEMMA Covered ==
  ASSUME NEW form \in AllForms, NEW k \in Nat \ {0}, Step(form, k) # "link"
  PROVE  Made(form, k) \subseteq Undone(form, Step(form, k)) /\ Step(form, k) \in Steps
<1> USE DEF Made, Undone, Leftovers, Steps, Step, CreateManagedCommand
<1>1. CASE form = "python"
  BY <1>1 DEF createManagedPythonCommand
<1>2. CASE form = "module"
  BY <1>2 DEF createManagedPythonModuleCommand
<1>3. CASE form = "executable"
  BY <1>3 DEF createManagedExecutableCommand
<1>4. CASE form = "node"
  BY <1>4 DEF createManagedNodeCommand
<1>5. CASE form = "ts-node"
  BY <1>5 DEF createManagedTSNodeCommand
<1>6. CASE form = "shell"
  BY <1>6 DEF createManagedShellCommand
<1>7. CASE form = "go"
  BY <1>7 DEF createManagedGoCommand
<1>8. CASE form = "other"
  BY <1>8 DEF createStandardManagedCommand
<1>9. CASE form = "inline"
  BY <1>9 DEF RunInlineScript
<1>10. CASE form = "hook"
  BY <1>10 DEF RunHookScript
<1> QED BY <1>1, <1>2, <1>3, <1>4, <1>5, <1>6, <1>7, <1>8, <1>9, <1>10 DEF AllForms

\* After the last step it is cleanup() that takes it back.
LEMMA CoveredAtStart ==
  ASSUME NEW form \in AllForms, NEW k \in Nat \ {0}, Step(form, k) = "start"
  PROVE  Made(form, k) \subseteq cleanup(form)
<1>1. Undone(form, "start") \subseteq cleanup(form)
  BY DEF Undone, cleanup
<1> QED BY <1>1, Covered

\* One step more makes at most its own file.
LEMMA MadeGrows ==
  ASSUME NEW form, NEW k \in Nat \ {0}
  PROVE  /\ Made(form, k) \subseteq Made(form, k + 1)
         /\ Step(form, k) \in Leftovers => Step(form, k) \in Made(form, k + 1)
         /\ Made(form, 1) = {}
BY DEF Made

\* A step of one command keeps the invariant if the command is in order after it and
\* what it no longer holds was unlinked.
LEMMA OneCommand ==
  ASSUME CmdInv, NEW r \in Runs, NEW t, NEW gone,
         run' = [run EXCEPT ![r] = t], CommandOK(t),
         Unlink(r, gone),
         "link" \in run[r].holds /\ "link" \notin gone => t.dir = run[r].dir /\ "link" \in t.holds
  PROVE  CmdInv'
<1>1. DOMAIN run' = Runs /\ \A q \in Runs : run'[q] = IF q = r THEN t ELSE run[q]
  BY DEF CmdInv
<1>2. DOMAIN link' = WorkDirs
  BY DEF CmdInv, Unlink
<1>3. LinkHeld'
  <2> SUFFICES ASSUME NEW d \in WorkDirs, link'[d] = "managed"
               PROVE  \E q \in Runs : run'[q].dir = d /\ "link" \in run'[q].holds
    BY DEF LinkHeld
  <2>1. link[d] = "managed"
    BY DEF Unlink, CmdInv
  <2>2. PICK q \in Runs : run[q].dir = d /\ "link" \in run[q].holds
    BY <2>1 DEF CmdInv, LinkHeld
  <2>3. CASE q # r
    BY <1>1, <2>2, <2>3
  <2>4. CASE q = r
    <3>1. "link" \notin gone
      BY <2>1, <2>2, <2>4 DEF Unlink, CmdInv
    <3> QED BY <1>1, <2>2, <2>4, <3>1
  <2> QED BY <2>3, <2>4
<1> QED BY <1>1, <1>2, <1>3 DEF CmdInv

\* ... and one that leaves the links alone if it still holds what it held.
LEMMA OneCommandOnly ==
  ASSUME CmdInv, NEW r \in Runs, NEW t, run' = [run EXCEPT ![r] = t], CommandOK(t),
         UNCHANGED link, t.dir = run[r].dir \/ "link" \notin run[r].holds,
         run[r].holds \subseteq t.holds
  PROVE  CmdInv'
<1>1. Unlink(r, {})
  BY DEF Unlink
<1> QED BY <1>1, OneCommand

-----------------------------------------------------------------------------
LEMMA FreshCommand ==
  ASSUME NEW form \in AllForms, NEW dir \in WorkDirs, NEW failed \in Steps, NEW holds
  PROVE  /\ CommandOK(Unstarted(form, dir, "prepare", {}, failed))
         /\ holds \subseteq {failed} \cap Torn => CommandOK(Unstarted(form, dir, "done", holds, failed))
BY DEF Unstarted, CommandOK, CommandTyped, Torn, Leftovers

LEMMA BeginKeeps == ASSUME CmdInv, NEW r \in Runs, Begin(r) PROVE CmdInv'
<1>1. PICK form \in Forms, dir \in WorkDirs :
        run' = [run EXCEPT ![r] = Unstarted(form, dir, "prepare", {}, "none")]
  BY DEF Begin
<1>2. CommandOK(Unstarted(form, dir, "prepare", {}, "none"))
  BY CommandAssumption, FreshCommand DEF Steps
<1>3. run[r].holds = {} /\ UNCHANGED link
  BY DEF Begin, CmdInv, CommandOK
<1> QED BY <1>1, <1>2, <1>3, OneCommandOnly

\* A step of the preparation that succeeds.
LEMMA PrepareKeeps == ASSUME CmdInv, NEW r \in Runs, PrepareFile(r) PROVE CmdInv'
<1> DEFINE t(new) == [run[r] EXCEPT !.at = @ + 1, !.holds = @ \cup new]
<1>1. CommandOK(run[r]) /\ run[r].pc = "prepare" /\ DOMAIN run = Runs
  BY DEF PrepareFile, CmdInv
<1>2. \A new \in {{}, {StepOf(r)} \cap Leftovers} : CommandOK(t(new))
  <2> SUFFICES ASSUME NEW new \in {{}, {StepOf(r)} \cap Leftovers} PROVE CommandOK(t(new))
    OBVIOUS
  <2>1. run[r].at \in Nat \ {0} /\ run[r].at + 1 \in Nat \ {0} /\ new \in SUBSET Leftovers
    BY <1>1 DEF CommandOK, CommandTyped
  <2>2. run[r].holds \cup new \subseteq Made(run[r].form, run[r].at + 1)
    BY <1>1, <2>1, MadeGrows DEF CommandOK, CommandTyped, StepOf
  <2>3. run[r].holds \cup new \in SUBSET Leftovers
    BY <1>1, <2>1 DEF CommandOK, CommandTyped
  <2>4. ASSUME NEW k \in Nat \ {0}, NEW h \in SUBSET Leftovers, h \subseteq Made(run[r].form, k)
        PROVE  CommandOK([run[r] EXCEPT !.at = k, !.holds = h])
    BY <1>1, <2>4 DEF CommandOK, CommandTyped
  <2> QED BY <2>1, <2>2, <2>3, <2>4
<1>3. ASSUME NEW new \in {{}, {StepOf(r)} \cap Leftovers}, Advance(r, new), UNCHANGED link PROVE CmdInv'
  <2>1. run' = [run EXCEPT ![r] = t(new)]
    BY <1>3 DEF Advance
  <2>2. t(new).dir = run[r].dir /\ run[r].holds \subseteq t(new).holds
    BY <1>1 DEF CommandOK, CommandTyped
  <2> HIDE DEF t
  <2> QED BY <1>2, <1>3, <2>1, <2>2, OneCommandOnly
<1>4. ASSUME NEW new, new = {StepOf(r)}, StepOf(r) \in Leftovers, Advance(r, new), UNCHANGED link
      PROVE  CmdInv'
  BY <1>3, <1>4
<1>5. CASE resolveManagedBinary(r) \/ writeNodePreloadScript(r)
  BY <1>3, <1>5 DEF resolveManagedBinary, writeNodePreloadScript
<1>6. CASE writeManagedRuntimeEnvFile(r) \/ writeManagedRuntimeShellEnvFile(r) \/ WriteBesideScript(r)
  BY <1>4, <1>6
  DEF writeManagedRuntimeEnvFile, writeManagedRuntimeShellEnvFile, WriteBesideScript, Leftovers
<1>7. CASE ensureManagedNodeModulesAccess(r)
  <2>1. CASE Advance(r, {}) /\ UNCHANGED link
    BY <1>3, <2>1
  <2>2. CASE /\ link' = [link EXCEPT ![run[r].dir] = "managed"] /\ Advance(r, {"link"})
    <3>1. {"link"} = {StepOf(r)} \cap Leftovers
      BY <1>7 DEF ensureManagedNodeModulesAccess, Leftovers
    <3>2. run' = [run EXCEPT ![r] = t({"link"})] /\ CommandOK(t({"link"}))
      BY <1>2, <2>2, <3>1 DEF Advance
    <3>3. t({"link"}).dir = run[r].dir /\ t({"link"}).holds = run[r].holds \cup {"link"}
      BY <1>1 DEF CommandOK, CommandTyped
    <3> HIDE DEF t
    <3>4. \A q \in Runs : run'[q] = IF q = r THEN t({"link"}) ELSE run[q]
      BY <1>1, <3>2
    <3>5. LinkHeld'
      BY <2>2, <3>3, <3>4 DEF CmdInv, LinkHeld
    <3>6. DOMAIN run' = Runs /\ DOMAIN link' = WorkDirs
      BY <2>2, <3>2 DEF CmdInv
    <3> QED BY <3>2, <3>4, <3>5, <3>6 DEF CmdInv
  <2> QED BY <1>7, <2>1, <2>2 DEF ensureManagedNodeModulesAccess
<1> QED BY <1>5, <1>6, <1>7 DEF PrepareFile

\* A step that fails: the early return covers what the others have made, and of
\* its own it leaves at most a file that is torn.
LEMMA FailureKeeps == ASSUME CmdInv, NEW r \in Runs, PreparationFails(r) PROVE CmdInv'
<1> DEFINE step == StepOf(r)
           gone == Undone(run[r].form, step)
           t(h) == Unstarted(run[r].form, run[r].dir, "done", h, step)
<1>1. CommandOK(run[r]) /\ run[r].pc = "prepare" /\ step # "link"
  BY DEF PreparationFails, CmdInv
<1>2. run[r].holds \subseteq gone /\ step \in Steps
  BY <1>1, Covered DEF CommandOK, CommandTyped, StepOf
<1>3. PICK torn \in SUBSET ({step} \cap {"env", "wrapper", "script"}) :
        run' = [run EXCEPT ![r] = t((run[r].holds \cup torn) \ gone)] /\ Unlink(r, gone)
  BY DEF PreparationFails
<1>4. (run[r].holds \cup torn) \ gone \subseteq {step} \cap Torn
  BY <1>2 DEF Undone, Torn
<1>5. CommandOK(t((run[r].holds \cup torn) \ gone))
  <2>1. run[r].form \in AllForms /\ run[r].dir \in WorkDirs
    BY <1>1 DEF CommandOK, CommandTyped
  <2> QED BY <1>2, <1>4, <2>1, FreshCommand
<1> HIDE DEF t, gone
<1> QED BY <1>2, <1>3, <1>5, OneCommand

LEMMA StartKeeps == ASSUME CmdInv, NEW r \in Runs, StartCommand(r) PROVE CmdInv'
<1> DEFINE t == [run[r] EXCEPT !.pc = "running", !.writers = {"script"}, !.reader = "reads",
                               !.waiter = "waits"]
<1>1. CommandOK(run[r]) /\ run[r].pc = "prepare" /\ StepOf(r) = "start"
  BY DEF StartCommand, CmdInv
<1>2. run[r].holds \subseteq cleanup(run[r].form)
  BY <1>1, CoveredAtStart DEF CommandOK, CommandTyped, StepOf
<1>3. CommandOK(t) /\ t.dir = run[r].dir /\ t.holds = run[r].holds
  BY <1>1, <1>2 DEF CommandOK, CommandTyped, Outlives
<1>4. run' = [run EXCEPT ![r] = t] /\ UNCHANGED link
  BY DEF StartCommand
<1> HIDE DEF t
<1> QED BY <1>3, <1>4, OneCommandOnly

\* What the child and the reader do concerns no file; the waiter's first step
\* and the timer neither.
LEMMA OutputKeeps ==
  ASSUME CmdInv, NEW r \in Runs,
         \/ ChildWrites(r) \/ ChildForks(r) \/ ChildEnds(r) \/ ReaderEmits(r) \/ ReaderEnds(r)
         \/ Wait(r) \/ Timeout(r)
  PROVE  CmdInv'
<1>1. CommandOK(run[r]) /\ DOMAIN run = Runs
  BY DEF CmdInv
<1>2. ASSUME NEW t, CommandOK(t), t.dir = run[r].dir, t.holds = run[r].holds,
             run' = [run EXCEPT ![r] = t], UNCHANGED link
      PROVE  CmdInv'
  BY <1>2, OneCommandOnly
<1>3. CASE ChildWrites(r)
  <2> DEFINE t == [run[r] EXCEPT !.piped = @ + 1]
  <2>1. run' = [run EXCEPT ![r] = t] /\ UNCHANGED link
    BY <1>1, <1>3 DEF ChildWrites
  <2>2. CommandOK(t) /\ t.dir = run[r].dir /\ t.holds = run[r].holds
    BY <1>1, <1>3 DEF ChildWrites, CommandOK, CommandTyped, Outlives
  <2> HIDE DEF t
  <2> QED BY <1>2, <2>1, <2>2
<1>4. CASE ChildForks(r)
  <2> DEFINE t == [run[r] EXCEPT !.writers = @ \cup {"background"}]
  <2>1. run' = [run EXCEPT ![r] = t] /\ UNCHANGED link
    BY <1>1, <1>4 DEF ChildForks
  <2>2. CommandOK(t) /\ t.dir = run[r].dir /\ t.holds = run[r].holds
    BY <1>1, <1>4 DEF ChildForks, CommandOK, CommandTyped, Outlives
  <2> HIDE DEF t
  <2> QED BY <1>2, <2>1, <2>2
<1>5. CASE ChildEnds(r)
  <2> DEFINE t == [run[r] EXCEPT !.writers = @ \ {"script"}]
  <2>1. run' = [run EXCEPT ![r] = t] /\ UNCHANGED link
    BY <1>1, <1>5 DEF ChildEnds
  <2>2. CommandOK(t) /\ t.dir = run[r].dir /\ t.holds = run[r].holds
    BY <1>1, <1>5 DEF ChildEnds, CommandOK, CommandTyped, Outlives
  <2> HIDE DEF t
  <2> QED BY <1>2, <2>1, <2>2
<1>6. CASE Timeout(r)
  <2> DEFINE t == [run[r] EXCEPT !.writers = @ \ {"script"}]
  <2>1. run' = [run EXCEPT ![r] = t] /\ UNCHANGED link
    BY <1>1, <1>6 DEF Timeout
  <2>2. CommandOK(t) /\ t.dir = run[r].dir /\ t.holds = run[r].holds
    BY <1>1, <1>6 DEF Timeout, CommandOK, CommandTyped, Outlives
  <2> HIDE DEF t
  <2> QED BY <1>2, <2>1, <2>2
<1>7. CASE ReaderEmits(r)
  <2> DEFINE t == [run[r] EXCEPT !.piped = @ - 1]
  <2>1. run' = [run EXCEPT ![r] = t] /\ UNCHANGED link
    BY <1>1, <1>7 DEF ReaderEmits
  <2>2. CommandOK(t) /\ t.dir = run[r].dir /\ t.holds = run[r].holds
    BY <1>1, <1>7 DEF ReaderEmits, CommandOK, CommandTyped, Outlives
  <2> HIDE DEF t
  <2> QED BY <1>2, <2>1, <2>2
<1>8. CASE ReaderEnds(r)
  <2> DEFINE t == [run[r] EXCEPT !.reader = "ended"]
  <2>1. run' = [run EXCEPT ![r] = t] /\ UNCHANGED link
    BY <1>1, <1>8 DEF ReaderEnds
  <2>2. CommandOK(t) /\ t.dir = run[r].dir /\ t.holds = run[r].holds
    BY <1>1, <1>8 DEF ReaderEnds, CommandOK, CommandTyped, Outlives
  <2> HIDE DEF t
  <2> QED BY <1>2, <2>1, <2>2
<1>9. CASE Wait(r)
  <2> DEFINE t == [run[r] EXCEPT !.waiter = "cleans", !.reader = IF @ = "reads" THEN "closed" ELSE @,
                                    !.piped = 0]
  <2>1. run' = [run EXCEPT ![r] = t] /\ UNCHANGED link
    BY <1>1, <1>9 DEF Wait
  <2>2. CommandOK(t) /\ t.dir = run[r].dir /\ t.holds = run[r].holds
    BY <1>1, <1>9 DEF Wait, CommandOK, CommandTyped, Outlives
  <2> HIDE DEF t
  <2> QED BY <1>2, <2>1, <2>2
<1> QED BY <1>3, <1>4, <1>5, <1>6, <1>7, <1>8, <1>9

\* The two places of cleanup(): behind Wait, and where it is deferred, at the return.
LEMMA CleanupKeeps == ASSUME CmdInv, NEW r \in Runs, Clean(r) \/ Finish(r) PROVE CmdInv'
<1>1. CommandOK(run[r]) /\ Deferred(r) = Outlives(run[r])
  BY DEF CmdInv, Deferred, Outlives
<1>2. CASE Clean(r)
  <2> DEFINE gone == IF Deferred(r) THEN {} ELSE cleanup(run[r].form)
             t == [run[r] EXCEPT !.waiter = "sent", !.holds = @ \ gone]
  <2>1. run' = [run EXCEPT ![r] = t] /\ Unlink(r, gone)
    BY <1>2 DEF Clean
  <2>2. run[r].pc = "running" /\ run[r].holds \subseteq cleanup(run[r].form)
    BY <1>1, <1>2 DEF Clean, CommandOK
  <2>3. run[r].holds \ gone \subseteq run[r].holds /\ (~Outlives(run[r]) => run[r].holds \ gone = {})
    BY <1>1, <2>2
  <2>4. ASSUME NEW h \in SUBSET run[r].holds, ~Outlives(run[r]) => h = {}
        PROVE  /\ CommandOK([run[r] EXCEPT !.waiter = "sent", !.holds = h])
               /\ [run[r] EXCEPT !.waiter = "sent", !.holds = h].dir = run[r].dir
               /\ [run[r] EXCEPT !.waiter = "sent", !.holds = h].holds = h
    BY <1>1, <2>2, <2>4 DEF CommandOK, CommandTyped, Outlives
  <2>5. CommandOK(t) /\ t.dir = run[r].dir /\ t.holds = run[r].holds \ gone
    <3> DEFINE h == run[r].holds \ gone
    <3>1. h \in SUBSET run[r].holds /\ (~Outlives(run[r]) => h = {})
      BY <2>3
    <3> HIDE DEF h
    <3>2. /\ CommandOK([run[r] EXCEPT !.waiter = "sent", !.holds = h])
          /\ [run[r] EXCEPT !.waiter = "sent", !.holds = h].dir = run[r].dir
          /\ [run[r] EXCEPT !.waiter = "sent", !.holds = h].holds = h
      BY <2>4, <3>1
    <3> QED BY <3>2 DEF h
  <2> HIDE DEF t, gone
  <2> QED BY <2>1, <2>5, OneCommand
<1>3. CASE Finish(r)
  <2> DEFINE gone == IF Deferred(r) THEN cleanup(run[r].form) ELSE {}
             t == [run[r] EXCEPT !.pc = "done", !.holds = @ \ gone]
  <2>1. run' = [run EXCEPT ![r] = t] /\ Unlink(r, gone)
    BY <1>3 DEF Finish
  <2>2. run[r].pc = "running" /\ run[r].waiter = "sent" /\ run[r].holds \ gone = {}
    BY <1>1, <1>3 DEF Finish, CommandOK
  <2>3. CommandOK([run[r] EXCEPT !.pc = "done", !.holds = {}])
    BY <1>1, <2>2 DEF CommandOK, CommandTyped, Outlives
  <2>4. CommandOK(t)
    BY <2>2, <2>3
  <2>5. "link" \in run[r].holds => "link" \in gone
    BY <2>2
  <2> HIDE DEF t, gone
  <2> QED BY <2>1, <2>4, <2>5, OneCommand
<1> QED BY <1>2, <1>3

\* The user has entries of his own, or takes the panel's away.
LEMMA UserKeeps == ASSUME CmdInv, NEW d \in WorkDirs, UserTouches(d) PROVE CmdInv'
<1>1. \A e \in WorkDirs : link'[e] = "managed" => link[e] = "managed"
  BY DEF UserTouches, CmdInv
<1>2. DOMAIN link' = WorkDirs /\ UNCHANGED run
  BY DEF UserTouches, CmdInv
<1> QED BY <1>1, <1>2 DEF CmdInv, LinkHeld

\* Whatever commands run at once, in whatever directories, and whatever step of
\* theirs fails: a command that is over has left nothing but, at most, the wrapper
\* or the inline script whose own writing failed, and the panel's link stands in a
\* directory only while a command that made one is under way.
THEOREM NoFilesLeft == CmdSpec => []LeavesNoFiles
<1>1. CmdInit => CmdInv
  <2> SUFFICES ASSUME CmdInit PROVE CmdInv
    OBVIOUS
  <2>1. CommandOK(NotRun)
    BY CommandAssumption DEF CommandOK, CommandTyped, NotRun, Unstarted, AllForms, Leftovers, Steps
  <2>2. DOMAIN link = WorkDirs /\ \A d \in WorkDirs : link[d] # "managed"
    BY DEF CmdInit
  <2> QED BY <2>1, <2>2 DEF CmdInit, CmdInv, LinkHeld
<1>2. CmdInv /\ [CmdNext]_cmdVars => CmdInv'
  <2> SUFFICES ASSUME CmdInv, [CmdNext]_cmdVars PROVE CmdInv'
    OBVIOUS
  <2>1. CASE UNCHANGED cmdVars
    BY <2>1 DEF cmdVars, CmdInv, LinkHeld
  <2>2. ASSUME NEW r \in Runs, Begin(r) \/ PrepareFile(r) \/ PreparationFails(r) \/ StartCommand(r)
        PROVE  CmdInv'
    BY <2>2, BeginKeeps, PrepareKeeps, FailureKeeps, StartKeeps
  <2>3. ASSUME NEW r \in Runs,
               \/ ChildWrites(r) \/ ChildForks(r) \/ ChildEnds(r) \/ ReaderEmits(r)
               \/ ReaderEnds(r) \/ Wait(r) \/ Timeout(r)
        PROVE  CmdInv'
    BY <2>3, OutputKeeps
  <2>4. ASSUME NEW r \in Runs, Clean(r) \/ Finish(r) PROVE CmdInv'
    BY <2>4, CleanupKeeps
  <2>5. ASSUME NEW d \in WorkDirs, UserTouches(d) PROVE CmdInv'
    BY <2>5, UserKeeps
  <2> QED BY <2>1, <2>2, <2>3, <2>4, <2>5 DEF CmdNext
<1>3. CmdInv => LeavesNoFiles
  BY DEF CmdInv, CommandOK, LinkHeld, LeavesNoFiles, Torn
<1> QED BY <1>1, <1>2, <1>3, PTL DEF CmdSpec

-----------------------------------------------------------------------------
(***************************************************************************)
(* The settled log of a run that was followed live holds all that was      *)
(* written until it was closed, and a window shows the output in its       *)
(* order, for every length of the output, size of its chunks, channels and *)
(* file, number of windows, and whatever comes after the end.              *)
(*                                                                         *)
(* What the live log has passed on and the byte it keeps back make up what *)
(* was written so far, as long as at most one chunk ended inside a         *)
(* character: the place a cut byte is kept in is made at the first one,    *)
(* and a second one is written over bytes that are not yet read.  What     *)
(* waits for a window is later than what it shows and in the order it was  *)
(* written in.                                                             *)
(***************************************************************************)
Bytes == 1..Size
SoFar == SubSeq(Output, 1, logRun.written)
UntilClose == SubSeq(Output, 1, logRun.atClose)

Before(s, t) == \A i \in DOMAIN s, j \in DOMAIN t : s[i] < t[j]
InOrder(s, n) == s \in Seq(1..n) /\ Increasing(s)

\* How far the run is, and what is there by then.
RunOK ==
  /\ {"stage", "written", "atClose", "cuts", "quiet"} \subseteq DOMAIN logRun
  /\ logRun.written \in 0..Size /\ logRun.cuts \in Nat
  /\ logRun.stage \in {"start", "listed", "created"} => logRun.written = 0 /\ logRun.cuts = 0
  /\ {"content", "filled", "done", "exists"} \subseteq DOMAIN logRow
  /\ logRow.done => logRun.stage = "settled"

LiveLogOK ==
  /\ {"state", "listed", "kept", "room", "data"} \subseteq DOMAIN tl
  /\ logRun.stage \in {"created", "writing", "ending"} /\ ~logRun.quiet => tl.state = "open"
  /\ tl.state = "open" => logRun.stage \in {"created", "writing", "ending"} /\ ~logRun.quiet
  /\ logRun.stage \in {"closed", "removed", "settled"} /\ ~logRun.quiet => tl.state = "closed"
  /\ logRun.stage \in {"start", "listed"} => tl.data = <<>>
  /\ logRun.cuts = 0 => tl.kept = <<>> /\ tl.room = 0

\* Nothing is lost between the run and the row.
NothingLost ==
  logRun.cuts <= 1 /\ ~logRun.quiet =>
    /\ tl.data \in Seq(Bytes) /\ tl.kept \in Seq(Bytes)
    /\ logRun.stage \in {"created", "writing", "ending"} => tl.data \o tl.kept = SoFar
    /\ logRun.stage \in {"closed", "removed", "settled"} => tl.data = UntilClose
    /\ logRow.done => logRow.filled /\ logRow.content = UntilClose

\* What a window shows and what waits for it, of the first n bytes.
WindowOK(w, n) ==
  /\ {"pc", "shown", "chan", "closed"} \subseteq DOMAIN w
  /\ InOrder(w.shown, n)
  /\ w.chan \in Seq([bytes : Seq(1..n), shared : {FALSE}])
  /\ \A k \in DOMAIN w.chan : Increasing(w.chan[k].bytes) /\ Before(w.shown, w.chan[k].bytes)
  /\ \A k, l \in DOMAIN w.chan : k < l => Before(w.chan[k].bytes, w.chan[l].bytes)
  /\ w.pc # "loop" => w.chan = <<>>

LogInv == RunOK /\ LiveLogOK /\ NothingLost
WindowsInv ==
  /\ DOMAIN windows = LogReaders
  /\ logRun.cuts = 0 => \A r \in LogReaders : WindowOK(windows[r], logRun.written)

-----------------------------------------------------------------------------
\* What is written, in two parts.
LEMMA OutputIsASequence == Output \in Seq(Bytes) /\ Len(Output) = Size /\ Size \in Nat
  BY LogAssumption DEF Output, Bytes, Size

LEMMA OutputContinues ==
  ASSUME NEW w \in 0..Size, NEW n \in Nat, w + n <= Size
  PROVE  /\ SubSeq(Output, 1, w) \in Seq(Bytes)
         /\ SubSeq(Output, w + 1, w + n) \in Seq(Bytes)
         /\ Len(SubSeq(Output, 1, w)) = w
         /\ Len(SubSeq(Output, w + 1, w + n)) = n
         /\ SubSeq(Output, 1, w) \o SubSeq(Output, w + 1, w + n) = SubSeq(Output, 1, w + n)
         /\ \A i \in 1..n : SubSeq(Output, w + 1, w + n)[i] = w + i
<1>1. w \in Nat /\ Size \in Nat /\ Len(Output) = Size /\ Output \in Seq(Bytes)
  BY OutputIsASequence
<1>2. \A i \in 1..Size : Output[i] = i /\ Output[i] \in Bytes
  BY DEF Output, Bytes
<1>3. /\ SubSeq(Output, 1, w) \in Seq(Bytes)
      /\ Len(SubSeq(Output, 1, w)) = w
  <2>1. \A i \in 1..w : Output[i] \in Bytes
    BY <1>1, <1>2
  <2> QED BY <1>1, <2>1, SubSeqProperties
<1>4. /\ SubSeq(Output, w + 1, w + n) \in Seq(Bytes)
      /\ Len(SubSeq(Output, w + 1, w + n)) = n
      /\ \A i \in 1..n : SubSeq(Output, w + 1, w + n)[i] = w + i
  <2>1. \A i \in w + 1 .. w + n : Output[i] \in Bytes
    BY <1>1, <1>2
  <2>2. /\ SubSeq(Output, w + 1, w + n) \in Seq(Bytes)
        /\ Len(SubSeq(Output, w + 1, w + n)) = IF w + 1 <= w + n THEN w + n - (w + 1) + 1 ELSE 0
        /\ \A i \in 1 .. w + n - (w + 1) + 1 :
             SubSeq(Output, w + 1, w + n)[i] = Output[w + 1 + i - 1]
    <3>1. w + 1 \in Int /\ w + n \in Int
      BY <1>1
    <3> QED BY <2>1, <3>1, SubSeqProperties
  <2>3. w + n - (w + 1) + 1 = n
    BY <1>1
  <2>4. \A i \in 1..n : w + 1 + i - 1 = w + i /\ w + i \in 1..Size
    BY <1>1
  <2> QED BY <1>1, <1>2, <2>2, <2>3, <2>4
<1>5. SubSeq(Output, 1, w) \o SubSeq(Output, w + 1, w + n) = SubSeq(Output, 1, w + n)
  <2>1. 1 \in 1..Len(Output) + 1 /\ w \in 1 - 1 .. Len(Output) /\ w + n \in w .. Len(Output)
    BY <1>1
  <2> QED BY <1>1, <2>1, ConcatAdjacentSubSeq
<1> QED BY <1>3, <1>4, <1>5

\* What CutOff takes from a chunk is its end, whatever stood before the chunk.
LEMMA CutOffIsTheEnd ==
  ASSUME NEW p \in Seq(Bytes), p # <<>>, NEW k \in Seq(Bytes)
  PROVE  /\ CutOff(p) \in Seq(Bytes) /\ Len(CutOff(p)) \in {0, 1}
         /\ Len(CutOff(p)) = 0 <=> CutOff(p) = <<>>
         /\ CutOff(k \o p) = CutOff(p)
         /\ SubSeq(p, 1, Len(p) - Len(CutOff(p))) \o CutOff(p) = p
         /\ SubSeq(p, 1, Len(p) - Len(CutOff(p))) \in Seq(Bytes)
         /\ k \o p \in Seq(Bytes) /\ SubSeq(k \o p, 1, Len(k \o p) - 0) = k \o p
<1>1. Len(p) \in Nat \ {0} /\ Len(k) \in Nat /\ p[Len(p)] \in Bytes
  BY EmptySeq, LenProperties
<1>2. /\ k \o p \in Seq(Bytes) /\ Len(k \o p) = Len(k) + Len(p)
      /\ (k \o p)[Len(k \o p)] = p[Len(p)]
  <2>1. /\ k \o p \in Seq(Bytes) /\ Len(k \o p) = Len(k) + Len(p)
        /\ \A i \in 1 .. Len(k) + Len(p) :
             (k \o p)[i] = IF i <= Len(k) THEN k[i] ELSE p[i - Len(k)]
    BY ConcatProperties
  <2>2. Len(k) + Len(p) \in 1 .. Len(k) + Len(p) /\ ~(Len(k) + Len(p) <= Len(k))
        /\ Len(k) + Len(p) - Len(k) = Len(p)
    BY <1>1
  <2> QED BY <2>1, <2>2
<1>3. k \o p # <<>>
  BY <1>1, <1>2, ConcatEqualIffEmpty
<1>4. CutOff(k \o p) = CutOff(p)
  BY <1>2, <1>3 DEF CutOff
<1>5. SubSeq(k \o p, 1, Len(k \o p) - 0) = k \o p
  <2>1. Len(k \o p) - 0 = Len(k \o p)
    BY <1>1, <1>2
  <2> QED BY <1>2, <2>1, SubSeqFull
<1>6. CASE IsFirstByte(p[Len(p)])
  <2>1. CutOff(p) = <<p[Len(p)]>>
    BY <1>6 DEF CutOff
  <2>2. CutOff(p) \in Seq(Bytes) /\ Len(CutOff(p)) = 1 /\ CutOff(p) # <<>>
    BY <1>1, <2>1
  <2>3. SubSeq(p, 1, Len(p)) = SubSeq(p, 1, Len(p) - 1) \o <<p[Len(p)]>>
    BY <1>1, SubSeqRecursiveSecond
  <2>4. SubSeq(p, 1, Len(p)) = p
    BY SubSeqFull
  <2>5. SubSeq(p, 1, Len(p) - 1) \in Seq(Bytes)
    <3>1. \A i \in 1 .. Len(p) - 1 : p[i] \in Bytes
      BY <1>1
    <3> QED BY <1>1, <3>1, SubSeqProperties
  <2>6. SubSeq(p, 1, Len(p) - Len(CutOff(p))) = SubSeq(p, 1, Len(p) - 1)
    BY <2>2, Zenon
  <2>7. SubSeq(p, 1, Len(p) - Len(CutOff(p))) \o CutOff(p) = p
    BY <2>1, <2>3, <2>4, <2>6, Zenon
  <2>8. SubSeq(p, 1, Len(p) - Len(CutOff(p))) \in Seq(Bytes)
    BY <2>5, <2>6, Zenon
  <2>9. Len(CutOff(p)) \in {0, 1} /\ (Len(CutOff(p)) = 0 <=> CutOff(p) = <<>>)
    BY <2>2
  <2> QED BY <1>2, <1>4, <1>5, <2>2, <2>7, <2>8, <2>9, Zenon
<1>7. CASE ~IsFirstByte(p[Len(p)])
  <2>1. CutOff(p) = <<>>
    BY <1>7 DEF CutOff
  <2>2. CutOff(p) \in Seq(Bytes) /\ Len(CutOff(p)) = 0
    BY <2>1
  <2>3. SubSeq(p, 1, Len(p) - 0) = p
    <3>1. Len(p) - 0 = Len(p)
      BY <1>1
    <3> QED BY <3>1, SubSeqFull
  <2>4. p \o <<>> = p
    BY ConcatEmptySeq
  <2> QED BY <1>2, <1>4, <1>5, <2>1, <2>2, <2>3, <2>4
<1> QED BY <1>6, <1>7

-----------------------------------------------------------------------------
LEMMA Regroup ==
  ASSUME NEW a \in Seq(Bytes), NEW b \in Seq(Bytes), NEW c \in Seq(Bytes)
  PROVE  (a \o b) \o c = a \o (b \o c)
BY ConcatAssociative

LEMMA MoreCuts ==
  ASSUME NEW c \in Nat, NEW k \in Nat, c + k <= 1
  PROVE  c <= 1 /\ (c + k = 0 => c = 0) /\ (k = 1 => c = 0 /\ c + k = 1)
OBVIOUS

\* Written, as long as no more than one chunk ended inside a character.
LEMMA WrittenIsWhole ==
  ASSUME LogInv, NEW n \in 1..MaxChunk, Write(n), tl.state = "open", logRun'.cuts <= 1,
         NEW p, p = SubSeq(Output, logRun.written + 1, logRun.written + n)
  PROVE  /\ Written(p).out \in Seq(Bytes) /\ Written(p).kept \in Seq(Bytes)
         /\ Written(p).out \o Written(p).kept = tl.kept \o p
         /\ logRun'.cuts = 0 => /\ Written(p).kept = <<>> /\ Written(p).room = 0
                                /\ Written(p).out = p /\ Written(p).shared = FALSE
<1>1. /\ logRun.written \in 0..Size /\ logRun.cuts \in Nat /\ n \in Nat \ {0}
      /\ logRun.written + n <= Size
  BY LogAssumption DEF LogInv, RunOK, Write
<1>2. p \in Seq(Bytes) /\ Len(p) = n
  BY <1>1, OutputContinues
<1>3. p # <<>>
  BY <1>1, <1>2
<1>4. logRun'.cuts = logRun.cuts + Len(CutOff(p))
  <2>1. logRun'.cuts = IF tl.state = "open" THEN logRun.cuts + Len(CutOff(p)) ELSE logRun.cuts
    BY Zenon DEF Write, LogInv, RunOK
  <2> QED BY <2>1
<1>5. tl.kept \in Seq(Bytes)
  <2>1. logRun.cuts <= 1
    <3>1. Len(CutOff(p)) \in Nat
      BY <1>2, <1>3, CutOffIsTheEnd
    <3> QED BY <1>1, <1>4, <3>1, MoreCuts
  <2>2. ~logRun.quiet
    BY DEF LogInv, LiveLogOK
  <2> QED BY <2>1, <2>2 DEF LogInv, NothingLost
<1> DEFINE data == tl.kept \o p
           cut == CutOff(p)
<1>6. /\ CutOff(data) = cut /\ cut \in Seq(Bytes) /\ Len(cut) \in {0, 1} /\ data \in Seq(Bytes)
      /\ Len(cut) = 0 <=> cut = <<>>
      /\ SubSeq(data, 1, Len(data) - 0) = data
      /\ SubSeq(p, 1, Len(p) - Len(cut)) \o cut = p /\ SubSeq(p, 1, Len(p) - Len(cut)) \in Seq(Bytes)
  BY <1>2, <1>3, <1>5, CutOffIsTheEnd
<1>7. Len(cut) \in Nat
  BY <1>6
<1>8. logRun.cuts + Len(cut) <= 1
  BY <1>4, Zenon
<1>9. CASE cut = <<>>
  <2>1. SubSeq(data, 1, Len(data) - Len(cut)) = data
    BY <1>6, <1>9, Zenon
  <2>2. Written(p).out = data /\ Written(p).kept = <<>> /\ Written(p).room = tl.room
        /\ Written(p).shared = (Len(data) <= tl.room)
    BY <1>6, <1>9, <2>1 DEF Written
  <2>3. data \o <<>> = data
    BY <1>6, ConcatEmptySeq
  <2>4. ASSUME logRun'.cuts = 0 PROVE tl.kept = <<>> /\ tl.room = 0 /\ data = p /\ Len(data) = n
    <3>1. logRun.cuts = 0
      BY <1>1, <1>4, <1>7, <1>8, <2>4, MoreCuts
    <3>2. tl.kept = <<>> /\ tl.room = 0
      BY <3>1 DEF LogInv, LiveLogOK
    <3>3. data = p
      BY <1>2, <3>2, ConcatEmptySeq
    <3> QED BY <1>2, <3>2, <3>3
  <2>5. logRun'.cuts = 0 => (Len(data) <= tl.room) = FALSE
    BY <1>1, <2>4
  <2>6. <<>> \in Seq(Bytes)
    OBVIOUS
  <2> QED BY <1>6, <2>2, <2>3, <2>4, <2>5, <2>6, Zenon
<1>10. CASE cut # <<>>
  <2>1. Len(cut) = 1 /\ logRun.cuts = 0 /\ logRun'.cuts = 1
    BY <1>1, <1>4, <1>6, <1>10, <1>7, <1>8, MoreCuts
  <2>2. tl.kept = <<>> /\ tl.room = 0
    BY <2>1 DEF LogInv, LiveLogOK
  <2>3. data = p
    BY <1>2, <2>2, ConcatEmptySeq
  <2>4. ~(Len(data) <= tl.room)
    BY <1>1, <1>2, <2>2, <2>3
  <2>5. Written(p).out = SubSeq(data, 1, Len(data) - Len(cut)) /\ Written(p).kept = cut
    BY <1>6, <2>4 DEF Written
  <2>6. Written(p).out = SubSeq(p, 1, Len(p) - Len(cut))
    BY <2>3, <2>5, Zenon
  <2>7. logRun'.cuts # 0
    BY <2>1
  <2> QED BY <1>6, <2>3, <2>5, <2>6, <2>7, Zenon
<1> QED BY <1>9, <1>10

\* A write to the file and a step of the run, apart from what it says.
LEMMA WriteKeepsTheLog ==
  ASSUME LogInv, NEW n \in 1..MaxChunk, Write(n)
  PROVE  LogInv'
<1> DEFINE w == logRun.written
           p == SubSeq(Output, w + 1, w + n)
<1>1. /\ w \in 0..Size /\ logRun.cuts \in Nat /\ n \in Nat \ {0} /\ w + n <= Size /\ Size \in Nat
      /\ logRun.stage \notin {"start", "listed", "created"}
  BY LogAssumption, OutputIsASequence DEF LogInv, RunOK, Write
<1>2. p \in Seq(Bytes) /\ Len(p) = n /\ SubSeq(Output, 1, w) \in Seq(Bytes)
      /\ SubSeq(Output, 1, w) \o p = SubSeq(Output, 1, w + n)
  BY <1>1, OutputContinues
<1>3. p # <<>>
  BY <1>1, <1>2
<1>4. /\ logRun'.written = w + n /\ logRun'.stage = logRun.stage
      /\ logRun'.quiet = logRun.quiet /\ logRun'.atClose = logRun.atClose
      /\ logRun'.cuts = IF tl.state = "open" THEN logRun.cuts + Len(CutOff(p)) ELSE logRun.cuts
      /\ {"stage", "written", "atClose", "cuts", "quiet"} \subseteq DOMAIN logRun'
  BY <1>1, Zenon DEF Write, LogInv, RunOK
<1>5. Len(CutOff(p)) \in {0, 1}
  BY <1>2, <1>3, CutOffIsTheEnd
<1>6. logRow' = logRow /\ logRun'.cuts \in Nat /\ logRun.cuts <= logRun'.cuts
  BY <1>1, <1>4, <1>5 DEF Write
<1>7. RunOK' /\ UntilClose' = UntilClose
  BY <1>1, <1>4, <1>6 DEF LogInv, RunOK, UntilClose, Output, Size
<1>8. CASE tl.state # "open"
  <2>1. tl' = tl /\ logRun'.cuts = logRun.cuts
    BY <1>4, <1>8 DEF Write
  <2>2. LiveLogOK'
    BY <1>1, <1>4, <1>8, <2>1 DEF LogInv, LiveLogOK
  <2>3. ~logRun.quiet => logRun.stage \notin {"created", "writing", "ending"}
    BY <1>8 DEF LogInv, LiveLogOK
  <2>4. NothingLost'
    BY <1>4, <1>6, <1>7, <2>1, <2>3 DEF LogInv, NothingLost
  <2> QED BY <1>7, <2>2, <2>4 DEF LogInv
<1>9. CASE tl.state = "open"
  <2>1. /\ logRun.stage \in {"writing", "ending"} /\ ~logRun.quiet
        /\ {"state", "listed", "kept", "room", "data"} \subseteq DOMAIN tl
    BY <1>1, <1>9 DEF LogInv, LiveLogOK
  <2>2. tl' = [tl EXCEPT !.kept = Written(p).kept, !.room = Written(p).room,
                        !.data = @ \o Written(p).out]
    BY <1>9, Zenon DEF Write
  <2> DEFINE W == Written(p)
  <2>3. logRun'.cuts <= 1 =>
          /\ W.out \in Seq(Bytes) /\ W.kept \in Seq(Bytes) /\ W.out \o W.kept = tl.kept \o p
          /\ logRun'.cuts = 0 => W.kept = <<>> /\ W.room = 0
    BY <1>9, WrittenIsWhole
  <2> HIDE DEF W, p
  <2>4. /\ tl'.state = "open" /\ tl'.kept = W.kept /\ tl'.room = W.room
        /\ tl'.data = tl.data \o W.out
        /\ {"state", "listed", "kept", "room", "data"} \subseteq DOMAIN tl'
    <3>1. tl' = [tl EXCEPT !.kept = W.kept, !.room = W.room, !.data = @ \o W.out]
      BY <2>2 DEF W
    <3> QED BY <1>9, <2>1, <3>1
  <2>5. LiveLogOK'
    <3>1. logRun'.cuts = 0 => logRun'.cuts <= 1
      OBVIOUS
    <3> QED BY <1>4, <2>1, <2>3, <2>4, <3>1 DEF LiveLogOK
  <2>6. ASSUME logRun'.cuts <= 1
        PROVE  /\ tl'.data \in Seq(Bytes) /\ tl'.kept \in Seq(Bytes)
               /\ tl'.data \o tl'.kept = SubSeq(Output, 1, w + n)
    <3>1. logRun.cuts <= 1
      BY <1>1, <1>6, <2>6
    <3>2. tl.data \in Seq(Bytes) /\ tl.kept \in Seq(Bytes) /\ tl.data \o tl.kept = SubSeq(Output, 1, w)
      BY <2>1, <3>1 DEF LogInv, NothingLost, SoFar
    <3>3. W.out \in Seq(Bytes) /\ W.kept \in Seq(Bytes) /\ W.out \o W.kept = tl.kept \o p
      BY <2>3, <2>6
    <3>4. (tl.data \o W.out) \o W.kept = tl.data \o (W.out \o W.kept)
      BY <3>2, <3>3, Regroup, Zenon
    <3>5. (tl.data \o tl.kept) \o p = tl.data \o (tl.kept \o p)
      BY <1>2, <3>2, Regroup, Zenon
    <3>6. tl.data \o W.out \in Seq(Bytes)
      BY <3>2, <3>3, ConcatProperties
    <3> QED BY <1>2, <2>4, <3>2, <3>3, <3>4, <3>5, <3>6, Zenon
  <2>7. NothingLost'
    <3>1. ~logRow'.done
      BY <1>6, <2>1 DEF LogInv, RunOK
    <3>2. SoFar' = SubSeq(Output, 1, w + n)
      BY <1>4 DEF SoFar, Output, Size
    <3> QED BY <1>4, <2>1, <2>6, <3>1, <3>2 DEF NothingLost
  <2> QED BY <1>7, <2>5, <2>7 DEF LogInv
<1> QED BY <1>8, <1>9

\* Every other step of the run.
LEMMA RunKeepsTheLog ==
  ASSUME LogInv, SetRunning \/ Create \/ CreateRow \/ CloseStream \/ CloseTinyLog \/ Remove \/ SettleLog
  PROVE  LogInv'
<1>1. /\ {"stage", "written", "atClose", "cuts", "quiet"} \subseteq DOMAIN logRun'
      /\ logRun'.written = logRun.written /\ logRun'.cuts = logRun.cuts
      /\ logRun'.quiet = logRun.quiet
      /\ logRun'.atClose = IF CloseTinyLog THEN logRun.written ELSE logRun.atClose
      /\ <<logRun.stage, logRun'.stage>> \in
           {<<"start", "listed">>, <<"listed", "created">>, <<"created", "writing">>,
            <<"writing", "ending">>, <<"ending", "closed">>, <<"closed", "removed">>, <<"removed", "settled">>}
  BY DEF LogInv, RunOK, SetRunning, Create, CreateRow, CloseStream, CloseTinyLog, Remove, SettleLog
<1>2. SoFar' = SoFar
  BY <1>1 DEF SoFar, Output, Size
<1>3. CASE SetRunning \/ CreateRow \/ CloseStream
  <2>1. tl' = tl
    BY <1>3 DEF SetRunning, CreateRow, CloseStream
  <2>2. {"content", "filled", "done", "exists"} \subseteq DOMAIN logRow' /\ logRow'.done = logRow.done
    BY <1>3 DEF SetRunning, CreateRow, CloseStream, LogInv, RunOK
  <2>3. <<logRun.stage, logRun'.stage>> \in
          {<<"start", "listed">>, <<"created", "writing">>, <<"writing", "ending">>} /\ ~logRow.done
    BY <1>3 DEF SetRunning, CreateRow, CloseStream, LogInv, RunOK
  <2>4. RunOK'
    BY <1>1, <2>2, <2>3 DEF LogInv, RunOK
  <2>5. LiveLogOK'
    BY <1>1, <2>1, <2>3 DEF LogInv, LiveLogOK
  <2>6. NothingLost'
    BY <1>1, <1>2, <2>1, <2>2, <2>3 DEF LogInv, NothingLost
  <2> QED BY <2>4, <2>5, <2>6 DEF LogInv
<1>4. CASE Create
  <2>1. /\ logRow' = logRow /\ logRun.stage = "listed" /\ ~logRow.done
        /\ logRun.written = 0 /\ logRun.cuts = 0 /\ logRun'.stage = "created"
    BY <1>1, <1>4 DEF Create, LogInv, RunOK
  <2>2. /\ {"state", "listed", "kept", "room", "data"} \subseteq DOMAIN tl'
        /\ tl'.state = IF logRun.quiet THEN tl.state ELSE "open"
        /\ tl'.kept = tl.kept /\ tl'.room = tl.room /\ tl'.data = tl.data
    BY <1>4 DEF Create, LogInv, LiveLogOK
  <2>3. tl.data = <<>> /\ tl.kept = <<>> /\ SoFar = <<>> /\ tl.state # "open"
    <3>1. SoFar = <<>>
      BY <2>1, SubSeqEmpty DEF SoFar
    <3> QED BY <2>1, <3>1 DEF LogInv, LiveLogOK
  <2>4. RunOK'
    BY <1>1, <2>1 DEF LogInv, RunOK
  <2>5. LiveLogOK'
    BY <1>1, <2>1, <2>2, <2>3 DEF LogInv, LiveLogOK
  <2>6. <<>> \o <<>> = SoFar /\ <<>> \in Seq(Bytes)
    BY <2>3, ConcatEmptySeq
  <2>7. NothingLost'
    BY <1>1, <1>2, <2>1, <2>2, <2>3, <2>6 DEF NothingLost
  <2> QED BY <2>4, <2>5, <2>7 DEF LogInv
<1>5. CASE CloseTinyLog
  <2>1. /\ logRow' = logRow /\ logRun.stage = "ending" /\ ~logRow.done
        /\ logRun'.stage = "closed" /\ UntilClose' = SoFar
    BY <1>1, <1>5 DEF CloseTinyLog, LogInv, RunOK, UntilClose, SoFar, Output, Size
  <2>2. RunOK'
    BY <1>1, <2>1 DEF LogInv, RunOK
  <2>3. tl' = IF tl.state = "open" THEN [tl EXCEPT !.state = "closed", !.data = @ \o tl.kept] ELSE tl
    BY <1>5 DEF CloseTinyLog
  <2>4. LiveLogOK'
    BY <1>1, <2>1, <2>3 DEF LogInv, LiveLogOK
  <2>5. ASSUME logRun.cuts <= 1, ~logRun.quiet
        PROVE  tl'.data = SoFar /\ tl'.kept = tl.kept /\ SoFar \in Seq(Bytes) /\ tl.kept \in Seq(Bytes)
    <3>1. tl.state = "open" /\ {"state", "kept", "data"} \subseteq DOMAIN tl
      BY <2>1, <2>5 DEF LogInv, LiveLogOK
    <3>2. tl.data \in Seq(Bytes) /\ tl.kept \in Seq(Bytes) /\ tl.data \o tl.kept = SoFar
      BY <2>1, <2>5 DEF LogInv, NothingLost
    <3>3. SoFar \in Seq(Bytes)
      BY <3>2, ConcatProperties
    <3> QED BY <2>3, <3>1, <3>2, <3>3
  <2>6. NothingLost'
    BY <1>1, <1>2, <2>1, <2>5 DEF NothingLost
  <2> QED BY <2>2, <2>4, <2>6 DEF LogInv
<1>6. CASE Remove \/ SettleLog
  <2>1. /\ logRun.stage \in {"closed", "removed"} /\ ~logRow.done
        /\ logRun'.stage \in {"removed", "settled"} /\ logRun'.atClose = logRun.atClose
    BY <1>6 DEF Remove, SettleLog, LogInv, RunOK
  <2>2. /\ {"state", "listed", "kept", "room", "data"} \subseteq DOMAIN tl'
        /\ tl'.state = tl.state /\ tl'.kept = tl.kept /\ tl'.room = tl.room /\ tl'.data = tl.data
    BY <1>6 DEF Remove, SettleLog, LogInv, LiveLogOK
  <2>3. /\ {"content", "filled", "done", "exists"} \subseteq DOMAIN logRow'
        /\ logRow'.done => /\ logRow'.content = tl.data /\ logRun'.stage = "settled"
                           /\ logRow'.filled = (tl.state = "closed")
    BY <1>6, <2>1 DEF Remove, SettleLog, LogInv, RunOK
  <2>4. RunOK'
    BY <1>1, <2>1, <2>3 DEF LogInv, RunOK
  <2>5. LiveLogOK'
    BY <1>1, <2>1, <2>2 DEF LogInv, LiveLogOK
  <2>6. UntilClose' = UntilClose
    BY <2>1 DEF UntilClose, Output, Size
  <2>7. NothingLost'
    BY <1>1, <2>1, <2>2, <2>3, <2>6 DEF LogInv, LiveLogOK, NothingLost
  <2> QED BY <2>4, <2>5, <2>7 DEF LogInv
<1> QED BY <1>3, <1>4, <1>5, <1>6

LEMMA CleanupKeepsTheLog ==
  ASSUME LogInv, cleanupOldLogs
  PROVE  LogInv'
<1>1. /\ logRun' = logRun /\ tl' = tl
      /\ {"content", "filled", "done", "exists"} \subseteq DOMAIN logRow'
      /\ logRow'.done = logRow.done /\ logRow'.content = logRow.content
      /\ logRow'.filled = logRow.filled
  BY DEF cleanupOldLogs, LogInv, RunOK
<1>2. SoFar' = SoFar /\ UntilClose' = UntilClose
  BY <1>1 DEF SoFar, UntilClose, Output, Size
<1> QED BY <1>1, <1>2 DEF LogInv, RunOK, LiveLogOK, NothingLost

\* Windows read only.
LEMMA WindowsReadOnly ==
  ASSUME LogInv, UNCHANGED <<logRun, tl, logRow, logFile>>
  PROVE  LogInv'
<1>1. SoFar' = SoFar /\ UntilClose' = UntilClose
  BY DEF SoFar, UntilClose, Output, Size
<1> QED BY <1>1 DEF LogInv, RunOK, LiveLogOK, NothingLost

LEMMA LogInvIsInductive ==
  /\ LogInit => LogInv
  /\ LogInv /\ [LogNext]_logVars => LogInv'
<1>1. ASSUME LogInit PROVE LogInv
  <2>1. SoFar = <<>> /\ <<>> \o <<>> = <<>> /\ <<>> \in Seq(Bytes)
    <3>1. SubSeq(Output, 1, 0) = <<>>
      BY SubSeqEmpty
    <3> QED BY <1>1, <3>1, ConcatEmptySeq DEF LogInit, SoFar
  <2>2. 0 \in 0..Size
    BY OutputIsASequence
  <2> QED BY <1>1, <2>1, <2>2 DEF LogInit, LogInv, RunOK, LiveLogOK, NothingLost
<1>2. ASSUME LogInv, [LogNext]_logVars PROVE LogInv'
  <2>1. ASSUME RunStep \/ \E n \in 1..MaxChunk : Write(n) PROVE LogInv'
    BY <1>2, <2>1, WriteKeepsTheLog, RunKeepsTheLog DEF RunStep
  <2>2. ASSUME NEW r \in LogReaders, OpenWindow(r) \/ WindowStep(r) \/ CloseWindow(r)
        PROVE  LogInv'
    <3>1. UNCHANGED <<logRun, tl, logRow, logFile>>
      BY <2>2 DEF OpenWindow, WindowStep, CloseWindow, Find, History, Subscribe, Receive,
                  FinishWindow, SleepAndLook, Poll, Reconnect, Becomes
    <3> QED BY <1>2, <3>1, WindowsReadOnly
  <2>3. CASE UNCHANGED logVars
    BY <1>2, <2>3, WindowsReadOnly DEF logVars
  <2> QED BY <1>2, <2>1, <2>2, <2>3, CleanupKeepsTheLog DEF LogNext
<1> QED BY <1>1, <1>2

\* The log of a run that was followed live holds all that was written until its TinyLog
\* closed once it is settled, from the row, although the file may be full, the readers slow,
\* the row cleaned up and more brought by a reader that nobody waited for.
THEOREM SettledLogsAreWhole == LogSpec => []SettledLogIsWhole
<1>1. LogInv => SettledLogIsWhole
  BY DEF LogInv, NothingLost, UntilClose, SettledLogIsWhole, Detail
<1> QED BY <1>1, LogInvIsInductive, PTL DEF LogSpec

-----------------------------------------------------------------------------
\* What a window may show or be sent.
LEMMA OrderStays ==
  ASSUME NEW n \in Nat, NEW m \in Nat, n <= m
  PROVE  \A s : InOrder(s, n) => InOrder(s, m)
<1>1. 1..n \subseteq 1..m
  OBVIOUS
<1>2. Seq(1..n) \subseteq Seq(1..m)
  BY <1>1, SeqMonotonic
<1> QED BY <1>2 DEF InOrder

LEMMA WindowStaysOK ==
  ASSUME NEW n \in Nat, NEW m \in Nat, n <= m, NEW w, WindowOK(w, n)
  PROVE  WindowOK(w, m)
<1>1. Seq(1..n) \subseteq Seq(1..m)
  <2>1. 1..n \subseteq 1..m
    OBVIOUS
  <2> QED BY <2>1, SeqMonotonic
<1>2. [bytes : Seq(1..n), shared : {FALSE}] \subseteq [bytes : Seq(1..m), shared : {FALSE}]
  BY <1>1
<1>3. w.chan \in Seq([bytes : Seq(1..m), shared : {FALSE}])
  BY <1>2, SeqMonotonic DEF WindowOK
<1>4. InOrder(w.shown, m)
  BY OrderStays DEF WindowOK
<1> QED BY <1>3, <1>4 DEF WindowOK

LEMMA NothingWaits ==
  ASSUME NEW w, NEW n, {"pc", "shown", "chan", "closed"} \subseteq DOMAIN w,
         InOrder(w.shown, n), w.chan = <<>>
  PROVE  WindowOK(w, n)
<1>1. <<>> \in Seq([bytes : Seq(1..n), shared : {FALSE}]) /\ DOMAIN <<>> = {}
  OBVIOUS
<1> QED BY <1>1 DEF WindowOK

LEMMA EmptyInOrder == \A n : InOrder(<<>>, n)
<1>1. \A n : <<>> \in Seq(1..n) /\ DOMAIN <<>> = {}
  OBVIOUS
<1> QED BY <1>1 DEF InOrder, Increasing

\* The past that a window reads is in order.
LEMMA PastIsInOrder ==
  ASSUME LogInv, logRun.cuts = 0
  PROVE  InOrder(ReadAll, logRun.written)
<1> DEFINE w == logRun.written
<1>1. w \in Nat /\ w \in 0..Size /\ Size \in Nat
  BY OutputIsASequence DEF LogInv, RunOK
<1>2. CASE tl.state = "open"
  <2>1. /\ tl.kept = <<>> /\ tl.data \in Seq(Bytes) /\ tl.data \o tl.kept = SoFar
    BY <1>2 DEF LogInv, LiveLogOK, NothingLost
  <2>2. ReadAll = SoFar
    BY <1>2, <2>1, ConcatEmptySeq DEF ReadAll
  <2>3. \A i \in 1..w : Output[i] = i /\ Output[i] \in 1..w
    BY <1>1 DEF Output
  <2>4. /\ SubSeq(Output, 1, w) \in Seq(1..w)
        /\ Len(SubSeq(Output, 1, w)) = IF 1 <= w THEN w - 1 + 1 ELSE 0
        /\ \A i \in 1 .. w - 1 + 1 : SubSeq(Output, 1, w)[i] = Output[1 + i - 1]
    BY <1>1, <2>3, SubSeqProperties
  <2>5. SoFar \in Seq(1..w) /\ DOMAIN SoFar = 1..w
    BY <1>1, <2>4, LenProperties DEF SoFar
  <2>6. \A i \in 1..w : SoFar[i] = i
    <3>1. w - 1 + 1 = w /\ \A i \in 1..w : 1 + i - 1 = i
      BY <1>1
    <3> QED BY <2>3, <2>4, <3>1 DEF SoFar
  <2>7. Increasing(SoFar)
    BY <2>5, <2>6 DEF Increasing
  <2> QED BY <2>2, <2>5, <2>7 DEF InOrder
<1>3. CASE tl.state # "open"
  BY <1>3, EmptyInOrder DEF ReadAll
<1> QED BY <1>2, <1>3

-----------------------------------------------------------------------------
LEMMA WhatWaits ==
  ASSUME NEW n \in Nat, NEW c \in Seq([bytes : Seq(1..n), shared : {FALSE}])
  PROVE  /\ Len(c) \in Nat /\ DOMAIN c = 1..Len(c)
         /\ \A k \in DOMAIN c : c[k].bytes \in Seq(1..n) /\ c[k].shared = FALSE
<1> DEFINE Chunks == [bytes : Seq(1..n), shared : {FALSE}]
<1>1. \A k \in Chunks : k.bytes \in Seq(1..n) /\ k.shared = FALSE
  OBVIOUS
<1>2. c \in Seq(Chunks)
  OBVIOUS
<1> HIDE DEF Chunks
<1>3. Len(c) \in Nat /\ DOMAIN c = 1..Len(c)
  BY <1>2, LenProperties
<1>4. \A k \in 1..Len(c) : c[k] \in Chunks
  BY <1>2, ElementOfSeq
<1> QED BY <1>1, <1>3, <1>4

\* A window takes what has waited longest.
LEMMA ReceiveKeepsOrder ==
  ASSUME NEW n \in Nat, NEW w, WindowOK(w, n), w.pc = "loop", w.chan # <<>>, NEW v,
         v = [w EXCEPT !.shown = @ \o Head(w.chan).bytes, !.chan = Tail(@)]
  PROVE  WindowOK(v, n)
<1> DEFINE Chunks == [bytes : Seq(1..n), shared : {FALSE}]
           s == w.shown
           c == w.chan
           h == Head(c).bytes
<1>1. c \in Seq(Chunks) /\ s \in Seq(1..n) /\ Len(c) \in Nat \ {0} /\ DOMAIN c = 1..Len(c)
  BY EmptySeq, LenProperties DEF WindowOK, InOrder
<1>2. /\ Head(c) = c[1] /\ Tail(c) \in Seq(Chunks) /\ Len(Tail(c)) = Len(c) - 1
      /\ \A i \in 1 .. Len(Tail(c)) : Tail(c)[i] = c[i + 1]
  BY <1>1, HeadTailProperties
<1>3. DOMAIN Tail(c) = 1 .. Len(c) - 1
  BY <1>2, LenProperties
<1>4. h \in Seq(1..n) /\ h = c[1].bytes /\ 1 \in DOMAIN c
  <2>1. 1 \in DOMAIN c
    BY <1>1
  <2>2. c[1].bytes \in Seq(1..n)
    BY <1>1, <2>1, WhatWaits
  <2> QED BY <1>2, <2>1, <2>2, Zenon
<1>5. Increasing(s) /\ Increasing(h) /\ Before(s, h)
  BY <1>4 DEF WindowOK, InOrder
<1>6. /\ s \o h \in Seq(1..n) /\ DOMAIN (s \o h) = 1 .. Len(s) + Len(h)
      /\ DOMAIN s = 1..Len(s) /\ DOMAIN h = 1..Len(h) /\ Len(s) \in Nat /\ Len(h) \in Nat
      /\ \A i \in 1 .. Len(s) + Len(h) : (s \o h)[i] = IF i <= Len(s) THEN s[i] ELSE h[i - Len(s)]
  <2> HIDE DEF s, h
  <2>1. s \in Seq(1..n) /\ h \in Seq(1..n)
    BY <1>1, <1>4
  <2>2. /\ s \o h \in Seq(1..n) /\ Len(s \o h) = Len(s) + Len(h)
        /\ \A i \in 1 .. Len(s) + Len(h) : (s \o h)[i] = IF i <= Len(s) THEN s[i] ELSE h[i - Len(s)]
    BY <2>1, ConcatProperties
  <2> QED BY <2>1, <2>2, LenProperties
<1>7. Increasing(s \o h)
  <2> SUFFICES ASSUME NEW i \in 1 .. Len(s) + Len(h), NEW j \in 1 .. Len(s) + Len(h), i < j
               PROVE  (s \o h)[i] < (s \o h)[j]
    BY <1>6 DEF Increasing
  <2> HIDE DEF s, h
  <2>1. CASE j <= Len(s)
    BY <1>5, <1>6, <2>1 DEF Increasing
  <2>2. CASE i <= Len(s) /\ ~(j <= Len(s))
    <3>1. i \in DOMAIN s /\ j - Len(s) \in DOMAIN h
      BY <1>6, <2>2
    <3> QED BY <1>5, <1>6, <2>2, <3>1 DEF Before
  <2>3. CASE ~(i <= Len(s))
    <3>1. /\ i - Len(s) \in DOMAIN h /\ j - Len(s) \in DOMAIN h /\ i - Len(s) < j - Len(s)
          /\ ~(j <= Len(s))
      BY <1>6, <2>3
    <3> QED BY <1>5, <1>6, <2>3, <3>1 DEF Increasing
  <2> QED BY <1>6, <2>1, <2>2, <2>3
<1>8. \A k \in DOMAIN Tail(c) : k + 1 \in DOMAIN c /\ Tail(c)[k] = c[k + 1]
  BY <1>1, <1>2, <1>3
<1>9. ASSUME NEW k \in DOMAIN Tail(c)
      PROVE  Increasing(Tail(c)[k].bytes) /\ Before(s \o h, Tail(c)[k].bytes)
  <2>1. k + 1 \in DOMAIN c /\ Tail(c)[k] = c[k + 1] /\ 1 < k + 1
    BY <1>3, <1>8
  <2>2. Increasing(c[k + 1].bytes) /\ Before(s, c[k + 1].bytes) /\ Before(h, c[k + 1].bytes)
    BY <1>4, <2>1 DEF WindowOK
  <2> DEFINE t == c[k + 1].bytes
  <2>3. ASSUME NEW i \in 1 .. Len(s) + Len(h), NEW j \in DOMAIN t
        PROVE  (s \o h)[i] < t[j]
    <3> HIDE DEF s, h, t
    <3>1. CASE i <= Len(s)
      BY <1>6, <2>2, <3>1 DEF Before, t
    <3>2. CASE ~(i <= Len(s))
      <4>1. i - Len(s) \in DOMAIN h
        BY <1>6, <3>2
      <4> QED BY <1>6, <2>2, <3>2, <4>1 DEF Before, t
    <3> QED BY <3>1, <3>2
  <2> QED BY <1>6, <2>1, <2>2, <2>3 DEF Before
<1>10. ASSUME NEW k \in DOMAIN Tail(c), NEW l \in DOMAIN Tail(c), k < l
       PROVE  Before(Tail(c)[k].bytes, Tail(c)[l].bytes)
  <2>1. k + 1 < l + 1
    BY <1>3, <1>10
  <2> QED BY <1>8, <2>1 DEF WindowOK
<1>11. /\ v.pc = w.pc /\ v.shown = s \o h /\ v.chan = Tail(c)
       /\ {"pc", "shown", "chan", "closed"} \subseteq DOMAIN v
  BY DEF WindowOK
<1> HIDE DEF s, h, c
<1>12. InOrder(v.shown, n)
  BY <1>6, <1>7, <1>11 DEF InOrder
<1> QED BY <1>2, <1>9, <1>10, <1>11, <1>12 DEF WindowOK

\* What the run writes comes after all that a window knows of.
LEMMA BroadcastKeepsOrder ==
  ASSUME NEW n \in Nat, NEW m \in Nat, n <= m, NEW w, WindowOK(w, n),
         NEW write, write.shared = FALSE, InOrder(write.out, m), \A j \in DOMAIN write.out : n < write.out[j]
  PROVE  WindowOK(broadcast(w, write), m)
<1> DEFINE Chunks == [bytes : Seq(1..m), shared : {FALSE}]
           c == w.chan
           e == [bytes |-> write.out, shared |-> write.shared]
           old(place) == [k \in DOMAIN c |->
                            IF c[k].shared THEN [c[k] EXCEPT !.bytes = Over(@, place)] ELSE c[k]]
<1>1. WindowOK(w, m)
  BY WindowStaysOK
<1>2. c \in Seq(Chunks) /\ Len(c) \in Nat /\ DOMAIN c = 1..Len(c)
  BY <1>1, LenProperties DEF WindowOK
<1>3. ASSUME NEW place PROVE old(place) = c
  <2>1. \A k \in DOMAIN c : c[k].shared = FALSE
    BY <1>2, WhatWaits
  <2> HIDE DEF c
  <2>2. old(place) = [k \in DOMAIN c |-> c[k]]
    BY <2>1
  <2>3. c = [k \in DOMAIN c |-> c[k]]
    BY <1>2
  <2> QED BY <2>2, <2>3, Zenon
<1>4. broadcast(w, write) =
        [w EXCEPT !.chan = IF w.pc = "loop" /\ Len(c) < ChannelCap /\ write.out # <<>>
                           THEN Append(c, e) ELSE c]
  <2> DEFINE place == IF write.shared THEN Over(write.all, write.kept) ELSE write.kept
  <2>1. broadcast(w, write) =
          [w EXCEPT !.chan = IF w.pc = "loop" /\ Len(c) < ChannelCap /\ write.out # <<>>
                             THEN Append(old(place), e) ELSE old(place)]
    BY Zenon DEF broadcast
  <2> HIDE DEF old, place
  <2>2. old(place) = c
    BY <1>3
  <2> QED BY <2>1, <2>2, Zenon
<1>5. CASE w.pc = "loop" /\ Len(c) < ChannelCap /\ write.out # <<>>
  <2> DEFINE d == Append(c, e)
             v == broadcast(w, write)
  <2>1. /\ v.pc = w.pc /\ v.shown = w.shown /\ v.chan = d
        /\ {"pc", "shown", "chan", "closed"} \subseteq DOMAIN v
    BY <1>1, <1>4, <1>5 DEF WindowOK
  <2>2. e \in Chunks /\ e.bytes = write.out
    BY DEF InOrder
  <2>3. /\ d \in Seq(Chunks) /\ Len(d) = Len(c) + 1 /\ DOMAIN d = 1 .. Len(c) + 1
        /\ \A k \in 1..Len(c) : d[k] = c[k]
        /\ d[Len(c) + 1] = e
    <3> HIDE DEF Chunks, c, e
    <3>1. /\ d \in Seq(Chunks) /\ Len(d) = Len(c) + 1
          /\ \A k \in 1..Len(c) : d[k] = c[k]
          /\ d[Len(c) + 1] = e
      BY <1>2, <2>2, AppendProperties
    <3> QED BY <3>1, LenProperties
  <2>4. \A k \in DOMAIN c : c[k].bytes \in Seq(1..n) /\ DOMAIN c[k].bytes = 1..Len(c[k].bytes)
    <3>1. c \in Seq([bytes : Seq(1..n), shared : {FALSE}])
      BY DEF WindowOK
    <3>2. \A k \in DOMAIN c : c[k].bytes \in Seq(1..n)
      BY <3>1, WhatWaits
    <3> QED BY <3>2, LenProperties
  <2>5. ASSUME NEW s \in Seq(1..n) PROVE Before(s, e.bytes)
    <3>1. \A i \in DOMAIN s : s[i] \in 1..n
      BY LenProperties, ElementOfSeq
    <3>2. \A j \in DOMAIN e.bytes : e.bytes[j] \in 1..m /\ n < e.bytes[j]
      BY LenProperties, ElementOfSeq DEF InOrder
    <3> QED BY <3>1, <3>2 DEF Before
  <2>6. Increasing(e.bytes) /\ Before(w.shown, e.bytes)
    BY <2>5 DEF WindowOK, InOrder
  <2> HIDE DEF d, e, v
  <2>7. ASSUME NEW k \in DOMAIN d
        PROVE  Increasing(d[k].bytes) /\ Before(w.shown, d[k].bytes)
    <3>1. CASE k \in DOMAIN c
      BY <1>1, <1>2, <2>3, <3>1 DEF WindowOK
    <3>2. CASE k = Len(c) + 1
      BY <2>3, <2>6, <3>2
    <3> QED BY <1>2, <2>3, <3>1, <3>2
  <2>8. ASSUME NEW k \in DOMAIN d, NEW l \in DOMAIN d, k < l
        PROVE  Before(d[k].bytes, d[l].bytes)
    <3>1. k \in DOMAIN c /\ d[k] = c[k]
      BY <1>2, <2>3, <2>8
    <3>2. CASE l \in DOMAIN c
      BY <1>1, <1>2, <2>3, <2>8, <3>1, <3>2 DEF WindowOK
    <3>3. CASE l = Len(c) + 1
      BY <2>3, <2>4, <2>5, <3>1, <3>3
    <3> QED BY <1>2, <2>3, <3>2, <3>3
  <2>9. InOrder(v.shown, m) /\ v.pc = "loop"
    BY <1>1, <1>5, <2>1 DEF WindowOK
  <2>10. WindowOK(v, m)
    BY <2>1, <2>3, <2>7, <2>8, <2>9 DEF WindowOK
  <2> QED BY <2>10 DEF v
<1>6. CASE ~(w.pc = "loop" /\ Len(c) < ChannelCap /\ write.out # <<>>)
  <2>1. broadcast(w, write) = [w EXCEPT !.chan = c]
    BY <1>4, <1>6
  <2> DEFINE v == broadcast(w, write)
  <2>2. /\ v.pc = w.pc /\ v.shown = w.shown /\ v.chan = w.chan
        /\ {"pc", "shown", "chan", "closed"} \subseteq DOMAIN v
    BY <1>1, <2>1 DEF WindowOK
  <2> HIDE DEF v, c
  <2>3. WindowOK(v, m)
    BY <1>1, <2>2 DEF WindowOK
  <2> QED BY <2>3 DEF v
<1> QED BY <1>5, <1>6

-----------------------------------------------------------------------------
LEMMA BecomesKeeps ==
  ASSUME WindowsInv, NEW r \in LogReaders, NEW w, Becomes(r, w),
         logRun.cuts = 0 => WindowOK(w, logRun.written)
  PROVE  WindowsInv'
BY DEF WindowsInv, Becomes


\* Every other step of a window leaves nothing waiting and shows the past, nothing or
\* what it showed.
LEMMA OthersLeaveNothing ==
  ASSUME LogInv, WindowsInv, NEW r \in LogReaders,
         \/ OpenWindow(r) \/ Find(r) \/ History(r) \/ Subscribe(r) \/ FinishWindow(r)
         \/ SleepAndLook(r) \/ Poll(r) \/ Reconnect(r) \/ CloseWindow(r)
  PROVE  WindowsInv'
<1> DEFINE w == windows[r]
           n == logRun.written
           Told(v) == /\ {"pc", "shown", "chan", "closed"} \subseteq DOMAIN v
                      /\ v.shown \in {w.shown, ReadAll, <<>>} /\ v.chan = <<>>
<1>1. ASSUME NEW v, logRun.cuts = 0 => Told(v), Becomes(r, v)
      PROVE  WindowsInv'
  <2>1. ASSUME logRun.cuts = 0 PROVE WindowOK(v, n)
    <3>1. Told(v) /\ InOrder(w.shown, n)
      BY <1>1, <2>1 DEF WindowsInv, WindowOK
    <3>2. InOrder(v.shown, n)
      BY <2>1, <3>1, PastIsInOrder, EmptyInOrder, Zenon
    <3> QED BY <3>1, <3>2, NothingWaits
  <2> QED BY <1>1, <2>1, BecomesKeeps
<1>2. logRun.cuts = 0 => /\ {"pc", "shown", "chan", "closed"} \subseteq DOMAIN w
                         /\ w.pc # "loop" => w.chan = <<>>
  BY DEF WindowsInv, WindowOK
<1>3. CASE OpenWindow(r) \/ Find(r) \/ Subscribe(r) \/ FinishWindow(r)
  <2>1. PICK pc : Becomes(r, Rename(r, pc)) /\ (w.pc # "loop" \/ w.chan = <<>>)
    BY <1>3 DEF OpenWindow, Find, Subscribe, FinishWindow, Window
  <2>2. logRun.cuts = 0 => Told(Rename(r, pc))
    BY <1>2, <2>1 DEF Rename
  <2> QED BY <1>1, <2>1, <2>2
<1>4. CASE History(r)
  <2> DEFINE v == [Rename(r, "subscribe") EXCEPT !.shown = ReadAll]
  <2>1. logRun.cuts = 0 => Told(v)
    BY <1>2, <1>4 DEF History, Window, Rename
  <2> QED BY <1>1, <1>4, <2>1 DEF History
<1>5. CASE SleepAndLook(r)
  <2> DEFINE v == [Rename(r, IF IsRunning THEN "reconnect" ELSE "finished") EXCEPT
                     !.shown = IF tl.listed THEN ReadAll ELSE @]
  <2>1. logRun.cuts = 0 => Told(v)
    BY <1>2, <1>5 DEF SleepAndLook, Window, Rename
  <2> QED BY <1>1, <1>5, <2>1 DEF SleepAndLook
<1>6. CASE Poll(r)
  <2>1. PICK v : Becomes(r, v) /\ v \in {[Rename(r, "reconnect") EXCEPT !.shown = ReadAll],
                                         Rename(r, "finished"),
                                         [windows[r] EXCEPT !.polls = @ + 1]}
    BY <1>6 DEF Poll
  <2>2. logRun.cuts = 0 => Told(v)
    BY <1>2, <1>6, <2>1 DEF Poll, Window, Rename
  <2> QED BY <1>1, <2>1, <2>2
<1>7. CASE Reconnect(r)
  <2>1. PICK v : Becomes(r, v) /\ v \in {Rename(r, "finished"),
                                         [Rename(r, "find") EXCEPT !.shown = <<>>, !.polls = 0,
                                                                   !.tries = @ + 1]}
    BY <1>7 DEF Reconnect
  <2>2. logRun.cuts = 0 => Told(v)
    BY <1>2, <1>7, <2>1 DEF Reconnect, Window, Rename
  <2> QED BY <1>1, <2>1, <2>2
<1>8. CASE CloseWindow(r)
  <2> DEFINE v == [Rename(r, "gone") EXCEPT !.chan = <<>>, !.shown = <<>>, !.closed = FALSE]
  <2>1. logRun.cuts = 0 => Told(v)
    BY <1>2 DEF Rename
  <2> QED BY <1>1, <1>8, <2>1 DEF CloseWindow
<1> QED BY <1>3, <1>4, <1>5, <1>6, <1>7, <1>8

LEMMA WindowsKeepOrder ==
  ASSUME LogInv, WindowsInv, NEW r \in LogReaders,
         OpenWindow(r) \/ WindowStep(r) \/ CloseWindow(r)
  PROVE  WindowsInv'
<1>1. CASE Receive(r)
  <2> DEFINE w == windows[r]
             v == [w EXCEPT !.shown = @ \o Head(w.chan).bytes, !.chan = Tail(@)]
  <2>1. w.pc = "loop" /\ w.chan # <<>> /\ Becomes(r, v)
    BY <1>1 DEF Receive, Window
  <2>2. logRun.written \in Nat
    BY OutputIsASequence DEF LogInv, RunOK
  <2>3. logRun.cuts = 0 => WindowOK(v, logRun.written)
    BY <2>1, <2>2, ReceiveKeepsOrder DEF WindowsInv
  <2> QED BY <2>1, <2>3, BecomesKeeps
<1> QED BY <1>1, OthersLeaveNothing DEF WindowStep

LEMMA WriteKeepsOrder ==
  ASSUME LogInv, WindowsInv, NEW k \in 1..MaxChunk, Write(k)
  PROVE  WindowsInv'
<1> DEFINE n == logRun.written
           p == SubSeq(Output, n + 1, n + k)
<1>1. n \in Nat /\ n \in 0..Size /\ k \in Nat /\ n + k <= Size /\ logRun'.written = n + k
  <2>1. logRun'.written = n + k /\ n + k <= Size
    BY Zenon DEF Write, LogInv, RunOK
  <2> QED BY <2>1, LogAssumption, OutputIsASequence DEF LogInv, RunOK
<1>2. logRun'.cuts = 0 => logRun.cuts = 0
  <2>1. logRun.cuts \in Nat /\ k # 0
    BY LogAssumption DEF LogInv, RunOK
  <2>2. p \in Seq(Bytes) /\ Len(p) = k
    BY <1>1, OutputContinues
  <2>3. p # <<>> /\ <<>> \in Seq(Bytes)
    <3> HIDE DEF p
    <3> QED BY <2>1, <2>2
  <2>4. Len(CutOff(p)) \in Nat
    BY <2>2, <2>3, CutOffIsTheEnd
  <2>5. logRun'.cuts \in {logRun.cuts, logRun.cuts + Len(CutOff(p))}
    <3>1. logRun'.cuts = IF tl.state = "open" THEN logRun.cuts + Len(CutOff(p)) ELSE logRun.cuts
      BY Zenon DEF Write, LogInv, RunOK
    <3> QED BY <3>1
  <2> QED BY <2>1, <2>4, <2>5
<1>3. CASE tl.state # "open"
  <2>1. windows' = windows
    BY <1>3 DEF Write
  <2>2. n <= n + k /\ n + k \in Nat
    BY <1>1
  <2> QED BY <1>1, <1>2, <2>1, <2>2, WindowStaysOK DEF WindowsInv
<1>4. CASE tl.state = "open"
  <2>1. windows' = [r \in LogReaders |-> broadcast(windows[r], Written(p))]
    BY <1>4, Zenon DEF Write
  <2>2. DOMAIN windows' = LogReaders /\ \A r \in LogReaders : windows'[r] = broadcast(windows[r], Written(p))
    BY <2>1
  <2>3. ASSUME logRun'.cuts = 0, NEW r \in LogReaders
        PROVE  WindowOK(broadcast(windows[r], Written(p)), n + k)
    <3>1. logRun'.cuts <= 1
      BY <2>3
    <3>2. Written(p).out = p /\ Written(p).shared = FALSE
      BY <1>4, <2>3, <3>1, WrittenIsWhole
    <3>3. InOrder(p, n + k) /\ \A j \in DOMAIN p : n < p[j]
      <4>1. p \in Seq(Bytes) /\ Len(p) = k /\ \A i \in 1..k : p[i] = n + i
        BY <1>1, OutputContinues
      <4>2. DOMAIN p = 1..k
        BY <4>1, LenProperties
      <4> HIDE DEF p
      <4>3. \A i \in 1..k : p[i] \in 1 .. n + k /\ n < p[i]
        BY <1>1, <4>1
      <4>4. p \in Seq(1 .. n + k)
        <5>1. p \in [1..k -> 1 .. n + k]
          <6>1. p \in [1..Len(p) -> Bytes]
            BY <4>1, LenProperties
          <6> QED BY <4>1, <4>3, <6>1
        <5> QED BY <1>1, <5>1, SeqDef
      <4>5. Increasing(p)
        BY <1>1, <4>1, <4>2 DEF Increasing
      <4> QED BY <4>2, <4>3, <4>4, <4>5 DEF InOrder
    <3>4. WindowOK(windows[r], n)
      BY <1>2, <2>3 DEF WindowsInv
    <3> DEFINE W == Written(p)
    <3>5. W.shared = FALSE /\ InOrder(W.out, n + k) /\ \A j \in DOMAIN W.out : n < W.out[j]
      BY <3>2, <3>3, Zenon
    <3>6. n <= n + k /\ n + k \in Nat
      BY <1>1
    <3> HIDE DEF W, p
    <3>7. WindowOK(broadcast(windows[r], W), n + k)
      BY <1>1, <3>4, <3>5, <3>6, BroadcastKeepsOrder
    <3> QED BY <3>7 DEF W
  <2> HIDE DEF p
  <2>4. logRun'.cuts = 0 => \A r \in LogReaders : WindowOK(windows'[r], logRun'.written)
    BY <1>1, <2>2, <2>3, Zenon
  <2> QED BY <2>2, <2>4 DEF WindowsInv
<1> QED BY <1>3, <1>4

LEMMA RunKeepsOrder ==
  ASSUME LogInv, WindowsInv,
         \/ SetRunning \/ Create \/ CreateRow \/ CloseStream \/ CloseTinyLog \/ Remove \/ SettleLog
         \/ cleanupOldLogs
  PROVE  WindowsInv'
<1>1. logRun'.written = logRun.written /\ logRun'.cuts = logRun.cuts
  BY DEF SetRunning, Create, CreateRow, CloseStream, CloseTinyLog, Remove, SettleLog, cleanupOldLogs, LogInv, RunOK
<1>2. CASE UNCHANGED windows
  BY <1>1, <1>2 DEF WindowsInv
<1>3. CASE CloseTinyLog
  <2>1. windows' = [r \in LogReaders |-> [windows[r] EXCEPT !.closed = @ \/ windows[r].pc = "loop"]]
    BY <1>3 DEF CloseTinyLog
  <2>2. ASSUME NEW r \in LogReaders, WindowOK(windows[r], logRun.written)
        PROVE  WindowOK(windows'[r], logRun.written)
    <3>1. /\ windows'[r].pc = windows[r].pc /\ windows'[r].shown = windows[r].shown
          /\ windows'[r].chan = windows[r].chan
          /\ {"pc", "shown", "chan", "closed"} \subseteq DOMAIN windows'[r]
      BY <2>1, <2>2 DEF WindowOK
    <3> QED BY <2>2, <3>1 DEF WindowOK
  <2> QED BY <1>1, <2>1, <2>2 DEF WindowsInv
<1> QED BY <1>2, <1>3 DEF SetRunning, Create, CreateRow, CloseStream, Remove, SettleLog, cleanupOldLogs

\* As long as no chunk ended inside a character, every window shows bytes that the run
\* wrote, in their order and none twice, whenever it opens, lags, reconnects or leaves.
THEOREM WindowsShowInOrder == LogSpec => []ShownInOrder
<1>1. LogInit => WindowsInv
  <2> SUFFICES ASSUME LogInit PROVE WindowsInv
    OBVIOUS
  <2>1. ASSUME NEW r \in LogReaders PROVE WindowOK(windows[r], logRun.written)
    <3>1. /\ {"pc", "shown", "chan", "closed"} \subseteq DOMAIN windows[r]
          /\ windows[r].shown = <<>> /\ windows[r].chan = <<>>
      BY DEF LogInit
    <3>2. InOrder(windows[r].shown, logRun.written)
      BY <3>1, EmptyInOrder
    <3> QED BY <3>1, <3>2, NothingWaits
  <2> QED BY <2>1 DEF LogInit, WindowsInv
<1>2. LogInv /\ WindowsInv /\ [LogNext]_logVars => WindowsInv'
  <2> SUFFICES ASSUME LogInv, WindowsInv, [LogNext]_logVars PROVE WindowsInv'
    OBVIOUS
  <2>1. CASE UNCHANGED logVars
    BY <2>1 DEF logVars, WindowsInv
  <2>2. CASE RunStep \/ (\E n \in 1..MaxChunk : Write(n)) \/ cleanupOldLogs
    BY <2>2, WriteKeepsOrder, RunKeepsOrder DEF RunStep
  <2> QED BY <2>1, <2>2, WindowsKeepOrder DEF LogNext
<1>3. LogInv /\ WindowsInv => ShownInOrder
  <2> SUFFICES ASSUME LogInv, WindowsInv, logRun.cuts = 0, NEW r \in LogReaders
               PROVE  /\ Increasing(windows[r].shown)
                      /\ \A i \in DOMAIN windows[r].shown : windows[r].shown[i] <= logRun.written
    BY DEF ShownInOrder
  <2> DEFINE s == windows[r].shown
             n == logRun.written
  <2>1. s \in Seq(1..n) /\ Increasing(s) /\ n \in Nat
    BY OutputIsASequence DEF LogInv, RunOK, WindowsInv, WindowOK, InOrder
  <2>2. \A i \in DOMAIN s : s[i] \in 1..n
    BY <2>1, LenProperties, ElementOfSeq
  <2>3. \A i \in DOMAIN s : s[i] <= n
    BY <2>1, <2>2
  <2> QED BY <2>1, <2>3
<1> QED BY <1>1, <1>2, <1>3, LogInvIsInductive, PTL DEF LogSpec
=============================================================================
