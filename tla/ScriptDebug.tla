---------------------------- MODULE ScriptDebug ----------------------------
(***************************************************************************)
(* Runs of scripts from the editor: handler/script_debug.go,               *)
(* script_run_code.go and script_runtime.go.                               *)
(*                                                                         *)
(* The handler starts the script and answers; a goroutine waits for it,    *)
(* installs what the output says is missing and starts it again.  A client *)
(* that knows the id of a run may stop it or clear it meanwhile.           *)
(***************************************************************************)
EXTENDS Naturals, FiniteSets

CONSTANTS
    Trials,      \* the runs of scripts
    TrialKinds,  \* of "file", "inline" and "code": what the editor asks to run
    MaxInstalls, \* maxRetries
    AutoInstall  \* auto_install_deps

VARIABLES
    trial,     \* debugRun and its goroutine
    debugRuns, \* the run of each id
    tempFiles, \* the temporary scripts there are
    now        \* the clock: an id and a temporary name are made of its milliseconds

debugVars == <<trial, debugRuns, tempFiles, now>>

ASSUME DebugAssumption ==
    /\ IsFiniteSet(Trials) /\ MaxInstalls \in Nat /\ AutoInstall \in BOOLEAN /\ TrialKinds \subseteq {"file", "inline", "code"}

NoTrial == "no run"
NewTrial ==
    [pc |-> "free", kind |-> "file", id |-> 0, status |-> "running", done |-> FALSE,
     alive |-> FALSE, exit |-> 0, installs |-> 0, late |-> FALSE]

DebugInit ==
    /\ trial = [r \in Trials |-> NewTrial] /\ debugRuns = [i \in 0..Cardinality(Trials) |-> NoTrial]
    /\ tempFiles = {} /\ now = 0

\* Inline scripts and code have temporary files, whose names may be equal.
TempFile(r) == <<trial[r].kind, trial[r].id>>
HasTemp(kind) == kind \in {"inline", "code"}
isStopped(r) == trial[r].status = "stopped"
Stands(r, pc) == trial[r].pc = pc
Trial(r, t) == trial' = [trial EXCEPT ![r] = t]
WithoutTemp(r) == tempFiles \ {TempFile(r)}

-----------------------------------------------------------------------------
\* DebugRun and RunCode.  The id is made when the process runs; a run that began in the
\* same millisecond loses its entry to this one.  A start that fails leaves nothing.
StartTrial(r, kind, stamp) ==
    /\ Stands(r, "free") /\ stamp \in {now, now + 1} \cap DOMAIN debugRuns /\ now' = stamp
    /\ Trial(r, [NewTrial EXCEPT !.pc = "wait", !.kind = kind, !.id = stamp, !.alive = TRUE])
    /\ tempFiles' = IF HasTemp(kind) THEN tempFiles \cup {<<kind, stamp>>} ELSE tempFiles
    /\ debugRuns' = [debugRuns EXCEPT ![stamp] = r]

ProcessExits(r, code) ==
    /\ trial[r].alive /\ Trial(r, [trial[r] EXCEPT !.alive = FALSE, !.exit = code])
    /\ UNCHANGED <<debugRuns, tempFiles, now>>

\* waitTrackedCommand.  An inline script is removed when its first process has ended,
\* code when its goroutine ends.
Waited(r) ==
    /\ Stands(r, "wait") /\ ~trial[r].alive
    /\ tempFiles' = IF trial[r].kind = "inline" \/ (trial[r].kind = "code" /\ isStopped(r) /\ trial[r].installs = 0)
                    THEN WithoutTemp(r) ELSE tempFiles
    /\ Trial(r, [trial[r] EXCEPT !.pc =
                   IF isStopped(r) /\ trial[r].installs = 0 THEN "end"
                   ELSE IF trial[r].exit = 0 \/ ~AutoInstall THEN "finish"
                   ELSE "detect"])
    /\ UNCHANGED <<debugRuns, now>>

Ends(r) ==
    /\ Trial(r, [trial[r] EXCEPT !.pc = "end"])
    /\ tempFiles' = IF trial[r].kind = "code" THEN WithoutTemp(r) ELSE tempFiles

\* The top of the retry loop: the output may name a missing package, or none, or one
\* that was installed before.
detectAutoInstallCandidate(r) ==
    /\ Stands(r, "detect") /\ UNCHANGED <<debugRuns, now>>
    /\ IF isStopped(r) THEN Ends(r)
       ELSE /\ UNCHANGED tempFiles
            /\ \/ trial[r].installs < MaxInstalls /\ Trial(r, [trial[r] EXCEPT !.pc = "install"])
               \/ Trial(r, [trial[r] EXCEPT !.pc = "finish"])

InstallAndRetry(r) ==
    /\ Stands(r, "install") /\ UNCHANGED <<debugRuns, now, tempFiles>>
    /\ \/ Trial(r, [trial[r] EXCEPT !.pc = "retry", !.installs = @ + 1])
       \/ Trial(r, [trial[r] EXCEPT !.pc = "finish"])

\* installDepForDebug, and the look at the status after it.
installDepForDebug(r) ==
    /\ Stands(r, "install") /\ UNCHANGED <<debugRuns, now>>
    /\ IF isStopped(r) THEN Ends(r)
       ELSE /\ UNCHANGED tempFiles
            /\ \/ Trial(r, [trial[r] EXCEPT !.pc = "retry", !.installs = @ + 1])
               \/ Trial(r, [trial[r] EXCEPT !.pc = "finish"])

\* startTrackedCommand again, without another look at the status.
Retry(r) ==
    /\ Stands(r, "retry") /\ UNCHANGED <<debugRuns, tempFiles, now>>
    /\ \/ Trial(r, [trial[r] EXCEPT !.pc = "wait", !.alive = TRUE])
       \/ Trial(r, [trial[r] EXCEPT !.pc = "finish"])

finish(r) ==
    /\ Stands(r, "finish") /\ UNCHANGED <<debugRuns, now>>
    /\ Trial(r, IF isStopped(r) THEN [trial[r] EXCEPT !.pc = "end"]
                ELSE [trial[r] EXCEPT !.pc = "end", !.done = TRUE,
                        !.status = IF trial[r].exit = 0 THEN "success" ELSE "failed"])
    /\ tempFiles' = IF trial[r].kind = "code" THEN WithoutTemp(r) ELSE tempFiles

-----------------------------------------------------------------------------
\* stop kills the process that was started last, whether it still runs or not.
Killed(t) == [t EXCEPT !.alive = FALSE, !.exit = IF t.alive THEN 1 ELSE @]

DebugStop(i) ==
    LET r == debugRuns[i]
    IN  /\ r # NoTrial /\ ~trial[r].done
        /\ Trial(r, [Killed(trial[r]) EXCEPT !.status = "stopped", !.done = TRUE,
                                             !.late = Stands(r, "retry")])
        /\ UNCHANGED <<debugRuns, tempFiles, now>>

\* A cleared run is killed but not stopped: what it does next is out of reach.
DebugClear(i) ==
    LET r == debugRuns[i]
    IN  /\ r # NoTrial /\ debugRuns' = [debugRuns EXCEPT ![i] = NoTrial]
        /\ trial' = IF trial[r].done THEN trial ELSE [trial EXCEPT ![r] = Killed(trial[r])]
        /\ UNCHANGED <<tempFiles, now>>

TrialStep(r) ==
    \/ Waited(r) \/ detectAutoInstallCandidate(r) \/ installDepForDebug(r) \/ Retry(r) \/ finish(r)

DebugNext ==
    \/ \E r \in Trials :
         \/ \E kind \in TrialKinds, stamp \in {now, now + 1} : StartTrial(r, kind, stamp)
         \/ \E code \in {0, 1} : ProcessExits(r, code)
         \/ TrialStep(r)
    \/ \E i \in DOMAIN debugRuns : DebugStop(i) \/ DebugClear(i)

DebugSpec == DebugInit /\ [][DebugNext]_debugVars
=============================================================================
