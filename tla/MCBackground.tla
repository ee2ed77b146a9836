---------------------------- MODULE MCBackground ----------------------------
(***************************************************************************)
(* Small instances of what must come to an end: operations on dependencies,*)
(* updates, live logs and commands.  As in MCServices, a behaviour is one  *)
(* of one part, and so is its fairness: the modules share no variables.    *)
(***************************************************************************)
EXTENDS MCDependencies, UpdateProps, LogProps, CommandProps

VARIABLE part

MCContainer ==
    [binds |-> {[source |-> "a", destination |-> "x", readOnly |-> FALSE]},
     mounts |-> {[type |-> "bind", source |-> "a", destination |-> "x", readOnly |-> FALSE],
                 [type |-> "volume", source |-> "b", destination |-> "y", readOnly |-> TRUE],
                 [type |-> "tmpfs", source |-> "", destination |-> "z", readOnly |-> FALSE]}]

Only(p, initial) == part = p \/ initial

BackgroundInit ==
    /\ part \in {"deps", "update", "log", "command"}
    /\ FoundInit
    /\ UpdateInit /\ Only("update", deploy = "docker")
    /\ LogInit /\ Only("log", logRun.quiet /\ logRun.old)
    /\ CmdInit /\ Only("command", \A d \in WorkDirs : link[d] = "none")

BackgroundNext ==
    \/ part = "deps" /\ Next /\ UNCHANGED <<part, updateVars, logVars, cmdVars>>
    \/ part = "update" /\ UpdateNext /\ UNCHANGED <<part, depVars, logVars, cmdVars>>
    \/ part = "log" /\ LogNext /\ UNCHANGED <<part, depVars, updateVars, cmdVars>>
    \/ part = "command" /\ CmdNext /\ UNCHANGED <<part, depVars, updateVars, logVars>>

\* DepFairness, UpdateFairness, LogFairness and CmdFair, each where its part runs.
BackgroundFairness ==
    /\ WF_depVars(part = "deps" /\ ~panicked /\ Boot)
    /\ \A u \in Users : WF_depVars(part = "deps" /\ ~panicked /\ Respond(u))
    /\ \A o \in Ops : WF_depVars(part = "deps" /\ ~panicked /\ (Operate(o) \/ TimedExit(o)))
    /\ \A u \in Updates : /\ WF_updateVars(part = "update" /\ (UpdateStep(u) \/ failPanelUpdate(u)))
                          /\ WF_updateVars(part = "update" /\ HelperStep(u))
    /\ WF_updateVars(part = "update" /\ FinalizePendingAutoUpdateOnStartup)
    /\ WF_logVars(part = "log" /\ RunStep)
    /\ \A r \in LogReaders : WF_logVars(part = "log" /\ WindowStep(r))
    /\ \A r \in Runs :
         /\ WF_cmdVars(part = "command" /\ (PrepareFile(r) \/ PreparationFails(r) \/ StartCommand(r)))
         /\ WF_cmdVars(part = "command" /\ Timeout(r)) /\ WF_cmdVars(part = "command" /\ ReaderEnds(r))
         /\ WF_cmdVars(part = "command" /\ Wait(r)) /\ WF_cmdVars(part = "command" /\ Clean(r))
         /\ WF_cmdVars(part = "command" /\ Finish(r))

BackgroundSpec ==
    BackgroundInit /\ [][BackgroundNext]_<<part, depVars, updateVars, logVars, cmdVars>> /\ BackgroundFairness
=============================================================================
