----------------------------- MODULE CommandProps -----------------------------
(***************************************************************************)
(* What the preparation and the running of a command promise               *)
(* (service/runtime_exec.go, service/script_runner.go).                     *)
(***************************************************************************)
EXTENDS ManagedCommand

\* A command with a timeout ends: the pipe that a background process of the
\* script keeps open holds its reader up no longer than the script lives
\* (runSingleCommand, RunInlineScript, RunHookScript).
CommandsEnd == \A r \in Runs : run[r].pc = "running" ~> run[r].pc = "done"

\* Whatever step of its preparation fails, and however it ends while the panel
\* lives, a command leaves none of its files behind, neither the environment file
\* with every variable of the panel nor the Go wrapper nor the inline script, but
\* for one: a wrapper or an inline script that could not be written to its end
\* stays (script_runner.go:1059-1061, runtime_exec.go:966-968).  And the
\* node_modules link that runs of one directory share does not outlive the last
\* that made one.
LeavesNoFiles ==
  /\ \A r \in Runs : run[r].pc = "done" => run[r].holds \subseteq {run[r].failed} \cap {"wrapper", "script"}
  /\ \A d \in WorkDirs : link[d] = "managed" =>
       \E r \in Runs : run[r].dir = d /\ "link" \in run[r].holds
===============================================================================
