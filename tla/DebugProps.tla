----------------------------- MODULE DebugProps -----------------------------
(***************************************************************************)
(* What runs from the editor must guarantee.                               *)
(***************************************************************************)
EXTENDS ScriptDebug

\* A run that is shown as done has no process, not even one that an installation
\* started after the stop; only a stop that comes between the last look at the status
\* and the start of that process misses it.
DoneRunIsDead == \A r \in Trials : trial[r].done /\ trial[r].alive => trial[r].late

\* Release notes v2.0.5: a script that lacks several dependencies has them installed one
\* after the other "直至全部满足" (until all are there), with a retry after each.  A retry
\* finds the script it is to execute (DebugRun).
RetryFindsScript ==
    \A r \in Trials : Stands(r, "retry") /\ HasTemp(trial[r].kind) => TempFile(r) \in tempFiles
=============================================================================
