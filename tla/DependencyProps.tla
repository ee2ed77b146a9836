------------------------- MODULE DependencyProps -------------------------
(***************************************************************************)
(* What the dependencies page, the automatic installs and the start-up of  *)
(* the panel promise of the dependency rows.                               *)
(***************************************************************************)
EXTENDS DependencyPanel

\* Between taking a mutex and giving it back no other operation of the same
\* package tool is under way, whichever page, script, restore or restart
\* started it: npm rewrites package.json, which two of them would break.  The
\* linux reinstalls of a restart are outside: they take no mutex in the code.
Working(o) == op[o].pc \in {"launch", "run", "settle", "done", "close"}
PackageToolsSerialised ==
  \A o1, o2 \in Ops :
    o1 # o2 /\ Working(o1) /\ Working(o2) /\ Mutex(o1) # "none" => Mutex(o1) # Mutex(o2)

\* A row that says installing, removing or queued has a goroutine or a request
\* that will write it again, a restore that is still busy with its files among
\* them.  Two kinds of rows have nobody until the panel starts again, or for
\* ever: those that were queued when a process died, and those of a restore that
\* failed after it had committed them.
Pending(o, d) == op[o].pc # "free"
                 /\ (d \in op[o].rest \/ (op[o].id = d /\ op[o].pc # "next"
                                          /\ op[o].kind \in Streamed \cup {"reinstall"}))
Queueing(u, d) == user[u].req = "batchReinstall" /\ d \in user[u].ids
Restoring(u, d) == user[u].req = "restore" /\ d \in user[u].ids
BusyRowHasOwner ==
  boot \in {"reconciled", "up"} =>
    \A d \in Deps :
      row[d] \in InProcess =>
        \/ d \in stranded
        \/ \E o \in Ops : Pending(o, d)
        \/ \E u \in Users : \/ row[d] = "queued" /\ Queueing(u, d)
                            \/ row[d] = "installing" /\ Restoring(u, d)

\* When the server starts to serve, the rows tell the truth: what says
\* installed is installed, what says installing is with a goroutine, nothing is
\* being removed, and a python package has one row.
ReconciledRowsAreTrue ==
  boot = "reconciled" =>
    \A d \in Deps :
      /\ row[d] = "installed" => PkgOf[d] \in present
      /\ row[d] = "installing" => \E o \in Ops : Pending(o, d)
      /\ row[d] # "removing"
      /\ Cardinality(Twins(d)) <= 1

\* A row in process leaves that state, however operations overlap, are
\* cancelled or fail, unless the process ends, a command without a timeout is
\* under way (the operation may wait for its mutex), or the row is stranded: it
\* was queued when a process died, or is of a restore that failed.
UntimedCommand == \E o \in Ops : op[o].kind \notin Streamed /\ op[o].pc = "run"
BusyRowsSettle ==
  \A d \in Deps : (row[d] \in InProcess) ~>
    (row[d] \notin InProcess \/ boot = "down" \/ UntimedCommand \/ d \in stranded \/ panicked)
=============================================================================
