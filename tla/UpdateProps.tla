---------------------------- MODULE UpdateProps ----------------------------
(***************************************************************************)
(* What updates must guarantee.                                            *)
(***************************************************************************)
EXTENDS PanelUpdate

\* An update does not stay in progress, where it would refuse every later one:
\* whatever fails, the process that updates says so or hands over to a helper.
UpdatesEnd == \A p \in {"server", "ddp"} : updater[p] = "running" ~> updater[p] # "running"

\* A silent update that failed is not announced a second time by the next start: a
\* running server has a version pending only while that update is on its way.
PendingHasOwner ==
    panel.stage = "on" /\ pendingRow # NoVersion =>
        \/ updater["server"] \in {"running", "restarting"}
        \/ \E u \in Updates : upd[u].pc = "failed"

\* Release notes v2.1.6: the files are replaced, "然后自动重启面板".  Once its helper has
\* started, and if nothing fails on the way, the panel ends and comes back.
UpdateRestarts ==
    \A u \in Updates : At(u, "begin") ~> updateCounts.faults > 0 \/ (At(u, "none") /\ Up)
=============================================================================
