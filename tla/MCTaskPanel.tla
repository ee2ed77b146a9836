---------------------------- MODULE MCTaskPanel ----------------------------
(***************************************************************************)
(* Small instances of TaskPanel for TLC.                                   *)
(***************************************************************************)
EXTENDS TaskPanelProps, TLC

CONSTANTS t1, t2

\* What the run is about; it restricts the environment of a behaviour.
VARIABLE scene

\* Goroutines that serve requests are interchangeable, and so are workers: no
\* property names one.
Symmetry == Permutations(Actors) \cup Permutations(Workers)

\* No task depends on another, or t2 depends on t1.
NoDependency == [t \in Tasks |-> NoTask]
OneDependency == [t \in Tasks |-> IF t = t2 THEN t1 ELSE NoTask]

\* Every task is enabled when the panel is first started.
Enabled == \A t \in Tasks : status[t] = "enabled"
EnabledInit == Init /\ Enabled /\ scene = "any"
EnabledSpec == EnabledInit /\ [][Next /\ UNCHANGED scene]_<<vars, scene>>
EnabledFairSpec == EnabledSpec /\ Fairness

Performs(kinds) == \A a \in Actors : op'[a].kind \in kinds \cup {"none"}

\* Edits against two runs of a panel that stays up, from two ticks that do not
\* overlap: the schedule has them a second apart at least.
EditScene ==
  /\ Performs({"tick", "enable", "disable", "update", "delete"})
  /\ \A a, b \in Actors : op'[a].kind = "tick" /\ op'[b].kind = "tick" => a = b
  /\ panel' \notin {"draining", "down"}

\* Stops of a run, one operation at a time, and another run of the task after
\* the first has settled, which nobody stops: what the first leaves behind.  The
\* panel is shut down once at most.
LaterScene ==
  /\ Performs({"tick", "stop"})
  /\ \A a, b \in Actors : op'[a].pc # "idle" /\ op'[b].pc # "idle" => a = b
  /\ made = 2 => \A a \in Actors : op[a].kind = "none" => op'[a].kind = "none"
  /\ made' > made => \A r \in 1 .. made : rpc[r] \notin Unsettled \cup {"none"}
  /\ boots = 2 => panel' # "draining"

EditOrLaterInit ==
  /\ Init
  /\ scene = "edit" \/ (scene = "later" /\ Enabled)
EditOrLaterSpec ==
  /\ EditOrLaterInit
  /\ [][/\ Next
        /\ UNCHANGED scene
        /\ scene = "edit" => EditScene
        /\ scene = "later" => LaterScene]_<<vars, scene>>
=============================================================================
