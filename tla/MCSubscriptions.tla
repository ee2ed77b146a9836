--------------------------- MODULE MCSubscriptions ---------------------------
(***************************************************************************)
(* Small instances of SubscriptionProps for TLC: the remote has the files  *)
(* fa and fb; its second commit changes fa and drops fb; the filters       *)
(* select fa.                                                              *)
(***************************************************************************)
EXTENDS SubscriptionProps, TLC

CONSTANTS fa, fb

MCRemoteHas == [k \in Commits |-> [f \in Files |-> IF k = 1 THEN 1 ELSE IF f = fa THEN 2 ELSE 0]]

MCSymmetry == Permutations(Pulls) \cup Permutations(Actors)

\* An enabled subscription without a working directory, or none yet.
FreshInit == SubInit /\ dir = "absent" /\ ~row.filtered /\ force /\ row.enabled = (row # NoRow)
FreshSpec == FreshInit /\ [][Next]_pullVars

\* An enabled subscription without a schedule, and any directory.
AnyTreeInit == SubInit /\ Exists /\ row.enabled /\ ~row.sched
AnyTreeSpec == AnyTreeInit /\ [][Next]_pullVars
=============================================================================
