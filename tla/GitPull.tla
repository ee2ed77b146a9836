------------------------------- MODULE GitPull -------------------------------
(***************************************************************************)
(* How a subscription brings a git repository into its save directory      *)
(* (service/subscription.go): one working tree, one .git directory, and a  *)
(* series of git commands each of which may fail or be killed.             *)
(*                                                                         *)
(* A file's content is a number: 0 no file, 1.. what some remote commit    *)
(* holds, Mine what the user wrote, Mixed a merge conflict.  What a git    *)
(* command does is git's, not the panel's: it is modelled as far as the    *)
(* panel relies on it.                                                     *)
(***************************************************************************)
EXTENDS Naturals, Sequences

CONSTANTS
  Files,
  Commits,       \* 1..n, the history of the remote branch
  RemoteHas,     \* [Commits -> [Files -> Nat]]
  Kept,          \* the files the filters of the subscription select
  Mine, Mixed

Absent == [f \in Files |-> 0]

ASSUME GitAssumption ==
  /\ Commits \subseteq Nat \ {0} /\ 1 \in Commits
  /\ RemoteHas \in [Commits -> [Files -> Nat \ {Mine, Mixed}]]
  /\ Kept \subseteq Files
  /\ Mine \in Nat \ {0} /\ Mixed \in Nat \ {0, Mine}

VARIABLES
  dir,        \* "absent", "file" or "dir": what stands at the save path
  git,        \* there is a .git directory in it
  origin,     \* a remote named origin is configured
  sparse,     \* sparse-checkout is on
  tree,       \* the working tree
  index,      \* what HEAD and the index hold
  head,       \* the commit of HEAD, 0 before the first
  fetched,    \* the commit of FETCH_HEAD, 0 before the first
  stash,      \* stash entries, the newest first
  unmerged,   \* a stash pop left conflicts
  remote,     \* the newest commit of the remote branch
  force       \* setting subscription_force_overwrite

gitVars == <<dir, git, origin, sparse, tree, index, head, fetched, stash, unmerged, remote, force>>
refVars == <<dir, git, origin, head, fetched>>

GitInit ==
  /\ dir \in {"absent", "file", "dir"}
  /\ git = FALSE /\ origin = FALSE /\ sparse = FALSE
  /\ tree \in IF dir = "dir" THEN [Files -> {0, Mine}] ELSE {Absent}
  /\ index = Absent
  /\ head = 0 /\ fetched = 0
  /\ stash = <<>>
  /\ unmerged = FALSE
  /\ remote = 1
  /\ force \in BOOLEAN

----------------------------------------------------------------------------
(* What the panel decides *)

IsGitRepo == dir = "dir" /\ git

\* The commands of one pull.  A working directory that is a repository is
\* updated, any other directory with entries is turned into one, else the
\* repository is cloned.  A failed step ends the pull; no command makes a
\* directory where there is a file.
PlanFor(filtered, overwrite) ==
  CASE IsGitRepo -> IF overwrite THEN <<"remote", "fetch", "sparse", "reset">>
                    ELSE <<"remote", "fetch", "sparse", "status">>
    [] ~IsGitRepo /\ dir = "file" -> <<"occupied">>
    [] ~IsGitRepo /\ dir = "dir" /\ tree # Absent ->
         <<"init", "remote", "fetch", "sparse", "reset", "clean">>
    [] OTHER -> IF filtered THEN <<"clone", "sparse", "checkout">> ELSE <<"clone">>

\* Files that sparse-checkout keeps out of the working tree.
Skipped(f) == sparse /\ f \notin Kept
Changed(f) == tree[f] # index[f] /\ (Skipped(f) => tree[f] # 0)
gitHasWorkingTreeChanges == unmerged \/ \E f \in Files : Changed(f)

----------------------------------------------------------------------------
(* What the git commands do *)

Remote == origin' = TRUE /\ UNCHANGED <<dir, git, sparse, tree, index, head, fetched, stash, unmerged>>

Fetch == origin /\ fetched' = remote
         /\ UNCHANGED <<dir, git, origin, sparse, tree, index, head, stash, unmerged>>

\* init and set drop clean files that are not selected; disable brings back
\* what is missing.  Nothing is run when there is no filter and never was.
SparseTree(on) ==
  [f \in Files |-> CASE on /\ f \notin Kept /\ tree[f] = index[f] -> 0
                     [] ~on /\ sparse /\ tree[f] = 0 -> index[f]
                     [] OTHER -> tree[f]]
applySparseCheckout(filtered) ==
  /\ sparse' = filtered
  /\ tree' = SparseTree(filtered)
  /\ UNCHANGED <<refVars, index, stash, unmerged>>

\* reset --hard FETCH_HEAD: tracked files get the content of the commit, those
\* that it does not have any more disappear, untracked files stay.  A changed
\* file outside the selection is git's choice.
ResetTrees(new) ==
  {t \in [Files -> {tree[f] : f \in Files} \cup {new[f] : f \in Files} \cup {0}] :
     \A f \in Files :
       t[f] \in CASE Skipped(f) /\ Changed(f) -> {tree[f], new[f]}
                  [] Skipped(f) /\ ~Changed(f) -> {0}
                  [] ~Skipped(f) /\ (new[f] # 0 \/ index[f] # 0) -> {new[f]}
                  [] OTHER -> {tree[f]}}

Reset ==
  /\ fetched # 0
  /\ head' = fetched
  /\ index' = RemoteHas[fetched]
  /\ tree' \in ResetTrees(RemoteHas[fetched])
  /\ unmerged' = FALSE
  /\ UNCHANGED <<dir, git, origin, sparse, fetched, stash>>

\* stash push --include-untracked needs a commit and no conflicts.
StashPush ==
  /\ head # 0
  /\ ~unmerged
  /\ stash' = <<[was |-> index, has |-> tree, files |-> {f \in Files : Changed(f)}]>> \o stash
  /\ tree' = [f \in Files |-> IF Changed(f) THEN (IF Skipped(f) THEN 0 ELSE index[f]) ELSE tree[f]]
  /\ UNCHANGED <<refVars, sparse, index, unmerged>>

\* stash pop: without a conflict everything comes back and the entry is
\* dropped; else the entry stays and the files are merged or left.
Present(f) == IF Skipped(f) /\ tree[f] = 0 THEN index[f] ELSE tree[f]
Conflicts(s) == {f \in s.files : Present(f) # s.was[f] /\ Present(f) # s.has[f]}
Popped(s, merged) ==
  [f \in Files |-> IF f \notin s.files THEN tree[f]
                   ELSE IF f \in Conflicts(s) THEN merged ELSE s.has[f]]
StashPop ==
  LET s == Head(stash) IN
  /\ stash # <<>>
  /\ \/ /\ Conflicts(s) = {}
        /\ tree' = Popped(s, Mixed)
        /\ stash' = Tail(stash)
        /\ UNCHANGED unmerged
     \/ /\ Conflicts(s) # {}
        /\ \/ tree' = Popped(s, Mixed) /\ unmerged' = TRUE
           \/ UNCHANGED <<tree, unmerged>>
        /\ UNCHANGED stash
  /\ UNCHANGED <<refVars, sparse, index>>

GitInitialise == git' = TRUE /\ UNCHANGED <<dir, origin, sparse, tree, index, head, fetched, stash, unmerged>>

Clean ==
  /\ tree' = [f \in Files |-> IF index[f] = 0 THEN 0 ELSE tree[f]]
  /\ UNCHANGED <<refVars, sparse, index, stash, unmerged>>

\* With filters nothing is checked out at first.
Clone(filtered) ==
  /\ dir' = "dir" /\ git' = TRUE /\ origin' = TRUE
  /\ head' = remote
  /\ index' = RemoteHas[remote]
  /\ tree' = IF filtered THEN Absent ELSE RemoteHas[remote]
  /\ UNCHANGED <<sparse, fetched, stash, unmerged>>

Checkout ==
  /\ tree' = [f \in Files |-> IF Skipped(f) THEN 0 ELSE index[f]]
  /\ UNCHANGED <<refVars, sparse, index, stash, unmerged>>

\* The command of a step; "status" is a question, answered by NextPlan.
Command(step, filtered) ==
  \/ step = "remote" /\ Remote
  \/ step = "fetch" /\ Fetch
  \/ step = "sparse" /\ applySparseCheckout(filtered)
  \/ step = "reset" /\ Reset
  \/ step = "status" /\ UNCHANGED <<refVars, sparse, tree, index, stash, unmerged>>
  \/ step = "stash" /\ StashPush
  \/ step = "pop" /\ StashPop
  \/ step = "init" /\ GitInitialise
  \/ step = "clean" /\ Clean
  \/ step = "clone" /\ Clone(filtered)
  \/ step = "checkout" /\ Checkout

\* Mutants: changes are not set aside before the reset; nothing is reset when
\* there are changes.
ResetAnyway(plan) == IF Head(plan) # "status" THEN Tail(plan) ELSE <<"reset">>
LeaveChanged(plan) ==
  IF Head(plan) # "status" \/ gitHasWorkingTreeChanges THEN Tail(plan) ELSE <<"reset">>

NextPlan(plan) ==
  IF Head(plan) # "status" THEN Tail(plan)
  ELSE IF gitHasWorkingTreeChanges THEN <<"stash", "reset", "pop">> ELSE <<"reset">>

\* A command that fails of itself changes nothing, except that the directory
\* of a clone has been made.  One that is killed may have got anywhere: a
\* clone leaves a .git directory without a commit, a reset some of the files.
Failure(step, killed) ==
  \/ /\ step # "clone"
     /\ UNCHANGED <<refVars, sparse, tree, index, stash, unmerged>>
  \/ /\ step = "clone"
     /\ dir' = "dir"
     /\ git' \in IF killed THEN BOOLEAN ELSE {FALSE}
     /\ origin' \in IF git' THEN BOOLEAN ELSE {FALSE}
     /\ UNCHANGED <<sparse, tree, index, head, fetched, stash, unmerged>>
  \/ /\ step = "reset" /\ killed /\ fetched # 0
     /\ \E new \in ResetTrees(RemoteHas[fetched]), done \in SUBSET Files :
          tree' = [f \in Files |-> IF f \in done THEN new[f] ELSE tree[f]]
     /\ UNCHANGED <<refVars, sparse, index, stash, unmerged>>

\* The world around: commits are pushed, the user edits scripts.
PushCommit == remote + 1 \in Commits /\ remote' = remote + 1
              /\ UNCHANGED <<refVars, sparse, tree, index, stash, unmerged, force>>
EditFile(f) == dir = "dir" /\ tree[f] # Mine /\ tree' = [tree EXCEPT ![f] = Mine]
               /\ UNCHANGED <<refVars, sparse, index, stash, unmerged, remote, force>>
=============================================================================
