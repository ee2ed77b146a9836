------------------------- MODULE SubscriptionProps -------------------------
(***************************************************************************)
(* What subscriptions promise: one pull at a time that can be stopped, a   *)
(* save directory that follows the remote without losing what it should    *)
(* keep, tasks that follow the save directory.                             *)
(***************************************************************************)
EXTENDS SubscriptionPanel

Holding == {"auth", "git", "hook", "hooked", "sync", "log", "failed", "finish"}

\* Whoever starts pulls, at most one is between begin and finish: the one the
\* slot names, whose cancel function a stop calls.
PullSlotExact ==
  \A p \in Pulls : (pull[p].pc \in Holding) = (running = p)

\* A stop that was answered before the last look at the context keeps the pull
\* from touching the tasks and from reporting success.
StoppedPullFails ==
  \A p \in Pulls : pull[p].early => pull[p].pc \notin {"sync", "log"}

\* A pull that reports success has brought at least the commit that was there
\* when it started, whatever earlier pulls left behind when they failed or were
\* killed; an overwriting one has made the selected files those of the commit,
\* apart from what the user does meanwhile.
Succeeded(p) == pull[p].pc \in {"hook", "hooked", "sync", "log"}
Selected(p, f) == pull[p].filtered => f \in Kept
SuccessIsUpToDate ==
  \A p \in Pulls : Succeeded(p) =>
    /\ head >= pull[p].goal
    /\ pull[p].force => \A f \in Files \ late :
         Selected(p, f) /\ RemoteHas[head][f] # 0 => tree[f] = RemoteHas[head][f]

\* A pull that is to keep local changes does not lose what the user wrote in an
\* existing repository: it stays in the working tree or in a stash entry.
HasMine(f) == \/ tree[f] \in {Mine, Mixed}
              \/ \E i \in DOMAIN stash : f \in stash[i].files /\ stash[i].has[f] \in {Mine, Mixed}
InPlace(p) == \E i \in DOMAIN pull[p].plan : pull[p].plan[i] = "clean"
KeepsLocalWork ==
  [][\A p \in Pulls, f \in Files \ late :
       ~pull[p].force /\ pull[p].pc = "git" /\ ~InPlace(p) /\ HasMine(f) => HasMine(f)']_pullVars

\* After a successful overwriting pull every selected script of the remote that
\* is not a helper has a task, and a script that the remote dropped has none of
\* the subscription's, unless its file is not git's: the user wrote it, or a
\* killed reset or the return of stashed changes did.
TasksFollowRemote ==
  AutoAdd /\ AutoDelete =>
  \A p \in Pulls : pull[p].pc = "log" /\ pull[p].force =>
    \A f \in Files \ late :
      /\ RemoteHas[head][f] # 0 /\ Selected(p, f) /\ f \notin Helpers => task[f] # "none"
      /\ RemoteHas[head][f] = 0 /\ f \notin touched => task[f] \in {"none", "user"}

\* When no request is under way, the cron has a job for the subscription just
\* if it is enabled and has a schedule; requests of two users that overlapped
\* may have left it otherwise until the next one, or a restart.
JobMatchesRow ==
  (\A a \in Actors : op[a].kind \in Harmless) /\ ~raced => entry = Scheduled
=============================================================================
