----------------------------- MODULE RunLedger -----------------------------
(***************************************************************************)
(* What the scheduler and the executor promise together of a request to    *)
(* execute a task: once built it is sent, taken by one worker and run, in  *)
(* that order and at most once each; it may be closed early at any point   *)
(* (refused by a full queue, skipped by the concurrency check, failed      *)
(* before its script starts, lost with the process); and what is closed    *)
(* never comes back.  A process of its own lives only while it runs.       *)
(***************************************************************************)
EXTENDS Integers

CONSTANT Requests

VARIABLES
  phase,  \* free, built, sent, taken, running or closed
  live    \* the requests whose script has a live process

ledgerVars == <<phase, live>>

Open == {"built", "sent", "taken", "running"}

LedgerInit ==
  /\ phase = [r \in Requests |-> "free"]
  /\ live = {}

Move(r, from, to) ==
  /\ phase[r] = from
  /\ phase' = [phase EXCEPT ![r] = to]
  /\ UNCHANGED live

Build(r) == Move(r, "free", "built")
Send(r) == Move(r, "built", "sent")
Take(r) == Move(r, "sent", "taken")
Run(r) == Move(r, "taken", "running")

\* A running request has no process left when it is closed.
Close(r) ==
  /\ phase[r] \in Open
  /\ r \notin live
  /\ phase' = [phase EXCEPT ![r] = "closed"]
  /\ UNCHANGED live

\* A script is started by a running request that has none; scripts end alone,
\* several at once when they are killed.
Fork(r) ==
  /\ phase[r] = "running"
  /\ r \notin live
  /\ live' = live \cup {r}
  /\ UNCHANGED phase
Reap(gone) ==
  /\ live' = live \ gone
  /\ UNCHANGED phase

\* The server process ends, and with it every request it knew.
Perish ==
  /\ phase' = [r \in Requests |-> IF phase[r] \in Open THEN "closed" ELSE phase[r]]
  /\ live' = {}

LedgerNext ==
  \/ \E r \in Requests : Build(r) \/ Send(r) \/ Take(r) \/ Run(r) \/ Close(r) \/ Fork(r)
  \/ \E gone \in SUBSET live : Reap(gone)
  \/ Perish

LedgerSpec == LedgerInit /\ [][LedgerNext]_ledgerVars
=============================================================================
