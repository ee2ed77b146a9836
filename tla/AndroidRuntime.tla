---------------------------- MODULE AndroidRuntime ----------------------------
(***************************************************************************)
(* The script runtimes that the panel unpacks on Android: the installation *)
(* from a release archive, the removal and the status                      *)
(* (handler/android_runtime.go).                                           *)
(*                                                                         *)
(* An archive is a sequence of entries, one of them the executable that    *)
(* the status looks for; a runtime's directory maps the entries that are   *)
(* there to the release they come from.                                    *)
(***************************************************************************)
EXTENDS Naturals, Sequences, FiniteSets

CONSTANTS Names,        \* "python" and "node"
          Releases,     \* archives: the preset of the architecture, other URLs
          Entries,      \* the entries of an archive, in its order
          Executable,   \* probeRuntime's candidate among them
          Requests      \* install requests

Unlocked == "nobody"

ASSUME AndroidAssumption ==
  /\ Executable \in {Entries[i] : i \in DOMAIN Entries}
  /\ Unlocked \notin Requests

VARIABLES files,         \* Name -> entry -> release, for the entries there are
          install,      \* each request: its name, release and progress
          androidInstallMu   \* the request that holds it, or nobody

androidVars == <<files, install, androidInstallMu>>

Empty == [f \in {} |-> "none"]
NotAsked == [pc |-> "idle", name |-> "none", release |-> "none", next |-> 1]

AndroidInit == /\ files = [n \in Names |-> Empty]
               /\ install = [q \in Requests |-> NotAsked]
               /\ androidInstallMu = Unlocked

\* Status: a runtime counts as installed when its executable is there.
probeRuntime(n) == Executable \in DOMAIN files[n]

To(q, pc) == install' = [install EXCEPT ![q].pc = pc]

\* Install: the request's checks; the archive is the given or the preset one.
Ask(q, lock) ==
  /\ install[q].pc \in {"idle", "ok", "unusable", "failed", "busy"}
  /\ \E n \in Names, r \in Releases :
       install' = [install EXCEPT ![q] = [pc |-> "clean", name |-> n,
                                          release |-> r, next |-> 1]]
  /\ androidInstallMu' = lock /\ UNCHANGED files

\* The handler, had the route gone to it directly.
InstallUnguarded(q) == Ask(q, androidInstallMu)

\* InstallGuarded: one installation at a time, a second is refused.
InstallGuarded(q) ==
  \/ androidInstallMu = Unlocked /\ Ask(q, q)
  \/ /\ androidInstallMu # Unlocked /\ androidInstallMu # q
     /\ install[q].pc \in {"idle", "ok", "unusable", "failed"}
     /\ To(q, "busy") /\ UNCHANGED <<files, androidInstallMu>>

Reply(q, pc) == /\ To(q, pc)
               /\ androidInstallMu' = IF androidInstallMu = q THEN Unlocked
                                      ELSE androidInstallMu

\* The old version goes first.
RemoveOld(q) ==
  /\ install[q].pc = "clean"
  /\ files' = [files EXCEPT ![install[q].name] = Empty]
  /\ To(q, "download") /\ UNCHANGED androidInstallMu

\* The response has come and is an archive.
Download(q) ==
  /\ install[q].pc = "download"
  /\ To(q, "unpack") /\ UNCHANGED <<files, androidInstallMu>>

\* One entry after the other, while the body is read.
Unpack(q) ==
  /\ install[q].pc = "unpack" /\ install[q].next <= Len(Entries)
  /\ LET n == install[q].name  f == Entries[install[q].next] IN
       files' = [files EXCEPT ![n] = [g \in DOMAIN @ \cup {f} |->
                                      IF g = f THEN install[q].release ELSE @[g]]]
  /\ install' = [install EXCEPT ![q].next = @ + 1] /\ UNCHANGED androidInstallMu

\* The end of the archive: the executable is looked for, and that is all.
Verify(q) ==
  /\ install[q].pc = "unpack" /\ install[q].next > Len(Entries)
  /\ Reply(q, IF probeRuntime(install[q].name) THEN "ok" ELSE "unusable")
  /\ UNCHANGED files

\* A directory, the download, an entry or a write fails: what is there stays.
InstallFails(q) ==
  /\ install[q].pc \in {"clean", "download", "unpack"}
  /\ Reply(q, "failed") /\ UNCHANGED files

\* Uninstall holds no lock.
Uninstall(n) ==
  /\ files' = [files EXCEPT ![n] = Empty] /\ UNCHANGED <<install, androidInstallMu>>

AndroidNext ==
  \/ \E q \in Requests : \/ InstallGuarded(q) \/ RemoveOld(q) \/ Download(q)
                         \/ Unpack(q) \/ Verify(q) \/ InstallFails(q)
  \/ \E n \in Names : Uninstall(n)

AndroidSpec == AndroidInit /\ [][AndroidNext]_androidVars
===============================================================================
