----------------------------- MODULE AndroidProps -----------------------------
(***************************************************************************)
(* What the installation of Android runtimes promises                      *)
(* (handler/android_runtime.go).                                           *)
(***************************************************************************)
EXTENDS AndroidRuntime

\* The files of a runtime come from one release, whatever installations were
\* asked for at once, failed halfway or were followed by others, and whatever
\* was uninstalled in the midst of them (InstallGuarded, Install, Uninstall).
OneReleasePerRuntime ==
  \A n \in Names : \A f, g \in DOMAIN files[n] : files[n][f] = files[n][g]
===============================================================================
