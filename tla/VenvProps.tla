------------------------------- MODULE VenvProps -------------------------------
(***************************************************************************)
(* What the management of the Python environments promises                 *)
(* (service/runtime_exec.go, service/python_runtime.go).                   *)
(***************************************************************************)
EXTENDS PythonVenv

\* An environment that works is never taken from its place, with the packages
\* users have installed there: not by a thread that found it broken and waited
\* for the mutex while another made it, not by a migration of an old layout
\* (ensureManagedPythonVenvForVersion, quarantineManagedPythonVenv,
\* flattenLegacyVersionedManagedPythonVenvsLocked).  Only a version that the
\* image no longer has is removed.
WorkingEnvironmentStays ==
  [][\A v \in CurrentPythonRuntimeVersions :
       managedPythonVenvHealthyForVersion(flat[v], v)
         => IsEnv(flat'[v]) /\ flat[v].pkgs \subseteq flat'[v].pkgs]_venvVars

\* An upgrade that no fault disturbs leaves every dependency row at the version
\* whose environment has its package, whatever version the old environment
\* turns out to be of (NormalizeLegacyPythonVersionColumnsAfterVenvMigration).
RowsFollowPackages ==
  at[Boot].pc = "up" /\ faults = 0 =>
    \A d \in Deps, v \in Versions : d \in flat[v].pkgs => rowVersion[d] = v
================================================================================
