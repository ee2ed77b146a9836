----------------------------- MODULE PythonVenv -----------------------------
(***************************************************************************)
(* The managed Python environments under deps/python: their migration from *)
(* the layouts of earlier releases when the panel starts, and the making,  *)
(* repair and replacement of one on demand (service/runtime_exec.go,       *)
(* service/python_runtime.go, appboot/appboot.go).                         *)
(*                                                                         *)
(* A directory is an environment when it has a bin directory.  Of what is  *)
(* in it the model keeps the version its interpreter reports, whether pip  *)
(* answers, and the dependency rows whose packages are installed there.    *)
(***************************************************************************)
EXTENDS Naturals, FiniteSets

CONSTANTS Versions,      \* allPythonRuntimeVersions
          Default,       \* defaultPythonRuntimeVersion
          Images,        \* the images: the version of a single one, or {}
          Interpreters,  \* versions the system has an interpreter of
          Deps, Tasks,   \* rows that name a version
          Users,         \* goroutines that need an environment
          Bootstraps,    \* bootstrap commands that match a version
          MaxVenvFaults  \* bound: crashes and failed renames

Boot == "boot"                                    \* InitWithConfig, then main
Nobody == "nobody"

ASSUME PythonAssumption == /\ Default \in Versions /\ Images \subseteq SUBSET Versions
                           /\ \A i \in Images : Cardinality(i) \in {0, 1}
                           /\ Boot \notin Users /\ Nobody \notin Users
                           /\ Versions \cap {"", "none"} = {}
                           /\ Deps \cap Tasks = {} /\ MaxVenvFaults \in Nat

VARIABLES flat,          \* Version -> deps/python/<version>
          nested,        \* Version -> deps/python/<version>/venv
          pre,           \* Version -> deps/python/<version>.pre-2218-*/venv
          legacy,        \* deps/python/venv
          aside,         \* directories kept under another name
          rowVersion,    \* row -> its python_version column
          default,       \* the setting python_default_version
          Single,        \* SinglePythonRuntimeVersion, of the image that runs
          mu,            \* managedPythonVenvMu: its holder, or nobody
          at,            \* each thread: where it is
          faults

venvVars == <<flat, nested, pre, legacy, aside, rowVersion, default, Single, mu, at, faults>>
dirs == <<flat, nested, pre, legacy, aside>>

Threads == Users \cup {Boot}
Rows == Deps \cup Tasks

Dir(kind, python, pip, pkgs) ==
  [kind |-> kind, python |-> python, pip |-> pip, pkgs |-> pkgs]
NoEnv == Dir("absent", "none", FALSE, {})
Shell  == Dir("shell", "none", FALSE, {})          \* a directory without a bin

IsEnv(d) == d.kind = "env"
directoryExists(d) == d.kind # "absent"
managedPythonVenvHealthyForVersion(d, v) == IsEnv(d) /\ d.python = v /\ d.pip

CurrentPythonRuntimeVersions == IF Single = {} THEN Versions ELSE Single

\* The version asked for if it is installed, else one that is and is supported.
resolvePythonFallbackVersion(v) ==
  IF v \in Interpreters \/ CurrentPythonRuntimeVersions \cap Interpreters = {}
    THEN v
    ELSE CHOOSE w \in CurrentPythonRuntimeVersions \cap Interpreters : TRUE
DefaultPythonVersion ==
  resolvePythonFallbackVersion(
    IF Single # {} THEN CHOOSE v \in Single : TRUE ELSE default)

NoMigration == [version |-> "", moved |-> FALSE, defaultExisted |-> FALSE]

Resting(pc) == [pc |-> pc, v |-> Default, todo |-> {}, next |-> "fill", tries |-> 0,
                found |-> NoMigration]
Booting == [Resting("flatten") EXCEPT !.todo = Versions]

\* The worlds of an upgrade: rows without a version or with the default one;
\* the old layout's environment with the packages of some rows; perhaps one
\* nested in the directory of another version.  There is an environment of the
\* default version only after a release with the old layout was put back for a
\* while, and then the rows written meanwhile have no version.
VenvInit ==
  /\ rowVersion \in [Rows -> {"", Default}] /\ default = Default
  /\ \E v \in Versions \cup {"none"}, pkgs \in SUBSET Deps, back \in BOOLEAN :
       /\ \A d \in pkgs : back => rowVersion[d] = ""
       /\ legacy \in {NoEnv, Dir("env", v, v # "none", pkgs)}
       /\ \E w \in Versions :
            nested \in {[x \in Versions |-> NoEnv],
                       [x \in Versions |-> IF x = w /\ x # Default
                          THEN Dir("env", w, TRUE, {}) ELSE NoEnv]}
       /\ flat = [x \in Versions |->
            IF directoryExists(nested[x]) THEN Shell
            ELSE IF back /\ x = Default
              THEN Dir("env", x, TRUE, {d \in Deps : rowVersion[d] = Default})
              ELSE NoEnv]
  /\ pre = [v \in Versions |-> NoEnv] /\ aside = {}
  /\ Single \in Images /\ mu = Nobody /\ faults = 0
  /\ at = [t \in Threads |-> IF t = Boot THEN Booting ELSE Resting("idle")]

Go(t, pc) == at' = [at EXCEPT ![t].pc = pc]
Rest(t, pc) == at' = [at EXCEPT ![t] = Resting(pc)]
Fails == faults < MaxVenvFaults /\ faults' = faults + 1
Keep(name, d) == aside' = aside \cup {[name |-> name, pkgs |-> d.pkgs]}

\* flattenLegacyVersionedManagedPythonVenvsLocked, one version: a nested
\* environment next to a flat one is kept aside; else the version directory is
\* renamed, and the second rename puts the environment in its place.
Flatten(t, v) ==
  /\ at[t].pc = "flatten" /\ at[t].todo # {}
  /\ v = CHOOSE w \in at[t].todo : TRUE
  /\ \/ /\ ~directoryExists(nested[v])
        /\ at' = [at EXCEPT ![t].todo = @ \ {v}]
        /\ UNCHANGED <<dirs, faults>>
     \/ /\ IsEnv(nested[v]) /\ IsEnv(flat[v])
        /\ Keep("nested", nested[v]) /\ nested' = [nested EXCEPT ![v] = NoEnv]
        /\ at' = [at EXCEPT ![t].todo = @ \ {v}]
        /\ UNCHANGED <<flat, pre, legacy, faults>>
     \/ /\ IsEnv(nested[v]) /\ ~IsEnv(flat[v])
        /\ pre' = [pre EXCEPT ![v] = nested[v]]
        /\ nested' = [nested EXCEPT ![v] = NoEnv]
        /\ flat' = [flat EXCEPT ![v] = NoEnv]
        /\ at' = [at EXCEPT ![t].pc = "swap", ![t].v = v]
        /\ UNCHANGED <<legacy, aside, faults>>
  /\ UNCHANGED <<rowVersion, default, mu>>

Swap(t) ==
  /\ at[t].pc = "swap"
  /\ LET v == at[t].v IN
       /\ \/ flat' = [flat EXCEPT ![v] = pre[v]] /\ UNCHANGED <<nested, faults>>
          \/ /\ Fails                                   \* and it is put back
             /\ flat' = [flat EXCEPT ![v] = Shell]
             /\ nested' = [nested EXCEPT ![v] = pre[v]]
       /\ pre' = [pre EXCEPT ![v] = NoEnv]
       /\ at' = [at EXCEPT ![t].pc = "flatten", ![t].todo = @ \ {v}]
  /\ UNCHANGED <<legacy, aside, rowVersion, default, mu>>

\* migrateLegacyManagedPythonVenvLocked, after the flattening: the environment
\* of the old layout goes to the directory of the version its interpreter
\* reports, or is kept aside when there is one already.
detectManagedPythonVenvVersion(d) == IF d.python = "none" THEN Default ELSE d.python

\* The directory it goes to is taken, also had only the old place been looked at.
NestedTargetExists(v) == directoryExists(nested[v])
TargetExists(v) == directoryExists(flat[v])

MigrateRoot(t) ==
  /\ at[t].pc = "flatten" /\ at[t].todo = {}
  /\ LET v == detectManagedPythonVenvVersion(legacy)
         found(moved) == [version |-> IF IsEnv(legacy) THEN v ELSE "",
                          moved |-> moved,
                          defaultExisted |-> directoryExists(flat[Default])]
         Then(moved) == at' = [at EXCEPT ![t].pc = at[t].next,
                                         ![t].found = found(moved)] IN
       \/ /\ ~IsEnv(legacy) /\ Then(FALSE) /\ UNCHANGED <<dirs, faults>>
       \/ /\ IsEnv(legacy) /\ TargetExists(v)
          /\ Keep("migrated", legacy) /\ legacy' = NoEnv /\ Then(FALSE)
          /\ UNCHANGED <<flat, nested, pre, faults>>
       \/ /\ IsEnv(legacy) /\ ~TargetExists(v)
          /\ flat' = [flat EXCEPT ![v] = legacy] /\ legacy' = NoEnv /\ Then(TRUE)
          /\ UNCHANGED <<nested, pre, aside, faults>>
       \/ /\ IsEnv(legacy) /\ Fails /\ Then(FALSE) /\ UNCHANGED dirs
  /\ UNCHANGED <<rowVersion, default, mu>>

(***************************************************************************)
(* The start of the panel.                                                 *)
(***************************************************************************)
MigratedVersion == LET v == at[Boot].found.version IN
                     IF v = "" THEN DefaultPythonVersion ELSE v
RowsMoved(rows, from, to) ==
  [r \in Rows |-> IF r \in rows /\ rowVersion[r] \in from THEN to ELSE rowVersion[r]]

\* Rows without a version get the one that was found, or the default one.
NormalizeLegacyPythonVersionColumns ==
  /\ at[Boot].pc = "fill"
  /\ rowVersion' = RowsMoved(Rows, {""}, MigratedVersion)
  /\ Go(Boot, "move") /\ UNCHANGED <<dirs, default, mu, faults>>

\* The same, had it looked at the version alone.
MoveWhateverExisted ==
  /\ at[Boot].pc = "move"
  /\ IF MigratedVersion # Default
       THEN /\ rowVersion' = RowsMoved(Rows, {Default}, MigratedVersion)
            /\ default' = IF default = Default THEN MigratedVersion ELSE default
       ELSE UNCHANGED <<rowVersion, default>>
  /\ Go(Boot, "policy") /\ UNCHANGED <<dirs, mu, faults>>

\* The old default environment was moved to another version: its rows follow.
NormalizeLegacyPythonVersionColumnsAfterVenvMigration ==
  /\ at[Boot].pc = "move"
  /\ IF /\ at[Boot].found.moved /\ MigratedVersion # Default
        /\ ~at[Boot].found.defaultExisted
       THEN /\ rowVersion' = RowsMoved(Rows, {Default}, MigratedVersion)
            /\ default' = IF default = Default THEN MigratedVersion ELSE default
       ELSE UNCHANGED <<rowVersion, default>>
  /\ Go(Boot, "policy") /\ UNCHANGED <<dirs, mu, faults>>

ApplySinglePythonRuntimePolicyOnStartup ==
  /\ at[Boot].pc = "policy"
  /\ IF Single = {}
       THEN UNCHANGED <<rowVersion, default>>
       ELSE /\ default' \in Single
            /\ rowVersion' = [r \in Rows |-> IF r \in Tasks THEN default'
                                             ELSE rowVersion[r]]
  /\ at' = [at EXCEPT ![Boot].pc = "flatten", ![Boot].todo = Versions,
                      ![Boot].next = "clean"]
  /\ UNCHANGED <<dirs, mu, faults>>

\* CleanupManagedPythonArtifactsOnStartup, after it has migrated once more:
\* versions the image does not have, and environments set aside as broken.
cleanupUnsupportedManagedPythonVenvsLocked ==
  flat' = [v \in Versions |-> IF v \in CurrentPythonRuntimeVersions THEN flat[v]
                              ELSE NoEnv]
cleanupBrokenManagedPythonVenvs == aside' = {a \in aside : a.name # "broken"}
CleanupManagedPythonArtifactsOnStartup ==
  /\ at[Boot].pc = "clean"
  /\ cleanupUnsupportedManagedPythonVenvsLocked
  /\ nested' = [v \in Versions |-> IF v \in CurrentPythonRuntimeVersions
                                     THEN nested[v] ELSE NoEnv]
  /\ cleanupBrokenManagedPythonVenvs
  /\ Rest(Boot, "up") /\ UNCHANGED <<pre, legacy, rowVersion, default, mu, faults>>

(***************************************************************************)
(* ensureManagedPythonVenvForVersion, for a task, a hook or pip.           *)
(***************************************************************************)
LookForEnv(t) ==
  /\ at[Boot].pc = "up" /\ t \in Users /\ at[t].pc = "idle"
  /\ \E v \in CurrentPythonRuntimeVersions :
       /\ ~managedPythonVenvHealthyForVersion(flat[v], v)
       /\ at' = [at EXCEPT ![t].pc = "lock", ![t].v = v]
  /\ UNCHANGED <<dirs, rowVersion, default, mu, faults>>

Lock(t) ==
  /\ at[t].pc = "lock" /\ mu = Nobody /\ mu' = t
  /\ at' = [at EXCEPT ![t].pc = "flatten", ![t].todo = Versions,
                      ![t].next = "recheck", ![t].tries = 0]
  /\ UNCHANGED <<dirs, rowVersion, default, faults>>

Unlock(t) == /\ mu' = Nobody /\ Rest(t, "idle")
             /\ UNCHANGED <<dirs, rowVersion, default, faults>>

\* Another thread may have made the environment while this one waited.
Recheck(t) ==
  /\ at[t].pc = "recheck"
  /\ LET v == at[t].v IN
       \/ managedPythonVenvHealthyForVersion(flat[v], v) /\ Unlock(t)
       \/ /\ ~managedPythonVenvHealthyForVersion(flat[v], v)
          /\ Go(t, IF IsEnv(flat[v]) THEN "repair" ELSE "create")
          /\ UNCHANGED <<dirs, rowVersion, default, mu, faults>>

\* ensurepip, when there is an interpreter; it may fail.
repairManagedPythonVenvPip(t) ==
  /\ at[t].pc = "repair"
  /\ LET v == at[t].v IN
       \/ /\ flat[v].python = v
          /\ flat' = [flat EXCEPT ![v].pip = TRUE] /\ mu' = Nobody /\ Rest(t, "idle")
          /\ UNCHANGED <<nested, pre, legacy, aside>>
       \/ Go(t, "quarantine") /\ UNCHANGED <<dirs, mu>>
  /\ UNCHANGED <<rowVersion, default, faults>>

\* Set aside under a name that the next start deletes, or deleted when that
\* fails, or left when both fail; then the first or the next candidate.
quarantineManagedPythonVenv(t) ==
  /\ at[t].pc = "quarantine"
  /\ LET v == at[t].v IN
       \/ /\ Keep("broken", flat[v]) /\ flat' = [flat EXCEPT ![v] = NoEnv]
          /\ UNCHANGED <<nested, pre, legacy, faults>>
       \/ /\ Fails /\ flat' \in {flat, [flat EXCEPT ![v] = NoEnv]}
          /\ UNCHANGED <<nested, pre, legacy, aside>>
  /\ Go(t, "create") /\ UNCHANGED <<rowVersion, default, mu>>

\* python -m venv with a candidate; without one left the caller goes without.
CreateEnv(t) ==
  /\ at[t].pc = "create"
  /\ LET v == at[t].v
         made(pip) == Dir("env", v, pip, flat[v].pkgs) IN
       \/ /\ v \notin Interpreters \/ at[t].tries = Bootstraps
          /\ Unlock(t)
       \/ /\ v \in Interpreters /\ at[t].tries < Bootstraps
          /\ \/ /\ flat' = [flat EXCEPT ![v] = made(TRUE)]          \* it worked
                /\ mu' = Nobody
                /\ Rest(t, "idle")
             \/ \E next \in {"repair", "quarantine"} :  \* without pip; or it failed
                  /\ flat' = [flat EXCEPT ![v] = made(FALSE)]
                  /\ at' = [at EXCEPT ![t].pc = next, ![t].tries = @ + 1]
                  /\ UNCHANGED mu
          /\ UNCHANGED <<nested, pre, legacy, aside, rowVersion, default, faults>>

\* A package of d is installed where its row points.
Install(d) ==
  /\ at[Boot].pc = "up"
  /\ \E v \in {rowVersion[d]} \cap CurrentPythonRuntimeVersions :
       /\ managedPythonVenvHealthyForVersion(flat[v], v) /\ d \notin flat[v].pkgs
       /\ flat' = [flat EXCEPT ![v].pkgs = @ \cup {d}]
  /\ UNCHANGED <<nested, pre, legacy, aside, rowVersion, default, mu, at, faults>>

\* An update of the system takes the interpreter away, or pip breaks.
Decay(v) ==
  /\ at[Boot].pc = "up" /\ IsEnv(flat[v])
  /\ flat' \in {[flat EXCEPT ![v].pip = FALSE], [flat EXCEPT ![v].python = "none"]}
  /\ UNCHANGED <<nested, pre, legacy, aside, rowVersion, default, mu, at, faults>>

\* The version that rows without one run at.
SetDefaultPythonRuntime ==
  /\ at[Boot].pc = "up" /\ default' \in CurrentPythonRuntimeVersions
  /\ UNCHANGED <<dirs, rowVersion, mu, at, faults>>

PanelDies ==
  /\ Fails /\ mu' = Nobody
  /\ at' = [t \in Threads |-> IF t = Boot THEN Booting ELSE Resting("idle")]
  /\ UNCHANGED <<dirs, rowVersion, default>>

StartPanelOnce ==
  \/ NormalizeLegacyPythonVersionColumns
  \/ NormalizeLegacyPythonVersionColumnsAfterVenvMigration
  \/ ApplySinglePythonRuntimePolicyOnStartup
  \/ CleanupManagedPythonArtifactsOnStartup

VenvStep ==
  \/ StartPanelOnce \/ SetDefaultPythonRuntime \/ PanelDies
  \/ \E t \in Threads : \/ \E v \in Versions : Flatten(t, v)
                        \/ Swap(t) \/ MigrateRoot(t)
  \/ \E t \in Users : \/ LookForEnv(t) \/ Lock(t) \/ Recheck(t) \/ CreateEnv(t)
                      \/ repairManagedPythonVenvPip(t)
                      \/ quarantineManagedPythonVenv(t)
  \/ \E d \in Deps : Install(d)
  \/ \E v \in Versions : Decay(v)

VenvNext == VenvStep /\ UNCHANGED Single

VenvSpec == VenvInit /\ [][VenvNext]_venvVars
=============================================================================
