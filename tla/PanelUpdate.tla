---------------------------- MODULE PanelUpdate ----------------------------
(***************************************************************************)
(* Updates of the panel by itself: handler/system_update.go,               *)
(* system_update_binary.go, system_update_auto.go and ddp update.          *)
(*                                                                         *)
(* The process that updates fetches the new version and leaves the rest to *)
(* a helper that outlives it: a container that removes and recreates the   *)
(* panel's container, or a script that waits for the server to end, copies *)
(* the new files over the old ones and starts it.                          *)
(***************************************************************************)
EXTENDS Naturals, FiniteSets

CONSTANTS
    Updates,     \* the updates in flight at a time
    Deployments, \* of "docker", "binary" and "systemd": a binary that systemd runs
    Container,   \* what docker inspect says of the panel's container
    Mirrored,    \* whether the image comes from a mirror and is tagged afterwards
    MaxVersion, MaxUpdates, MaxUpdateFaults \* bounds of the model

VARIABLES
    deploy,     \* how the panel is deployed
    released,   \* the latest release
    panel,      \* the server: its boot stage and the version it runs
    installed,  \* the version of each part of the program on disk, or of the image
    updater,    \* panelUpdater.snapshot.Status, one per process
    upd,        \* the updates and their helpers
    pendingRow, \* auto_update_pending_version
    lastChecked, \* whether the last check for updates is less than a day old
    updateCounts \* how often the bounded actions happened

updateVars ==
    <<deploy, released, panel, installed, updater, upd, pendingRow, lastChecked, updateCounts>>

ASSUME UpdateAssumption ==
    /\ Deployments \subseteq {"docker", "binary", "systemd"} /\ Mirrored \in BOOLEAN
    /\ {MaxVersion, MaxUpdates, MaxUpdateFaults} \subseteq Nat

Parts == {"binary", "web"}
NoVersion == 0
FreeUpdate ==
    [pc |-> "free", by |-> "server", auto |-> FALSE, version |-> NoVersion, helper |-> "none",
     child |-> TRUE]

UpdateInit ==
    /\ deploy \in Deployments /\ released = 1
    /\ panel = [stage |-> "on", version |-> 1] /\ installed = [p \in Parts |-> 1]
    /\ updater = [p \in {"server", "ddp"} |-> "idle"] /\ upd = [u \in Updates |-> FreeUpdate]
    /\ pendingRow = NoVersion /\ lastChecked = FALSE
    /\ updateCounts = [updates |-> 0, faults |-> 0]

\* An update that is over, with its helper, leaves nothing.
Cleared(f) ==
    [u \in Updates |-> IF f[u].pc = "free" /\ f[u].helper = "none" THEN FreeUpdate ELSE f[u]]

Up == panel.stage \in {"boot", "on"}
Fault == /\ updateCounts.faults < MaxUpdateFaults
         /\ updateCounts' = [updateCounts EXCEPT !.faults = @ + 1]
NoFault == UNCHANGED updateCounts

-----------------------------------------------------------------------------
(* The plan                                                                 *)

\* A volume of the old container is named twice, as a bind and as a mount.
buildVolumeMappingDedupKey(v) == <<v.source, v.destination, v.readOnly>>

collectEveryVolume(info) ==
    {<<v.source, v.destination, v.readOnly, "bind">> : v \in info.binds}
    \cup {<<v.source, v.destination, v.readOnly, "mount">> :
            v \in {m \in info.mounts : m.type \in {"bind", "volume"}}}

collectVolumeMappings(info) ==
    {buildVolumeMappingDedupKey(v) :
        v \in info.binds \cup {m \in info.mounts : m.type \in {"bind", "volume"}}}

\* docker run refuses two volumes at one place.
RunsWith(volumes) == \A v, w \in volumes : v[2] = w[2] => v = w

compareVersions(current, latest) == current < latest

\* A plan that cannot be made is no update.
buildPanelUpdatePlan == [FreeUpdate EXCEPT !.version = released]

\* The server asks for one update at a time; ddp updates without asking.
begin(u, by, auto) ==
    /\ upd[u].pc = "free" /\ upd[u].helper = "none" /\ updateCounts.updates < MaxUpdates
    /\ by = "server" => updater["server"] \notin {"running", "restarting"}
    /\ \A v \in Updates : upd[v].pc # "free" => upd[v].by # by \/ upd[v].pc = "failed"
    /\ updater' = [updater EXCEPT ![by] = "running"]
    /\ upd' = [upd EXCEPT ![u] = [buildPanelUpdatePlan EXCEPT
                 !.pc = IF auto THEN "record" ELSE "prepare", !.by = by, !.auto = auto]]
    /\ updateCounts' = [updateCounts EXCEPT !.updates = @ + 1]
    /\ UNCHANGED <<deploy, released, panel, installed, pendingRow>>

UpdatePanel(u) == panel.stage = "on" /\ begin(u, "server", FALSE) /\ UNCHANGED lastChecked

\* In docker ddp runs in the panel's container.
ExecutePanelUpdateForCLI(u) ==
    /\ deploy = "docker" => Up
    /\ begin(u, "ddp", FALSE) /\ UNCHANGED lastChecked

\* Once a day.  The check is recorded before its result is known.
runPanelAutoUpdateCheck ==
    /\ panel.stage = "on" /\ ~lastChecked /\ lastChecked' = TRUE
    /\ \/ \E u \in Updates : compareVersions(panel.version, released) /\ begin(u, "server", TRUE)
       \/ /\ \/ ~compareVersions(panel.version, released)   \* or the release cannot be fetched
             \/ updater["server"] \in {"running", "restarting"}
          /\ UNCHANGED <<deploy, released, panel, installed, updater, upd, pendingRow, updateCounts>>

recordPendingAutoUpdate(u) ==
    /\ upd[u].pc = "record" /\ pendingRow' = upd[u].version
    /\ upd' = [upd EXCEPT ![u].pc = "prepare"]
    /\ UNCHANGED <<deploy, released, panel, installed, updater, lastChecked, updateCounts>>

-----------------------------------------------------------------------------
(* What the updating process does: every command has a deadline             *)

NextStep(u, deploys, from, to) ==
    /\ deploy \in deploys /\ upd[u].pc = from /\ NoFault
    /\ upd' = [upd EXCEPT ![u].pc = to] /\ updater' = [updater EXCEPT ![upd[u].by] = "running"]
    /\ UNCHANGED <<deploy, released, panel, pendingRow, lastChecked>>
Docker == {"docker"}
Binary == {"binary", "systemd"}

\* Preparing: the registry is asked, or a directory for the download is made.
preflightUpdateRegistry(u) == NextStep(u, Docker \cup Binary, "prepare", "fetch") /\ UNCHANGED installed

\* The image has the panel's name once it is pulled or, from a mirror, tagged; it is
\* the latest one, not the one of the plan.
Image(step) == installed' = IF step = (IF Mirrored THEN "tag" ELSE "pull")
                            THEN [p \in Parts |-> released] ELSE installed
PullImage(u) == NextStep(u, Docker, "fetch", "tag") /\ Image("pull")
TagImage(u) == NextStep(u, Docker, "tag", "schedule") /\ Image("tag")

downloadBinaryUpdateAsset(u) == NextStep(u, Binary, "fetch", "extract") /\ UNCHANGED installed
extractBinaryUpdateArchive(u) == NextStep(u, Binary, "extract", "schedule") /\ UNCHANGED installed

executePanelUpdate(u) ==
    \/ preflightUpdateRegistry(u) \/ PullImage(u) \/ TagImage(u)
    \/ downloadBinaryUpdateAsset(u) \/ extractBinaryUpdateArchive(u)

FailQuietlyAtTag(u) ==
    /\ upd[u].pc \in {"prepare", "fetch", "tag", "extract", "schedule"} /\ Fault
    /\ updater' = IF upd[u].pc = "tag" THEN updater ELSE [updater EXCEPT ![upd[u].by] = "failed"]
    /\ upd' = Cleared([upd EXCEPT ![u].pc = IF upd[u].auto THEN "failed" ELSE "free"])
    /\ UNCHANGED <<deploy, released, panel, installed, pendingRow, lastChecked>>

failPanelUpdate(u) ==
    /\ upd[u].pc \in {"prepare", "fetch", "tag", "extract", "schedule"} /\ Fault
    /\ updater' = [updater EXCEPT ![upd[u].by] = "failed"]
    /\ upd' = Cleared([upd EXCEPT ![u].pc = IF upd[u].auto THEN "failed" ELSE "free"])
    /\ UNCHANGED <<deploy, released, panel, installed, pendingRow, lastChecked>>

notifyAutoUpdateFailureOnly(u) ==
    /\ upd[u].pc = "failed" /\ upd' = [upd EXCEPT ![u] = FreeUpdate]
    /\ UNCHANGED <<deploy, released, panel, installed, updater, pendingRow, lastChecked, updateCounts>>

notifyAutoUpdateFailure(u) ==
    /\ upd[u].pc = "failed" /\ upd' = [upd EXCEPT ![u] = FreeUpdate] /\ pendingRow' = NoVersion
    /\ UNCHANGED <<deploy, released, panel, installed, updater, lastChecked, updateCounts>>

\* The helper is a child of the process that updates.
startUpdateHelper(u) ==
    /\ upd[u].pc = "schedule"
    /\ upd' = [upd EXCEPT ![u].pc = "exit", ![u].helper = "begin", ![u].child = upd[u].by = "server"]
    /\ updater' = [updater EXCEPT ![upd[u].by] = "restarting"]
    /\ UNCHANGED <<deploy, released, panel, installed, pendingRow, lastChecked, updateCounts>>

-----------------------------------------------------------------------------
(* Processes that end                                                       *)

\* What is left of the updates when the server ends; in docker ddp ends with it,
\* and with its service a helper that the server started.
WithoutServer(f, service) ==
    Cleared([u \in Updates |->
        IF f[u].by = "server" \/ deploy = "docker"
        THEN [f[u] EXCEPT !.pc = "free", !.helper = IF service /\ f[u].child THEN "none" ELSE @]
        ELSE f[u]])

EndServer(f, service) ==
    /\ upd' = WithoutServer(f, service)
    /\ panel' = [panel EXCEPT !.stage = "off"]
    /\ updater' = IF deploy = "docker" THEN [p \in DOMAIN updater |-> "idle"]
                  ELSE [updater EXCEPT !["server"] = "idle"]

\* os.Exit(0) a moment later, of the binary; in docker the process stays.  ddp just ends.
ExitAfterHelper(u) ==
    /\ upd[u].pc = "exit"
    /\ IF upd[u].by = "ddp"
       THEN /\ upd' = Cleared([upd EXCEPT ![u].pc = "free"]) /\ updater' = [updater EXCEPT !["ddp"] = "idle"]
            /\ UNCHANGED panel
       ELSE /\ deploy # "docker"
            /\ EndServer(upd, deploy = "systemd")
    /\ UNCHANGED <<deploy, released, installed, pendingRow, lastChecked, updateCounts>>

CrashPanel ==
    /\ Up /\ Fault /\ EndServer(upd, deploy = "systemd")
    /\ UNCHANGED <<deploy, released, installed, pendingRow, lastChecked>>

\* By hand, by the container's restart policy or by systemd; not while its container
\* is missing.
StartPanel ==
    /\ panel.stage = "off" /\ installed["binary"] # NoVersion
    /\ panel' = [stage |-> "boot", version |-> installed["binary"]]
    /\ UNCHANGED <<deploy, released, installed, updater, upd, pendingRow, lastChecked, updateCounts>>

FinalizePendingAutoUpdateOnStartup ==
    /\ panel.stage = "boot" /\ panel' = [panel EXCEPT !.stage = "on"] /\ pendingRow' = NoVersion
    /\ UNCHANGED <<deploy, released, installed, updater, upd, lastChecked, updateCounts>>

-----------------------------------------------------------------------------
(* The helpers                                                              *)

At(u, step) == upd[u].helper = step
To(u, step) == Cleared([upd EXCEPT ![u].helper = step])
HelperRest == UNCHANGED <<deploy, released, pendingRow, lastChecked>>

\* docker rm -f, whose failure is ignored.
RemoveContainer(u) ==
    /\ deploy = "docker" /\ At(u, "begin") /\ HelperRest /\ UNCHANGED installed
    /\ \/ NoFault /\ EndServer(To(u, "run"), FALSE) /\ panel'.stage = "off"
       \/ Fault /\ upd' = To(u, "run") /\ UNCHANGED <<panel, updater>>

\* docker run, refused while a container has the name; then the old image goes.
RunContainer(u) ==
    /\ deploy = "docker" /\ At(u, "run") /\ upd' = To(u, "none") /\ HelperRest
    /\ UNCHANGED <<installed, updater>>
    /\ IF ~Up /\ RunsWith(collectVolumeMappings(Container))
       THEN \/ panel' = [stage |-> "boot", version |-> installed["binary"]] /\ NoFault
            \/ UNCHANGED panel /\ Fault
       ELSE UNCHANGED panel /\ NoFault

\* systemctl stop, which ends every process of the service, or TERM to a server that
\* is not the updater; either way the updater itself has to end.
StopForHelper(u) ==
    /\ deploy # "docker" /\ At(u, "begin") /\ NoFault /\ HelperRest /\ UNCHANGED installed
    /\ IF Up /\ (deploy = "systemd" \/ upd[u].by = "ddp")
       THEN EndServer(To(u, "binary"), deploy = "systemd")
       ELSE upd' = To(u, "binary") /\ UNCHANGED <<panel, updater>>

\* The loop of kill -0, then one item after the other; sh -e ends the script when
\* one fails, and a program that runs cannot be written.
CopyFiles(u, p, next) ==
    /\ deploy # "docker" /\ At(u, p) /\ HelperRest /\ UNCHANGED <<panel, updater>>
    /\ upd[u].pc = "free"
    /\ \/ /\ p = "binary" => ~Up
          /\ NoFault /\ installed' = [installed EXCEPT ![p] = upd[u].version] /\ upd' = To(u, next)
       \/ p = "binary" /\ Up /\ NoFault /\ upd' = To(u, "none") /\ UNCHANGED installed
       \/ Fault /\ upd' = To(u, "none") /\ installed' = [installed EXCEPT ![p] = NoVersion]

StartCopied(u) ==
    /\ deploy # "docker" /\ At(u, "start") /\ upd' = To(u, "none") /\ HelperRest /\ NoFault
    /\ panel' = IF Up THEN panel ELSE [stage |-> "boot", version |-> installed["binary"]]
    /\ UNCHANGED <<installed, updater>>

-----------------------------------------------------------------------------
Release ==
    /\ released < MaxVersion /\ released' = released + 1
    /\ UNCHANGED <<deploy, panel, installed, updater, upd, pendingRow, lastChecked, updateCounts>>

DayPasses ==
    /\ lastChecked /\ lastChecked' = FALSE
    /\ UNCHANGED <<deploy, released, panel, installed, updater, upd, pendingRow, updateCounts>>

UpdateStep(u) ==
    \/ executePanelUpdate(u) \/ recordPendingAutoUpdate(u) \/ notifyAutoUpdateFailure(u)
    \/ startUpdateHelper(u) \/ ExitAfterHelper(u)
HelperStep(u) ==
    \/ RemoveContainer(u) \/ RunContainer(u) \/ StopForHelper(u) \/ StartCopied(u)
    \/ CopyFiles(u, "binary", "web") \/ CopyFiles(u, "web", "start")

UpdateNext ==
    \/ \E u \in Updates :
         \/ UpdatePanel(u) \/ ExecutePanelUpdateForCLI(u)
         \/ UpdateStep(u) \/ HelperStep(u) \/ failPanelUpdate(u)
    \/ runPanelAutoUpdateCheck \/ CrashPanel \/ StartPanel \/ FinalizePendingAutoUpdateOnStartup
    \/ Release \/ DayPasses

UpdateFairness ==
    /\ \A u \in Updates : WF_updateVars(UpdateStep(u) \/ failPanelUpdate(u)) /\ WF_updateVars(HelperStep(u))
    /\ WF_updateVars(FinalizePendingAutoUpdateOnStartup)

UpdateSpec == UpdateInit /\ [][UpdateNext]_updateVars /\ UpdateFairness
=============================================================================
