\* Two requests of one task against enabling, disabling, editing and deleting,
\* or one after the other against stops, shutdown, crash and restart.
CONSTANTS
  t1 = t1
  t2 = t2
  NoTask = NoTask
  Tasks = {t1}
  MaxReqs = 2
  MaxRetries = 0
  MaxDeps = 0
  Workers = {w1}
  QueueSize = 1
  MultiTasks = {t1}
  CronTasks = {t1}
  StartupTasks = {}
  StopTasks = {}
  DependsOn <- NoDependency
  Actors = {a1, a2}
  Boot = boot
  Kinds = {"tick", "stop", "enable", "disable", "update", "delete"}
  MaxOps = 3
  MaxBoots = 2
  TimedTasks = {t1}
  Faults = {"shutdown", "crash"}
SPECIFICATION EditOrLaterSpec
INVARIANTS RunningHasOwner RunningLogHasOwner
PROPERTIES AbortedOnlyIfStopAsked
SYMMETRY Symmetry
CHECK_DEADLOCK FALSE
