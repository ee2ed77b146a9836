\* One run of one task, retried once, against every pair of stops.
CONSTANTS
  t1 = t1
  t2 = t2
  NoTask = NoTask
  Tasks = {t1}
  MaxReqs = 1
  MaxRetries = 1
  MaxDeps = 0
  Workers = {w1}
  QueueSize = 1
  MultiTasks = {}
  CronTasks = {t1}
  StartupTasks = {}
  StopTasks = {t1}
  DependsOn <- NoDependency
  Actors = {a1, a2}
  Boot = boot
  Kinds = {"tick", "stop", "schedStop"}
  MaxOps = 3
  MaxBoots = 1
  TimedTasks = {t1}
  Faults = {}
SPECIFICATION EnabledSpec
INVARIANTS KilledRunAborts
PROPERTIES KilledLogFinal
SYMMETRY Symmetry
CHECK_DEADLOCK FALSE
