CONSTANTS
  t1 = t1
  t2 = t2
  NoTask = NoTask
  Tasks = {t1}
  MaxReqs = 2
  MaxRetries = 0
  MaxDeps = 0
  Workers = {w1}
  QueueSize = 1
  MultiTasks = {}
  CronTasks = {t1}
  StartupTasks = {}
  StopTasks = {t1}
  DependsOn <- NoDependency
  Actors = {a1}
  Boot = boot
  Kinds = {"tick", "schedStop", "batchStop", "cliStop"}
  MaxOps = 2
  MaxBoots = 1
  TimedTasks = {t1}
  Faults = {"shutdown", "crash"}
SPECIFICATION EnabledFairSpec
PROPERTIES RequestsEnd RunningRowIsReset ShutdownEnds
CHECK_DEADLOCK FALSE
