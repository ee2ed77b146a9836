CONSTANTS
  t1 = t1
  t2 = t2
  NoTask = NoTask
  Tasks = {t1, t2}
  MaxReqs = 2
  MaxRetries = 0
  MaxDeps = 0
  Workers = {w1}
  QueueSize = 1
  MultiTasks = {}
  CronTasks = {}
  StartupTasks = {t1}
  StopTasks = {}
  DependsOn <- OneDependency
  Actors = {a1}
  Boot = boot
  Kinds = {"run"}
  MaxOps = 1
  MaxBoots = 2
  TimedTasks = {t1}
  Faults = {"shutdown", "timeout", "crash"}
SPECIFICATION EnabledSpec
INVARIANTS CleanShutdown StartupOncePerDay
PROPERTIES NoLaunchAfterStop
CHECK_DEADLOCK FALSE
