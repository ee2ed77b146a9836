CONSTANTS
  t1 = t1
  t2 = t2
  NoTask = NoTask
  Tasks = {t1}
  MaxReqs = 2
  MaxRetries = 0
  MaxDeps = 1
  Workers = {w1, w2}
  QueueSize = 1
  MultiTasks = {t1}
  CronTasks = {}
  StartupTasks = {t1}
  StopTasks = {}
  DependsOn <- NoDependency
  Actors = {a1}
  Boot = boot
  Kinds = {"run"}
  MaxOps = 1
  MaxBoots = 2
  TimedTasks = {t1}
  Faults = {"crash"}
SPECIFICATION EnabledSpec
INVARIANTS TypeOK AttemptsBounded
PROPERTIES ImplementsRunLedger
SYMMETRY Symmetry
CHECK_DEADLOCK FALSE
