SPECIFICATION Spec
CONSTANTS
  Module = {"a", "b"}
  Starter = {"a", "b"}
  Stopper = {"a", "b"}
  DependsOn <- MCDependsOn
  Sort <- MCSort
  Task = {t1}
  Caller = {c1}
  MaxSpawn = 1
INVARIANTS
  StoppedManagerCancelsTasks
