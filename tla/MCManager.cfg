SPECIFICATION Spec
CONSTANTS
  Module = {"a", "b", "c"}
  Starter = {"a", "b"}
  Stopper = {"a", "b", "c"}
  DependsOn <- MCDependsOn
  Sort <- MCSort
  Task = {t1, t2}
  Caller = {c1, c2}
  MaxSpawn = 2
SYMMETRY Perms
INVARIANTS
  PhaseExclusive
  StoppedAtMostOnce
  ResourcesReleased
  DependencyOrder
  StopAwaitsTasks
  TaskContexts
PROPERTIES
  BusClosedLast
  ImplementsLifecycle
