SPECIFICATION MCSpec
CHECK_DEADLOCK FALSE
CONSTANTS
  Module = {"a", "b"}
  Starter = {"a", "b"}
  Stopper = {"a", "b"}
  DependsOn <- MCDependsOn
  Sort <- MCSort
  Task = {t1}
  Caller = {c1, c2}
  App = c1
  MaxSpawn = 2
  Lists <- MCLists
  NPre = 1
  NPost = 1
INVARIANTS
  RunOutcome
PROPERTIES
  PhasesEnd
