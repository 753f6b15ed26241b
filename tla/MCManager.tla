------------------------------- MODULE MCManager -------------------------------
(* Three modules, b depending on a: registering b alone makes the sort fail,   *)
(* registering c alone or with the others does not.  sortModules is the walk *)
(* of TopoSort.                                                              *)
EXTENDS Manager, TLC

TS == INSTANCE TopoSort WITH
  Name <- Module, Registrable <- Module, Empty <- "", MaxDeps <- Cardinality(Module),
  moduleOrder <- moduleOrder, dependsOn <- DependsOn, sorted <- state

MCDependsOn == [m \in Module |-> IF m = "b" THEN {"a"} ELSE {}]

DependsOnList(m) == IF m = "b" THEN <<"a">> ELSE <<>>

MCSort(r) ==
  LET registered == {r[i] : i \in DOMAIN r}
      res == TS!SortModules(r, [m \in registered |-> DependsOnList(m)])
  IN [ok |-> res.err = "none", order |-> res.order]

Perms == Permutations(Task) \cup Permutations(Caller)
===============================================================================
