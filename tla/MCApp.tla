---------------------------------- MODULE MCApp ----------------------------------
(* The liveness of Manager, alone with two callers or under app.Run, whose     *)
(* modules b depends on a; lists with a nil module and with a name twice are   *)
(* refused.                                                                   *)
EXTENDS AppRun, TLC

TS == INSTANCE TopoSort WITH
  Name <- Module, Registrable <- Module, Empty <- "", MaxDeps <- Cardinality(Module),
  moduleOrder <- moduleOrder, dependsOn <- DependsOn, sorted <- state

MCDependsOn == [m \in Module |-> IF m = "b" THEN {"a"} ELSE {}]

DependsOnList(m) == IF m = "b" THEN <<"a">> ELSE <<>>

MCSort(r) ==
  LET registered == {r[i] : i \in DOMAIN r}
      res == TS!SortModules(r, [m \in registered |-> DependsOnList(m)])
  IN [ok |-> res.err = "none", order |-> res.order]

MCLists == {<<"b", "a">>, <<"b">>, <<"a", "nil">>, <<"a", "a">>}

MCInit == RunInit /\ (rpc = "absent" => list = <<"b">>)

all == <<vars, runVars>>

\* The fairness of Manager, and of the goroutine of Run.
MCSpec ==
  /\ MCInit /\ [][RunNext]_all
  /\ WF_all(rpc # "absent" /\ Run)
  /\ \A c \in Caller : WF_all(IF rpc # "absent" /\ c = App THEN FALSE
                              ELSE CallerStep(c) /\ UNCHANGED runVars)
  /\ \A t \in Task : WF_all(taskGen[t] \in cancelled /\ TaskReturns(t) /\ UNCHANGED runVars)
===============================================================================
