------------------------------- MODULE MCRuntime -------------------------------
(***************************************************************************)
(* The pool and the servers of MCServing, and the pure algorithms.  An      *)
(* initial state picks one.  The dependency walk gets three modules, one    *)
(* name nobody registers and dependency lists of length two: every error,   *)
(* cycles of length two and three, and every registration order.            *)
(***************************************************************************)
EXTENDS MCServing

VARIABLES moduleOrder, dependsOn, sorted

topoVars == <<moduleOrder, dependsOn, sorted>>

S == INSTANCE TopoSort WITH
  Name <- {"a", "b", "c", "ghost"}, Registrable <- {"a", "b", "c"}, Empty <- "", MaxDeps <- 2

RuntimeInit == MCInit /\ S!Init

RuntimeNext ==
  \/ MCNext /\ UNCHANGED topoVars
  \/ scene = "topo" /\ S!Next /\ UNCHANGED <<scene, servingVars>>

RuntimeSpec == RuntimeInit /\ [][RuntimeNext]_<<scene, servingVars, topoVars>>

(***************************************************************************)
(* Properties, with the types of each part.                                 *)
(***************************************************************************)
\* InitModules accepts exactly the graphs without a cycle, a self dependency or an
\* unknown or blank name, reports a defect that is there, and orders dependencies
\* first, else as registered.
SortSound == S!TopoTypeOK /\ S!SortCorrect /\ S!ErrorTruthful /\ S!RegistrationOrderTieBreak
===============================================================================
