------------------------------- MODULE Lifecycle -------------------------------
(***************************************************************************)
(* What modulex.Manager promises to a module author and to an application, *)
(* without saying how (modulex.go, LifecycleState and the doc comments of  *)
(* InitModules, StartModules, StopModules and Go): the states follow one   *)
(* another in one direction, tasks are accepted only until the manager     *)
(* stops, a module is stopped at most once and before the event bus is     *)
(* closed, and a stopped manager does nothing more but let the tasks that  *)
(* outlived it return.                                                     *)
(***************************************************************************)
EXTENDS Naturals

CONSTANTS Module, Task

VARIABLES
  state,     \* LifecycleState
  tasks,     \* supervised tasks that are running
  stops,     \* calls of each module's Stop
  busClosed  \* calls of EventBus.Close

lifecycleVars == <<state, tasks, stops, busClosed>>

LifecycleInit ==
  /\ state = "configuring"
  /\ tasks = {}
  /\ stops = [m \in Module |-> 0]
  /\ busClosed = 0

\* The states a manager may move to from each state.
Successors ==
  [configuring  |-> {"initializing", "stopping"},
   initializing |-> {"initialized", "stopped"},
   initialized  |-> {"starting", "stopping"},
   starting     |-> {"running", "stopped"},
   running      |-> {"stopping"},
   stopping     |-> {"stopped"},
   stopped      |-> {}]

\* States in which a phase is being executed, torn down or rolled back.
Busy == {"initializing", "starting", "stopping"}

Move ==
  /\ state' \in Successors[state]
  /\ state' = "stopped" => busClosed = 1
  /\ state' # "stopped" => busClosed = 0
  /\ UNCHANGED <<tasks, stops, busClosed>>

Spawn(t) ==
  /\ state \notin {"stopping", "stopped"}
  /\ t \notin tasks
  /\ tasks' = tasks \cup {t}
  /\ UNCHANGED <<state, stops, busClosed>>

End(t) ==
  /\ t \in tasks
  /\ tasks' = tasks \ {t}
  /\ UNCHANGED <<state, stops, busClosed>>

StopOnce(m) ==
  /\ state \in Busy
  /\ busClosed = 0
  /\ stops[m] = 0
  /\ stops' = [stops EXCEPT ![m] = 1]
  /\ UNCHANGED <<state, tasks, busClosed>>

CloseBus ==
  /\ state \in Busy
  /\ busClosed = 0
  /\ busClosed' = 1
  /\ UNCHANGED <<state, tasks, stops>>

LifecycleNext ==
  \/ Move
  \/ \E t \in Task : Spawn(t) \/ End(t)
  \/ \E m \in Module : StopOnce(m)
  \/ CloseBus

Spec == LifecycleInit /\ [][LifecycleNext]_lifecycleVars
===============================================================================
