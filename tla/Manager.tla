-------------------------------- MODULE Manager --------------------------------
(***************************************************************************)
(* modulex.Manager (modulex.go): the lifecycle InitModules / StartModules  *)
(* / StopModules drive, and the supervised tasks Manager.Go starts.        *)
(*                                                                         *)
(* A Caller is a goroutine that calls the three lifecycle methods; any     *)
(* other goroutine, a module's own Init, Start and Stop included, may call *)
(* Go at any moment.  A step of a caller is one critical section of the    *)
(* code, or one call into a module.  A task's handle is the name and the   *)
(* number of the Go call that made it, since a name is free again once     *)
(* its task has finished.                                                  *)
(*                                                                         *)
(* taskCtx is the number of the task context in force: resetTaskCtx        *)
(* installs the next one.  A rejected call changes nothing and is a        *)
(* stuttering step.  PanicPolicyLog is assumed: a panic is a task error    *)
(* (under PanicPolicyPropagate it ends the process).                       *)
(***************************************************************************)
EXTENDS Naturals, Sequences, FiniteSets

CONSTANTS
  Module,    \* the modules that may be registered
  Starter,   \* those that implement Starter
  Stopper,   \* those that implement Stopper
  DependsOn, \* DependsOn[m]: the modules m depends on
  Sort(_),   \* sortModules, from registration order to [ok, order]
  Task,      \* task names
  Caller,    \* goroutines that call the lifecycle methods
  MaxSpawn   \* bound: Go calls that succeed, per task name

\* Registration orders: sequences of modules without repetition.
Registrations ==
  {r \in UNION {[1..n -> Module] : n \in 0..Cardinality(Module)} :
     \A i, j \in DOMAIN r : r[i] = r[j] => i = j}

ASSUME ModuleAssumption ==
  /\ IsFiniteSet(Module)
  /\ Starter \subseteq Module
  /\ Stopper \subseteq Module
  /\ DependsOn \in [Module -> SUBSET Module]
  /\ MaxSpawn \in Nat

\* What TopoSort!SortCorrect establishes of sortModules: its order has no
\* repetition, is made of registered modules, and dependencies come first.
ASSUME SortAssumption ==
  \A r \in Registrations :
    /\ Sort(r).ok \in BOOLEAN
    /\ Sort(r).order \in Registrations
    /\ Sort(r).ok => \A i \in DOMAIN Sort(r).order :
         \A d \in DependsOn[Sort(r).order[i]] :
           \E j \in 1..(i - 1) : Sort(r).order[j] = d

VARIABLES
  state,       \* Manager.state
  moduleOrder, \* names in registration order
  orderedMods, \* Manager.orderedMods
  pc,          \* where each caller is in the method it called
  path,        \* the phase the caller is in, or the one that stopped the manager
  idx,         \* modules processed by the phase, then modules left to stop
  ctxDone,     \* the context the caller passed is done
  snap,        \* handles waitForTasks collected
  expired,     \* waitForTasks gave up on some of them
  tasks,       \* names in Manager.tasks
  spawned,     \* Go calls that succeeded, per name
  taskGen,     \* the task context each name was last started under
  taskErrs,    \* Manager.taskErrs: errors recorded and not yet reported
  taskCtx,     \* Manager.taskCtx
  cancelled,   \* task contexts that were cancelled
  inited,      \* outcome of each module's Init
  started,     \* outcome of each module's Start
  stops,       \* calls of each module's Stop
  busClosed    \* calls of EventBus.Close

mgrVars    == <<state, moduleOrder, orderedMods>>
callerVars == <<pc, path, idx, ctxDone, snap, expired>>
taskVars   == <<tasks, spawned, taskGen, taskErrs, taskCtx, cancelled>>
modVars    == <<inited, started, stops, busClosed>>
vars == <<mgrVars, callerVars, taskVars, modVars>>

LifecycleState == {"configuring", "initializing", "initialized", "starting",
                   "running", "stopping", "stopped"}
Phase   == {"init", "start", "stop"}
Outcome == {"no", "ok", "failed"}

\* Labels of waitForTasks, then of the teardown that follows it in
\* finalizeFailure and in StopModules.
WaitLabels     == {"snapshot", "cancel", "await", "drain", "reset"}
TeardownLabels == {"stopMods", "closeBus", "finish"}
Label == {"idle", "sort", "init", "start"} \cup WaitLabels \cup TeardownLabels

TypeOK ==
  /\ state \in LifecycleState
  /\ moduleOrder \in Registrations
  /\ orderedMods \in Registrations
  /\ pc \in [Caller -> Label]
  /\ path \in [Caller -> Phase \cup {"none"}]
  /\ idx \in [Caller -> Nat]
  /\ ctxDone \in [Caller -> BOOLEAN]
  /\ snap \in [Caller -> SUBSET (Task \X Nat)]
  /\ expired \in [Caller -> BOOLEAN]
  /\ tasks \subseteq Task
  /\ spawned \in [Task -> Nat]
  /\ taskGen \in [Task -> Nat]
  /\ taskErrs \in [Task -> Nat]
  /\ taskCtx \in Nat
  /\ cancelled \subseteq Nat
  /\ inited \in [Module -> Outcome]
  /\ started \in [Module -> Outcome]
  /\ stops \in [Module -> Nat]
  /\ busClosed \in Nat

Init ==
  /\ state = "configuring"
  /\ moduleOrder = <<>>
  /\ orderedMods = <<>>
  /\ pc = [c \in Caller |-> "idle"]
  /\ path = [c \in Caller |-> "none"]
  /\ idx = [c \in Caller |-> 0]
  /\ ctxDone = [c \in Caller |-> FALSE]
  /\ snap = [c \in Caller |-> {}]
  /\ expired = [c \in Caller |-> FALSE]
  /\ tasks = {}
  /\ spawned = [t \in Task |-> 0]
  /\ taskGen = [t \in Task |-> 0]
  /\ taskErrs = [t \in Task |-> 0]
  /\ taskCtx = 0
  /\ cancelled = {}
  /\ inited = [m \in Module |-> "no"]
  /\ started = [m \in Module |-> "no"]
  /\ stops = [m \in Module |-> 0]
  /\ busClosed = 0

Goto(c, label) == pc' = [pc EXCEPT ![c] = label]

-----------------------------------------------------------------------------
(***************************************************************************)
(* Registration and the phases.                                            *)
(***************************************************************************)
RegisterModule(m) ==
  /\ state = "configuring"
  /\ \A i \in DOMAIN moduleOrder : moduleOrder[i] # m
  /\ moduleOrder' = Append(moduleOrder, m)
  /\ UNCHANGED <<state, orderedMods, callerVars, taskVars, modVars>>

\* A lifecycle method is entered in one of the states from, under stateMu.
Enter(c, from, to, phase, label) ==
  /\ pc[c] = "idle"
  /\ state \in from
  /\ state' = to
  /\ Goto(c, label)
  /\ path' = [path EXCEPT ![c] = phase]
  /\ idx' = [idx EXCEPT ![c] = 0]
  /\ ctxDone' = [ctxDone EXCEPT ![c] = FALSE]
  /\ snap' = [snap EXCEPT ![c] = {}]
  /\ expired' = [expired EXCEPT ![c] = FALSE]

\* Mutant: a stopped manager may be initialised again.
InitModulesAgain(c) ==
  /\ Enter(c, {"configuring", "stopped"}, "initializing", "init", "sort")
  /\ UNCHANGED <<moduleOrder, orderedMods, taskVars, modVars>>

\* InitModules as far as transitionToInitializing.
InitModules(c) ==
  /\ Enter(c, {"configuring"}, "initializing", "init", "sort")
  /\ UNCHANGED <<moduleOrder, orderedMods, taskVars, modVars>>

\* lockSortedModules; a sort error goes to finalizeInitFailure with no module.
LockSortedModules(c) ==
  /\ pc[c] = "sort"
  /\ orderedMods' = IF Sort(moduleOrder).ok THEN Sort(moduleOrder).order ELSE <<>>
  /\ Goto(c, IF Sort(moduleOrder).ok THEN "init" ELSE "snapshot")
  /\ UNCHANGED <<state, moduleOrder, path, idx, ctxDone, snap, expired,
                 taskVars, modVars>>

\* runPhase: the context is looked at before every module.
PhaseCancelled(c) ==
  /\ pc[c] \in {"init", "start"}
  /\ idx[c] < Len(orderedMods)
  /\ ctxDone[c]
  /\ Goto(c, "snapshot")
  /\ UNCHANGED <<mgrVars, path, idx, ctxDone, snap, expired, taskVars, modVars>>

\* One iteration of runPhase in InitModules.  A module whose Init failed is not
\* among the ones finalizeInitFailure stops.
InitModule(c) ==
  /\ pc[c] = "init"
  /\ idx[c] < Len(orderedMods)
  /\ ~ctxDone[c]
  /\ \E outcome \in {"ok", "failed"} :
       /\ inited' = [inited EXCEPT ![orderedMods[idx[c] + 1]] = outcome]
       /\ IF outcome = "ok"
          THEN /\ idx' = [idx EXCEPT ![c] = @ + 1]
               /\ UNCHANGED pc
          ELSE /\ Goto(c, "snapshot")
               /\ UNCHANGED idx
  /\ UNCHANGED <<mgrVars, path, ctxDone, snap, expired, taskVars, started,
                 stops, busClosed>>

\* runPhase is done with every module: setState(Initialized) or (Running).
PhaseSucceeded(c) ==
  /\ pc[c] \in {"init", "start"}
  /\ idx[c] = Len(orderedMods)
  /\ state' = IF pc[c] = "init" THEN "initialized" ELSE "running"
  /\ Goto(c, "idle")
  /\ path' = [path EXCEPT ![c] = "none"]
  /\ UNCHANGED <<moduleOrder, orderedMods, idx, ctxDone, snap, expired,
                 taskVars, modVars>>

StartModules(c) ==
  /\ Enter(c, {"initialized"}, "starting", "start", "start")
  /\ UNCHANGED <<moduleOrder, orderedMods, taskVars, modVars>>

\* Mutant: the module whose Start failed is left out of the rollback.
StartModuleUncounted(c) ==
  /\ pc[c] = "start"
  /\ idx[c] < Len(orderedMods)
  /\ ~ctxDone[c]
  /\ LET m == orderedMods[idx[c] + 1]
     IN \E outcome \in IF m \in Starter THEN {"ok", "failed"} ELSE {"no"} :
          /\ started' = [started EXCEPT ![m] = outcome]
          /\ pc' = IF outcome = "failed" THEN [pc EXCEPT ![c] = "snapshot"] ELSE pc
          /\ idx' = IF outcome = "failed" THEN idx ELSE [idx EXCEPT ![c] = @ + 1]
  /\ UNCHANGED <<mgrVars, path, ctxDone, snap, expired, taskVars, inited,
                 stops, busClosed>>

\* One iteration of runPhase in StartModules.  stopCount includes the module
\* whose Start returned the error; modules without Start are skipped.
StartModule(c) ==
  /\ pc[c] = "start"
  /\ idx[c] < Len(orderedMods)
  /\ ~ctxDone[c]
  /\ LET m == orderedMods[idx[c] + 1]
     IN \E outcome \in IF m \in Starter THEN {"ok", "failed"} ELSE {"no"} :
          /\ started' = [started EXCEPT ![m] = outcome]
          /\ pc' = IF outcome = "failed" THEN [pc EXCEPT ![c] = "snapshot"] ELSE pc
  /\ idx' = [idx EXCEPT ![c] = @ + 1]
  /\ UNCHANGED <<mgrVars, path, ctxDone, snap, expired, taskVars, inited,
                 stops, busClosed>>

\* Mutant: StopModules does not refuse a manager whose phase is in progress.
StopModulesAnytime(c) ==
  /\ Enter(c, LifecycleState \ {"stopping", "stopped"}, "stopping", "stop", "snapshot")
  /\ cancelled' = cancelled \cup {taskCtx}
  /\ UNCHANGED <<moduleOrder, orderedMods, tasks, spawned, taskGen, taskErrs,
                 taskCtx, modVars>>

\* StopModules as far as the unlock of stateMu: the state and the cancellation
\* of the task context change together.
StopModules(c) ==
  /\ Enter(c, {"configuring", "initialized", "running"}, "stopping", "stop", "snapshot")
  /\ cancelled' = cancelled \cup {taskCtx}
  /\ UNCHANGED <<moduleOrder, orderedMods, tasks, spawned, taskGen, taskErrs,
                 taskCtx, modVars>>

\* StopModules when it is a no-op: some call is stopping, or has stopped.
StopModulesAgain(c) ==
  /\ pc[c] = "idle"
  /\ state \in {"stopping", "stopped"}
  /\ UNCHANGED vars

\* The caller's context expires or is cancelled.
CtxDone(c) ==
  /\ pc[c] # "idle"
  /\ ~ctxDone[c]
  /\ ctxDone' = [ctxDone EXCEPT ![c] = TRUE]
  /\ UNCHANGED <<mgrVars, pc, path, idx, snap, expired, taskVars, modVars>>

-----------------------------------------------------------------------------
(***************************************************************************)
(* waitForTasks, shared by StopModules and finalizeFailure.                *)
(***************************************************************************)
Handle(t) == <<t, spawned[t]>>

Finished(h) == h[1] \notin tasks \/ spawned[h[1]] # h[2]

SnapshotTasks(c) ==
  /\ pc[c] = "snapshot"
  /\ snap' = [snap EXCEPT ![c] = {Handle(t) : t \in tasks}]
  /\ Goto(c, "cancel")
  /\ UNCHANGED <<mgrVars, path, idx, ctxDone, expired, taskVars, modVars>>

\* Mutant: waitForTasks waits without cancelling.
CancelTasksNot(c) ==
  /\ pc[c] = "cancel"
  /\ Goto(c, "await")
  /\ UNCHANGED <<mgrVars, path, idx, ctxDone, snap, expired, taskVars, modVars>>

CancelTasks(c) ==
  /\ pc[c] = "cancel"
  /\ cancelled' = cancelled \cup {taskCtx}
  /\ Goto(c, "await")
  /\ UNCHANGED <<mgrVars, path, idx, ctxDone, snap, expired, tasks, spawned,
                 taskGen, taskErrs, taskCtx, modVars>>

\* The errgroup returns when every collected task is done or the context is.
AwaitTasks(c) ==
  /\ pc[c] = "await"
  /\ ctxDone[c] \/ \A h \in snap[c] : Finished(h)
  /\ expired' = [expired EXCEPT ![c] = \E h \in snap[c] : ~Finished(h)]
  /\ Goto(c, "drain")
  /\ UNCHANGED <<mgrVars, path, idx, ctxDone, snap, taskVars, modVars>>

\* taskErrs is handed to the caller; the tasks still running stay registered.
DrainTaskErrs(c) ==
  /\ pc[c] = "drain"
  /\ taskErrs' = [t \in Task |-> 0]
  /\ Goto(c, "reset")
  /\ UNCHANGED <<mgrVars, path, idx, ctxDone, snap, expired, tasks, spawned,
                 taskGen, taskCtx, cancelled, modVars>>

\* Mutant: the event bus is closed before the modules are stopped.
ResetTaskCtxAndBus(c) ==
  /\ pc[c] = "reset"
  /\ taskCtx' = taskCtx + 1
  /\ idx' = IF path[c] = "stop" THEN [idx EXCEPT ![c] = Len(orderedMods)] ELSE idx
  /\ Goto(c, "stopMods")
  /\ busClosed' = busClosed + 1
  /\ UNCHANGED <<mgrVars, path, ctxDone, snap, expired, tasks, spawned,
                 taskGen, taskErrs, cancelled, inited, started, stops>>

\* resetTaskCtx, then StopModules copies orderedMods; a rollback stops the
\* modules its phase had counted.
ResetTaskCtx(c) ==
  /\ pc[c] = "reset"
  /\ taskCtx' = taskCtx + 1
  /\ idx' = IF path[c] = "stop" THEN [idx EXCEPT ![c] = Len(orderedMods)] ELSE idx
  /\ Goto(c, "stopMods")
  /\ UNCHANGED <<mgrVars, path, ctxDone, snap, expired, tasks, spawned,
                 taskGen, taskErrs, cancelled, modVars>>

-----------------------------------------------------------------------------
(***************************************************************************)
(* The teardown: modules in reverse order, the event bus, the last state.  *)
(***************************************************************************)
\* Mutant: modules are stopped in the order they were started in.
StopModuleForward(c) ==
  /\ pc[c] = "stopMods"
  /\ idx[c] > 0
  /\ LET m == orderedMods[Len(orderedMods) + 1 - idx[c]]
     IN stops' = IF m \in Stopper THEN [stops EXCEPT ![m] = @ + 1] ELSE stops
  /\ idx' = [idx EXCEPT ![c] = @ - 1]
  /\ UNCHANGED <<mgrVars, pc, path, ctxDone, snap, expired, taskVars, inited,
                 started, busClosed>>

\* One iteration of rollback or of the loop of StopModules: an error or a done
\* context does not end the loop.
StopModule(c) ==
  /\ pc[c] = "stopMods"
  /\ idx[c] > 0
  /\ LET m == orderedMods[idx[c]]
     IN stops' = IF m \in Stopper THEN [stops EXCEPT ![m] = @ + 1] ELSE stops
  /\ idx' = [idx EXCEPT ![c] = @ - 1]
  /\ UNCHANGED <<mgrVars, pc, path, ctxDone, snap, expired, taskVars, inited,
                 started, busClosed>>

ModulesStopped(c) ==
  /\ pc[c] = "stopMods"
  /\ idx[c] = 0
  /\ Goto(c, "closeBus")
  /\ UNCHANGED <<mgrVars, path, idx, ctxDone, snap, expired, taskVars, modVars>>

CloseEventBus(c) ==
  /\ pc[c] = "closeBus"
  /\ busClosed' = busClosed + 1
  /\ Goto(c, "finish")
  /\ UNCHANGED <<mgrVars, path, idx, ctxDone, snap, expired, taskVars, inited,
                 started, stops>>

\* Mutant: a failed StartModules leaves the manager as it was initialised.
FinishToInitialized(c) ==
  /\ pc[c] = "finish"
  /\ state' = IF path[c] = "start" THEN "initialized" ELSE "stopped"
  /\ orderedMods' = IF path[c] = "init" THEN <<>> ELSE orderedMods
  /\ Goto(c, "idle")
  /\ UNCHANGED <<moduleOrder, path, idx, ctxDone, snap, expired, taskVars,
                 modVars>>

\* The cleanup hook of finalizeInitFailure, and setState(Stopped).
Finish(c) ==
  /\ pc[c] = "finish"
  /\ state' = "stopped"
  /\ orderedMods' = IF path[c] = "init" THEN <<>> ELSE orderedMods
  /\ Goto(c, "idle")
  /\ UNCHANGED <<moduleOrder, path, idx, ctxDone, snap, expired, taskVars,
                 modVars>>

-----------------------------------------------------------------------------
(***************************************************************************)
(* Supervised tasks.                                                       *)
(***************************************************************************)
\* Mutant: Go relies on the task context alone to know that the manager stops.
GoUngated(t) ==
  /\ taskCtx \notin cancelled
  /\ t \notin tasks
  /\ spawned[t] < MaxSpawn
  /\ tasks' = tasks \cup {t}
  /\ spawned' = [spawned EXCEPT ![t] = @ + 1]
  /\ taskGen' = [taskGen EXCEPT ![t] = taskCtx]
  /\ UNCHANGED <<mgrVars, callerVars, taskErrs, taskCtx, cancelled, modVars>>

\* Go: stateMu and taskMu are held over the checks and the registration.
Go(t) ==
  /\ state \notin {"stopping", "stopped"}
  /\ taskCtx \notin cancelled
  /\ t \notin tasks
  /\ spawned[t] < MaxSpawn
  /\ tasks' = tasks \cup {t}
  /\ spawned' = [spawned EXCEPT ![t] = @ + 1]
  /\ taskGen' = [taskGen EXCEPT ![t] = taskCtx]
  /\ UNCHANGED <<mgrVars, callerVars, taskErrs, taskCtx, cancelled, modVars>>

\* superviseTask's deferred function: the error is recorded, the name freed and
\* the handle finished in one critical section.
TaskReturns(t) ==
  /\ t \in tasks
  /\ \E err \in {0, 1} : taskErrs' = [taskErrs EXCEPT ![t] = @ + err]
  /\ tasks' = tasks \ {t}
  /\ UNCHANGED <<mgrVars, callerVars, spawned, taskGen, taskCtx, cancelled,
                 modVars>>

CallerStep(c) ==
  \/ LockSortedModules(c) \/ PhaseCancelled(c) \/ InitModule(c)
  \/ StartModule(c) \/ PhaseSucceeded(c)
  \/ SnapshotTasks(c) \/ CancelTasks(c) \/ AwaitTasks(c) \/ DrainTaskErrs(c)
  \/ ResetTaskCtx(c) \/ StopModule(c) \/ ModulesStopped(c) \/ CloseEventBus(c)
  \/ Finish(c)

Next ==
  \/ \E m \in Module : RegisterModule(m)
  \/ \E c \in Caller : \/ InitModules(c) \/ StartModules(c) \/ StopModules(c)
                       \/ StopModulesAgain(c) \/ CtxDone(c) \/ CallerStep(c)
  \/ \E t \in Task : Go(t) \/ TaskReturns(t)

\* The scheduler runs every goroutine, and calls into modules return; a task
\* honours the cancellation of its context, and nothing else makes it return.
Fairness ==
  /\ \A c \in Caller : WF_vars(CallerStep(c))
  /\ \A t \in Task : WF_vars(taskGen[t] \in cancelled /\ TaskReturns(t))

Spec == Init /\ [][Next]_vars
FairSpec == Spec /\ Fairness

-----------------------------------------------------------------------------
(***************************************************************************)
(* Properties.                                                             *)
(***************************************************************************)
InTeardown(c) == pc[c] \in TeardownLabels

\* The caller ran the phase that stopped the manager to its end.
Stopped(c, phase) == state = "stopped" /\ pc[c] = "idle" /\ path[c] = phase

\* The lifecycle states alone keep two lifecycle methods from running at the
\* same time, whichever goroutines call them (InitModules, StartModules and
\* StopModules iterate without holding stateMu).
PhaseExclusive ==
  \A c, d \in Caller : pc[c] # "idle" /\ pc[d] # "idle" => c = d

\* No module is stopped twice and the event bus is closed once, whatever
\* mixture of failed phases and StopModules calls happens; only a module whose
\* Init succeeded is stopped, by a rollback or by StopModules.
StoppedAtMostOnce ==
  /\ busClosed <= 1
  /\ \A m \in Module : /\ stops[m] <= 1
                       /\ stops[m] > 0 => inited[m] = "ok"

\* Once the manager is stopped every Stopper that owes a release got its Stop:
\* after StopModules and after a failed InitModules each module whose Init
\* succeeded, after a failed StartModules each whose Start was called.
ResourcesReleased ==
  state = "stopped" =>
    \A m \in Stopper :
      /\ started[m] # "no" => stops[m] = 1
      /\ (inited[m] = "ok" /\ \A c \in Caller : path[c] # "start") => stops[m] = 1

\* A module's Init and Start run after those of the modules it depends on, and
\* its Stop before theirs.
DependencyOrder ==
  \A m \in Module : \A d \in DependsOn[m] :
    /\ inited[m] # "no" => inited[d] = "ok"
    /\ started[m] # "no" /\ d \in Starter => started[d] = "ok"
    /\ stops[d] > 0 /\ m \in Stopper /\ started[m] # "no" => stops[m] = 1

\* StopModules awaits every supervised task before it stops the first module,
\* unless its context expired while it waited, and reports every task error:
\* from its snapshot on no task can be added behind its back.
StopAwaitsTasks ==
  \A c \in Caller :
    path[c] = "stop" /\ ~expired[c] /\ (InTeardown(c) \/ Stopped(c, "stop")) =>
      /\ tasks = {}
      /\ \A t \in Task : taskErrs[t] = 0

\* While waitForTasks waits, every registered task runs under a cancelled
\* context, the ones Go added between its snapshot and its cancel included.
CancellationReachesAll ==
  \A c \in Caller :
    pc[c] \in {"await", "drain", "reset"} => \A t \in tasks : taskGen[t] \in cancelled

\* A manager that is not failing or stopping never has a cancelled task
\* context, and every supervised task runs under the one in force.
TaskContextLive ==
  state \in {"configuring", "initialized", "running"} =>
    /\ taskCtx \notin cancelled
    /\ \A t \in tasks : taskGen[t] = taskCtx

\* Both, at every moment of every mixture of phases: what a task's context says is
\* what the manager does.
TaskContexts == CancellationReachesAll /\ TaskContextLive

\* The event bus is closed after the last Stop, so that Stop can still publish.
BusClosedLast == [][busClosed > 0 => stops' = stops]_vars

\* Every lifecycle call returns, given that tasks honour cancellation.
PhaseReturns == \A c \in Caller : pc[c] # "idle" ~> pc[c] = "idle"

\* What the manager promises its users, as a specification of its own.
Abstract == INSTANCE Lifecycle
ImplementsLifecycle == Abstract!Spec

\* modulex.go:711 says of Go: "Tasks are cancelled and awaited during manager
\* shutdown", and modulex.go:1578 of the context a failed phase recreates: "New
\* tasks are still rejected by the lifecycle state machine."  So a stopped
\* manager may have no task left that nobody cancelled.
StoppedManagerCancelsTasks ==
  state = "stopped" => \A t \in tasks : taskGen[t] \in cancelled

===============================================================================
