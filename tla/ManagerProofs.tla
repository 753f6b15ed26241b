----------------------------- MODULE ManagerProofs -----------------------------
(***************************************************************************)
(* Proofs, for any set of modules, tasks and callers, of the safety        *)
(* properties of Manager: one phase at a time, task contexts, what         *)
(* StopModules and the rollback of a failed phase promise (tasks are       *)
(* awaited first, each module is stopped once and before those it depends  *)
(* on, the event bus is closed last), that it implements Lifecycle, and    *)
(* what the application runner makes of it.                                *)
(***************************************************************************)
EXTENDS AppRun, TLAPS

\* A registration order is a sequence of modules without repetition.
LEMMA RegistrationsAreSeqs ==
  ASSUME NEW r \in Registrations
  PROVE  /\ r \in Seq(Module)
         /\ \A i, j \in 1..Len(r) : r[i] = r[j] => i = j
  BY DEF Registrations

\* A sequence is a function on its indices.
LEMMA SeqIsFunction ==
  ASSUME NEW S, NEW q \in Seq(S)
  PROVE  q \in [1..Len(q) -> S]
  OBVIOUS

-----------------------------------------------------------------------------
(***************************************************************************)
(* Types.  That a registration order still is one when a module is added   *)
(* to it is a fact about finite sets, proved below.                        *)
(***************************************************************************)
RegistrationsGrow ==
  /\ <<>> \in Registrations
  /\ \A r \in Registrations, m \in Module :
       (\A i \in DOMAIN r : r[i] # m) => Append(r, m) \in Registrations

\* A new manager is well typed.
LEMMA TypeInit == RegistrationsGrow /\ Init => TypeOK
  BY DEF RegistrationsGrow, Init, TypeOK, LifecycleState, Label, WaitLabels, TeardownLabels, Phase,
         Outcome

\* Every step preserves the types; in particular a registration order stays
\* one, and the number of modules left to stop never falls below zero.
LEMMA TypeNext == RegistrationsGrow /\ TypeOK /\ [Next]_vars => TypeOK'
<1> SUFFICES ASSUME RegistrationsGrow, TypeOK, [Next]_vars PROVE TypeOK'
  BY Zenon
<1> USE DEF TypeOK, Goto, Label, WaitLabels, TeardownLabels, LifecycleState,
            Phase, Outcome, mgrVars, callerVars, taskVars, modVars
<1>1. ASSUME NEW m \in Module, RegisterModule(m) PROVE TypeOK'
  BY <1>1, Zenon DEF RegisterModule, RegistrationsGrow
<1>2. ASSUME NEW c \in Caller, InitModules(c) PROVE TypeOK'
  BY <1>2, Zenon DEF InitModules, Enter
<1>3. ASSUME NEW c \in Caller, StartModules(c) PROVE TypeOK'
  BY <1>3, Zenon DEF StartModules, Enter
<1>4. ASSUME NEW c \in Caller, StopModules(c) PROVE TypeOK'
  BY <1>4, Zenon DEF StopModules, Enter
<1>5. ASSUME NEW c \in Caller, CtxDone(c) PROVE TypeOK'
  BY <1>5, Zenon DEF CtxDone
<1>6. ASSUME NEW c \in Caller, LockSortedModules(c) PROVE TypeOK'
  BY <1>6, SortAssumption, Zenon DEF LockSortedModules, RegistrationsGrow
<1>7. ASSUME NEW c \in Caller, PhaseCancelled(c) PROVE TypeOK'
  BY <1>7, Zenon DEF PhaseCancelled
<1>8. ASSUME NEW c \in Caller, InitModule(c) PROVE TypeOK'
  <2> PICK outcome \in {"ok", "failed"} :
         /\ inited' = [inited EXCEPT ![orderedMods[idx[c] + 1]] = outcome]
         /\ \/ idx' = [idx EXCEPT ![c] = @ + 1] /\ pc' = pc
            \/ pc' = [pc EXCEPT ![c] = "snapshot"] /\ idx' = idx
    BY <1>8, Zenon DEF InitModule
  <2>1. inited' \in [Module -> Outcome]
    BY Zenon
  <2>2. idx' \in [Caller -> Nat] /\ pc' \in [Caller -> Label]
    OBVIOUS
  <2> QED
    BY <1>8, <2>1, <2>2, Zenon DEF InitModule
<1>9. ASSUME NEW c \in Caller, StartModule(c) PROVE TypeOK'
  <2> PICK outcome \in {"ok", "failed", "no"} :
         /\ started' = [started EXCEPT ![orderedMods[idx[c] + 1]] = outcome]
         /\ pc' = IF outcome = "failed" THEN [pc EXCEPT ![c] = "snapshot"] ELSE pc
    BY <1>9, Zenon DEF StartModule
  <2>1. started' \in [Module -> Outcome] /\ pc' \in [Caller -> Label]
    BY Zenon
  <2>2. idx' \in [Caller -> Nat]
    BY <1>9 DEF StartModule
  <2> QED
    BY <1>9, <2>1, <2>2, Zenon DEF StartModule
<1>10. ASSUME NEW c \in Caller, PhaseSucceeded(c) PROVE TypeOK'
  BY <1>10, Zenon DEF PhaseSucceeded
<1>11. ASSUME NEW c \in Caller, SnapshotTasks(c) PROVE TypeOK'
  BY <1>11 DEF SnapshotTasks, Handle
<1>12. ASSUME NEW c \in Caller, CancelTasks(c) PROVE TypeOK'
  BY <1>12, Zenon DEF CancelTasks
<1>13. ASSUME NEW c \in Caller, AwaitTasks(c) PROVE TypeOK'
  BY <1>13, Zenon DEF AwaitTasks
<1>14. ASSUME NEW c \in Caller, DrainTaskErrs(c) PROVE TypeOK'
  BY <1>14, Zenon DEF DrainTaskErrs
<1>15. ASSUME NEW c \in Caller, ResetTaskCtx(c) PROVE TypeOK'
  <2>1. Len(orderedMods) \in Nat
    BY RegistrationsAreSeqs
  <2>2. idx' \in [Caller -> Nat] /\ taskCtx' \in Nat
    BY <1>15, <2>1 DEF ResetTaskCtx
  <2>3. pc' \in [Caller -> Label]
    BY <1>15, Zenon DEF ResetTaskCtx
  <2> QED
    BY <1>15, <2>2, <2>3, Zenon DEF ResetTaskCtx
<1>16. ASSUME NEW c \in Caller, StopModule(c) PROVE TypeOK'
  <2>1. idx' \in [Caller -> Nat]
    BY <1>16 DEF StopModule
  <2>2. stops' \in [Module -> Nat]
    BY <1>16, ModuleAssumption DEF StopModule
  <2> QED
    BY <1>16, <2>1, <2>2, Zenon DEF StopModule
<1>17. ASSUME NEW c \in Caller, ModulesStopped(c) PROVE TypeOK'
  BY <1>17, Zenon DEF ModulesStopped
<1>18. ASSUME NEW c \in Caller, CloseEventBus(c) PROVE TypeOK'
  BY <1>18 DEF CloseEventBus
<1>19. ASSUME NEW c \in Caller, Finish(c) PROVE TypeOK'
  BY <1>19, Zenon DEF Finish, RegistrationsGrow
<1>20. ASSUME NEW t \in Task, Go(t) PROVE TypeOK'
  BY <1>20 DEF Go
<1>21. ASSUME NEW t \in Task, TaskReturns(t) PROVE TypeOK'
  BY <1>21 DEF TaskReturns
<1>22. CASE UNCHANGED vars
  BY <1>22, Zenon DEF vars
<1> QED
  BY <1>1, <1>2, <1>3, <1>4, <1>5, <1>6, <1>7, <1>8, <1>9, <1>10, <1>11,
     <1>12, <1>13, <1>14, <1>15, <1>16, <1>17, <1>18, <1>19, <1>20, <1>21, <1>22, Zenon
  DEF Next, CallerStep, StopModulesAgain

-----------------------------------------------------------------------------
(***************************************************************************)
(* One lifecycle method at a time.  PhaseExclusive is not inductive: a     *)
(* caller may enter from a resting state only because a busy caller keeps  *)
(* the state busy, which PhaseOf records label by label.                   *)
(***************************************************************************)
PhaseOf(c) ==
  /\ pc[c] \in {"sort", "init"} => state = "initializing" /\ path[c] = "init"
  /\ pc[c] = "start" => state = "starting" /\ path[c] = "start"
  /\ pc[c] \in WaitLabels \cup TeardownLabels =>
       \/ state = "initializing" /\ path[c] = "init"
       \/ state = "starting" /\ path[c] = "start"
       \/ state = "stopping" /\ path[c] = "stop"
  /\ pc[c] = "idle" => path[c] = "none" \/ state = "stopped"

PhaseInv == PhaseExclusive /\ \A c \in Caller : PhaseOf(c)

Resting == {"configuring", "initialized", "running"}

\* While the state is one a lifecycle method can be entered in, or after the
\* manager stopped, no caller is inside one.
LEMMA RestingIsIdle ==
  ASSUME TypeOK, PhaseInv, state \in Resting \cup {"stopped"}, NEW c \in Caller
  PROVE  pc[c] = "idle"
  BY Zenon DEF TypeOK, PhaseInv, PhaseOf, Resting, Label, WaitLabels, TeardownLabels

\* A caller that enters a lifecycle method finds every other one idle.
LEMMA EnterPhase ==
  ASSUME TypeOK, PhaseInv, NEW c \in Caller,
         \/ Enter(c, {"configuring"}, "initializing", "init", "sort")
         \/ Enter(c, {"initialized"}, "starting", "start", "start")
         \/ Enter(c, Resting, "stopping", "stop", "snapshot")
  PROVE  PhaseInv'
<1>1. \A d \in Caller : pc[d] = "idle" /\ path[d] = "none"
  BY RestingIsIdle, Zenon DEF Enter, Resting, PhaseInv, PhaseOf
<1>2. \A d \in Caller : d # c => pc'[d] = pc[d] /\ path'[d] = path[d]
  BY Zenon DEF Enter, Goto, TypeOK
<1> QED
  BY <1>1, <1>2
  DEF Enter, Goto, TypeOK, PhaseInv, PhaseExclusive, PhaseOf, WaitLabels, TeardownLabels, Resting

\* A step of a busy caller that keeps it busy, in its phase, changes nothing
\* for the others; one that ends its phase leaves every caller idle.
LEMMA BusyStep ==
  ASSUME TypeOK, PhaseInv, NEW c \in Caller, pc[c] # "idle",
         NEW label \in Label \ {"idle"}, Goto(c, label),
         state' = state, path' = path, PhaseOf(c)'
  PROVE  PhaseInv'
<1>1. \A d \in Caller : d # c => pc[d] = "idle" /\ pc'[d] = "idle"
  BY Zenon DEF TypeOK, PhaseInv, PhaseExclusive, Goto
<1>2. \A d \in Caller : d # c => PhaseOf(d)'
  BY <1>1, Zenon DEF PhaseInv, PhaseOf, WaitLabels, TeardownLabels
<1> QED
  BY <1>1, <1>2, Zenon DEF PhaseInv, PhaseExclusive

\* Every step keeps the callers apart, and the state that of the one inside.
LEMMA PhaseNext == TypeOK /\ PhaseInv /\ [Next]_vars => PhaseInv'
<1> SUFFICES ASSUME TypeOK, PhaseInv, [Next]_vars PROVE PhaseInv'
  BY Zenon
<1> USE DEF mgrVars, callerVars
<1>0. ASSUME UNCHANGED <<state, pc, path>> PROVE PhaseInv'
  BY <1>0, Zenon DEF PhaseInv, PhaseExclusive, PhaseOf
<1>1. ASSUME NEW c \in Caller, InitModules(c) PROVE PhaseInv'
  BY <1>1, EnterPhase, Zenon DEF InitModules
<1>2. ASSUME NEW c \in Caller, StartModules(c) PROVE PhaseInv'
  BY <1>2, EnterPhase, Zenon DEF StartModules
<1>3. ASSUME NEW c \in Caller, StopModules(c) PROVE PhaseInv'
  BY <1>3, EnterPhase, Zenon DEF StopModules, Resting
<1>4. ASSUME NEW c \in Caller,
             \/ LockSortedModules(c) \/ PhaseCancelled(c) \/ SnapshotTasks(c)
             \/ CancelTasks(c) \/ AwaitTasks(c) \/ DrainTaskErrs(c)
             \/ ResetTaskCtx(c) \/ ModulesStopped(c) \/ CloseEventBus(c)
      PROVE  PhaseInv'
  <2>1. PICK label \in {"init", "cancel", "snapshot", "await", "drain", "reset",
                        "stopMods", "closeBus", "finish"} :
          /\ Goto(c, label)
          /\ pc[c] # "idle"
          /\ label = "init" => pc[c] = "sort"
          /\ state' = state /\ path' = path
    BY <1>4, Zenon DEF LockSortedModules, PhaseCancelled, SnapshotTasks, CancelTasks,
        AwaitTasks, DrainTaskErrs, ResetTaskCtx, ModulesStopped, CloseEventBus
  <2>2. PhaseOf(c) /\ pc[c] \in Label
    BY Zenon DEF PhaseInv, TypeOK
  <2>3. pc'[c] = label
    BY <2>1, Zenon DEF Goto, TypeOK
  <2>4. PhaseOf(c)'
    BY <2>1, <2>2, <2>3, Zenon DEF PhaseOf, Label, WaitLabels, TeardownLabels
  <2> QED
    BY <2>1, <2>4, BusyStep, Zenon DEF Label, WaitLabels, TeardownLabels
<1>5. ASSUME NEW c \in Caller, InitModule(c) \/ StartModule(c) PROVE PhaseInv'
  <2>1. /\ pc[c] \in {"init", "start"}
        /\ state' = state /\ path' = path
        /\ pc' = pc \/ Goto(c, "snapshot")
    BY <1>5, Zenon DEF InitModule, StartModule, Goto
  <2>2. PhaseOf(c)
    BY Zenon DEF PhaseInv
  <2>3. Goto(c, "snapshot") => PhaseOf(c)'
    BY <2>1, <2>2, Zenon DEF PhaseOf, Goto, TypeOK, WaitLabels, TeardownLabels
  <2> QED
    BY <2>1, <2>3, <1>0, BusyStep, Zenon DEF Label, WaitLabels
<1>6. ASSUME NEW c \in Caller, PhaseSucceeded(c) \/ Finish(c) PROVE PhaseInv'
  <2>1. \A d \in Caller : d # c => pc[d] = "idle"
    BY <1>6, Zenon DEF PhaseSucceeded, Finish, PhaseInv, PhaseExclusive
  <2>2. PhaseOf(c) /\ \A d \in Caller : d # c => PhaseOf(d)
    BY Zenon DEF PhaseInv
  <2>3. \A d \in Caller : pc'[d] = "idle"
    BY <1>6, <2>1, Zenon DEF PhaseSucceeded, Finish, Goto, TypeOK
  <2>4. \A d \in Caller : path'[d] = "none" \/ state' = "stopped"
    BY <1>6, <2>1, <2>2, Zenon DEF PhaseSucceeded, Finish, TypeOK, PhaseOf
  <2> QED
    BY <2>3, <2>4, Zenon DEF PhaseInv, PhaseExclusive, PhaseOf, WaitLabels, TeardownLabels
<1> QED
  BY <1>0, <1>1, <1>2, <1>3, <1>4, <1>5, <1>6, Zenon
  DEF Next, CallerStep, vars, RegisterModule, CtxDone, StopModulesAgain,
      StopModule, Go, TaskReturns

-----------------------------------------------------------------------------
(***************************************************************************)
(* Task contexts.  Until a manager fails or stops nothing is cancelled and *)
(* the first context is in force; afterwards a task whose context is not   *)
(* the one in force was left behind by a resetTaskCtx, which comes after   *)
(* the cancel.                                                             *)
(***************************************************************************)
Working == state \in Resting \/ \E c \in Caller : pc[c] \in {"sort", "init", "start"}

ContextInv ==
  /\ Working => cancelled = {}
  /\ \A t \in tasks : taskGen[t] = taskCtx \/ taskGen[t] \in cancelled
  /\ \A c \in Caller : pc[c] \in {"await", "drain", "reset"} => taskCtx \in cancelled

\* Every step keeps the contexts: none is replaced before it is cancelled.
LEMMA ContextNext ==
  TypeOK /\ PhaseInv /\ ContextInv /\ [Next]_vars => ContextInv'
<1> SUFFICES ASSUME TypeOK, PhaseInv, ContextInv, [Next]_vars PROVE ContextInv'
  BY Zenon
<1> USE DEF mgrVars, callerVars, taskVars
<1>0. ASSUME UNCHANGED <<state, pc, taskVars>> PROVE ContextInv'
  BY <1>0, Zenon DEF ContextInv, Working
<1>1. ASSUME NEW c \in Caller, InitModules(c) \/ StartModules(c) PROVE ContextInv'
  <2>1. Working /\ UNCHANGED taskVars
    BY <1>1, Zenon DEF InitModules, StartModules, Enter, Working, Resting
  <2>2. \A d \in Caller : pc'[d] \notin {"await", "drain", "reset"}
    BY <1>1, RestingIsIdle, Zenon DEF InitModules, StartModules, Enter, Goto, TypeOK, Resting
  <2> QED
    BY <2>1, <2>2, Zenon DEF ContextInv
<1>2. ASSUME NEW c \in Caller, StopModules(c) PROVE ContextInv'
  <2>1. \A d \in Caller : pc'[d] \in {"idle", "snapshot"}
    BY <1>2, RestingIsIdle, Zenon DEF StopModules, Enter, Goto, TypeOK, Resting
  <2>2. ~Working'
    BY <1>2, <2>1, Zenon DEF StopModules, Enter, Working, Resting
  <2>3. taskCtx' = taskCtx /\ tasks' = tasks /\ taskGen' = taskGen
        /\ cancelled' = cancelled \cup {taskCtx}
    BY <1>2, Zenon DEF StopModules
  <2> QED
    BY <2>1, <2>2, <2>3, Zenon DEF ContextInv
<1>3. ASSUME NEW c \in Caller,
             LockSortedModules(c) \/ PhaseCancelled(c) \/ InitModule(c) \/ StartModule(c)
      PROVE  ContextInv'
  <2>1. Working /\ UNCHANGED taskVars
    BY <1>3, Zenon DEF LockSortedModules, PhaseCancelled, InitModule, StartModule, Working
  <2>2. \A d \in Caller : pc'[d] \in {"await", "drain", "reset"} => pc[d] = pc'[d]
    BY <1>3, Zenon DEF LockSortedModules, PhaseCancelled, InitModule, StartModule, Goto, TypeOK
  <2> QED
    BY <2>1, <2>2, Zenon DEF ContextInv
<1>4. ASSUME NEW c \in Caller, PhaseSucceeded(c) \/ Finish(c) PROVE ContextInv'
  <2>1. UNCHANGED taskVars /\ Working' => Working
    BY <1>4, Zenon DEF PhaseSucceeded, Finish, Working, Resting, Goto, TypeOK
  <2>2. \A d \in Caller : pc'[d] \in {"await", "drain", "reset"} => pc[d] = pc'[d]
    BY <1>4, Zenon DEF PhaseSucceeded, Finish, Goto, TypeOK
  <2>3. UNCHANGED taskVars
    BY <1>4, Zenon DEF PhaseSucceeded, Finish
  <2> QED
    BY <2>1, <2>2, <2>3, Zenon DEF ContextInv
<1>5. ASSUME NEW c \in Caller,
             \/ SnapshotTasks(c) \/ CancelTasks(c) \/ AwaitTasks(c) \/ DrainTaskErrs(c)
             \/ ResetTaskCtx(c) \/ ModulesStopped(c) \/ CloseEventBus(c)
      PROVE  ContextInv'
  <2>1. /\ pc[c] \in WaitLabels \cup TeardownLabels
        /\ state' = state /\ tasks' = tasks /\ taskGen' = taskGen
    BY <1>5, Zenon DEF SnapshotTasks, CancelTasks, AwaitTasks, DrainTaskErrs, ResetTaskCtx,
        ModulesStopped, CloseEventBus, WaitLabels, TeardownLabels
  <2>2. \A d \in Caller : d # c => pc[d] = "idle" /\ pc'[d] = "idle"
    BY <1>5, <2>1, Zenon DEF PhaseInv, PhaseExclusive, WaitLabels, TeardownLabels, Goto, TypeOK,
        SnapshotTasks, CancelTasks, AwaitTasks, DrainTaskErrs, ResetTaskCtx,
        ModulesStopped, CloseEventBus
  <2>3. pc'[c] \notin {"sort", "init", "start"}
    BY <1>5, Zenon DEF Goto, TypeOK, SnapshotTasks, CancelTasks, AwaitTasks, DrainTaskErrs,
        ResetTaskCtx, ModulesStopped, CloseEventBus
  <2>4. state \notin Resting
    BY <2>1, RestingIsIdle, Zenon DEF WaitLabels, TeardownLabels
  <2>5. ~Working'
    BY <2>1, <2>2, <2>3, <2>4, Zenon DEF Working
  <2>6. CASE pc[c] = "cancel"
    <3>1. cancelled' = cancelled \cup {taskCtx} /\ taskCtx' = taskCtx
      BY <1>5, <2>6, Zenon DEF SnapshotTasks, CancelTasks, AwaitTasks, DrainTaskErrs,
          ResetTaskCtx, ModulesStopped, CloseEventBus
    <3> QED
      BY <3>1, <2>1, <2>2, <2>5, Zenon DEF ContextInv
  <2>7. CASE pc[c] # "cancel"
    <3>1. /\ cancelled' = cancelled
          /\ taskCtx' # taskCtx => pc[c] = "reset" /\ pc'[c] = "stopMods"
          /\ pc'[c] \in {"await", "drain", "reset"} => pc[c] \in {"await", "drain"}
      BY <1>5, <2>7, Zenon DEF Goto, TypeOK, SnapshotTasks, CancelTasks, AwaitTasks,
          DrainTaskErrs, ResetTaskCtx, ModulesStopped, CloseEventBus
    <3> QED
      BY <3>1, <2>1, <2>2, <2>5, Zenon DEF ContextInv
  <2> QED
    BY <2>6, <2>7, Zenon
<1>6. ASSUME NEW t \in Task, Go(t) \/ TaskReturns(t) PROVE ContextInv'
  <2>1. /\ \A u \in tasks' : (u \in tasks /\ taskGen'[u] = taskGen[u]) \/ taskGen'[u] = taskCtx
        /\ UNCHANGED <<state, pc, taskCtx, cancelled>>
    BY <1>6, Zenon DEF Go, TaskReturns, TypeOK
  <2> QED
    BY <2>1, Zenon DEF ContextInv, Working
<1> QED
  BY <1>0, <1>1, <1>2, <1>3, <1>4, <1>5, <1>6, Zenon
  DEF Next, CallerStep, vars, RegisterModule, CtxDone, StopModulesAgain, StopModule

-----------------------------------------------------------------------------
(***************************************************************************)
(* StopModules awaits the tasks.  Go refuses tasks from the moment the     *)
(* state is stopping, so the snapshot has every task there will be.        *)
(***************************************************************************)
AwaitOf(c) ==
  path[c] = "stop" =>
    /\ state \in {"stopping", "stopped"}
    /\ pc[c] \in {"cancel", "await"} => \A t \in tasks : Handle(t) \in snap[c]
    /\ pc[c] \in {"drain", "reset", "idle"} \cup TeardownLabels /\ ~expired[c] => tasks = {}
    /\ pc[c] \in {"reset", "idle"} \cup TeardownLabels /\ ~expired[c] =>
         \A t \in Task : taskErrs[t] = 0

AwaitInv == \A c \in Caller : AwaitOf(c)

\* A step that leaves the tasks and the other callers' places alone keeps what
\* AwaitInv says of them, since no other caller is inside a method.
LEMMA AwaitOthers ==
  ASSUME TypeOK, PhaseInv, AwaitInv, NEW c \in Caller, pc[c] # "idle",
         UNCHANGED <<state, path, tasks, spawned, snap>>,
         \A t \in Task : taskErrs[t] = 0 => taskErrs'[t] = 0,
         \A d \in Caller : d # c => pc'[d] = pc[d] /\ expired'[d] = expired[d],
         AwaitOf(c)'
  PROVE  AwaitInv'
  BY Zenon DEF AwaitInv, AwaitOf, PhaseInv, PhaseExclusive, Handle, TeardownLabels

\* Every step keeps what a StopModules call has waited for.
LEMMA AwaitNext ==
  TypeOK /\ PhaseInv /\ AwaitInv /\ [Next]_vars => AwaitInv'
<1> SUFFICES ASSUME TypeOK, PhaseInv, AwaitInv, [Next]_vars PROVE AwaitInv'
  BY Zenon
<1> USE DEF mgrVars, callerVars, taskVars
<1>0. ASSUME UNCHANGED <<state, pc, path, snap, expired, taskVars>> PROVE AwaitInv'
  BY <1>0, Zenon DEF AwaitInv, AwaitOf, Handle
<1>1. ASSUME NEW c \in Caller, InitModules(c) \/ StartModules(c) \/ StopModules(c)
      PROVE  AwaitInv'
  <2>1. state \in Resting
    BY <1>1, Zenon DEF InitModules, StartModules, StopModules, Enter, Resting
  <2>2. \A d \in Caller : d # c => path'[d] = "none"
    BY <1>1, <2>1, RestingIsIdle, Zenon
    DEF InitModules, StartModules, StopModules, Enter, PhaseInv, PhaseOf, Resting, TypeOK
  <2>3. path'[c] = "stop" => state' = "stopping" /\ pc'[c] = "snapshot"
    BY <1>1, Zenon DEF InitModules, StartModules, StopModules, Enter, Goto, TypeOK
  <2> QED
    BY <2>2, <2>3, Zenon DEF AwaitInv, AwaitOf, TeardownLabels
<1>2. ASSUME NEW c \in Caller,
             \/ LockSortedModules(c) \/ PhaseCancelled(c) \/ InitModule(c) \/ StartModule(c)
             \/ PhaseSucceeded(c)
      PROVE  AwaitInv'
  <2>1. state \in {"initializing", "starting"}
    BY <1>2, Zenon DEF PhaseInv, PhaseOf, LockSortedModules, PhaseCancelled, InitModule,
        StartModule, PhaseSucceeded
  <2>2. \A d \in Caller : path[d] # "stop"
    BY <2>1, Zenon DEF AwaitInv, AwaitOf
  <2>3. \A d \in Caller : path'[d] # "stop"
    BY <1>2, <2>2, Zenon DEF LockSortedModules, PhaseCancelled, InitModule, StartModule,
        PhaseSucceeded, TypeOK
  <2> QED
    BY <2>3, Zenon DEF AwaitInv, AwaitOf
<1>3. ASSUME NEW c \in Caller, SnapshotTasks(c) PROVE AwaitInv'
  <2>1. /\ UNCHANGED <<state, path, tasks, spawned, taskErrs, expired>>
        /\ pc'[c] = "cancel" /\ snap'[c] = {Handle(t) : t \in tasks}
        /\ \A d \in Caller : d # c => pc'[d] = pc[d] /\ snap'[d] = snap[d] /\ pc[d] = "idle"
    BY <1>3, Zenon DEF SnapshotTasks, Goto, TypeOK, PhaseInv, PhaseExclusive
  <2>2. (\A t \in tasks : Handle(t) \in snap[c])'
    BY <2>1, Zenon DEF Handle
  <2> QED
    BY <2>1, <2>2, Zenon DEF AwaitInv, AwaitOf, TeardownLabels
<1>4. ASSUME NEW c \in Caller, CancelTasks(c) PROVE AwaitInv'
  <2>1. /\ pc[c] = "cancel" /\ pc'[c] = "await"
        /\ UNCHANGED <<state, path, tasks, spawned, snap, expired, taskErrs>>
        /\ \A d \in Caller : d # c => pc'[d] = pc[d]
    BY <1>4, Zenon DEF CancelTasks, Goto, TypeOK
  <2>2. AwaitOf(c)'
    BY <2>1, Zenon DEF AwaitInv, AwaitOf, Handle, TeardownLabels
  <2> QED
    BY <2>1, <2>2, AwaitOthers, Zenon
<1>5. ASSUME NEW c \in Caller, AwaitTasks(c) PROVE AwaitInv'
  <2>1. /\ pc[c] = "await" /\ pc'[c] = "drain"
        /\ UNCHANGED <<state, path, tasks, spawned, snap, taskErrs>>
        /\ \A d \in Caller : d # c => pc'[d] = pc[d] /\ expired'[d] = expired[d]
        /\ expired'[c] = (\E h \in snap[c] : ~Finished(h))
    BY <1>5, Zenon DEF AwaitTasks, Goto, TypeOK
  <2>2. ASSUME path[c] = "stop", ~expired'[c] PROVE tasks = {}
    BY <2>1, <2>2, Zenon DEF AwaitInv, AwaitOf, Finished, Handle
  <2>3. AwaitOf(c)'
    BY <2>1, <2>2, Zenon DEF AwaitInv, AwaitOf, TeardownLabels
  <2> QED
    BY <2>1, <2>3, AwaitOthers, Zenon
<1>6. ASSUME NEW c \in Caller,
             \/ DrainTaskErrs(c) \/ ResetTaskCtx(c) \/ ModulesStopped(c) \/ CloseEventBus(c)
      PROVE  AwaitInv'
  <2>1. /\ pc[c] \in {"drain", "reset", "stopMods", "closeBus"}
        /\ pc'[c] \in {"reset"} \cup TeardownLabels
        /\ UNCHANGED <<state, path, tasks, spawned, snap, expired>>
        /\ \A d \in Caller : d # c => pc'[d] = pc[d]
    BY <1>6, Zenon DEF DrainTaskErrs, ResetTaskCtx, ModulesStopped, CloseEventBus, Goto, TypeOK,
        TeardownLabels
  <2>2. /\ pc[c] = "drain" => \A t \in Task : taskErrs'[t] = 0
        /\ pc[c] # "drain" => taskErrs' = taskErrs
    BY <1>6, Zenon DEF DrainTaskErrs, ResetTaskCtx, ModulesStopped, CloseEventBus
  <2>3. AwaitOf(c)'
    BY <2>1, <2>2, Zenon DEF AwaitInv, AwaitOf, TeardownLabels
  <2> QED
    BY <2>1, <2>2, <2>3, AwaitOthers, Zenon
<1>7. ASSUME NEW c \in Caller, Finish(c) PROVE AwaitInv'
  <2>1. /\ pc[c] = "finish" /\ pc'[c] = "idle" /\ state' = "stopped"
        /\ UNCHANGED <<path, tasks, spawned, snap, expired, taskErrs>>
        /\ \A d \in Caller : d # c => pc'[d] = pc[d]
    BY <1>7, Zenon DEF Finish, Goto, TypeOK
  <2> QED
    BY <2>1, Zenon DEF AwaitInv, AwaitOf, Handle, TeardownLabels
<1>8. ASSUME NEW t \in Task, Go(t) PROVE AwaitInv'
  <2>1. \A d \in Caller : path[d] # "stop"
    BY <1>8, Zenon DEF Go, AwaitInv, AwaitOf
  <2> QED
    BY <1>8, <2>1, Zenon DEF Go, AwaitInv, AwaitOf
<1>9. ASSUME NEW t \in Task, TaskReturns(t) PROVE AwaitInv'
  <2>1. /\ tasks # {} /\ tasks' \subseteq tasks
        /\ UNCHANGED <<state, pc, path, snap, expired, spawned>>
    BY <1>9, Zenon DEF TaskReturns
  <2> QED
    BY <2>1, Zenon DEF AwaitInv, AwaitOf, Handle, TeardownLabels
<1> QED
  BY <1>0, <1>1, <1>2, <1>3, <1>4, <1>5, <1>6, <1>7, <1>8, <1>9, Zenon
  DEF Next, CallerStep, vars, RegisterModule, CtxDone, StopModulesAgain, StopModule

-----------------------------------------------------------------------------
(***************************************************************************)
(* Each module is stopped once.  Nothing is stopped before the teardown;   *)
(* the loop of the teardown goes down the locked order, which repeats no   *)
(* module, and the modules still ahead of it were initialised and have not *)
(* been stopped.                                                           *)
(***************************************************************************)
TeardownOf(c) ==
  /\ pc[c] = "sort" => idx[c] = 0
  /\ pc[c] \in {"sort", "init", "start"} \cup WaitLabels =>
       busClosed = 0 /\ \A m \in Module : stops[m] = 0
  /\ pc[c] \in {"init", "start", "stopMods"} \cup WaitLabels => idx[c] <= Len(orderedMods)
  /\ pc[c] \in {"init", "stopMods"} \cup WaitLabels /\ path[c] = "init" =>
       \A i \in 1..idx[c] : inited[orderedMods[i]] = "ok"
  /\ pc[c] = "stopMods" =>
       busClosed = 0 /\ \A i \in 1..idx[c] : stops[orderedMods[i]] = 0
  /\ pc[c] = "closeBus" => busClosed = 0
  /\ pc[c] = "finish" => busClosed = 1

ModuleInv ==
  /\ state = "configuring" => orderedMods = <<>>
  /\ state \in Resting => busClosed = 0 /\ \A m \in Module : stops[m] = 0
  /\ state \in {"initialized", "starting", "running", "stopping"} =>
       \A i \in 1..Len(orderedMods) : inited[orderedMods[i]] = "ok"

TeardownInv ==
  ModuleInv /\ StoppedAtMostOnce /\ \A c \in Caller : TeardownOf(c)

\* What the locked order gives the steps below: its entries are modules, and
\* no two are the same.
LEMMA LockedOrder ==
  ASSUME TypeOK
  PROVE  /\ Len(orderedMods) \in Nat
         /\ \A i \in 1..Len(orderedMods) : orderedMods[i] \in Module
         /\ \A i, j \in 1..Len(orderedMods) : orderedMods[i] = orderedMods[j] => i = j
  BY RegistrationsAreSeqs DEF TypeOK

\* After a step of the one busy caller, the others are idle and owe nothing.
LEMMA TeardownOthers ==
  ASSUME TypeOK, PhaseInv, NEW c \in Caller, pc[c] # "idle",
         \A d \in Caller : d # c => pc'[d] = pc[d],
         TeardownOf(c)'
  PROVE  \A d \in Caller : TeardownOf(d)'
<1>1. \A d \in Caller : d # c => pc'[d] = "idle"
  BY Zenon DEF PhaseInv, PhaseExclusive
<1> QED
  BY <1>1, Zenon DEF TeardownOf, WaitLabels

\* A step that stops no module, and closes the event bus for the first time if at all.
LEMMA StoppedKept ==
  ASSUME StoppedAtMostOnce, UNCHANGED <<inited, stops>>, busClosed' \in {0, 1}
  PROVE  StoppedAtMostOnce'
  BY DEF StoppedAtMostOnce

\* Every step preserves what the teardown rests on.
LEMMA TeardownNext ==
  TypeOK /\ TypeOK' /\ PhaseInv /\ TeardownInv /\ [Next]_vars => TeardownInv'
<1> SUFFICES ASSUME TypeOK, TypeOK', PhaseInv, TeardownInv, [Next]_vars PROVE TeardownInv'
  BY Zenon
<1> USE DEF mgrVars, callerVars, modVars
<1>a. Len(<<>>) = 0
  BY Zenon
<1>b. ModuleInv /\ StoppedAtMostOnce /\ \A c \in Caller : TeardownOf(c) /\ PhaseOf(c)
  BY Zenon DEF TeardownInv, PhaseInv
<1>0. ASSUME UNCHANGED <<state, orderedMods, pc, path, idx, modVars>> PROVE TeardownInv'
  BY <1>0, Zenon DEF TeardownInv, ModuleInv, StoppedAtMostOnce, TeardownOf
<1>1. ASSUME NEW c \in Caller, InitModules(c) \/ StartModules(c) \/ StopModules(c)
      PROVE  TeardownInv'
  <2>1. /\ state \in Resting
        /\ UNCHANGED <<orderedMods, modVars>>
        /\ idx'[c] = 0
        /\ \/ state = "configuring" /\ state' = "initializing" /\ pc'[c] = "sort"
           \/ state = "initialized" /\ state' = "starting" /\ pc'[c] = "start"
           \/ state' = "stopping" /\ pc'[c] = "snapshot" /\ path'[c] = "stop"
        /\ \A d \in Caller : d # c => pc'[d] = pc[d]
    BY <1>1, Zenon DEF InitModules, StartModules, StopModules, Enter, Resting, Goto, TypeOK
  <2>2. \A d \in Caller : d # c => pc'[d] = "idle"
    BY <2>1, RestingIsIdle, Zenon
  <2>3. busClosed = 0 /\ \A m \in Module : stops[m] = 0
    BY <2>1, <1>b, Zenon DEF ModuleInv
  <2>4. TeardownOf(c)'
    BY <2>1, <2>3, LockedOrder DEF TeardownOf, WaitLabels
  <2>5. \A d \in Caller : TeardownOf(d)'
    BY <2>2, <2>4, Zenon DEF TeardownOf, WaitLabels
  <2>6. ModuleInv'
    BY <2>1, <1>a, <1>b DEF ModuleInv, Resting
  <2>7. StoppedAtMostOnce'
    BY <2>1, <1>b, Zenon DEF StoppedAtMostOnce
  <2> QED
    BY <2>5, <2>6, <2>7, Zenon DEF TeardownInv
<1>2. ASSUME NEW c \in Caller, LockSortedModules(c) PROVE TeardownInv'
  <2>1. /\ pc[c] = "sort" /\ state = "initializing" /\ idx[c] = 0
        /\ pc'[c] \in {"init", "snapshot"}
        /\ UNCHANGED <<state, path, idx, modVars>>
        /\ \A d \in Caller : d # c => pc'[d] = pc[d]
    BY <1>2, <1>b DEF LockSortedModules, Goto, TypeOK, PhaseOf, TeardownOf
  <2>2. Len(orderedMods') \in Nat
    BY RegistrationsAreSeqs DEF TypeOK
  <2>3. TeardownOf(c)'
    <3>1. busClosed = 0 /\ \A m \in Module : stops[m] = 0
      BY <2>1, <1>b, Zenon DEF TeardownOf
    <3>2. idx'[c] <= Len(orderedMods') /\ 1..idx'[c] = {}
      BY <2>1, <2>2
    <3> QED
      BY <2>1, <3>1, <3>2, Zenon DEF TeardownOf, WaitLabels
  <2>4. \A d \in Caller : TeardownOf(d)'
    BY <2>1, <2>3, TeardownOthers, Zenon
  <2>5. ModuleInv' /\ StoppedAtMostOnce'
    BY <2>1, <1>b, Zenon DEF ModuleInv, StoppedAtMostOnce, Resting
  <2> QED
    BY <2>4, <2>5, Zenon DEF TeardownInv
<1>3. ASSUME NEW c \in Caller, InitModule(c) PROVE TeardownInv'
  <2> DEFINE m == orderedMods[idx[c] + 1]
  <2>1. /\ pc[c] = "init" /\ state = "initializing" /\ path[c] = "init"
        /\ idx[c] < Len(orderedMods) /\ idx[c] \in Nat
        /\ UNCHANGED <<state, orderedMods, path, stops, busClosed>>
    BY <1>3, <1>b, Zenon DEF InitModule, TypeOK, PhaseOf
  <2>2. m \in Module /\ \A i \in 1..idx[c] : orderedMods[i] # m /\ orderedMods[i] \in Module
    BY <2>1, LockedOrder
  <2>3. busClosed = 0 /\ \A x \in Module : stops[x] = 0
    BY <2>1, <1>b, Zenon DEF TeardownOf
  <2>4. /\ \A x \in Module : x # m => inited'[x] = inited[x]
        /\ \/ inited'[m] = "ok" /\ idx'[c] = idx[c] + 1 /\ pc'[c] = "init"
           \/ idx'[c] = idx[c] /\ pc'[c] = "snapshot"
        /\ \A d \in Caller : d # c => pc'[d] = pc[d]
    BY <1>3, <2>1, <2>2 DEF InitModule, Goto, TypeOK
  <2>5. \A i \in 1..idx'[c] : inited'[orderedMods[i]] = "ok"
    <3>1. \A i \in 1..idx[c] : inited'[orderedMods[i]] = "ok"
      BY <2>1, <2>2, <2>4, <1>b, Zenon DEF TeardownOf
    <3>2. CASE idx'[c] = idx[c]
      BY <3>1, <3>2, Zenon
    <3>3. CASE inited'[m] = "ok" /\ idx'[c] = idx[c] + 1
      <4>1. \A i \in 1..idx'[c] : i \in 1..idx[c] \/ i = idx[c] + 1
        BY <3>3, <2>1
      <4> QED
        BY <3>1, <3>3, <4>1, Zenon
    <3> QED
      BY <3>2, <3>3, <2>4, Zenon
  <2>6. TeardownOf(c)'
    <3>1. idx'[c] <= Len(orderedMods)
      <4>1. Len(orderedMods) \in Nat /\ idx'[c] \in {idx[c], idx[c] + 1}
        BY <2>4, LockedOrder, Zenon
      <4> QED
        BY <2>1, <4>1
    <3> QED
      BY <2>1, <2>3, <2>4, <2>5, <3>1, Zenon DEF TeardownOf, WaitLabels
  <2>7. \A d \in Caller : TeardownOf(d)'
    BY <2>1, <2>4, <2>6, TeardownOthers, Zenon
  <2>8. ModuleInv' /\ StoppedAtMostOnce'
    BY <2>1, <2>3 DEF ModuleInv, StoppedAtMostOnce, Resting
  <2> QED
    BY <2>7, <2>8, Zenon DEF TeardownInv
<1>4. ASSUME NEW c \in Caller, StartModule(c) PROVE TeardownInv'
  <2>1. /\ pc[c] = "start" /\ state = "starting" /\ path[c] = "start"
        /\ idx[c] < Len(orderedMods) /\ idx[c] \in Nat
        /\ UNCHANGED <<state, orderedMods, path, inited, stops, busClosed>>
        /\ idx'[c] = idx[c] + 1 /\ pc'[c] \in {"start", "snapshot"}
        /\ \A d \in Caller : d # c => pc'[d] = pc[d]
    BY <1>4, <1>b, Zenon DEF StartModule, TypeOK, PhaseOf
  <2>2. TeardownOf(c)'
    <3>1. idx'[c] <= Len(orderedMods)
      <4>1. Len(orderedMods) \in Nat
        BY LockedOrder, Zenon
      <4> QED
        BY <2>1, <4>1
    <3>2. busClosed = 0 /\ \A m \in Module : stops[m] = 0
      BY <2>1, <1>b, Zenon DEF TeardownOf
    <3> QED
      BY <2>1, <3>1, <3>2, Zenon DEF TeardownOf, WaitLabels
  <2>3. \A d \in Caller : TeardownOf(d)'
    BY <2>1, <2>2, TeardownOthers, Zenon
  <2>4. ModuleInv' /\ StoppedAtMostOnce'
    BY <2>1, <1>b, Zenon DEF ModuleInv, StoppedAtMostOnce
  <2> QED
    BY <2>3, <2>4, Zenon DEF TeardownInv
<1>5. ASSUME NEW c \in Caller, PhaseSucceeded(c) PROVE TeardownInv'
  <2>1. /\ pc[c] \in {"init", "start"} /\ idx[c] = Len(orderedMods)
        /\ pc'[c] = "idle"
        /\ UNCHANGED <<orderedMods, modVars>>
        /\ \/ pc[c] = "init" /\ path[c] = "init" /\ state' = "initialized"
           \/ pc[c] = "start" /\ state = "starting" /\ state' = "running"
        /\ \A d \in Caller : d # c => pc'[d] = pc[d]
    BY <1>5, <1>b, Zenon DEF PhaseSucceeded, Goto, TypeOK, PhaseOf
  <2>2. TeardownOf(c)'
    BY <2>1, Zenon DEF TeardownOf, WaitLabels
  <2>3. \A d \in Caller : TeardownOf(d)'
    BY <2>1, <2>2, TeardownOthers, Zenon
  <2>4. busClosed = 0 /\ \A x \in Module : stops[x] = 0
    BY <2>1, <1>b, Zenon DEF TeardownOf
  <2>5. \A i \in 1..Len(orderedMods) : inited[orderedMods[i]] = "ok"
    BY <2>1, <1>b, Zenon DEF TeardownOf, ModuleInv
  <2>6. ModuleInv' /\ StoppedAtMostOnce'
    BY <2>1, <2>4, <2>5, <1>b, Zenon DEF ModuleInv, StoppedAtMostOnce, Resting
  <2> QED
    BY <2>3, <2>6, Zenon DEF TeardownInv
<1>6. ASSUME NEW c \in Caller,
             \/ PhaseCancelled(c) \/ SnapshotTasks(c) \/ CancelTasks(c) \/ AwaitTasks(c)
             \/ DrainTaskErrs(c) \/ ModulesStopped(c)
      PROVE  TeardownInv'
  <2>1. /\ UNCHANGED <<state, orderedMods, path, idx, modVars>>
        /\ \A d \in Caller : d # c => pc'[d] = pc[d]
        /\ \/ pc[c] \in {"init", "start"} \cup WaitLabels /\ pc'[c] \in WaitLabels
           \/ pc[c] = "stopMods" /\ pc'[c] = "closeBus"
    BY <1>6, Zenon DEF PhaseCancelled, SnapshotTasks, CancelTasks, AwaitTasks, DrainTaskErrs,
        ModulesStopped, Goto, TypeOK, WaitLabels
  <2>2. TeardownOf(c)'
    BY <2>1, <1>b, Zenon DEF TeardownOf, PhaseOf, WaitLabels
  <2>3. \A d \in Caller : TeardownOf(d)'
    BY <2>1, <2>2, TeardownOthers, Zenon DEF WaitLabels
  <2>4. ModuleInv' /\ StoppedAtMostOnce'
    BY <2>1, <1>b, Zenon DEF ModuleInv, StoppedAtMostOnce
  <2> QED
    BY <2>3, <2>4, Zenon DEF TeardownInv
<1>7. ASSUME NEW c \in Caller, ResetTaskCtx(c) PROVE TeardownInv'
  <2>1. /\ pc[c] = "reset" /\ pc'[c] = "stopMods"
        /\ UNCHANGED <<state, orderedMods, path, modVars>>
        /\ idx'[c] = IF path[c] = "stop" THEN Len(orderedMods) ELSE idx[c]
        /\ \A d \in Caller : d # c => pc'[d] = pc[d]
    BY <1>7, Zenon DEF ResetTaskCtx, Goto, TypeOK
  <2>2. busClosed = 0 /\ \A m \in Module : stops[m] = 0
    BY <2>1, <1>b, Zenon DEF TeardownOf, WaitLabels
  <2>3. idx'[c] <= Len(orderedMods)
    <3>1. idx[c] <= Len(orderedMods)
      BY <2>1, <1>b, Zenon DEF TeardownOf, WaitLabels
    <3>2. Len(orderedMods) \in Nat
      BY LockedOrder, Zenon
    <3> QED
      BY <2>1, <3>1, <3>2
  <2>4. \A i \in 1..idx'[c] : stops[orderedMods[i]] = 0
    <3> TAKE i \in 1..idx'[c]
    <3>1. i \in 1..Len(orderedMods)
      <4>1. Len(orderedMods) \in Nat /\ idx[c] \in Nat
        BY LockedOrder, Zenon DEF TypeOK
      <4>2. idx'[c] \in Nat
        BY <2>1, <4>1, Zenon
      <4> QED
        BY <2>3, <4>1, <4>2
    <3> QED
      BY <3>1, <2>2, LockedOrder, Zenon
  <2>5. TeardownOf(c)'
    BY <2>1, <2>2, <2>3, <2>4, <1>b, Zenon DEF TeardownOf, WaitLabels
  <2>6. \A d \in Caller : TeardownOf(d)'
    BY <2>1, <2>5, TeardownOthers, Zenon
  <2>7. ModuleInv' /\ StoppedAtMostOnce'
    BY <2>1, <1>b, Zenon DEF ModuleInv, StoppedAtMostOnce
  <2> QED
    BY <2>6, <2>7, Zenon DEF TeardownInv
<1>8. ASSUME NEW c \in Caller, StopModule(c) PROVE TeardownInv'
  <2> DEFINE m == orderedMods[idx[c]]
  <2>1. /\ pc[c] = "stopMods" /\ idx[c] \in Nat /\ idx[c] > 0
        /\ UNCHANGED <<state, orderedMods, pc, path, inited, busClosed>>
        /\ idx'[c] = idx[c] - 1
    BY <1>8, Zenon DEF StopModule, TypeOK
  <2>2. /\ busClosed = 0 /\ idx[c] <= Len(orderedMods)
        /\ \A i \in 1..idx[c] : stops[orderedMods[i]] = 0
    BY <2>1, <1>b, Zenon DEF TeardownOf
  <2>3. m \in Module /\ stops[m] = 0
    <3>1. idx[c] \in 1..idx[c] /\ idx[c] \in 1..Len(orderedMods)
      BY <2>1, <2>2, LockedOrder
    <3> QED
      BY <2>2, <3>1, LockedOrder, Zenon
  <2>4. inited[m] = "ok"
    <3>1. CASE path[c] = "init"
      BY <3>1, <2>1, <1>b DEF TeardownOf
    <3>2. CASE path[c] # "init"
      BY <3>2, <2>1, <2>2, <1>b, LockedOrder DEF ModuleInv, PhaseOf, TeardownLabels
    <3> QED
      BY <3>1, <3>2, Zenon
  <2>5. /\ \A x \in Module : x # m => stops'[x] = stops[x]
        /\ stops'[m] \in {0, 1}
    BY <1>8, <2>3 DEF StopModule, TypeOK
  <2>6. \A i \in 1..idx'[c] : /\ i \in 1..idx[c]
                              /\ orderedMods[i] \in Module
                              /\ orderedMods[i] # m
    <3> TAKE i \in 1..idx'[c]
    <3>1. i \in 1..idx[c] /\ i # idx[c]
      BY <2>1
    <3>2. i \in 1..Len(orderedMods) /\ idx[c] \in 1..Len(orderedMods)
      BY <3>1, <2>1, <2>2, LockedOrder
    <3> QED
      BY <3>1, <3>2, LockedOrder, Zenon
  <2>7. \A i \in 1..idx'[c] : stops'[orderedMods[i]] = 0
    <3> TAKE i \in 1..idx'[c]
    <3>1. stops[orderedMods[i]] = 0
      BY <2>2, <2>6, Zenon
    <3> QED
      BY <3>1, <2>5, <2>6, Zenon
  <2>8. TeardownOf(c)'
    <3>1. idx'[c] <= Len(orderedMods)
      <4>1. idx[c] <= Len(orderedMods) /\ Len(orderedMods) \in Nat
        BY <2>2, LockedOrder, Zenon
      <4> QED
        BY <2>1, <4>1
    <3>2. path[c] = "init" => \A i \in 1..idx'[c] : inited[orderedMods[i]] = "ok"
      BY <2>1, <2>6, <1>b, Zenon DEF TeardownOf
    <3> QED
      BY <2>1, <2>2, <2>7, <3>1, <3>2, Zenon DEF TeardownOf, WaitLabels
  <2>9. \A d \in Caller : TeardownOf(d)'
    BY <2>1, <2>8, TeardownOthers, Zenon
  <2>10. ModuleInv'
    BY <2>1, <1>b, RestingIsIdle, Zenon DEF ModuleInv
  <2>11. StoppedAtMostOnce'
    <3>1. stops'[m] <= 1
      BY <2>5
    <3>2. ASSUME NEW x \in Module PROVE stops'[x] <= 1 /\ (stops'[x] > 0 => inited'[x] = "ok")
      <4>1. CASE x = m
        BY <2>1, <2>4, <3>1, <4>1, Zenon
      <4>2. CASE x # m
        BY <2>1, <2>5, <4>2, <1>b, Zenon DEF StoppedAtMostOnce
      <4> QED
        BY <4>1, <4>2, Zenon
    <3> QED
      BY <2>1, <1>b, <3>2, Zenon DEF StoppedAtMostOnce
  <2> QED
    BY <2>9, <2>10, <2>11, Zenon DEF TeardownInv
<1>9. ASSUME NEW c \in Caller, CloseEventBus(c) PROVE TeardownInv'
  <2>1. /\ pc[c] = "closeBus" /\ pc'[c] = "finish" /\ busClosed = 0 /\ busClosed' = 1
        /\ UNCHANGED <<state, orderedMods, inited, stops>>
        /\ \A d \in Caller : d # c => pc'[d] = pc[d]
    <3>1. pc[c] = "closeBus" => busClosed = 0
      BY <1>b, Zenon DEF TeardownOf
    <3> QED
      BY <1>9, <3>1 DEF CloseEventBus, Goto, TypeOK
  <2>2. TeardownOf(c)'
    BY <2>1, Zenon DEF TeardownOf, WaitLabels
  <2>3. \A d \in Caller : TeardownOf(d)'
    BY <2>1, <2>2, TeardownOthers, Zenon
  <2>4. ModuleInv'
    BY <2>1, <1>b, RestingIsIdle, Zenon DEF ModuleInv
  <2>5. StoppedAtMostOnce'
    BY <2>1, <1>b, StoppedKept, Zenon
  <2> QED
    BY <2>3, <2>4, <2>5, Zenon DEF TeardownInv
<1>10. ASSUME NEW c \in Caller, Finish(c) PROVE TeardownInv'
  <2>1. /\ pc[c] = "finish" /\ pc'[c] = "idle" /\ state' = "stopped"
        /\ UNCHANGED modVars
        /\ \A d \in Caller : d # c => pc'[d] = pc[d]
    BY <1>10, Zenon DEF Finish, Goto, TypeOK
  <2>2. TeardownOf(c)'
    BY <2>1, Zenon DEF TeardownOf, WaitLabels
  <2>3. \A d \in Caller : TeardownOf(d)'
    BY <2>1, <2>2, TeardownOthers, Zenon
  <2>4. ModuleInv' /\ StoppedAtMostOnce'
    BY <2>1, <1>b, Zenon DEF ModuleInv, StoppedAtMostOnce, Resting
  <2> QED
    BY <2>3, <2>4, Zenon DEF TeardownInv
<1> QED
  BY <1>0, <1>1, <1>2, <1>3, <1>4, <1>5, <1>6, <1>7, <1>8, <1>9, <1>10, Zenon
  DEF Next, CallerStep, vars, RegisterModule, CtxDone, StopModulesAgain, Go, TaskReturns

\* Every step of the manager is a step of Lifecycle or changes nothing it sees.
LEMMA LifecycleStep ==
  TypeOK /\ PhaseInv /\ TeardownInv /\ [Next]_vars
    => [Abstract!LifecycleNext]_(Abstract!lifecycleVars)
<1> SUFFICES ASSUME TypeOK, PhaseInv, TeardownInv, [Next]_vars
             PROVE  [Abstract!LifecycleNext]_(Abstract!lifecycleVars)
  BY Zenon
<1> USE DEF mgrVars, callerVars, taskVars, modVars
<1>b. ModuleInv /\ StoppedAtMostOnce /\ \A c \in Caller : TeardownOf(c) /\ PhaseOf(c)
  BY Zenon DEF TeardownInv, PhaseInv
<1>0. ASSUME UNCHANGED <<state, tasks, stops, busClosed>>
      PROVE  UNCHANGED Abstract!lifecycleVars
  BY <1>0, Zenon DEF Abstract!lifecycleVars
<1>a. ASSUME UNCHANGED <<tasks, stops, busClosed>>,
             \/ /\ busClosed = 0
                /\ \/ state = "configuring" /\ state' \in {"initializing", "stopping"}
                   \/ state = "initializing" /\ state' = "initialized"
                   \/ state = "initialized" /\ state' \in {"starting", "stopping"}
                   \/ state = "starting" /\ state' = "running"
                   \/ state = "running" /\ state' = "stopping"
             \/ /\ busClosed = 1
                /\ state \in {"initializing", "starting", "stopping"} /\ state' = "stopped"
      PROVE  Abstract!Move
  <2>1. state' \in Abstract!Successors[state]
    <3>1. /\ Abstract!Successors["configuring"] = {"initializing", "stopping"}
          /\ Abstract!Successors["initializing"] = {"initialized", "stopped"}
      BY Zenon DEF Abstract!Successors
    <3>2. /\ Abstract!Successors["initialized"] = {"starting", "stopping"}
          /\ Abstract!Successors["starting"] = {"running", "stopped"}
      BY Zenon DEF Abstract!Successors
    <3>3. /\ Abstract!Successors["running"] = {"stopping"}
          /\ Abstract!Successors["stopping"] = {"stopped"}
      BY Zenon DEF Abstract!Successors
    <3>4. CASE state \in {"configuring", "initializing"}
      BY <1>a, <3>1, <3>4, Zenon
    <3>5. CASE state \in {"initialized", "starting"}
      BY <1>a, <3>2, <3>5, Zenon
    <3>6. CASE state \in {"running", "stopping"}
      BY <1>a, <3>3, <3>6, Zenon
    <3> QED
      BY <1>a, <3>4, <3>5, <3>6, Zenon
  <2> QED
    BY <1>a, <2>1, Zenon DEF Abstract!Move
<1>1. ASSUME NEW c \in Caller, InitModules(c) \/ StartModules(c) \/ StopModules(c)
      PROVE  Abstract!Move
  <2>1. /\ UNCHANGED <<tasks, stops, busClosed>>
        /\ \/ state = "configuring" /\ state' = "initializing"
           \/ state = "initialized" /\ state' = "starting"
           \/ state \in Resting /\ state' = "stopping"
    BY <1>1, Zenon DEF InitModules, StartModules, StopModules, Enter, Resting
  <2>2. busClosed = 0
    BY <2>1, <1>b, Zenon DEF ModuleInv, Resting
  <2> QED
    BY <2>1, <2>2, <1>a, Zenon DEF Resting
<1>2. ASSUME NEW c \in Caller, PhaseSucceeded(c) PROVE Abstract!Move
  <2>1. /\ UNCHANGED <<tasks, stops, busClosed>>
        /\ \/ pc[c] = "init" /\ state' = "initialized"
           \/ pc[c] = "start" /\ state' = "running"
    BY <1>2, Zenon DEF PhaseSucceeded
  <2>2. busClosed = 0
    BY <2>1, <1>b, Zenon DEF TeardownOf
  <2>3. /\ pc[c] = "init" => state = "initializing"
        /\ pc[c] = "start" => state = "starting"
    BY <1>b, Zenon DEF PhaseOf
  <2> QED
    BY <2>1, <2>2, <2>3, <1>a, Zenon
<1>3. ASSUME NEW c \in Caller, Finish(c) PROVE Abstract!Move
  <2>1. pc[c] = "finish" /\ state' = "stopped" /\ UNCHANGED <<tasks, stops, busClosed>>
    BY <1>3, Zenon DEF Finish
  <2>2. busClosed = 1
    BY <2>1, <1>b, Zenon DEF TeardownOf
  <2>3. state \in {"initializing", "starting", "stopping"}
    BY <2>1, <1>b, Zenon DEF PhaseOf, TeardownLabels
  <2> QED
    BY <2>1, <2>2, <2>3, <1>a, Zenon
<1>4. ASSUME NEW c \in Caller, StopModule(c)
      PROVE  UNCHANGED Abstract!lifecycleVars \/ \E m \in Module : Abstract!StopOnce(m)
  <2> DEFINE m == orderedMods[idx[c]]
  <2>1. pc[c] = "stopMods" /\ idx[c] \in Nat /\ idx[c] > 0
    BY <1>4, Zenon DEF StopModule, TypeOK
  <2>2. state \in Abstract!Busy
    BY <2>1, <1>b, Zenon DEF PhaseOf, TeardownLabels, Abstract!Busy
  <2>3. busClosed = 0 /\ idx[c] <= Len(orderedMods) /\ stops[m] = 0
    <3>1. TeardownOf(c)
      BY <1>b, Zenon
    <3>2. idx[c] \in 1..idx[c]
      BY <2>1
    <3> QED
      BY <2>1, <3>1, <3>2, Zenon DEF TeardownOf
  <2>4. m \in Module
    BY <2>1, <2>3, LockedOrder
  <2>5. CASE m \in Stopper
    <3>1. stops' = [stops EXCEPT ![m] = 1]
      <4>1. stops' = [stops EXCEPT ![m] = stops[m] + 1]
        BY <1>4, <2>5, Zenon DEF StopModule
      <4>2. stops[m] + 1 = 1
        BY <2>3
      <4> QED
        BY <4>1, <4>2, Zenon
    <3>2. Abstract!StopOnce(m)
      BY <1>4, <2>2, <2>3, <3>1, Zenon DEF StopModule, Abstract!StopOnce
    <3> QED
      BY <2>4, <3>2, Zenon
  <2>6. CASE m \notin Stopper
    BY <1>4, <2>6, Zenon DEF StopModule, Abstract!lifecycleVars
  <2> QED
    BY <2>5, <2>6, Zenon
<1>5. ASSUME NEW c \in Caller, CloseEventBus(c) PROVE Abstract!CloseBus
  <2>1. pc[c] = "closeBus"
    BY <1>5, Zenon DEF CloseEventBus
  <2>2. busClosed = 0
    BY <2>1, <1>b, Zenon DEF TeardownOf
  <2>3. state \in Abstract!Busy
    BY <2>1, <1>b, Zenon DEF PhaseOf, TeardownLabels, Abstract!Busy
  <2> QED
    BY <1>5, <2>2, <2>3 DEF CloseEventBus, Abstract!CloseBus
<1>6. ASSUME NEW t \in Task, Go(t) PROVE Abstract!Spawn(t)
  BY <1>6, Zenon DEF Go, Abstract!Spawn
<1>7. ASSUME NEW t \in Task, TaskReturns(t) PROVE Abstract!End(t)
  BY <1>7, Zenon DEF TaskReturns, Abstract!End
<1> QED
  BY <1>0, <1>1, <1>2, <1>3, <1>4, <1>5, <1>6, <1>7, Zenon
  DEF Next, CallerStep, vars, RegisterModule, StopModulesAgain, CtxDone, LockSortedModules,
      PhaseCancelled, InitModule, StartModule, SnapshotTasks, CancelTasks, AwaitTasks,
      DrainTaskErrs, ResetTaskCtx, ModulesStopped, Abstract!LifecycleNext

-----------------------------------------------------------------------------
(***************************************************************************)
(* Dependencies come first, and what is acquired is released.  The locked   *)
(* order is sorted; a phase has worked on the modules at its front and on   *)
(* no other, and the teardown has left to stop only modules still ahead of  *)
(* it, so that when it comes to a module those that depend on it are        *)
(* stopped.                                                                 *)
(***************************************************************************)
Front(order, m, n) == \E i \in 1..n : order[i] = m

\* What c's teardown is to stop: after a failed StartModules the modules whose Start
\* was called, else also those that were initialised.
Owes(c, m) == started[m] # "no" \/ (inited[m] = "ok" /\ path[c] # "start")

SortedInv ==
  /\ \A i \in 1..Len(orderedMods) : \A d \in DependsOn[orderedMods[i]] : Front(orderedMods, d, i - 1)
  /\ state # "stopped" =>
       \A m \in Module : inited[m] # "no" \/ started[m] # "no" => Front(orderedMods, m, Len(orderedMods))
  /\ state = "configuring" => \A m \in Module : inited[m] = "no"
  /\ state \in {"configuring", "initializing", "initialized"} =>
       \A m \in Module : started[m] = "no"

FrontOf(c) ==
  /\ pc[c] = "sort" => \A m \in Module : inited[m] = "no"
  /\ pc[c] = "init" => \A m \in Module : inited[m] # "no" => Front(orderedMods, m, idx[c])
  /\ pc[c] \in WaitLabels /\ path[c] = "init" =>
       \A m \in Module : inited[m] = "ok" => Front(orderedMods, m, idx[c])
  /\ pc[c] = "start" =>
       \A i \in 1..idx[c] : orderedMods[i] \in Starter => started[orderedMods[i]] = "ok"
  /\ pc[c] \in {"start"} \cup WaitLabels /\ path[c] = "start" =>
       \A m \in Module : started[m] # "no" => Front(orderedMods, m, idx[c])
  /\ pc[c] = "stopMods" =>
       \A m \in Stopper : Owes(c, m) => stops[m] = 1 \/ Front(orderedMods, m, idx[c])
  /\ pc[c] \in {"closeBus", "finish"} =>
       \A m \in Stopper : Owes(c, m) => stops[m] = 1

FrontInv == SortedInv /\ DependencyOrder /\ ResourcesReleased /\ \A c \in Caller : FrontOf(c)

\* After a step of the one busy caller, the others are idle and owe nothing.
LEMMA FrontOthers ==
  ASSUME TypeOK, PhaseInv, NEW c \in Caller, pc[c] # "idle",
         \A d \in Caller : d # c => pc'[d] = pc[d],
         FrontOf(c)'
  PROVE  \A d \in Caller : FrontOf(d)'
<1>1. \A d \in Caller : d # c => pc'[d] = "idle"
  BY Zenon DEF PhaseInv, PhaseExclusive
<1> QED
  BY <1>1, Zenon DEF FrontOf, WaitLabels

\* A front of n + 1 entries is one of n entries and the next.
LEMMA FrontGrows ==
  ASSUME NEW order, NEW m, NEW n \in Nat
  PROVE  Front(order, m, n + 1) <=> Front(order, m, n) \/ order[n + 1] = m
<1>1. 1..(n + 1) = 1..n \cup {n + 1}
  OBVIOUS
<1> QED
  BY <1>1, Zenon DEF Front

\* The entry before the next one is the last of the front.
LEMMA BeforeNext == \A k \in Nat : (k + 1) - 1 = k
  OBVIOUS

\* Every step keeps the front: phases extend it by one, the teardown shortens it by one.
LEMMA FrontNext ==
  TypeOK /\ PhaseInv /\ TeardownInv /\ FrontInv /\ [Next]_vars => FrontInv'
<1> SUFFICES ASSUME TypeOK, PhaseInv, TeardownInv, FrontInv, [Next]_vars PROVE FrontInv'
  BY Zenon
<1> USE DEF mgrVars, callerVars, modVars
<1>b. /\ SortedInv /\ DependencyOrder /\ ResourcesReleased /\ ModuleInv
      /\ \A c \in Caller : FrontOf(c) /\ PhaseOf(c) /\ TeardownOf(c)
  BY Zenon DEF FrontInv, TeardownInv, PhaseInv
<1>c. DependsOn \in [Module -> SUBSET Module] /\ Stopper \subseteq Module
  BY ModuleAssumption, Zenon
<1>0. ASSUME UNCHANGED <<state, orderedMods, pc, path, idx, modVars>> PROVE FrontInv'
  <2>1. SortedInv'
    BY <1>0, <1>b, Zenon DEF SortedInv
  <2>2. DependencyOrder' /\ ResourcesReleased'
    BY <1>0, <1>b, Zenon DEF DependencyOrder, ResourcesReleased
  <2>3. ASSUME NEW c \in Caller PROVE FrontOf(c)'
    <3>1. \A m \in Stopper : Owes(c, m)' <=> Owes(c, m)
      BY <1>0, Zenon DEF Owes
    <3> QED
      BY <1>0, <1>b, <3>1, Zenon DEF FrontOf
  <2> QED
    BY <2>1, <2>2, <2>3, Zenon DEF FrontInv
<1>1. ASSUME NEW c \in Caller, InitModules(c) \/ StartModules(c) \/ StopModules(c)
      PROVE  FrontInv'
  <2>1. /\ state \in Resting
        /\ UNCHANGED <<orderedMods, modVars>>
        /\ idx'[c] = 0
        /\ \/ /\ state = "configuring" /\ state' = "initializing"
              /\ pc'[c] = "sort"
           \/ /\ state = "initialized" /\ state' = "starting"
              /\ pc'[c] = "start"
           \/ state' = "stopping" /\ pc'[c] = "snapshot" /\ path'[c] = "stop"
        /\ \A d \in Caller : d # c => pc'[d] = pc[d]
    BY <1>1, Zenon DEF InitModules, StartModules, StopModules, Enter, Resting, Goto, TypeOK
  <2>2. \A d \in Caller : d # c => pc'[d] = "idle"
    BY <2>1, RestingIsIdle, Zenon
  <2>3. SortedInv'
    <3>1. state # "stopped" /\ state' # "configuring"
      BY <2>1, Zenon DEF Resting
    <3>2. state' \in {"configuring", "initializing", "initialized"} => state = "configuring"
      BY <2>1, Zenon
    <3> QED
      BY <2>1, <3>1, <3>2, <1>b, Zenon DEF SortedInv
  <2>4. DependencyOrder'
    BY <2>1, <1>b, Zenon DEF DependencyOrder
  <2>5. ResourcesReleased'
    BY <2>1, Zenon DEF ResourcesReleased
  <2>6. FrontOf(c)'
    <3>1. CASE pc'[c] = "sort"
      BY <3>1, <2>1, <1>b, Zenon DEF FrontOf, SortedInv, WaitLabels
    <3>2. CASE pc'[c] = "start"
      <4>0. idx'[c] = 0
        BY <2>1, Zenon
      <4>1. 1..idx'[c] = {}
        BY <4>0
      <4>2. \A m \in Module : started'[m] = "no"
        BY <3>2, <2>1, <1>b, Zenon DEF SortedInv
      <4> QED
        BY <3>2, <4>1, <4>2, Zenon DEF FrontOf, WaitLabels
    <3>3. CASE pc'[c] = "snapshot" /\ path'[c] = "stop"
      BY <3>3, Zenon DEF FrontOf, WaitLabels
    <3> QED
      BY <2>1, <3>1, <3>2, <3>3, Zenon
  <2>7. \A d \in Caller : FrontOf(d)'
    BY <2>2, <2>6, Zenon DEF FrontOf, WaitLabels
  <2> QED
    BY <2>3, <2>4, <2>5, <2>7, Zenon DEF FrontInv
<1>2. ASSUME NEW c \in Caller, LockSortedModules(c) PROVE FrontInv'
  <2>1. /\ pc[c] = "sort" /\ state = "initializing" /\ path[c] = "init"
        /\ pc'[c] \in {"init", "snapshot"}
        /\ UNCHANGED <<state, path, idx, modVars>>
        /\ \A d \in Caller : d # c => pc'[d] = pc[d]
    BY <1>2, <1>b, Zenon DEF LockSortedModules, Goto, TypeOK, PhaseOf
  <2>2. \A m \in Module : inited[m] = "no" /\ started[m] = "no"
    BY <2>1, <1>b, Zenon DEF FrontOf, SortedInv
  <2>3. \A i \in 1..Len(orderedMods') : \A d \in DependsOn[orderedMods'[i]] :
          Front(orderedMods', d, i - 1)
    <3>1. CASE Sort(moduleOrder).ok
      <4>1. orderedMods' = Sort(moduleOrder).order /\ orderedMods' \in Registrations
        BY <1>2, <3>1, SortAssumption, Zenon DEF LockSortedModules, TypeOK
      <4>2. DOMAIN orderedMods' = 1..Len(orderedMods')
        BY <4>1, RegistrationsAreSeqs
      <4>3. moduleOrder \in Registrations
        BY Zenon DEF TypeOK
      <4>4. \A i \in DOMAIN orderedMods' : \A d \in DependsOn[orderedMods'[i]] :
              \E j \in 1..(i - 1) : orderedMods'[j] = d
        BY <3>1, <4>1, <4>3, SortAssumption
      <4> QED
        BY <4>2, <4>4, Zenon DEF Front
    <3>2. CASE ~Sort(moduleOrder).ok
      <4>1. orderedMods' = <<>>
        BY <1>2, <3>2, Zenon DEF LockSortedModules
      <4>2. 1..Len(orderedMods') = {}
        BY <4>1
      <4> QED
        BY <4>2, Zenon
    <3> QED
      BY <3>1, <3>2, Zenon
  <2>4. SortedInv'
    BY <2>1, <2>2, <2>3, Zenon DEF SortedInv
  <2>5. DependencyOrder'
    BY <2>1, <1>b, Zenon DEF DependencyOrder
  <2>6. ResourcesReleased'
    BY <2>1, Zenon DEF ResourcesReleased
  <2>7. FrontOf(c)'
    BY <2>1, <2>2, Zenon DEF FrontOf, WaitLabels
  <2>8. \A d \in Caller : FrontOf(d)'
    BY <2>1, <2>7, FrontOthers, Zenon
  <2> QED
    BY <2>4, <2>5, <2>6, <2>8, Zenon DEF FrontInv
<1>3. ASSUME NEW c \in Caller, InitModule(c) PROVE FrontInv'
  <2> DEFINE n == idx[c] + 1
             m == orderedMods[n]
  <2>0. idx[c] \in Nat /\ Len(orderedMods) \in Nat /\ n \in 1..Len(orderedMods)
    <3>1. Len(orderedMods) \in Nat /\ idx[c] \in Nat /\ idx[c] < Len(orderedMods)
      BY <1>3, LockedOrder, Zenon DEF InitModule, TypeOK
    <3> QED
      BY <3>1
  <2>1. /\ pc[c] = "init" /\ state = "initializing" /\ path[c] = "init"
        /\ UNCHANGED <<state, orderedMods, path, started, stops, busClosed>>
        /\ \A d \in Caller : d # c => pc'[d] = pc[d]
    BY <1>3, <1>b, Zenon DEF InitModule, TypeOK, PhaseOf, Goto
  <2>2. m \in Module /\ ~Front(orderedMods, m, idx[c])
    <3>1. m \in Module /\ \A i \in 1..Len(orderedMods) : orderedMods[i] = m => i = n
      BY <2>0, LockedOrder, Zenon
    <3>2. \A i \in 1..idx[c] : i \in 1..Len(orderedMods) /\ i # n
      BY <2>0
    <3> QED
      BY <3>1, <3>2, Zenon DEF Front
  <2>3. inited[m] = "no"
    BY <2>1, <2>2, <1>b, Zenon DEF FrontOf
  <2>4. \A d \in DependsOn[m] : inited[d] = "ok" /\ d \in Module /\ d # m
    <3> TAKE d \in DependsOn[m]
    <3>1. d \in Module
      BY <2>2, <1>c, Zenon
    <3>2. Front(orderedMods, d, idx[c])
      BY <2>0, <1>b, BeforeNext, Zenon DEF SortedInv
    <3>3. inited[d] = "ok"
      <4>1. \A i \in 1..idx[c] : inited[orderedMods[i]] = "ok"
        BY <2>1, <1>b, Zenon DEF TeardownOf
      <4> QED
        BY <3>2, <4>1, Zenon DEF Front
    <3> QED
      BY <3>1, <3>2, <3>3, <2>2, Zenon
  <2>5. /\ \A x \in Module : x # m => inited'[x] = inited[x]
        /\ \/ inited'[m] = "ok" /\ idx'[c] = n /\ pc'[c] = "init"
           \/ inited'[m] = "failed" /\ idx'[c] = idx[c] /\ pc'[c] = "snapshot"
    BY <1>3, <2>1, <2>2, Zenon DEF InitModule, Goto, TypeOK
  <2>6. Front(orderedMods, m, n) /\ Front(orderedMods, m, Len(orderedMods))
    BY <2>0, FrontGrows DEF Front
  <2>7. SortedInv'
    BY <2>1, <2>5, <2>6, <1>b, Zenon DEF SortedInv
  <2>8. DependencyOrder'
    <3> SUFFICES ASSUME NEW x \in Module, NEW d \in DependsOn[x], inited'[x] # "no"
                 PROVE  inited'[d] = "ok"
      BY <2>1, <1>b, Zenon DEF DependencyOrder
    <3>1. d \in Module
      BY <1>c, Zenon
    <3>2. CASE x = m
      BY <3>2, <2>4, <2>5, Zenon
    <3>3. CASE x # m
      <4>1. inited[d] = "ok"
        <5>1. inited[x] # "no"
          BY <3>3, <2>5, Zenon
        <5> QED
          BY <5>1, <1>b, Zenon DEF DependencyOrder
      <4> QED
        BY <3>1, <4>1, <2>3, <2>5, Zenon
    <3> QED
      BY <3>2, <3>3, Zenon
  <2>9. ResourcesReleased'
    BY <2>1, Zenon DEF ResourcesReleased
  <2>10. FrontOf(c)'
    <3>1. \A x \in Module : inited[x] # "no" => Front(orderedMods, x, idx[c])
      BY <2>1, <1>b, Zenon DEF FrontOf
    <3>2. CASE idx'[c] = n /\ pc'[c] = "init"
      <4>1. ASSUME NEW x \in Module, inited'[x] # "no" PROVE Front(orderedMods, x, n)
        <5>1. CASE x = m
          BY <5>1, <2>6, Zenon
        <5>2. CASE x # m
          <6>1. Front(orderedMods, x, idx[c])
            BY <5>2, <4>1, <2>5, <3>1, Zenon
          <6> QED
            BY <2>0, <6>1, FrontGrows, Zenon
        <5> QED
          BY <5>1, <5>2, Zenon
      <4> QED
        BY <3>2, <4>1, <2>1, Zenon DEF FrontOf, WaitLabels
    <3>3. CASE inited'[m] = "failed" /\ idx'[c] = idx[c] /\ pc'[c] = "snapshot"
      <4>1. \A x \in Module : inited'[x] = "ok" => Front(orderedMods, x, idx[c])
        BY <3>1, <3>3, <2>5, Zenon
      <4> QED
        BY <3>3, <4>1, <2>1, Zenon DEF FrontOf, WaitLabels
    <3> QED
      BY <3>2, <3>3, <2>5, Zenon
  <2>11. \A d \in Caller : FrontOf(d)'
    BY <2>1, <2>10, FrontOthers, Zenon
  <2> QED
    BY <2>7, <2>8, <2>9, <2>11, Zenon DEF FrontInv
<1>4. ASSUME NEW c \in Caller, StartModule(c) PROVE FrontInv'
  <2> DEFINE n == idx[c] + 1
             m == orderedMods[n]
  <2>0. idx[c] \in Nat /\ Len(orderedMods) \in Nat /\ n \in 1..Len(orderedMods)
    <3>1. Len(orderedMods) \in Nat /\ idx[c] \in Nat /\ idx[c] < Len(orderedMods)
      BY <1>4, LockedOrder, Zenon DEF StartModule, TypeOK
    <3> QED
      BY <3>1
  <2>1. /\ pc[c] = "start" /\ state = "starting" /\ path[c] = "start"
        /\ UNCHANGED <<state, orderedMods, path, inited, stops, busClosed>>
        /\ idx'[c] = n
        /\ \A d \in Caller : d # c => pc'[d] = pc[d]
    BY <1>4, <1>b, Zenon DEF StartModule, TypeOK, PhaseOf
  <2>2. m \in Module /\ ~Front(orderedMods, m, idx[c])
    <3>1. m \in Module /\ \A i \in 1..Len(orderedMods) : orderedMods[i] = m => i = n
      BY <2>0, LockedOrder, Zenon
    <3>2. \A i \in 1..idx[c] : i \in 1..Len(orderedMods) /\ i # n
      BY <2>0
    <3> QED
      BY <3>1, <3>2, Zenon DEF Front
  <2>3. started[m] = "no"
    BY <2>1, <2>2, <1>b, Zenon DEF FrontOf
  <2>4. \A d \in DependsOn[m] : /\ d \in Starter => started[d] = "ok"
                                /\ d \in Module /\ d # m
    <3> TAKE d \in DependsOn[m]
    <3>1. d \in Module
      BY <2>2, <1>c, Zenon
    <3>2. Front(orderedMods, d, idx[c])
      BY <2>0, <1>b, BeforeNext, Zenon DEF SortedInv
    <3>3. d \in Starter => started[d] = "ok"
      <4>1. \A i \in 1..idx[c] : orderedMods[i] \in Starter => started[orderedMods[i]] = "ok"
        BY <2>1, <1>b, Zenon DEF FrontOf
      <4> QED
        BY <3>2, <4>1, Zenon DEF Front
    <3> QED
      BY <3>1, <3>2, <3>3, <2>2, Zenon
  <2>5. /\ \A x \in Module : x # m => started'[x] = started[x]
        /\ m \notin Starter => started'[m] = "no"
        /\ \/ pc'[c] = "start" /\ (m \in Starter => started'[m] = "ok")
           \/ pc'[c] = "snapshot"
    BY <1>4, <2>1, <2>2, Zenon DEF StartModule, TypeOK
  <2>6. Front(orderedMods, m, n) /\ Front(orderedMods, m, Len(orderedMods))
    BY <2>0, FrontGrows DEF Front
  <2>7. SortedInv'
    BY <2>1, <2>5, <2>6, <1>b, Zenon DEF SortedInv
  <2>8. DependencyOrder'
    <3>0. \A x \in Module : stops[x] = 0
      BY <2>1, <1>b, Zenon DEF TeardownOf
    <3>2. \A x \in Module : \A d \in DependsOn[x] : ~(stops'[d] > 0)
      <4> SUFFICES ASSUME NEW x \in Module PROVE ~(stops'[x] > 0)
        BY <1>c, Zenon
      <4>1. stops'[x] = 0
        BY <2>1, <3>0, Zenon
      <4> QED
        BY <4>1
    <3> SUFFICES ASSUME NEW x \in Module, NEW d \in DependsOn[x], started'[x] # "no"
                 PROVE  d \in Starter => started'[d] = "ok"
      BY <2>1, <3>2, <1>b, Zenon DEF DependencyOrder
    <3>1. d \in Module
      BY <1>c, Zenon
    <3>3. CASE x = m
      BY <3>3, <2>4, <2>5, Zenon
    <3>4. CASE x # m
      <4>1. d \in Starter => started[d] = "ok"
        <5>1. started[x] # "no"
          BY <3>4, <2>5, Zenon
        <5> QED
          BY <5>1, <1>b, Zenon DEF DependencyOrder
      <4> QED
        BY <3>1, <4>1, <2>3, <2>5, Zenon
    <3> QED
      BY <3>3, <3>4, Zenon
  <2>9. ResourcesReleased'
    BY <2>1, Zenon DEF ResourcesReleased
  <2>10. FrontOf(c)'
    <3>1. ASSUME NEW x \in Module, started'[x] # "no" PROVE Front(orderedMods, x, n)
      <4>1. CASE x = m
        BY <4>1, <2>6, Zenon
      <4>2. CASE x # m
        <5>1. Front(orderedMods, x, idx[c])
          BY <3>1, <4>2, <2>1, <2>5, <1>b, Zenon DEF FrontOf
        <5> QED
          BY <2>0, <5>1, FrontGrows, Zenon
      <4> QED
        BY <4>1, <4>2, Zenon
    <3>2. CASE pc'[c] = "start" /\ (m \in Starter => started'[m] = "ok")
      <4>1. ASSUME NEW i \in 1..n, orderedMods[i] \in Starter
            PROVE  started'[orderedMods[i]] = "ok"
        <5>1. CASE i = n
          BY <4>1, <5>1, <3>2, Zenon
        <5>2. CASE i # n
          <6>1. i \in 1..idx[c] /\ i \in 1..Len(orderedMods)
            BY <5>2, <2>0
          <6>2. started[orderedMods[i]] = "ok"
            BY <4>1, <6>1, <2>1, <1>b, Zenon DEF FrontOf
          <6> QED
            BY <6>1, <6>2, <2>3, <2>5, LockedOrder, Zenon
        <5> QED
          BY <5>1, <5>2, Zenon
      <4> QED
        BY <3>1, <3>2, <4>1, <2>1, Zenon DEF FrontOf, WaitLabels
    <3>3. CASE pc'[c] = "snapshot"
      BY <3>1, <3>3, <2>1, Zenon DEF FrontOf, WaitLabels
    <3> QED
      BY <3>2, <3>3, <2>5, Zenon
  <2>11. \A d \in Caller : FrontOf(d)'
    BY <2>1, <2>10, FrontOthers, Zenon
  <2> QED
    BY <2>7, <2>8, <2>9, <2>11, Zenon DEF FrontInv
<1>5. ASSUME NEW c \in Caller, PhaseSucceeded(c) PROVE FrontInv'
  <2>1. /\ pc[c] \in {"init", "start"} /\ pc'[c] = "idle"
        /\ UNCHANGED <<orderedMods, modVars>>
        /\ \/ state = "initializing" /\ state' = "initialized"
           \/ state = "starting" /\ state' = "running"
        /\ \A d \in Caller : d # c => pc'[d] = pc[d]
    BY <1>5, <1>b, Zenon DEF PhaseSucceeded, Goto, TypeOK, PhaseOf
  <2>2. SortedInv'
    BY <2>1, <1>b, Zenon DEF SortedInv
  <2>3. DependencyOrder' /\ ResourcesReleased'
    BY <2>1, <1>b, Zenon DEF DependencyOrder, ResourcesReleased
  <2>4. FrontOf(c)'
    BY <2>1, Zenon DEF FrontOf, WaitLabels
  <2>5. \A d \in Caller : FrontOf(d)'
    BY <2>1, <2>4, FrontOthers, Zenon
  <2> QED
    BY <2>2, <2>3, <2>5, Zenon DEF FrontInv
<1>6. ASSUME NEW c \in Caller,
             \/ PhaseCancelled(c) \/ SnapshotTasks(c) \/ CancelTasks(c) \/ AwaitTasks(c)
             \/ DrainTaskErrs(c) \/ ModulesStopped(c) \/ CloseEventBus(c)
      PROVE  FrontInv'
  <2>1. /\ UNCHANGED <<state, orderedMods, path, idx, inited, started, stops>>
        /\ \A d \in Caller : d # c => pc'[d] = pc[d]
        /\ \/ pc[c] \in {"init", "start"} \cup WaitLabels /\ pc'[c] \in WaitLabels
           \/ pc[c] = "stopMods" /\ idx[c] = 0 /\ pc'[c] = "closeBus"
           \/ pc[c] = "closeBus" /\ pc'[c] = "finish"
    BY <1>6, Zenon DEF PhaseCancelled, SnapshotTasks, CancelTasks, AwaitTasks, DrainTaskErrs,
        ModulesStopped, CloseEventBus, Goto, TypeOK, WaitLabels
  <2>2. SortedInv' /\ DependencyOrder' /\ ResourcesReleased'
    <3>1. SortedInv'
      BY <2>1, <1>b, Zenon DEF SortedInv
    <3>2. DependencyOrder'
      BY <2>1, <1>b, Zenon DEF DependencyOrder
    <3>3. ResourcesReleased'
      BY <2>1, <1>b, Zenon DEF ResourcesReleased
    <3> QED
      BY <3>1, <3>2, <3>3, Zenon
  <2>3. FrontOf(c)'
    <3>1. FrontOf(c) /\ PhaseOf(c)
      BY <1>b, Zenon
    <3>2. CASE pc[c] \in {"init", "start"} \cup WaitLabels /\ pc'[c] \in WaitLabels
      <4>1. path[c] = "init" => \A m \in Module : inited[m] = "ok" => Front(orderedMods, m, idx[c])
        BY <3>1, <3>2, Zenon DEF FrontOf, PhaseOf
      <4>2. path[c] = "start" => \A m \in Module : started[m] # "no" => Front(orderedMods, m, idx[c])
        BY <3>1, <3>2, Zenon DEF FrontOf, PhaseOf
      <4> QED
        BY <3>2, <4>1, <4>2, <2>1, Zenon DEF FrontOf, WaitLabels
    <3>3. CASE pc[c] = "stopMods" /\ idx[c] = 0 /\ pc'[c] = "closeBus"
      <4>0. 1..idx[c] = {}
        BY <3>3
      <4>1. \A m \in Stopper : ~Front(orderedMods, m, idx[c])
        BY <4>0, Zenon DEF Front
      <4>2. \A m \in Stopper : Owes(c, m) => stops[m] = 1
        BY <3>1, <3>3, <4>1, Zenon DEF FrontOf
      <4> QED
        BY <3>3, <4>2, <2>1, Zenon DEF FrontOf, Owes, WaitLabels
    <3>4. CASE pc[c] = "closeBus" /\ pc'[c] = "finish"
      BY <3>1, <3>4, <2>1, Zenon DEF FrontOf, Owes, WaitLabels
    <3> QED
      BY <2>1, <3>2, <3>3, <3>4, Zenon
  <2>4. \A d \in Caller : FrontOf(d)'
    BY <2>1, <2>3, FrontOthers, Zenon DEF WaitLabels
  <2> QED
    BY <2>2, <2>4, Zenon DEF FrontInv
<1>7. ASSUME NEW c \in Caller, ResetTaskCtx(c) PROVE FrontInv'
  <2>1. /\ pc[c] = "reset" /\ pc'[c] = "stopMods"
        /\ UNCHANGED <<state, orderedMods, path, modVars>>
        /\ idx'[c] = IF path[c] = "stop" THEN Len(orderedMods) ELSE idx[c]
        /\ \A d \in Caller : d # c => pc'[d] = pc[d]
    BY <1>7, Zenon DEF ResetTaskCtx, Goto, TypeOK
  <2>2. SortedInv' /\ DependencyOrder' /\ ResourcesReleased'
    <3>1. SortedInv'
      BY <2>1, <1>b, Zenon DEF SortedInv
    <3>2. DependencyOrder'
      BY <2>1, <1>b, Zenon DEF DependencyOrder
    <3>3. ResourcesReleased'
      BY <2>1, <1>b, Zenon DEF ResourcesReleased
    <3> QED
      BY <3>1, <3>2, <3>3, Zenon
  <2>3. ASSUME NEW m \in Stopper, Owes(c, m) PROVE Front(orderedMods, m, idx'[c])
    <3>1. FrontOf(c) /\ PhaseOf(c) /\ m \in Module
      BY <1>b, <1>c, Zenon
    <3>2. CASE path[c] = "stop"
      <4>1. state # "stopped" /\ idx'[c] = Len(orderedMods)
        BY <3>1, <3>2, <2>1, Zenon DEF PhaseOf, WaitLabels
      <4>2. inited[m] # "no" \/ started[m] # "no"
        BY <2>3, Zenon DEF Owes
      <4> QED
        BY <3>1, <4>1, <4>2, <1>b, Zenon DEF SortedInv
    <3>3. CASE path[c] = "start"
      BY <3>1, <3>3, <2>1, <2>3, Zenon DEF FrontOf, Owes, WaitLabels
    <3>4. CASE path[c] = "init"
      <4>1. started[m] = "no"
        BY <3>1, <3>4, <2>1, <1>b, Zenon DEF PhaseOf, SortedInv, WaitLabels
      <4> QED
        BY <3>1, <3>4, <4>1, <2>1, <2>3, Zenon DEF FrontOf, Owes, WaitLabels
    <3> QED
      BY <3>1, <3>2, <3>3, <3>4, <2>1, Zenon DEF PhaseOf, WaitLabels
  <2>4. FrontOf(c)'
    BY <2>1, <2>3, Zenon DEF FrontOf, Owes, WaitLabels
  <2>5. \A d \in Caller : FrontOf(d)'
    BY <2>1, <2>4, FrontOthers, Zenon
  <2> QED
    BY <2>2, <2>5, Zenon DEF FrontInv
<1>8. ASSUME NEW c \in Caller, StopModule(c) PROVE FrontInv'
  <2> DEFINE n == idx[c]
             d == orderedMods[n]
  <2>0. n \in Nat /\ n > 0
    BY <1>8, Zenon DEF StopModule, TypeOK
  <2>1. /\ pc[c] = "stopMods"
        /\ UNCHANGED <<state, orderedMods, pc, path, inited, started>>
        /\ idx'[c] = n - 1
    BY <1>8, Zenon DEF StopModule, TypeOK
  <2>2. n \in 1..Len(orderedMods) /\ Len(orderedMods) \in Nat
    <3>1. Len(orderedMods) \in Nat /\ n <= Len(orderedMods)
      BY <2>1, <1>b, LockedOrder, Zenon DEF TeardownOf
    <3> QED
      BY <2>0, <3>1
  <2>3. d \in Module /\ stops[d] = 0
    <3>1. n \in 1..n
      BY <2>0
    <3> QED
      BY <2>1, <2>2, <3>1, <1>b, LockedOrder, Zenon DEF TeardownOf
  <2>4. /\ \A x \in Module : x # d => stops'[x] = stops[x]
        /\ stops'[d] = IF d \in Stopper THEN 1 ELSE 0
    <3>1. stops' = IF d \in Stopper THEN [stops EXCEPT ![d] = @ + 1] ELSE stops
      BY <1>8, Zenon DEF StopModule
    <3>2. DOMAIN stops = Module
      BY Zenon DEF TypeOK
    <3> QED
      <4>1. CASE d \in Stopper
        <5>1. stops'[d] = stops[d] + 1 /\ \A x \in Module : x # d => stops'[x] = stops[x]
          BY <3>1, <3>2, <2>3, <4>1, Zenon
        <5>2. stops'[d] = 1
          BY <5>1, <2>3
        <5> QED
          BY <5>1, <5>2, <4>1, Zenon
      <4>2. CASE d \notin Stopper
        BY <3>1, <2>3, <4>2, Zenon
      <4> QED
        BY <4>1, <4>2, Zenon
  <2>5. \A x \in Stopper : Owes(c, x) => stops[x] = 1 \/ Front(orderedMods, x, n)
    BY <2>1, <1>b, Zenon DEF FrontOf
  <2>6. SortedInv'
    BY <2>1, <1>b, Zenon DEF SortedInv
  <2>7. ResourcesReleased'
    <3>1. state # "stopped"
      BY <2>1, <1>b, Zenon DEF PhaseOf, TeardownLabels
    <3> QED
      BY <2>1, <3>1, Zenon DEF ResourcesReleased
  <2>8. DependencyOrder'
    <3> SUFFICES ASSUME NEW x \in Module, NEW y \in DependsOn[x],
                        stops'[y] > 0, x \in Stopper, started[x] # "no"
                 PROVE  stops'[x] = 1
      BY <2>1, <1>b, Zenon DEF DependencyOrder
    <3>1. y \in Module
      BY <1>c, Zenon
    <3>2. CASE x = d
      BY <3>2, <2>4, Zenon
    <3>3. CASE x # d
      <4>1. CASE y # d
        <5>1. stops[y] > 0
          BY <3>1, <4>1, <2>4, Zenon
        <5>2. stops[x] = 1
          BY <5>1, <1>b, Zenon DEF DependencyOrder
        <5> QED
          BY <3>3, <5>2, <2>4, Zenon
      <4>2. CASE y = d
        <5>1. ASSUME Front(orderedMods, x, n) PROVE FALSE
          <6>1. PICK i \in 1..n : orderedMods[i] = x
            BY <5>1, Zenon DEF Front
          <6>2. i \in 1..Len(orderedMods)
            BY <2>2
          <6>3. PICK j \in 1..(i - 1) : orderedMods[j] = y
            BY <6>1, <6>2, <1>b, Zenon DEF SortedInv, Front
          <6>4. j \in 1..Len(orderedMods) /\ j # n
            BY <2>2, <6>2
          <6> QED
            BY <6>3, <6>4, <4>2, <2>2, LockedOrder, Zenon
        <5>2. stops[x] = 1
          BY <5>1, <2>5, Zenon DEF Owes
        <5> QED
          BY <3>3, <5>2, <2>4, Zenon
      <4> QED
        BY <4>1, <4>2, Zenon
    <3> QED
      BY <3>2, <3>3, Zenon
  <2>9. FrontOf(c)'
    <3>1. ASSUME NEW x \in Stopper, Owes(c, x) PROVE stops'[x] = 1 \/ Front(orderedMods, x, n - 1)
      <4>1. CASE x = d
        BY <4>1, <2>4, Zenon
      <4>2. CASE x # d /\ stops[x] = 1
        BY <4>2, <2>4, <1>c, Zenon
      <4>3. CASE x # d /\ Front(orderedMods, x, n)
        <5>1. n - 1 \in Nat /\ (n - 1) + 1 = n
          BY <2>0
        <5> QED
          BY <4>3, <5>1, FrontGrows, Zenon
      <4> QED
        BY <4>1, <4>2, <4>3, <3>1, <2>5, Zenon
    <3> QED
      BY <3>1, <2>1, Zenon DEF FrontOf, Owes, WaitLabels
  <2>10. \A e \in Caller : FrontOf(e)'
    BY <2>1, <2>9, FrontOthers, Zenon
  <2> QED
    BY <2>6, <2>7, <2>8, <2>10, Zenon DEF FrontInv
<1>9. ASSUME NEW c \in Caller, Finish(c) PROVE FrontInv'
  <2>1. /\ pc[c] = "finish" /\ pc'[c] = "idle" /\ state' = "stopped"
        /\ UNCHANGED <<path, modVars>>
        /\ orderedMods' = <<>> \/ orderedMods' = orderedMods
        /\ \A d \in Caller : d # c => pc'[d] = pc[d]
    BY <1>9, Zenon DEF Finish, Goto, TypeOK
  <2>2. SortedInv'
    <3>1. orderedMods' = <<>> => 1..Len(orderedMods') = {}
      OBVIOUS
    <3>2. \A i \in 1..Len(orderedMods') : \A d \in DependsOn[orderedMods'[i]] :
            Front(orderedMods', d, i - 1)
      BY <2>1, <3>1, <1>b, Zenon DEF SortedInv
    <3> QED
      BY <2>1, <3>2, Zenon DEF SortedInv
  <2>3. DependencyOrder'
    BY <2>1, <1>b, Zenon DEF DependencyOrder
  <2>4. ResourcesReleased'
    <3>1. \A m \in Stopper : Owes(c, m) => stops[m] = 1
      BY <2>1, <1>b, Zenon DEF FrontOf
    <3> QED
      BY <2>1, <3>1, Zenon DEF ResourcesReleased, Owes
  <2>5. FrontOf(c)'
    BY <2>1, Zenon DEF FrontOf, WaitLabels
  <2>6. \A d \in Caller : FrontOf(d)'
    BY <2>1, <2>5, FrontOthers, Zenon
  <2> QED
    BY <2>2, <2>3, <2>4, <2>6, Zenon DEF FrontInv
<1> QED
  BY <1>0, <1>1, <1>2, <1>3, <1>4, <1>5, <1>6, <1>7, <1>8, <1>9, Zenon
  DEF Next, CallerStep, vars, RegisterModule, CtxDone, StopModulesAgain, Go, TaskReturns

-----------------------------------------------------------------------------
(***************************************************************************)
(* AppRun, for any lists, hooks and other callers of StopModules.  Every    *)
(* step of Run is a step of the manager or leaves it alone, so that what    *)
(* is shown of the manager holds under Run; the outcome of Run rests on it. *)
(***************************************************************************)

\* The manager that a StopModules call of Run leaves behind, all tasks ended.
Clean == state = "stopped" /\ path[App] = "stop" /\ ~expired[App] /\ busClosed = 1

\* What Run has made of the manager, while nobody else called StopModules.
AloneInv ==
  /\ \A c \in Caller \ {App} : pc[c] = "idle" /\ path[c] = "none"
  /\ rpc \in {"setup", "register"} => state = "configuring"
  /\ rpc = "start" => state = "initialized"
  /\ rpc = "wait" => state = "running"
  /\ rpc = "pre" /\ errs = {} /\ ~unwinding => state = "running"
  /\ rpc \in {"post", "returned"} /\ errs = {} /\ ~unwinding => Clean

\* Where Run is says which call of the manager it is in and what it has done.
PlaceInv ==
  /\ rpc \notin {"initing", "starting", "stopping"} => pc[App] = "idle"
  /\ rpc \in {"initing", "starting"} => pre = 0 /\ post = 0 /\ errs = {}
  /\ rpc = "initing" => path[App] = "init"
  /\ rpc = "starting" => path[App] = "start"
  /\ rpc = "stopping" => path[App] = "stop"
  /\ rpc \in {"stopping", "post", "returned"} => pre = NPre
  /\ rpc = "returned" => post = NPost /\ ~unwinding
  /\ rpc \in {"post", "returned"} => state \in {"stopping", "stopped"}

RunInv ==
  /\ RunTypeOK
  /\ rpc # "absent" => PlaceInv
  /\ rpc # "absent" /\ ~meddled => AloneInv

-----------------------------------------------------------------------------
\* Run and those it shares the manager with take steps of the manager.
LEMMA RunIsNext == [RunNext]_<<vars, runVars>> => [Next]_vars
<1> SUFFICES ASSUME [RunNext]_<<vars, runVars>> PROVE [Next]_vars
  BY Zenon
<1>1. CASE Run
  BY <1>1, RunAssumption, Zenon
  DEF Run, Setup, Register, CallInit, CallStart, ContextSeen, InManager, Wait, PreStop, CallStop,
      PostStop, Return, Next
<1>2. CASE Signal \/ TimesOut
  BY <1>2, Zenon DEF Signal, TimesOut
<1>3. CASE Others
  BY <1>3, Zenon DEF Others, Next
<1> QED
  BY <1>1, <1>2, <1>3, Zenon DEF RunNext

\* A manager that stops stays so.
LEMMA StoppingStays ==
  ASSUME TypeOK, PhaseInv, [Next]_vars, state \in {"stopping", "stopped"}
  PROVE  state' \in {"stopping", "stopped"}
<1> USE DEF mgrVars
<1>1. ASSUME NEW c \in Caller, InitModules(c) \/ StartModules(c) \/ StopModules(c)
      PROVE  FALSE
  BY <1>1, Zenon DEF InitModules, StartModules, StopModules, Enter
<1>2. ASSUME NEW c \in Caller, PhaseSucceeded(c) PROVE FALSE
  BY <1>2, Zenon DEF PhaseSucceeded, PhaseInv, PhaseOf
<1>3. ASSUME NEW c \in Caller, Finish(c) PROVE state' = "stopped"
  BY <1>3, Zenon DEF Finish
<1>4. ASSUME UNCHANGED state PROVE state' \in {"stopping", "stopped"}
  BY <1>4, Zenon
<1> QED
  BY <1>1, <1>2, <1>3, <1>4, Zenon
  DEF Next, CallerStep, vars, RegisterModule, StopModulesAgain, CtxDone, LockSortedModules,
      PhaseCancelled, InitModule, StartModule, SnapshotTasks, CancelTasks, AwaitTasks, DrainTaskErrs,
      ResetTaskCtx, StopModule, ModulesStopped, CloseEventBus, Go, TaskReturns

\* A caller inside a method is not idle, and a step of one leaves the others alone.
LEMMA CallerAlone ==
  ASSUME TypeOK, NEW c \in Caller, CallerStep(c) \/ CtxDone(c)
  PROVE  /\ pc[c] # "idle"
         /\ \A d \in Caller : d # c => pc'[d] = pc[d] /\ path'[d] = path[d] /\ expired'[d] = expired[d]
<1> USE DEF TypeOK, Goto, callerVars
<1>1. CASE LockSortedModules(c)
  BY <1>1, Zenon DEF LockSortedModules
<1>2. CASE PhaseCancelled(c) \/ SnapshotTasks(c) \/ CancelTasks(c) \/ AwaitTasks(c) \/ DrainTaskErrs(c)
           \/ ResetTaskCtx(c) \/ ModulesStopped(c) \/ CloseEventBus(c)
  BY <1>2, Zenon DEF PhaseCancelled, SnapshotTasks, CancelTasks, AwaitTasks, DrainTaskErrs, ResetTaskCtx,
      ModulesStopped, CloseEventBus
<1>3. CASE InitModule(c)
  BY <1>3, Zenon DEF InitModule
<1>4. CASE StartModule(c)
  BY <1>4, Zenon DEF StartModule
<1>5. CASE PhaseSucceeded(c)
  BY <1>5, Zenon DEF PhaseSucceeded
<1>6. CASE StopModule(c)
  BY <1>6, Zenon DEF StopModule
<1>7. CASE Finish(c)
  BY <1>7, Zenon DEF Finish
<1>8. CASE CtxDone(c)
  BY <1>8, Zenon DEF CtxDone
<1> QED
  BY <1>1, <1>2, <1>3, <1>4, <1>5, <1>6, <1>7, <1>8, Zenon DEF CallerStep

\* Every step of Run and of those around it keeps where Run is and what it found.
LEMMA RunInvNext ==
  TypeOK /\ PhaseInv /\ TeardownInv /\ RunInv /\ [RunNext]_<<vars, runVars>> => RunInv'
<1> SUFFICES ASSUME TypeOK, PhaseInv, TeardownInv, RunInv, [RunNext]_<<vars, runVars>> PROVE RunInv'
  BY Zenon
<1> USE RunAssumption DEF Starting, Stopping, Over
<1>a. [Next]_vars
  BY RunIsNext, Zenon
<1>b. PhaseOf(App) /\ TeardownOf(App) /\ pc[App] \in Label
  BY Zenon DEF PhaseInv, TeardownInv, TypeOK
<1>c. RunTypeOK /\ (rpc # "absent" => PlaceInv) /\ (rpc # "absent" /\ ~meddled => AloneInv)
  BY Zenon DEF RunInv
\* The manager is left alone: what it was suffices.
<1>0. ASSUME UNCHANGED vars
      PROVE  UNCHANGED <<state, pc, path, expired, busClosed>>
  BY <1>0, Zenon DEF vars, mgrVars, callerVars, modVars
<1>1. ASSUME rpc # "absent", Setup PROVE RunInv'
  <2>1. /\ rpc = "setup" /\ rpc' \in {"register", "pre"} /\ UNCHANGED <<list, sig, late, pre, post, meddled>>
        /\ \/ rpc' = "register" /\ UNCHANGED <<errs, unwinding>>
           \/ rpc' = "pre" /\ errs' = errs \cup {"start"} /\ unwinding' = unwinding
           \/ rpc' = "pre" /\ errs' = errs /\ unwinding' = TRUE
        /\ UNCHANGED <<state, pc, path, expired, busClosed>>
    BY <1>1, <1>0, Zenon DEF Setup, RGoto, StartFails
  <2>2. RunTypeOK'
    BY <1>c, <2>1, Zenon DEF RunTypeOK, PlaceInv
  <2>3. PlaceInv'
    BY <1>c, <2>1, Zenon DEF PlaceInv
  <2>4. ~meddled' => AloneInv'
    BY <1>c, <2>1, Zenon DEF AloneInv
  <2> QED
    BY <2>2, <2>3, <2>4, Zenon DEF RunInv
<1>2. ASSUME rpc # "absent", UNCHANGED <<state, pc, path, expired, busClosed>>,
             rpc \in {"register", "start"} /\ StartFails
      PROVE RunInv'
  <2>1. /\ rpc' = "pre" /\ UNCHANGED <<list, sig, late, pre, post, unwinding, meddled>>
        /\ errs' = errs \cup {"start"}
    BY <1>2, Zenon DEF StartFails
  <2>2. RunTypeOK'
    BY <1>c, <1>2, <2>1, Zenon DEF RunTypeOK
  <2>3. PlaceInv'
    BY <1>c, <1>2, <2>1, Zenon DEF PlaceInv
  <2>4. ~meddled' => AloneInv'
    BY <1>c, <1>2, <2>1, Zenon DEF AloneInv
  <2> QED
    BY <2>2, <2>3, <2>4, Zenon DEF RunInv
\* Run is left where it is, and so are the manager's state and callers.
<1>3. ASSUME rpc # "absent", UNCHANGED runVars, UNCHANGED <<state, pc, path, expired, busClosed>>
      PROVE  RunInv'
  BY <1>3, Zenon DEF RunInv, runVars, RunTypeOK, PlaceInv, AloneInv, Clean
<1>4. ASSUME rpc # "absent", Register PROVE RunInv'
  <2>1. CASE StartFails /\ UNCHANGED vars
    BY <1>0, <1>2, <1>4, <2>1, Zenon DEF Register
  <2>2. CASE UNCHANGED runVars /\ \E m \in Module : RegisterModule(m)
    BY <1>3, <1>4, <2>2, Zenon DEF RegisterModule, callerVars, modVars
  <2> QED
    BY <1>4, <2>1, <2>2, Zenon DEF Register
\* Run enters a method of the manager.
<1>5. ASSUME rpc # "absent", CallInit \/ CallStart \/ (CallStop /\ StopModules(App)) PROVE RunInv'
  <2>1. CASE StartFails /\ UNCHANGED vars
    BY <1>0, <1>2, <1>5, <2>1, Zenon DEF CallInit, CallStart, CallStop, RGoto, StartFails
  <2>2. CASE ~StartFails
    <3>1. /\ \/ rpc = "register" /\ rpc' = "initing" /\ path'[App] = "init"
             \/ rpc = "start" /\ rpc' = "starting" /\ path'[App] = "start"
             \/ rpc = "pre" /\ pre = NPre /\ rpc' = "stopping" /\ path'[App] = "stop"
          /\ UNCHANGED <<list, sig, late, pre, post, errs, unwinding, meddled>>
          /\ \A c \in Caller \ {App} : pc'[c] = pc[c] /\ path'[c] = path[c]
      <4>1. CASE CallInit
        BY <1>5, <2>2, <4>1, Zenon DEF CallInit, RGoto, InitModules, Enter, Goto, TypeOK
      <4>2. CASE CallStart
        BY <1>5, <2>2, <4>2, Zenon DEF CallStart, RGoto, StartModules, Enter, Goto, TypeOK
      <4>3. CASE CallStop /\ StopModules(App)
        BY <1>5, <4>3, Zenon DEF CallStop, RGoto, StopModules, Enter, Goto, TypeOK
      <4> QED
        BY <1>5, <4>1, <4>2, <4>3, Zenon
    <3>2. RunTypeOK'
      BY <1>c, <3>1, Zenon DEF RunTypeOK
    <3>3. PlaceInv'
      BY <1>c, <3>1, <1>5, Zenon DEF PlaceInv, RunTypeOK
    <3>4. ~meddled' => AloneInv'
      BY <1>c, <3>1, <1>5, Zenon DEF AloneInv
    <3> QED
      BY <3>2, <3>3, <3>4, Zenon DEF RunInv
  <2>3. StartFails => UNCHANGED vars
    BY <1>5, Zenon DEF CallInit, CallStart, CallStop, RGoto, StartFails
  <2> QED
    BY <2>1, <2>2, <2>3, Zenon
<1>6. ASSUME rpc # "absent", ContextSeen PROVE RunInv'
  BY <1>6, <1>3, Zenon DEF ContextSeen, CtxDone, mgrVars, modVars
\* A step inside a call of the manager.
<1>7. ASSUME rpc # "absent", InManager PROVE RunInv'
  <2>0. /\ rpc \in {"initing", "starting", "stopping"}
        /\ CallerStep(App)
        /\ \A c \in Caller : c # App => pc'[c] = pc[c] /\ path'[c] = path[c]
    BY <1>7, CallerAlone, Zenon DEF InManager
  <2>1. CASE pc'[App] # "idle" /\ UNCHANGED runVars
    <3>1. path'[App] = path[App]
      BY <2>0, <2>1, Zenon DEF CallerStep, LockSortedModules, PhaseCancelled, InitModule, StartModule,
          PhaseSucceeded, SnapshotTasks, CancelTasks, AwaitTasks, DrainTaskErrs, ResetTaskCtx,
          StopModule, ModulesStopped, CloseEventBus, Finish, Goto, TypeOK
    <3>2. RunTypeOK'
      BY <1>c, <2>0, <2>1, Zenon DEF RunTypeOK, runVars
    <3>3. PlaceInv'
      BY <1>c, <1>7, <2>0, <2>1, <3>1, Zenon DEF PlaceInv, runVars
    <3>4. ~meddled' => AloneInv'
      BY <1>c, <1>7, <2>0, <2>1, Zenon DEF AloneInv, runVars
    <3> QED
      BY <3>2, <3>3, <3>4, Zenon DEF RunInv
  <2>2. CASE PhaseSucceeded(App) /\ RGoto(IF rpc = "initing" THEN "start" ELSE "wait")
    <3>1. /\ pc'[App] = "idle"
          /\ \/ rpc = "initing" /\ rpc' = "start" /\ state' = "initialized"
             \/ rpc = "starting" /\ rpc' = "wait" /\ state' = "running"
      <4>1. pc[App] = path[App] /\ path[App] \in {"init", "start"}
        BY <1>b, <2>2, Zenon DEF PhaseSucceeded, PhaseOf
      <4> QED
        BY <1>c, <1>7, <2>0, <2>2, <4>1, Zenon DEF PhaseSucceeded, Goto, TypeOK, PlaceInv, RGoto
    <3>2. UNCHANGED <<list, sig, late, pre, post, errs, unwinding, meddled>>
      BY <2>2, Zenon DEF RGoto
    <3>2a. pre = 0 /\ post = 0 /\ errs = {}
      BY <1>c, <1>7, <3>1, Zenon DEF PlaceInv
    <3>3. RunTypeOK'
      BY <1>c, <3>1, <3>2, <3>2a, Zenon DEF RunTypeOK
    <3>4. PlaceInv'
      BY <3>1, <3>2, Zenon DEF PlaceInv
    <3>5. ~meddled' => AloneInv'
      BY <1>c, <1>7, <2>0, <3>1, <3>2, Zenon DEF AloneInv
    <3> QED
      BY <3>3, <3>4, <3>5, Zenon DEF RunInv
  <2>3. CASE Finish(App) /\ rpc \in {"initing", "starting"} /\ StartFails
    <3>1. /\ pc'[App] = "idle" /\ rpc' = "pre" /\ errs' = errs \cup {"start"}
          /\ UNCHANGED <<list, sig, late, pre, post, unwinding, meddled>>
      BY <2>3, Zenon DEF Finish, Goto, TypeOK, StartFails
    <3>2. RunTypeOK'
      BY <1>c, <3>1, Zenon DEF RunTypeOK
    <3>3. PlaceInv'
      BY <3>1, Zenon DEF PlaceInv
    <3>4. ~meddled' => AloneInv'
      BY <1>c, <1>7, <2>0, <3>1, Zenon DEF AloneInv
    <3> QED
      BY <3>2, <3>3, <3>4, Zenon DEF RunInv
  <2>4. CASE Finish(App) /\ StopReturns
    <3>1. /\ pc'[App] = "idle" /\ state' = "stopped" /\ rpc = "stopping" /\ rpc' = "post"
          /\ errs' \in {errs, errs \cup {"stop"}}
          /\ UNCHANGED <<path, expired, busClosed, list, sig, late, pre, post, unwinding, meddled>>
      BY <2>4, Zenon DEF Finish, Goto, TypeOK, StopReturns, modVars
    <3>2. RunTypeOK'
      BY <1>c, <3>1, Zenon DEF RunTypeOK
    <3>3. PlaceInv'
      BY <1>c, <3>1, Zenon DEF PlaceInv
    <3>4. errs' = {} => Clean'
      <4>1. busClosed = 1
        BY <1>b, <2>4, Zenon DEF TeardownOf, Finish
      <4>2. errs' = {} => ~expired[App]
        BY <2>4, Zenon DEF StopReturns
      <4> QED
        BY <1>c, <3>1, <4>1, <4>2, Zenon DEF Clean, PlaceInv
    <3>5. ~meddled' => AloneInv'
      BY <1>c, <1>7, <2>0, <3>1, <3>4, Zenon DEF AloneInv
    <3> QED
      BY <3>2, <3>3, <3>5, Zenon DEF RunInv
  <2> QED
    BY <1>7, <2>1, <2>2, <2>3, <2>4, Zenon DEF InManager
<1>8. ASSUME rpc # "absent", Wait \/ PreStop \/ PostStop \/ Return \/ (CallStop /\ UNCHANGED vars)
      PROVE  RunInv'
  <2>1. /\ UNCHANGED <<state, pc, path, expired, busClosed>>
        /\ UNCHANGED <<list, sig, late, unwinding, meddled>>
    BY <1>8, <1>0, Zenon DEF Wait, PreStop, PostStop, Return, CallStop, RGoto
  <2>2. \/ rpc = "wait" /\ rpc' = "pre" /\ UNCHANGED <<pre, post, errs>>
        \/ /\ rpc = "pre" /\ pre < NPre /\ pre' = pre + 1 /\ post' = post
           /\ \/ rpc' = "pre" /\ errs' \in {errs, errs \cup {"pre"}}
              \/ rpc' = "panicked" /\ errs' = errs
        \/ /\ rpc = "post" /\ post < NPost /\ post' = post + 1 /\ pre' = pre
           /\ \/ rpc' = "post" /\ errs' \in {errs, errs \cup {"post"}}
              \/ rpc' = "panicked" /\ errs' = errs
        \/ /\ rpc = "post" /\ post = NPost /\ UNCHANGED <<pre, post, errs>>
           /\ rpc' = "panicked" \/ (rpc' = "returned" /\ ~unwinding)
        \/ /\ rpc = "pre" /\ pre = NPre /\ state \in {"stopping", "stopped"} /\ rpc' = "post"
           /\ UNCHANGED <<pre, post, errs>>
    <3>1. CASE Wait \/ Return
      BY <3>1, Zenon DEF Wait, Return, RGoto
    <3>2. CASE PreStop
      BY <3>2, Zenon DEF PreStop, Hook
    <3>3. CASE PostStop
      BY <3>3, Zenon DEF PostStop, Hook
    <3>4. CASE CallStop /\ UNCHANGED vars
      <4>1. ~StopModules(App)
        BY <3>4, <1>0, Zenon DEF StopModules, Enter
      <4> QED
        BY <3>4, <4>1, Zenon DEF CallStop, RGoto
    <3> QED
      BY <1>8, <3>1, <3>2, <3>3, <3>4, Zenon
  <2>3. RunTypeOK'
    <3>1. pre \in 0..NPre /\ post \in 0..NPost
      BY <1>c, Zenon DEF RunTypeOK
    <3>2. pre' \in 0..NPre /\ post' \in 0..NPost
      BY <2>2, <3>1
    <3>3. errs' \subseteq {"start", "pre", "stop", "post"}
      BY <1>c, <2>2, Zenon DEF RunTypeOK
    <3>4. rpc' \in {"pre", "post", "panicked", "returned"}
      BY <2>2, Zenon
    <3> QED
      BY <1>c, <2>1, <3>2, <3>3, <3>4, Zenon DEF RunTypeOK
  <2>4. PlaceInv'
    BY <1>c, <1>8, <2>1, <2>2, Zenon DEF PlaceInv
  <2>5. ~meddled' => AloneInv'
    BY <1>c, <1>8, <2>1, <2>2, Zenon DEF AloneInv, Clean
  <2> QED
    BY <2>3, <2>4, <2>5, Zenon DEF RunInv
<1>9. ASSUME rpc # "absent", Signal \/ TimesOut PROVE RunInv'
  <2>1. /\ UNCHANGED <<state, pc, path, expired, busClosed>>
        /\ UNCHANGED <<rpc, list, pre, post, errs, unwinding, meddled>>
        /\ sig' \in {sig, TRUE} /\ late' \in {late, TRUE}
    BY <1>9, <1>0, Zenon DEF Signal, TimesOut
  <2>2. sig \in BOOLEAN /\ late \in BOOLEAN
    BY <1>c, Zenon DEF RunTypeOK
  <2>3. sig' \in BOOLEAN /\ late' \in BOOLEAN
    BY <2>1, <2>2, Zenon
  <2>4. RunTypeOK'
    BY <1>c, <2>1, <2>3, Zenon DEF RunTypeOK
  <2>5. PlaceInv' /\ (~meddled' => AloneInv')
    BY <1>c, <1>9, <2>1, Zenon DEF PlaceInv, AloneInv, Clean
  <2> QED
    BY <2>4, <2>5, Zenon DEF RunInv
<1>10. ASSUME rpc # "absent", Others PROVE RunInv'
  <2>1. CASE \E t \in Task : (Go(t) \/ TaskReturns(t)) /\ UNCHANGED runVars
    BY <1>3, <1>10, <2>1, Zenon DEF Go, TaskReturns, mgrVars, callerVars, modVars
  <2>2. ASSUME NEW c \in Caller \ {App},
               \/ StopModules(c) /\ meddled' = TRUE
                  /\ UNCHANGED <<rpc, list, sig, late, pre, post, errs, unwinding>>
               \/ (CtxDone(c) \/ CallerStep(c)) /\ UNCHANGED runVars
        PROVE  RunInv'
    <3>1. pc'[App] = pc[App] /\ path'[App] = path[App]
      BY <2>2, CallerAlone, Zenon DEF StopModules, Enter, Goto, TypeOK
    <3>2. meddled' = TRUE
      <4>1. CASE StopModules(c)
        BY <2>2, <4>1, CallerAlone, Zenon DEF StopModules, Enter
      <4>2. CASE CtxDone(c) \/ CallerStep(c)
        <5>1. pc[c] # "idle"
          BY <2>2, <4>2, CallerAlone, Zenon
        <5>2. meddled = TRUE
          BY <5>1, <1>c, <1>10, <2>2, Zenon DEF AloneInv, RunTypeOK
        <5> QED
          BY <2>2, <4>2, <5>2, Zenon DEF runVars
      <4> QED
        BY <2>2, <4>1, <4>2, Zenon
    <3>3. UNCHANGED <<rpc, list, sig, late, pre, post, errs, unwinding>>
      BY <2>2, Zenon DEF runVars
    <3>4. RunTypeOK'
      BY <1>c, <3>1, <3>2, <3>3, Zenon DEF RunTypeOK
    <3>5. state \in {"stopping", "stopped"} => state' \in {"stopping", "stopped"}
      BY <1>a, StoppingStays, Zenon
    <3>6. PlaceInv'
      BY <1>c, <1>10, <3>1, <3>3, <3>5, Zenon DEF PlaceInv
    <3> QED
      BY <3>2, <3>4, <3>6, Zenon DEF RunInv
  <2> QED
    BY <1>10, <2>1, <2>2, Zenon DEF Others
<1>11. CASE rpc = "absent" /\ UNCHANGED runVars
  BY <1>11, Zenon DEF RunInv, RunTypeOK, runVars
<1>12. CASE rpc # "absent" /\ UNCHANGED <<vars, runVars>>
  BY <1>12, <1>0, <1>3, Zenon
<1>13. ASSUME rpc # "absent", Run PROVE RunInv'
  <2>1. CallStop => (CallStop /\ StopModules(App)) \/ (CallStop /\ UNCHANGED vars)
    BY Zenon DEF CallStop
  <2> QED
    BY <1>1, <1>4, <1>5, <1>6, <1>7, <1>8, <1>13, <2>1, Zenon DEF Run
<1> QED
  BY <1>9, <1>10, <1>11, <1>12, <1>13, Zenon DEF RunNext

-----------------------------------------------------------------------------
(***************************************************************************)
(* The theorems.                                                           *)
(***************************************************************************)
INSTANCE FiniteSetTheorems

\* Registering a module that is not registered yet gives a registration order.
LEMMA AppendRegistration ==
  ASSUME NEW r \in Registrations, NEW m \in Module,
         \A i \in DOMAIN r : r[i] # m
  PROVE  Append(r, m) \in Registrations
<1> DEFINE n == Len(r) + 1
           s == Append(r, m)
<1>1. /\ r \in Seq(Module)
      /\ \A i, j \in 1..Len(r) : r[i] = r[j] => i = j
      /\ Len(r) \in Nat
  BY RegistrationsAreSeqs
<1>2. /\ s \in [1..n -> Module]
      /\ \A i, j \in 1..n : s[i] = s[j] => i = j
  <2>1. s \in Seq(Module) /\ Len(s) = n
    BY <1>1
  <2>2. s \in [1..n -> Module]
    BY <2>1, SeqIsFunction, Zenon
  <2>3. \A i \in 1..n : s[i] = IF i = n THEN m ELSE r[i]
    BY <1>1
  <2>4. \A i \in 1..Len(r) : r[i] # m
    BY <1>1
  <2> QED
    BY <1>1, <2>2, <2>3, <2>4
<1>3. s \in Injection(1..n, Module)
  BY <1>2, Zenon DEF Injection, IsInjective
<1>4. Cardinality(1..n) <= Cardinality(Module) /\ Cardinality(Module) \in Nat
  BY <1>3, FS_Injection, FS_CardinalityType, ModuleAssumption, Zenon
<1>5. Cardinality(1..n) = n
  BY <1>1, FS_Interval
<1>6. n \in 0..Cardinality(Module)
  BY <1>1, <1>4, <1>5
<1> QED
  BY <1>2, <1>6, Zenon DEF Registrations

\* The empty sequence is a registration order.
LEMMA EmptyRegistration == <<>> \in Registrations
<1>1. <<>> \in [1..0 -> Module]
  OBVIOUS
<1>2. 0 \in 0..Cardinality(Module)
  BY FS_CardinalityType, ModuleAssumption
<1> QED
  BY <1>1, <1>2 DEF Registrations

\* Registration orders grow by the modules that are not registered yet.
LEMMA Registering == RegistrationsGrow
  BY AppendRegistration, EmptyRegistration, Zenon DEF RegistrationsGrow

\* Every reachable state of the manager is well typed.
THEOREM TypeCorrect == Spec => []TypeOK
  BY Registering, TypeInit, TypeNext, PTL DEF Spec

\* At most one goroutine executes InitModules, StartModules or StopModules,
\* although the phases run without holding stateMu.
THEOREM PhaseExclusiveCorrect == Spec => []PhaseExclusive
<1>1. Init => PhaseInv
  BY DEF Init, PhaseInv, PhaseExclusive, PhaseOf, WaitLabels, TeardownLabels
<1>2. PhaseInv => PhaseExclusive
  BY Zenon DEF PhaseInv
<1> QED
  BY <1>1, <1>2, TypeCorrect, PhaseNext, PTL DEF Spec

\* What is said of task contexts holds in every reachable state.
LEMMA ContextCorrect == Spec => []ContextInv
<1>1. Init => PhaseInv /\ ContextInv
  BY DEF Init, PhaseInv, PhaseExclusive, PhaseOf, WaitLabels, TeardownLabels,
      ContextInv, Working
<1> QED
  BY <1>1, TypeCorrect, PhaseNext, ContextNext, PTL DEF Spec

\* Every task that is registered while waitForTasks waits has its context
\* cancelled: Go cannot slip one in under a live context.
THEOREM CancellationCorrect == Spec => []CancellationReachesAll
<1>1. ContextInv => CancellationReachesAll
  BY Zenon DEF ContextInv, CancellationReachesAll
<1> QED
  BY <1>1, ContextCorrect, PTL

\* Tasks of a manager that is configuring, initialised or running have the
\* live context, whatever contexts its callers' phases were given.
THEOREM TaskContextCorrect == Spec => []TaskContextLive
<1>1. ContextInv => TaskContextLive
  BY Zenon DEF ContextInv, TaskContextLive, Working, Resting
<1> QED
  BY <1>1, ContextCorrect, PTL

\* Task contexts agree with the phases: cancelled for every task while one is
\* awaited, live for every task while the manager works.
THEOREM TaskContextsCorrect == Spec => []TaskContexts
<1>1. CancellationReachesAll /\ TaskContextLive => TaskContexts
  BY Zenon DEF TaskContexts
<1> QED
  BY <1>1, CancellationCorrect, TaskContextCorrect, PTL

\* StopModules never stops a module while a supervised task runs or a task
\* error is unreported, unless its context expired while it waited.
THEOREM StopAwaitsTasksCorrect == Spec => []StopAwaitsTasks
<1>1. Init => PhaseInv /\ AwaitInv
  BY Zenon DEF Init, PhaseInv, PhaseExclusive, PhaseOf, WaitLabels, TeardownLabels,
      AwaitInv, AwaitOf
<1>2. AwaitInv => StopAwaitsTasks
  BY Zenon DEF AwaitInv, AwaitOf, StopAwaitsTasks, InTeardown, Stopped
<1> QED
  BY <1>1, <1>2, TypeCorrect, PhaseNext, AwaitNext, PTL DEF Spec

\* So does what the teardown rests on.
LEMMA TeardownCorrect == Spec => [](TypeOK /\ PhaseInv /\ TeardownInv)
<1>1. Init => PhaseInv
  BY Zenon DEF Init, PhaseInv, PhaseExclusive, PhaseOf, WaitLabels, TeardownLabels
<1>2. Init => TeardownInv
  BY DEF Init, TeardownInv, ModuleInv, StoppedAtMostOnce, TeardownOf, WaitLabels
<1> QED
  BY <1>1, <1>2, TypeCorrect, PhaseNext, TeardownNext, PTL DEF Spec

\* No mixture of failing phases and StopModules calls stops a module or closes
\* the event bus twice, or stops a module that was not initialised.
THEOREM StoppedAtMostOnceCorrect == Spec => []StoppedAtMostOnce
<1>1. TeardownInv => StoppedAtMostOnce
  BY Zenon DEF TeardownInv
<1> QED
  BY <1>1, TeardownCorrect, PTL

\* No module's Stop is called once the event bus has been closed.
THEOREM BusClosedLastCorrect == Spec => BusClosedLast
<1>1. TypeOK /\ PhaseInv /\ TeardownInv /\ [Next]_vars
        => [busClosed > 0 => stops' = stops]_vars
  <2> SUFFICES ASSUME TypeOK, PhaseInv, TeardownInv, [Next]_vars, busClosed > 0
               PROVE  stops' = stops
    BY Zenon
  <2>1. ASSUME NEW c \in Caller, StopModule(c) PROVE FALSE
    <3>1. pc[c] = "stopMods"
      BY <2>1, Zenon DEF StopModule
    <3>2. TeardownOf(c)
      BY Zenon DEF TeardownInv
    <3>3. busClosed = 0
      BY <3>1, <3>2, Zenon DEF TeardownOf
    <3> QED
      BY <3>3
  <2> QED
    BY <2>1, Zenon DEF Next, CallerStep, vars, modVars, RegisterModule, InitModules, StartModules,
        StopModules, StopModulesAgain, CtxDone, LockSortedModules, PhaseCancelled, InitModule,
        StartModule, PhaseSucceeded, SnapshotTasks, CancelTasks, AwaitTasks, DrainTaskErrs,
        ResetTaskCtx, ModulesStopped, CloseEventBus, Finish, Go, TaskReturns
<1> QED
  BY <1>1, TeardownCorrect, PTL DEF Spec, BusClosedLast

\* The manager implements the specification of what it promises: states in one
\* direction, tasks only until it stops, each Stop once, the bus last.
THEOREM ImplementsLifecycleCorrect == Spec => ImplementsLifecycle
<1>1. Init => Abstract!LifecycleInit
  BY Zenon DEF Init, Abstract!LifecycleInit
<1> QED
  BY <1>1, TeardownCorrect, LifecycleStep, PTL DEF Spec, ImplementsLifecycle, Abstract!Spec

\* And what is said of the front of the order.
LEMMA FrontCorrect == Spec => []FrontInv
<1>1. Init => FrontInv
  <2> SUFFICES ASSUME Init PROVE FrontInv
    BY Zenon
  <2>1. 1..Len(orderedMods) = {}
    BY DEF Init
  <2>2. SortedInv
    BY <2>1, Zenon DEF Init, SortedInv
  <2>3. DependencyOrder /\ ResourcesReleased
    BY ModuleAssumption, Zenon DEF Init, DependencyOrder, ResourcesReleased
  <2>4. \A c \in Caller : FrontOf(c)
    BY Zenon DEF Init, FrontOf, WaitLabels
  <2> QED
    BY <2>2, <2>3, <2>4, Zenon DEF FrontInv
<1> QED
  BY <1>1, TeardownCorrect, FrontNext, PTL DEF Spec

\* Whatever phases fail or are cancelled and whichever calls race, a stopped manager has
\* stopped every Stopper that owes a release.
THEOREM ResourcesReleasedCorrect == Spec => []ResourcesReleased
<1>1. FrontInv => ResourcesReleased
  BY Zenon DEF FrontInv
<1> QED
  BY <1>1, FrontCorrect, PTL

\* Init and Start of a module come after those of its dependencies, and its Stop before
\* theirs, for every dependency graph that sortModules orders.
THEOREM DependencyOrderCorrect == Spec => []DependencyOrder
<1>1. FrontInv => DependencyOrder
  BY Zenon DEF FrontInv
<1> QED
  BY <1>1, FrontCorrect, PTL

\* A behaviour of the application runner is one of the manager.
LEMMA RunHasManager == RunSpec => Spec
<1>1. RunInit => Init
  BY Zenon DEF RunInit
<1> QED
  BY <1>1, RunIsNext, PTL DEF RunSpec, Spec

\* The invariants of the manager and of Run hold at all times.
LEMMA RunInvariant == RunSpec => [](TypeOK /\ PhaseInv /\ TeardownInv /\ RunInv)
<1>1. RunInit => RunInv
  <2> SUFFICES ASSUME RunInit PROVE RunInv
    BY Zenon
  <2>1. /\ rpc \in {"setup", "absent"} /\ list \in Lists
        /\ sig = FALSE /\ late = FALSE /\ unwinding = FALSE /\ meddled = FALSE
        /\ pre = 0 /\ post = 0 /\ errs = {} /\ state = "configuring"
        /\ \A c \in Caller : pc[c] = "idle" /\ path[c] = "none"
    BY Zenon DEF RunInit, Init
  <2>2. 0 \in 0..NPre /\ 0 \in 0..NPost
    BY RunAssumption
  <2>3. RunTypeOK
    BY <2>1, <2>2, RunAssumption, Zenon DEF RunTypeOK, Starting
  <2>4. PlaceInv /\ AloneInv
    BY <2>1, RunAssumption, Zenon DEF PlaceInv, AloneInv
  <2> QED
    BY <2>3, <2>4, Zenon DEF RunInv
<1> QED
  BY <1>1, RunHasManager, TeardownCorrect, RunInvNext, PTL DEF RunSpec

\* However Run ends, it has run its hooks and the manager stops or has stopped; when it
\* returns nil and nobody else stopped the manager, no task is left, every initialised
\* module was stopped and the event bus is closed.
THEOREM RunOutcomeCorrect == RunSpec => []RunOutcome
<1>1. PhaseInv /\ RunInv /\ StopAwaitsTasks /\ ResourcesReleased => RunOutcome
  <2> SUFFICES ASSUME PhaseInv, RunInv, StopAwaitsTasks, ResourcesReleased PROVE RunOutcome
    BY Zenon
  <2>1. RunTypeOK /\ RunStopsManager
    BY Zenon DEF RunInv, PlaceInv, RunStopsManager
  <2>2. NilMeansClean
    <3> SUFFICES ASSUME rpc = "returned", errs = {}, ~meddled
                 PROVE  /\ tasks = {} /\ busClosed = 1
                        /\ \A m \in Stopper : inited[m] = "ok" => stops[m] = 1
      BY Zenon DEF NilMeansClean
    <3>1. Clean /\ pc[App] = "idle"
      BY Zenon DEF RunInv, AloneInv, PlaceInv
    <3>2. tasks = {}
      BY <3>1, RunAssumption, Zenon DEF Clean, StopAwaitsTasks, Stopped
    <3>3. \A c \in Caller : path[c] # "start"
      BY <3>1, Zenon DEF RunInv, AloneInv, Clean
    <3> QED
      BY <3>1, <3>2, <3>3, Zenon DEF Clean, ResourcesReleased
  <2> QED
    BY <2>1, <2>2, Zenon DEF RunOutcome
<1> QED
  BY <1>1, RunInvariant, RunHasManager, StopAwaitsTasksCorrect, ResourcesReleasedCorrect, PTL

===============================================================================
