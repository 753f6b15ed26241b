--------------------------------- MODULE AppRun ---------------------------------
(***************************************************************************)
(* app.Run (app/app.go) over the Manager it constructs: setup, registration, *)
(* InitModules, StartModules, the wait for a signal, and the sequence of    *)
(* pre-stop hooks, StopModules and post-stop hooks that every way out of    *)
(* Run goes through.                                                        *)
(*                                                                         *)
(* The goroutine of Run is the caller App of Manager.  The setup hook may   *)
(* hand the manager to others, who call StopModules too.  A second signal   *)
(* during the shutdown ends the process and is left out.                    *)
(***************************************************************************)
EXTENDS Manager

CONSTANTS
  App,         \* the caller that is Run
  Lists,       \* the modules arguments Run may be given
  NPre, NPost  \* numbers of pre-stop and post-stop hooks

ASSUME RunAssumption == App \in Caller /\ NPre \in Nat /\ NPost \in Nat

VARIABLES
  rpc,      \* where Run is; "absent" when nobody calls it
  list,     \* the modules it was given
  sig,      \* the signal context is done
  late,     \* the shutdown-timeout context is done
  pre,      \* pre-stop hooks that ran
  post,     \* post-stop hooks that ran
  errs,     \* what is joined into Run's error
  unwinding,\* the setup hook panicked
  meddled   \* history: another goroutine has called StopModules

runVars == <<rpc, list, sig, late, pre, post, errs, unwinding, meddled>>

Starting == {"setup", "register", "init", "initing", "start", "starting"}
Stopping == {"pre", "stop", "stopping", "post"}
Over == {"returned", "panicked"}

RunTypeOK ==
  /\ rpc \in Starting \cup Stopping \cup Over \cup {"absent", "wait"}
  /\ list \in Lists /\ {sig, late, unwinding, meddled} \subseteq BOOLEAN
  /\ pre \in 0..NPre /\ post \in 0..NPost
  /\ errs \subseteq {"start", "pre", "stop", "post"}
  /\ rpc \in {"setup", "register", "init", "start", "wait", "absent"} =>
       pre = 0 /\ post = 0 /\ errs = {} /\ (rpc # "absent" => pc[App] = "idle")

RunInit ==
  /\ Init /\ rpc \in {"setup", "absent"} /\ list \in Lists /\ sig = FALSE /\ late = FALSE
  /\ pre = 0 /\ post = 0 /\ errs = {} /\ unwinding = FALSE /\ meddled = FALSE

RGoto(step) == rpc' = step /\ UNCHANGED <<list, sig, late, pre, post, errs, unwinding, meddled>>

\* startModules returns an error: the deferred function runs the stop sequence.
StartFails ==
  /\ rpc' = "pre" /\ errs' = errs \cup {"start"}
  /\ UNCHANGED <<list, sig, late, pre, post, unwinding, meddled>>

-----------------------------------------------------------------------------
(***************************************************************************)
(* startModules.                                                            *)
(***************************************************************************)
Setup ==
  /\ rpc = "setup" /\ UNCHANGED vars
  /\ \/ RGoto("register")
     \/ StartFails
     \/ /\ rpc' = "pre" /\ unwinding' = TRUE
        /\ UNCHANGED <<list, sig, late, pre, post, errs, meddled>>

\* One module of the list: a nil one (no member of Module), a name that is
\* taken and a manager that no longer configures are errors.
Register ==
  /\ rpc = "register" /\ Len(moduleOrder) < Len(list)
  /\ LET m == list[Len(moduleOrder) + 1]
         ok == m \in Module /\ state = "configuring" /\ \A i \in DOMAIN moduleOrder : moduleOrder[i] # m
     IN \/ ok /\ RegisterModule(m) /\ UNCHANGED runVars
        \/ ~ok /\ StartFails /\ UNCHANGED vars

CallInit ==
  /\ rpc = "register" /\ Len(moduleOrder) = Len(list)
  /\ \/ InitModules(App) /\ RGoto("initing")
     \/ state # "configuring" /\ StartFails /\ UNCHANGED vars

CallStart ==
  /\ rpc = "start"
  /\ \/ StartModules(App) /\ RGoto("starting")
     \/ state # "initialized" /\ StartFails /\ UNCHANGED vars

-----------------------------------------------------------------------------
(***************************************************************************)
(* Inside a call of the manager.                                            *)
(***************************************************************************)
\* The context that the call in progress was given.
Done == IF rpc \in Starting THEN sig ELSE late

ContextSeen ==
  /\ pc[App] # "idle" /\ Done /\ CtxDone(App) /\ UNCHANGED runVars

\* Mutant: an error of StopModules is not joined into Run's error.
StopReturnsUnjoined ==
  /\ rpc = "stopping" /\ rpc' = "post"
  /\ UNCHANGED <<list, sig, late, pre, post, errs, unwinding, meddled>>

\* StopModules returns: with an error when a task outlived it, or when a task or
\* a module's Stop had one.
StopReturns ==
  /\ rpc = "stopping" /\ rpc' = "post"
  /\ errs' \in {errs \cup {"stop"}} \cup (IF expired[App] THEN {} ELSE {errs})
  /\ UNCHANGED <<list, sig, late, pre, post, unwinding, meddled>>

InManager ==
  /\ rpc \in {"initing", "starting", "stopping"} /\ (Done => ctxDone[App])
  /\ CallerStep(App)
  /\ \/ pc'[App] # "idle" /\ UNCHANGED runVars
     \/ PhaseSucceeded(App) /\ RGoto(IF rpc = "initing" THEN "start" ELSE "wait")
     \/ Finish(App) /\ rpc \in {"initing", "starting"} /\ StartFails
     \/ Finish(App) /\ StopReturns

-----------------------------------------------------------------------------
(***************************************************************************)
(* The wait, and runStop.                                                   *)
(***************************************************************************)
Wait == rpc = "wait" /\ sig /\ RGoto("pre") /\ UNCHANGED vars

\* A hook's outcome. A panic leaves runStop, and with it Run.
Hook(kind) ==
  \/ errs' \in {errs, errs \cup {kind}} /\ UNCHANGED rpc
  \/ rpc' = "panicked" /\ UNCHANGED errs

PreStop ==
  /\ rpc = "pre" /\ pre < NPre /\ pre' = pre + 1 /\ Hook("pre")
  /\ UNCHANGED <<list, sig, late, post, unwinding, meddled, vars>>

\* Mutant: Run waits for a manager that can be stopped.
CallStopWaits == rpc = "pre" /\ pre = NPre /\ StopModules(App) /\ RGoto("stopping")

\* StopModules enters, or is a no-op of a manager that stops or has stopped.
CallStop ==
  /\ rpc = "pre" /\ pre = NPre
  /\ \/ StopModules(App) /\ RGoto("stopping")
     \/ state \in {"stopping", "stopped"} /\ RGoto("post") /\ UNCHANGED vars

PostStop ==
  /\ rpc = "post" /\ post < NPost /\ post' = post + 1 /\ Hook("post")
  /\ UNCHANGED <<list, sig, late, pre, unwinding, meddled, vars>>

Return ==
  /\ rpc = "post" /\ post = NPost
  /\ RGoto(IF unwinding THEN "panicked" ELSE "returned") /\ UNCHANGED vars

Run ==
  \/ Setup \/ Register \/ CallInit \/ CallStart \/ ContextSeen \/ InManager
  \/ Wait \/ PreStop \/ CallStop \/ PostStop \/ Return

-----------------------------------------------------------------------------
\* The signal, or the end of the context Run was given.
Signal ==
  /\ ~sig /\ rpc \notin Over /\ sig' = TRUE
  /\ UNCHANGED <<rpc, list, late, pre, post, errs, unwinding, meddled, vars>>

TimesOut ==
  /\ rpc \in Stopping /\ ~late /\ late' = TRUE
  /\ UNCHANGED <<rpc, list, sig, pre, post, errs, unwinding, meddled, vars>>

Others ==
  \/ \E c \in Caller \ {App} :
       StopModules(c) /\ meddled' = TRUE /\ UNCHANGED <<rpc, list, sig, late, pre, post, errs, unwinding>>
  \/ \E c \in Caller \ {App} : (CtxDone(c) \/ CallerStep(c)) /\ UNCHANGED runVars
  \/ \E t \in Task : (Go(t) \/ TaskReturns(t)) /\ UNCHANGED runVars

RunNext ==
  \/ rpc \notin {"absent"} /\ (Run \/ Signal \/ TimesOut \/ Others)
  \/ rpc = "absent" /\ Next /\ UNCHANGED runVars

RunSpec == RunInit /\ [][RunNext]_<<vars, runVars>>

-----------------------------------------------------------------------------
(***************************************************************************)
(* Properties.                                                              *)
(***************************************************************************)
\* However Run ends other than by a panic in a stop hook, every hook ran and the
\* manager has stopped, or is being stopped by the goroutine that was first: no
\* way out of Run leaves a manager that still takes tasks.
RunStopsManager ==
  rpc = "returned" =>
    pre = NPre /\ post = NPost /\ state \in {"stopping", "stopped"}

\* When Run returns nil and nobody else stopped the manager, no supervised task
\* is left, every module that was initialised has been stopped, and the event bus
\* is closed.
NilMeansClean ==
  rpc = "returned" /\ errs = {} /\ ~meddled =>
    /\ tasks = {} /\ busClosed = 1
    /\ \A m \in Stopper : inited[m] = "ok" => stops[m] = 1

\* Both: what Run has done, and what its result says, when it returns.
RunOutcome == RunTypeOK /\ RunStopsManager /\ NilMeansClean

\* Run ends once it is signalled or its start has failed, provided that hooks and
\* modules return and tasks honour cancellation, also when another goroutine
\* stops the manager under it.
RunEnds == (rpc # "absent" /\ (sig \/ errs # {})) ~> rpc \in {"absent"} \cup Over

\* Every lifecycle call returns and Run ends, given that tasks honour cancellation.
PhasesEnd == PhaseReturns /\ RunEnds
===============================================================================
