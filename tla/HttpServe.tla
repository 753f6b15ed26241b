-------------------------------- MODULE HttpServe --------------------------------
(***************************************************************************)
(* httpx.Serve (httpx/httpx.go): an HTTP server that runs as a supervised   *)
(* task.                                                                    *)
(*                                                                         *)
(* http.Server is modelled from how it is used: Serve closes its listener   *)
(* when it returns; after Shutdown has begun, or after some other code has  *)
(* called Close, it returns ErrServerClosed, also when it had not been      *)
(* entered yet; Shutdown waits for the requests until its context ends.     *)
(***************************************************************************)
EXTENDS Naturals, Sequences, FiniteSets

CONSTANT Request

VARIABLES
  call,      \* Serve: "listen", "spawn", "ok" or "error"
  callerCtx, \* the context passed to Serve is done
  bound,     \* the listener is open
  serving,   \* the goroutine of server.Serve: "none", "launched", "serving", "returned"
  errCh,     \* serveErrCh: what server.Serve returned
  task,      \* the task: "none", "begin", "select", "shutdown", "await", "returned"
  taskCtx,   \* the task's context is done
  closed,    \* the server shuts down: "no", "byTask", "byOther"
  shutErr,   \* Shutdown's context ended first
  result,    \* what the task returned: "none", "nil", "exited", "shutdown"
  requests,  \* per request: "idle", "active", "done"
  failed     \* history: Accept has failed

httpVars == <<call, callerCtx, bound, serving, errCh, task, taskCtx, closed, shutErr, result,
              requests, failed>>

Active == {r \in Request : requests[r] = "active"}

HttpTypeOK ==
  /\ call \in {"listen", "spawn", "ok", "error"}
  /\ {callerCtx, bound, taskCtx, shutErr, failed} \subseteq BOOLEAN
  /\ serving \in {"none", "launched", "serving", "returned"}
  /\ errCh \in {<<>>, <<"closed">>, <<"error">>}
  /\ task \in {"none", "begin", "select", "shutdown", "await", "returned"}
  /\ closed \in {"no", "byTask", "byOther"}
  /\ result \in {"none", "nil", "exited", "shutdown"} /\ (result # "none") = (task = "returned")
  /\ requests \in [Request -> {"idle", "active", "done"}]
  /\ serving = "serving" /\ closed = "no" => bound
  /\ errCh # <<>> => serving = "returned"

Init ==
  /\ call = "listen" /\ callerCtx = FALSE /\ bound = FALSE /\ serving = "none" /\ errCh = <<>>
  /\ task = "none" /\ taskCtx = FALSE /\ closed = "no" /\ shutErr = FALSE
  /\ result = "none" /\ requests = [r \in Request |-> "idle"] /\ failed = FALSE

-----------------------------------------------------------------------------
Listen ==
  /\ call = "listen"
  /\ \/ call' = "spawn" /\ bound' = TRUE
     \/ call' = "error" /\ UNCHANGED bound
  /\ UNCHANGED <<callerCtx, serving, errCh, task, taskCtx, closed, shutErr, result, requests, failed>>

\* Mutant: the listener outlives a refused task.
SpawnLeaks ==
  /\ call = "spawn"
  /\ \/ call' = "ok" /\ task' = "begin"
     \/ call' = "error" /\ UNCHANGED task
  /\ UNCHANGED <<callerCtx, bound, serving, errCh, taskCtx, closed, shutErr, result, requests, failed>>

\* spawner.Go takes the task, or refuses it and the listener is closed.
Spawn ==
  /\ call = "spawn"
  /\ \/ call' = "ok" /\ task' = "begin" /\ UNCHANGED bound
     \/ call' = "error" /\ bound' = FALSE /\ UNCHANGED task
  /\ UNCHANGED <<callerCtx, serving, errCh, taskCtx, closed, shutErr, result, requests, failed>>

\* The context of the caller, and the one of the task, end.
CallerDone ==
  /\ ~callerCtx /\ callerCtx' = TRUE
  /\ UNCHANGED <<call, bound, serving, errCh, task, taskCtx, closed, shutErr, result, requests, failed>>

Cancel ==
  /\ task # "none" /\ ~taskCtx /\ taskCtx' = TRUE
  /\ UNCHANGED <<call, callerCtx, bound, serving, errCh, task, closed, shutErr, result, requests, failed>>

-----------------------------------------------------------------------------
(***************************************************************************)
(* http.Server.                                                             *)
(***************************************************************************)
ServeBegins ==
  /\ serving = "launched"
  /\ \/ closed = "no" /\ serving' = "serving" /\ UNCHANGED <<bound, errCh>>
     \/ closed # "no" /\ serving' = "returned" /\ bound' = FALSE /\ errCh' = <<"closed">>
  /\ UNCHANGED <<call, callerCtx, task, taskCtx, closed, shutErr, result, requests, failed>>

Accept(r) ==
  /\ serving = "serving" /\ bound /\ requests[r] = "idle"
  /\ requests' = [requests EXCEPT ![r] = "active"]
  /\ UNCHANGED <<call, callerCtx, bound, serving, errCh, task, taskCtx, closed, shutErr, result, failed>>

RequestEnds(r) ==
  /\ requests[r] = "active" /\ requests' = [requests EXCEPT ![r] = "done"]
  /\ UNCHANGED <<call, callerCtx, bound, serving, errCh, task, taskCtx, closed, shutErr, result, failed>>

AcceptFails ==
  /\ serving = "serving" /\ closed = "no" /\ failed' = TRUE
  /\ serving' = "returned" /\ bound' = FALSE /\ errCh' = <<"error">>
  /\ UNCHANGED <<call, callerCtx, task, taskCtx, closed, shutErr, result, requests>>

ServeReturns ==
  /\ serving = "serving" /\ closed # "no"
  /\ serving' = "returned" /\ bound' = FALSE /\ errCh' = <<"closed">>
  /\ UNCHANGED <<call, callerCtx, task, taskCtx, closed, shutErr, result, requests, failed>>

\* Code that holds the server calls its Close, which drops the requests.
OtherCloses ==
  /\ call = "ok" /\ closed = "no" /\ closed' = "byOther"
  /\ requests' = [r \in Request |-> IF requests[r] = "active" THEN "done" ELSE requests[r]]
  /\ bound' = (bound /\ serving # "serving")
  /\ UNCHANGED <<call, callerCtx, serving, errCh, task, taskCtx, shutErr, result, failed>>

-----------------------------------------------------------------------------
(***************************************************************************)
(* The task.                                                                *)
(***************************************************************************)
TaskBegins ==
  /\ task = "begin" /\ task' = "select" /\ serving' = "launched"
  /\ UNCHANGED <<call, callerCtx, bound, errCh, taskCtx, closed, shutErr, result, requests, failed>>

ServeResult == IF errCh = <<"error">> THEN "exited" ELSE "nil"

SelectServeErr ==
  /\ task = "select" /\ errCh # <<>>
  /\ result' = ServeResult /\ errCh' = <<>> /\ task' = "returned"
  /\ UNCHANGED <<call, callerCtx, bound, serving, taskCtx, closed, shutErr, requests, failed>>

ShutsDown == taskCtx

\* The other case of the select: Shutdown closes the listener that Serve has
\* taken over, and marks the server.
SelectDone ==
  /\ task = "select" /\ ShutsDown /\ task' = "shutdown"
  /\ closed' = IF closed = "no" THEN "byTask" ELSE closed
  /\ bound' = (bound /\ serving # "serving")
  /\ UNCHANGED <<call, callerCtx, serving, errCh, taskCtx, shutErr, result, requests, failed>>

\* Mutant: Shutdown waits for the requests without a timeout.
ShutdownWaits ==
  /\ task = "shutdown" /\ task' = "await" /\ Active = {} /\ shutErr' = FALSE
  /\ UNCHANGED <<call, callerCtx, bound, serving, errCh, taskCtx, closed, result, requests, failed>>

\* Shutdown returns: no request is left, or its context has timed out.
ShutdownReturns ==
  /\ task = "shutdown" /\ task' = "await"
  /\ \/ Active = {} /\ shutErr' = FALSE
     \/ Active # {} /\ shutErr' = TRUE
  /\ UNCHANGED <<call, callerCtx, bound, serving, errCh, taskCtx, closed, result, requests, failed>>

\* <-serveErrCh; its error comes before the one of Shutdown.
AwaitServe ==
  /\ task = "await" /\ errCh # <<>> /\ errCh' = <<>> /\ task' = "returned"
  /\ result' = IF errCh = <<"error">> THEN "exited" ELSE IF shutErr THEN "shutdown" ELSE "nil"
  /\ UNCHANGED <<call, callerCtx, bound, serving, taskCtx, closed, shutErr, requests, failed>>

Task == TaskBegins \/ SelectServeErr \/ SelectDone \/ ShutdownReturns \/ AwaitServe
Server == ServeBegins \/ ServeReturns

Next ==
  \/ Listen \/ Spawn \/ CallerDone \/ Cancel \/ Task \/ Server \/ AcceptFails \/ OtherCloses
  \/ \E r \in Request : Accept(r) \/ RequestEnds(r)

Spec == Init /\ [][Next]_httpVars

-----------------------------------------------------------------------------
\* The socket never leaks: once Serve has failed or its task has returned, on
\* whichever path, the listener is closed and the goroutine of server.Serve ended.
HttpReleases ==
  call = "error" \/ task = "returned" => ~bound /\ serving \in {"none", "returned"}

\* A task that was cancelled and returns nil let every request finish.
HttpNilIsGraceful == result = "nil" => Active = {}

\* A failure of Accept is what the task reports, also when it is cancelled or
\* shut down at the same moment.
HttpReportsServe == failed /\ task = "returned" => result = "exited"

\* The server is shut down by its task's cancellation only, never because the
\* context passed to Serve, a start-up timeout, has ended.
HttpOutlivesCaller == closed = "byTask" => taskCtx

\* However httpx.Serve or its task end, the listener is closed and no goroutine is
\* left; the task reports a failed Accept before anything else, returns nil only when
\* the requests were done, and is shut down by its own context alone.
HttpSound ==
  HttpTypeOK /\ HttpReleases /\ HttpReportsServe /\ HttpNilIsGraceful /\ HttpOutlivesCaller

\* A cancelled task returns, whatever requests hang.
HttpStops == (task # "none" /\ taskCtx) ~> task = "returned"
===============================================================================
