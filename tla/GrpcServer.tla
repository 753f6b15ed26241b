------------------------------- MODULE GrpcServer -------------------------------
(***************************************************************************)
(* grpc.Server (grpc/server.go): a listener and a *grpc.Server under Start  *)
(* and Stop, called by any goroutines, with RPCs in flight.                 *)
(*                                                                         *)
(* The library's server is modelled from how it is used: Serve after a stop *)
(* closes its listener and returns ErrServerStopped; GracefulStop closes    *)
(* the listener, lets RPCs end and returns when none is left; Stop cancels  *)
(* the RPCs' contexts; Serve returns once the stop it saw has completed.    *)
(***************************************************************************)
EXTENDS Naturals, FiniteSets

CONSTANTS
  StartCall, StopCall,  \* concurrent and repeated calls
  Rpc                   \* RPCs that clients make

VARIABLES
  started, stopRequested,  \* Server.started, stopRequested
  listening,  \* the listener is open
  serve,      \* the goroutine of Start: "none", "launched", "serving", "exited", "done"
  serveErr,   \* Server.serveErr
  once,       \* stopOnce: "fresh", "graceful", "forced", "drained", "over"
  stopErr,    \* Server.stopErr: "none", "forced" or "serve"
  quit,       \* the library's server has been told to stop
  rpcs,       \* per RPC: "idle", "active", "done", "aborted"
  starts,     \* per Start call: "idle", "ok", "error"
  stops       \* per Stop call: "idle", "once", or what it returned

grpcVars == <<started, stopRequested, listening, serve, serveErr, once, stopErr, quit, rpcs,
              starts, stops>>

Active == {r \in Rpc : rpcs[r] = "active"}

GrpcTypeOK ==
  /\ {started, stopRequested, listening, serveErr, quit} \subseteq BOOLEAN
  /\ serve \in {"none", "launched", "serving", "exited", "done"}
  /\ (serve = "none") = ~started
  /\ once \in {"fresh", "graceful", "forced", "drained", "over"}
  /\ stopErr \in {"none", "forced", "serve"}
  /\ rpcs \in [Rpc -> {"idle", "active", "done", "aborted"}]
  /\ starts \in [StartCall -> {"idle", "ok", "error"}]
  /\ stops \in [StopCall -> {"idle", "once", "none", "forced", "serve"}]
  /\ serve = "serving" /\ ~quit => listening
  /\ Cardinality({c \in StartCall : starts[c] = "ok"}) <= 1

Init ==
  /\ started = FALSE /\ stopRequested = FALSE /\ listening = TRUE /\ serve = "none"
  /\ serveErr = FALSE /\ once = "fresh" /\ stopErr = "none" /\ quit = FALSE
  /\ rpcs = [r \in Rpc |-> "idle"]
  /\ starts = [c \in StartCall |-> "idle"] /\ stops = [c \in StopCall |-> "idle"]

-----------------------------------------------------------------------------
Start(c) ==
  /\ starts[c] = "idle"
  /\ \/ /\ ~started /\ ~stopRequested
        /\ started' = TRUE /\ serve' = "launched" /\ starts' = [starts EXCEPT ![c] = "ok"]
     \/ /\ started \/ stopRequested
        /\ starts' = [starts EXCEPT ![c] = "error"] /\ UNCHANGED <<started, serve>>
  /\ UNCHANGED <<stopRequested, listening, serveErr, once, stopErr, quit, rpcs, stops>>

\* The goroutine of Start enters Serve, which a stop may have overtaken.
ServeBegins ==
  /\ serve = "launched"
  /\ \/ ~quit /\ serve' = "serving" /\ UNCHANGED listening
     \/ quit /\ serve' = "exited" /\ listening' = FALSE
  /\ UNCHANGED <<started, stopRequested, serveErr, once, stopErr, quit, rpcs, starts, stops>>

Call(r) ==
  /\ serve = "serving" /\ listening /\ rpcs[r] = "idle"
  /\ rpcs' = [rpcs EXCEPT ![r] = "active"]
  /\ UNCHANGED <<started, stopRequested, listening, serve, serveErr, once, stopErr, quit, starts, stops>>

RpcEnds(r) ==
  /\ rpcs[r] = "active" /\ rpcs' = [rpcs EXCEPT ![r] = "done"]
  /\ UNCHANGED <<started, stopRequested, listening, serve, serveErr, once, stopErr, quit, starts, stops>>

\* A handler returns because its context was cancelled.
RpcAborts(r) ==
  /\ once = "forced" /\ rpcs[r] = "active" /\ rpcs' = [rpcs EXCEPT ![r] = "aborted"]
  /\ UNCHANGED <<started, stopRequested, listening, serve, serveErr, once, stopErr, quit, starts, stops>>

\* Accept fails, also while nobody stops the server.
ServeFails ==
  /\ serve = "serving" /\ listening
  /\ serve' = "exited" /\ serveErr' = TRUE /\ listening' = FALSE
  /\ UNCHANGED <<started, stopRequested, once, stopErr, quit, rpcs, starts, stops>>

\* Serve returns ErrServerStopped once the stop has completed.
ServeReturns ==
  /\ serve = "serving" /\ quit /\ once = "drained"
  /\ serve' = "exited"
  /\ UNCHANGED <<started, stopRequested, listening, serveErr, once, stopErr, quit, rpcs, starts, stops>>

\* close(s.done).
ServeDone ==
  /\ serve = "exited" /\ serve' = "done"
  /\ UNCHANGED <<started, stopRequested, listening, serveErr, once, stopErr, quit, rpcs, starts, stops>>

-----------------------------------------------------------------------------
Stop(c) ==
  /\ stops[c] = "idle" /\ stopRequested' = TRUE
  /\ \/ ~started /\ listening' = FALSE /\ stops' = [stops EXCEPT ![c] = "none"]
     \/ started /\ stops' = [stops EXCEPT ![c] = "once"] /\ UNCHANGED listening
  /\ UNCHANGED <<started, serve, serveErr, once, stopErr, quit, rpcs, starts>>

\* The first caller in stopOnce.Do: GracefulStop in a goroutine.
GracefulStop ==
  /\ once = "fresh" /\ \E c \in StopCall : stops[c] = "once"
  /\ once' = "graceful" /\ quit' = TRUE /\ listening' = (listening /\ serve = "launched")
  /\ UNCHANGED <<started, stopRequested, serve, serveErr, stopErr, rpcs, starts, stops>>

GracefulDone ==
  /\ once \in {"graceful", "forced"} /\ Active = {}
  /\ once' = "drained" /\ stopErr' = IF once = "forced" THEN "forced" ELSE "none"
  /\ UNCHANGED <<started, stopRequested, listening, serve, serveErr, quit, rpcs, starts, stops>>

\* The shutdown timeout or the caller's context ends first; Stop aborts the RPCs.
Forced ==
  /\ once = "graceful" /\ once' = "forced"
  /\ UNCHANGED <<started, stopRequested, listening, serve, serveErr, stopErr, quit, rpcs, starts, stops>>

\* Mutant: stop does not wait for the Serve goroutine.
StopOverEarly ==
  /\ once = "drained" /\ once' = "over"
  /\ stopErr' = IF stopErr = "none" /\ serveErr THEN "serve" ELSE stopErr
  /\ UNCHANGED <<started, stopRequested, listening, serve, serveErr, quit, rpcs, starts, stops>>

\* <-s.done, and what stop returns.
StopOver ==
  /\ once = "drained" /\ serve = "done" /\ once' = "over"
  /\ stopErr' = IF stopErr = "none" /\ serveErr THEN "serve" ELSE stopErr
  /\ UNCHANGED <<started, stopRequested, listening, serve, serveErr, quit, rpcs, starts, stops>>

\* Every call that went through Do gets the result of the first.
StopReturns(c) ==
  /\ stops[c] = "once" /\ once = "over" /\ stops' = [stops EXCEPT ![c] = stopErr]
  /\ UNCHANGED <<started, stopRequested, listening, serve, serveErr, once, stopErr, quit, rpcs, starts>>

Serving == ServeBegins \/ ServeReturns \/ ServeDone

Shutdown ==
  GracefulStop \/ GracefulDone \/ Forced \/ StopOver \/ \E c \in StopCall : StopReturns(c)

Next ==
  \/ Serving \/ Shutdown \/ ServeFails
  \/ \E c \in StartCall : Start(c)
  \/ \E c \in StopCall : Stop(c)
  \/ \E r \in Rpc : Call(r) \/ RpcEnds(r) \/ RpcAborts(r)

Spec == Init /\ [][Next]_grpcVars

-----------------------------------------------------------------------------
Returned(c) == stops[c] \in {"none", "forced", "serve"}

\* "A caller can rely on the listener being closed and all resources released once
\* Stop returns": also for Stop calls that race Start or one another the listener
\* is closed, no RPC runs, and the Serve goroutine has ended or was never started.
GrpcStopSettles ==
  \A c \in StopCall : Returned(c) =>
    ~listening /\ Active = {} /\ serve \in {"none", "done"}

\* "Calling it more than once returns the result of the first call": no two Stop
\* calls return different results.
GrpcStopAgrees ==
  \A c, d \in StopCall : Returned(c) /\ Returned(d) => stops[c] = stops[d]

\* A Stop that returns nil aborted no RPC and hides no error of Serve.
GrpcNilIsGraceful ==
  \A c \in StopCall : stops[c] = "none" =>
    ~serveErr /\ \A r \in Rpc : rpcs[r] # "aborted"

\* "A caller can rely on the listener being closed and all resources released once
\* Stop returns", also for Stop calls that race Start or one another; all of them
\* return the same, and nil only when no RPC was aborted and Serve did not fail.
GrpcSound == GrpcTypeOK /\ GrpcStopSettles /\ GrpcStopAgrees /\ GrpcNilIsGraceful

\* Every Stop returns when handlers honour the cancellation that the forced stop
\* brings, whatever they do before.
GrpcStopEnds == \A c \in StopCall : stops[c] = "once" ~> Returned(c)
===============================================================================
