-------------------------------- MODULE Servers --------------------------------
(***************************************************************************)
(* What an application is reached by: the gRPC server, the HTTP server and  *)
(* the health checks that both of them answer from, each with state of its  *)
(* own.                                                                     *)
(***************************************************************************)
CONSTANTS StartCall, StopCall, Rpc, Request, Check, MaxFlips

VARIABLES
  started, stopRequested, listening, serve, serveErr, once, stopErr, quit, rpcs, starts, stops,
  call, callerCtx, bound, serving, errCh, task, taskCtx, httpClosed, shutErr, httpResult, requests,
  acceptFailed,
  api, known, truth, healthPc, pend, results, healthy, seen, sent, flips

grpcVars == <<started, stopRequested, listening, serve, serveErr, once, stopErr, quit, rpcs, starts,
              stops>>
httpVars == <<call, callerCtx, bound, serving, errCh, task, taskCtx, httpClosed, shutErr, httpResult,
              requests, acceptFailed>>
healthVars == <<api, known, truth, healthPc, pend, results, healthy, seen, sent, flips>>

G == INSTANCE GrpcServer
H == INSTANCE HttpServe WITH closed <- httpClosed, result <- httpResult, failed <- acceptFailed
C == INSTANCE HealthChecks WITH pc <- healthPc

(***************************************************************************)
(* Properties, with the types of each part.                                 *)
(***************************************************************************)
\* "A caller can rely on the listener being closed and all resources released once
\* Stop returns", also for Stop calls that race Start or one another; all of them
\* return the same, and nil only when no RPC was aborted and Serve did not fail.
GrpcSound == G!GrpcSound

\* However httpx.Serve or its task end, the listener is closed and no goroutine is
\* left; the task reports a failed Accept before anything else, returns nil only when
\* the requests were done, and is shut down by its own context alone.
HttpSound == H!HttpSound

\* Every verdict on health is that of all the checks, in whatever order their
\* goroutines end and however they fail, and Watch sends its client each change of it
\* once.
HealthSound == C!HealthSound
===============================================================================
